--------------------------- MODULE SendRateProofs ---------------------------
(***************************************************************************)
(* Proofs about SendRate, for every pair of rates, any length of the second *)
(* and any calls of tick, with a clock that may be set back.                *)
(***************************************************************************)
EXTENDS SendRate, TLAPS

-----------------------------------------------------------------------------
(* Intervals.                                                                *)

\* What Carried keeps is less than an interval; at least one is forfeit, and
\* exactly one if less than two have elapsed.
LEMMA WholeIntervals ==
    ASSUME NEW e \in Int, NEW interval \in Nat \ {0}, e >= interval
    PROVE  /\ e % interval \in 0 .. interval - 1
           /\ e - (e % interval) >= interval
           /\ e < interval + interval => e - (e % interval) = interval
  <1> DEFINE q == e \div interval
             r == e % interval
  <1>1. q \in Int /\ r \in 0 .. interval - 1 /\ e = interval * q + r
    OBVIOUS
  <1> HIDE DEF q, r
  <1>2. q >= 1
    <2>1. q <= 0 => interval * q <= 0
      BY ONLY <1>1, interval \in Nat \ {0}
    <2> QED BY ONLY <2>1, <1>1, e >= interval, interval \in Nat \ {0}
  <1>3. interval * q >= interval
    BY ONLY <1>1, <1>2, interval \in Nat \ {0}
  <1>4. q >= 2 => interval * q >= interval + interval
    BY ONLY <1>1, interval \in Nat \ {0}
  <1>5. q = 1 => interval * q = interval
    BY ONLY interval \in Nat \ {0}
  <1>6. q = 1 \/ q >= 2
    BY ONLY <1>1, <1>2
  <1>7. interval * q \in Int
    BY ONLY <1>1, interval \in Nat \ {0}
  <1> DEFINE whole == interval * q
  <1>8. whole \in Int /\ whole >= interval /\ e = whole + r /\ r \in 0 .. interval - 1
        /\ (whole = interval \/ whole >= interval + interval)
    BY ONLY <1>1, <1>3, <1>4, <1>5, <1>6, <1>7
  <1> HIDE DEF whole
  <1>9. e - r >= interval /\ (e < interval + interval => e - r = interval)
    BY ONLY <1>8, interval \in Nat \ {0}, e \in Int
  <1> QED BY <1>8, <1>9 DEF r

\* The interval of a limit is not zero, and that of a larger rate is not longer.
LEMMA DivisionBounds ==
    ASSUME NEW a \in Nat \ {0}, NEW b \in 1 .. a
    PROVE  /\ a \div b \in 1 .. a
           /\ a < b * (a \div b) + b
           /\ b * (a \div b) <= a
  <1> DEFINE q == a \div b
             r == a % b
  <1>1. q \in Int /\ r \in 0 .. b - 1 /\ a = b * q + r
    OBVIOUS
  <1> HIDE DEF q, r
  <1>2. b \in Nat \ {0} /\ b <= a
    OBVIOUS
  <1>3. q >= 1
    <2>1. q <= 0 => b * q <= 0
      BY ONLY <1>1, <1>2
    <2> QED BY ONLY <2>1, <1>1, <1>2
  <1>4. q <= b * q
    BY ONLY <1>1, <1>2, <1>3
  <1>5. b * q \in Int
    BY ONLY <1>1, <1>2
  <1>6. b * q <= a /\ a < b * q + b
    BY ONLY <1>1, <1>2, <1>5
  <1>7. q \in 1 .. a
    BY ONLY <1>1, <1>3, <1>4, <1>5, <1>6
  <1> QED BY <1>6, <1>7 DEF q

LEMMA DivisionMonotone ==
    ASSUME NEW a \in Nat \ {0}, NEW b \in 1 .. a, NEW c \in 1 .. a, b <= c
    PROVE  a \div c <= a \div b
  <1> DEFINE q == a \div b
             p == a \div c
  <1>1. q \in 1 .. a /\ a < b * q + b
    BY DivisionBounds
  <1>2. p \in 1 .. a /\ c * p <= a
    BY DivisionBounds
  <1> HIDE DEF q, p
  <1> SUFFICES ASSUME p >= q + 1 PROVE FALSE
    BY <1>1, <1>2 DEF q, p
  <1>3. /\ p \in Nat /\ q \in Nat /\ b \in Nat /\ c \in Nat
        /\ b * p \in Int /\ c * p \in Int /\ b * q \in Int
    BY <1>1, <1>2
  <1>4. b * p <= c * p
    BY ONLY <1>3, b <= c
  <1>5. b * q + b <= b * p
    <2>1. b * (q + 1) = b * q + b
      BY ONLY <1>3
    <2>2. b * (q + 1) <= b * p
      BY ONLY <1>3, p >= q + 1
    <2> QED BY ONLY <2>1, <2>2
  <1> QED BY ONLY <1>1, <1>2, <1>3, <1>4, <1>5, a \in Nat \ {0}

LEMMA OneMore ==
    ASSUME NEW a \in Int, NEW b \in Int
    PROVE  (a + 1) * b = a * b + b /\ a * b \in Int
  OBVIOUS

\* The interval that both hosts agreed on, if there is a limit.
Interval == IntervalOf(AgreedRate(self_max_send_packet_rate, peer_max_read_packet_rate))

LEMMA IntervalProperties ==
    ASSUME self_max_send_packet_rate \in Rates, peer_max_read_packet_rate \in Rates
    PROVE  /\ Limits = {} => Interval = NoInterval
           /\ Limits # {} =>
                /\ Interval \in 1 .. Second
                /\ \E slowest \in Limits : Interval = Second \div slowest
                /\ \A rate \in Limits : Second \div rate \in 1 .. Interval
  <1> DEFINE agreed == AgreedRate(self_max_send_packet_rate, peer_max_read_packet_rate)
  <1>1. self_max_send_packet_rate \in 0 .. Second /\ peer_max_read_packet_rate \in 0 .. Second
        /\ Second \in Nat \ {0}
    BY SendRateConstants
  <1>2. CASE Limits = {}
    <2>1. agreed = 0
      BY <1>2 DEF Limits, AgreedRate
    <2> QED BY <1>2, <2>1 DEF Interval, IntervalOf
  <1>3. CASE Limits # {}
    <2>1. /\ agreed \in Limits /\ agreed \in Rates /\ agreed \in Nat \ {0}
          /\ agreed \in 1 .. Second
          /\ \A rate \in Limits : rate \in Nat /\ agreed <= rate
      BY <1>1, <1>3 DEF Limits, AgreedRate
    <2>2. Interval = Second \div agreed
      BY <2>1 DEF Interval, IntervalOf
    <2> HIDE DEF agreed
    <2>3. Interval \in 1 .. Second
      BY ONLY <2>1, <2>2, <1>1, DivisionBounds
    <2>4. ASSUME NEW rate \in Limits PROVE Second \div rate \in 1 .. Interval
      <3>1. rate \in 1 .. Second
        BY <1>1 DEF Limits
      <3>2. Second \div rate \in 1 .. Second
        BY ONLY <3>1, <1>1, DivisionBounds
      <3>3. Second \div rate <= Interval
        BY ONLY <3>1, <2>1, <2>2, <1>1, DivisionMonotone
      <3> QED BY ONLY <3>2, <3>3, <2>3, <1>1
    <2> QED BY <1>3, <2>1, <2>2, <2>3, <2>4
  <1> QED BY <1>2, <1>3

-----------------------------------------------------------------------------
(* Type correctness and the interval: it is that of the limits of both hosts  *)
(* from the peer's LetsConnect on.                                           *)

TickerState == [m_last_known_now : 0 .. MaxTime,
                m_tick_interval : {NoInterval} \cup 1 .. Second,
                m_time_since_last_tick : Int]

IntervalInv ==
    LET t == send_packet_ticker IN
    /\ t.m_tick_interval = IF is_peer_connected THEN Interval ELSE NoInterval
    /\ IF t.m_tick_interval = NoInterval THEN t.m_time_since_last_tick = 0
       ELSE t.m_time_since_last_tick < t.m_tick_interval

LEMMA TickerType ==
    ASSUME TypeOK
    PROVE  LET t == send_packet_ticker IN
           /\ t = [m_last_known_now |-> t.m_last_known_now,
                   m_tick_interval |-> t.m_tick_interval,
                   m_time_since_last_tick |-> t.m_time_since_last_tick]
           /\ t.m_last_known_now \in 0 .. MaxTime /\ t.m_last_known_now \in Int
           /\ t.m_tick_interval \in {NoInterval} \cup 1 .. Second
           /\ t.m_time_since_last_tick \in Int
           /\ now \in 0 .. MaxTime /\ now \in Int
           /\ self_max_send_packet_rate \in Rates /\ peer_max_read_packet_rate \in Rates
           /\ Second \in Nat \ {0} /\ MaxTime \in Nat
           /\ NoInterval \notin 1 .. Second
  BY SendRateConstants DEF TypeOK, NoInterval

\* What tick leaves in the ticker.
LEMMA TickedProperties ==
    ASSUME TypeOK, NEW ticked, ticked = Ticked(send_packet_ticker, now)
    PROVE  /\ ticked \in TickerState
           /\ ticked.m_last_known_now = now
           /\ ticked.m_tick_interval = send_packet_ticker.m_tick_interval
           /\ send_packet_ticker.m_tick_interval = NoInterval =>
                ticked.m_time_since_last_tick = 0
           /\ send_packet_ticker.m_tick_interval # NoInterval =>
                ticked.m_time_since_last_tick =
                    IF Ticks(send_packet_ticker, now) THEN Carried(send_packet_ticker, now)
                    ELSE TimeSinceLastTick(send_packet_ticker, now)
  <1> DEFINE t == send_packet_ticker
             kept == IF t.m_tick_interval = NoInterval THEN 0
                     ELSE IF Ticks(t, now) THEN Carried(t, now)
                     ELSE TimeSinceLastTick(t, now)
  <1>1. ticked = [m_last_known_now |-> now, m_tick_interval |-> t.m_tick_interval,
                  m_time_since_last_tick |-> kept]
    BY TickerType DEF Ticked
  <1>2. kept \in Int
    <2>1. TimeSinceLastTick(t, now) \in Int
      BY TickerType DEF TimeSinceLastTick
    <2>2. CASE t.m_tick_interval = NoInterval
      BY <2>2
    <2>3. CASE t.m_tick_interval # NoInterval
      <3>1. t.m_tick_interval \in Nat \ {0}
        BY <2>3, TickerType
      <3>2. Carried(t, now) \in Int
        BY ONLY <3>1, <2>1 DEF Carried
      <3> QED BY <3>2, <2>1, <2>3
    <2> QED BY <2>2, <2>3
  <1> HIDE DEF kept
  <1>3. ticked \in TickerState
    BY <1>1, <1>2, TickerType DEF TickerState
  <1> QED BY <1>1, <1>3 DEF kept

LEMMA IntervalInvStep ==
    ASSUME TypeOK, IntervalInv, [Next]_vars
    PROVE  TypeOK' /\ IntervalInv'
  <1>1. /\ UNCHANGED <<self_max_send_packet_rate, peer_max_read_packet_rate>>
        /\ Interval' = Interval
    <2>1. UNCHANGED <<self_max_send_packet_rate, peer_max_read_packet_rate>>
      BY DEF Next, Read, ReadNothing, Write, vars
    <2> QED BY <2>1 DEF Interval
  <1>2. Interval \in {NoInterval} \cup 1 .. Second
    BY TickerType, IntervalProperties
  <1>3. ASSUME NEW acks_ours \in BOOLEAN, NEW carries \in BOOLEAN, Read(acks_ours, carries)
        PROVE  TypeOK' /\ IntervalInv'
    <2> DEFINE t == send_packet_ticker
    <2>1. /\ m_self_is_connected' \in BOOLEAN /\ is_peer_connected' \in BOOLEAN
          /\ is_peer_connected => is_peer_connected'
      <3>1. is_peer_connected \in BOOLEAN /\ m_self_is_connected \in BOOLEAN
        BY DEF TypeOK
      <3> QED BY <3>1, <1>3, Zenon DEF Read
    <2>2. /\ UNCHANGED <<now, sends, held>> /\ stage' = "write"
      BY <1>3 DEF Read
    <2>3. CASE is_peer_connected'
      <3>1. t' = [m_last_known_now |-> t.m_last_known_now, m_tick_interval |-> Interval,
                  m_time_since_last_tick |-> t.m_time_since_last_tick]
        BY <2>3, <1>3, TickerType DEF Read, WithInterval, Interval
      <3>2. t' \in TickerState
        BY <3>1, <1>2, TickerType DEF TickerState
      <3>3. IntervalInv'
        <4>1. CASE is_peer_connected
          BY <4>1, <3>1, <2>3, <1>1 DEF IntervalInv
        <4>2. CASE ~is_peer_connected
          <5>1. t.m_time_since_last_tick = 0
            BY <4>2 DEF IntervalInv
          <5>2. Interval # NoInterval => 0 < Interval
            BY <1>2, SendRateConstants
          <5> QED BY <5>1, <5>2, <3>1, <2>3, <1>1 DEF IntervalInv
        <4> QED BY <4>1, <4>2
      <3> QED BY <3>2, <3>3, <2>1, <2>2, <1>1 DEF TypeOK, TickerState
    <2>4. CASE ~is_peer_connected'
      <3>1. t' = t /\ ~is_peer_connected
        BY <2>1, <2>4, <1>3 DEF Read
      <3>2. IntervalInv'
        BY <3>1, <2>4, <1>1 DEF IntervalInv
      <3> QED BY <3>1, <3>2, <2>1, <2>2, <1>1 DEF TypeOK
    <2> QED BY <2>3, <2>4
  <1>4. CASE ReadNothing
    <2>1. IntervalInv'
      BY <1>1, <1>4 DEF ReadNothing, IntervalInv
    <2> QED BY <2>1, <1>4 DEF ReadNothing, TypeOK
  <1>5. ASSUME NEW jump \in Jumps, Write(jump) PROVE TypeOK' /\ IntervalInv'
    <2> DEFINE t == send_packet_ticker
    <2>1. /\ t' = Ticked(t, now) /\ now' \in 0 .. MaxTime /\ stage' = "read"
          /\ held' \in BOOLEAN /\ (sends' = sends \/ sends' = Append(sends, now))
          /\ UNCHANGED <<is_peer_connected, m_self_is_connected>>
      BY <1>5 DEF Write
    <2>2. sends' \in Seq(0 .. MaxTime)
      <3>1. sends \in Seq(0 .. MaxTime) /\ now \in 0 .. MaxTime
        BY DEF TypeOK
      <3>2. Append(sends, now) \in Seq(0 .. MaxTime)
        BY ONLY <3>1
      <3> QED BY ONLY <3>1, <3>2, <2>1
    <2>3. /\ t' \in TickerState /\ t'.m_tick_interval = t.m_tick_interval
          /\ t.m_tick_interval = NoInterval => t'.m_time_since_last_tick = 0
          /\ t.m_tick_interval # NoInterval =>
                t'.m_time_since_last_tick =
                    IF Ticks(t, now) THEN Carried(t, now) ELSE TimeSinceLastTick(t, now)
      BY <2>1, TickedProperties
    <2>4. IntervalInv'
      <3>1. CASE t.m_tick_interval = NoInterval
        BY <3>1, <2>1, <2>3, <1>1 DEF IntervalInv
      <3>2. CASE t.m_tick_interval # NoInterval
        <4>1. t.m_tick_interval \in Nat \ {0} /\ TimeSinceLastTick(t, now) \in Int
          BY <3>2, TickerType DEF TimeSinceLastTick
        <4>2. Carried(t, now) < t.m_tick_interval
          BY ONLY <4>1 DEF Carried
        <4>3. ~Ticks(t, now) => TimeSinceLastTick(t, now) < t.m_tick_interval
          BY <4>1 DEF Ticks
        <4>4. t'.m_time_since_last_tick < t.m_tick_interval
          BY <4>2, <4>3, <3>2, <2>3
        <4> QED BY <4>4, <3>2, <2>1, <2>3, <1>1 DEF IntervalInv
      <3> QED BY <3>1, <3>2
    <2>5. TypeOK'
      BY <2>1, <2>2, <2>3, <1>1 DEF TypeOK, TickerState
    <2> QED BY <2>4, <2>5
  <1>6. CASE UNCHANGED vars
    BY <1>1, <1>6 DEF vars, TypeOK, IntervalInv
  <1> QED BY <1>3, <1>4, <1>5, <1>6 DEF Next

LEMMA IntervalInvInit == Init => TypeOK /\ IntervalInv
  <1> SUFFICES ASSUME Init PROVE TypeOK /\ IntervalInv
    OBVIOUS
  <1>1. send_packet_ticker = [m_last_known_now |-> 0, m_tick_interval |-> NoInterval,
                              m_time_since_last_tick |-> 0]
    BY DEF Init, NewTicker
  <1>2. IntervalInv
    BY <1>1 DEF Init, IntervalInv
  <1>3. send_packet_ticker \in TickerState /\ now \in 0 .. MaxTime
    BY <1>1, SendRateConstants DEF Init, TickerState
  <1>4. {self_max_send_packet_rate, peer_max_read_packet_rate} \subseteq Rates
        /\ {is_peer_connected, m_self_is_connected, held} \subseteq BOOLEAN
    BY DEF Init
  <1>5. stage \in {"read", "write"} /\ sends \in Seq(0 .. MaxTime)
    BY DEF Init
  <1> QED BY ONLY <1>2, <1>3, <1>4, <1>5 DEF TypeOK, TickerState

\* Every member keeps its type; the interval is never zero, so that tick divides
\* by no zero, whatever the limits and whenever packets are read.
THEOREM TypeCorrect == Spec => []TypeOK
  BY IntervalInvInit, IntervalInvStep, PTL DEF Spec

-----------------------------------------------------------------------------
(* The spacing of the packets.                                               *)

\* The moment from which the running interval counts: it stands still between
\* two ticks that write, however the clock moves.
Base == send_packet_ticker.m_last_known_now - send_packet_ticker.m_time_since_last_tick

\* The base is at least an interval further with every packet, and so are the
\* packets, up to less than one interval.
Spaced(times, base, interval) ==
    /\ \A i \in 1 .. Len(times) : (Len(times) - i - 1) * interval < base - times[i]
    /\ \A i, j \in 1 .. Len(times) : i < j => (j - i - 1) * interval < times[j] - times[i]

\* The base is at most an interval further with every packet.
Paced(times, base, interval) ==
    /\ \A i \in 1 .. Len(times) : base - times[i] <= (Len(times) - i) * interval
    /\ \A i, j \in 1 .. Len(times) : i < j => times[j] - times[i] < (j - i + 1) * interval

\* Only a fully connected host that has a limit records its packets.
RecordedInv == sends # << >> => is_fully_connected /\ Limits # {}

\* The running interval began at the last packet or before it.
LastInv ==
    sends # << >> =>
        /\ Base <= sends[Len(sends)]
        /\ held => send_packet_ticker.m_last_known_now - sends[Len(sends)] < Interval

TicksOften == \A jump \in Jumps, rate \in Limits : jump <= Second \div rate

\* If tick comes often enough, no interval is forfeit.
PaceInv ==
    TicksOften /\ Limits # {} =>
        /\ now - send_packet_ticker.m_last_known_now <= Interval
        /\ Paced(sends, Base, Interval)

RateInv ==
    /\ TypeOK
    /\ IntervalInv
    /\ RecordedInv
    /\ Spaced(sends, Base, Interval)
    /\ LastInv
    /\ PaceInv

LEMMA AppendTime ==
    ASSUME NEW times \in Seq(Int), NEW t \in Int
    PROVE  LET n == Len(times)
               more == Append(times, t)
           IN  /\ n \in Nat /\ Len(more) = n + 1 /\ more[n + 1] = t
               /\ \A i \in 1 .. n : more[i] = times[i] /\ times[i] \in Int
               /\ \A i \in 1 .. n + 1 : i \in 1 .. n \/ i = n + 1
  OBVIOUS

LEMMA SpacedAppend ==
    ASSUME NEW times \in Seq(Int), NEW base \in Int, NEW interval \in Nat \ {0},
           Spaced(times, base, interval),
           NEW t \in Int, NEW next \in Int,
           base + interval <= next, t - interval < next, next <= t
    PROVE  Spaced(Append(times, t), next, interval)
  <1> DEFINE n == Len(times)
             more == Append(times, t)
  <1>1. /\ n \in Nat /\ Len(more) = n + 1 /\ more[n + 1] = t
        /\ \A i \in 1 .. n : more[i] = times[i] /\ times[i] \in Int
        /\ \A i \in 1 .. n + 1 : i \in 1 .. n \/ i = n + 1
    BY AppendTime
  <1>2. /\ \A i \in 1 .. n : (n - i - 1) * interval < base - times[i]
        /\ \A i, j \in 1 .. n : i < j => (j - i - 1) * interval < times[j] - times[i]
    BY DEF Spaced
  <1> HIDE DEF n, more
  <1>3. ASSUME NEW i \in 1 .. n
        PROVE  (n - i) * interval < next - times[i] /\ (n - i) * interval < t - times[i]
    <2> DEFINE a == (n - i - 1) * interval
               b == (n - i) * interval
    <2>1. a \in Int /\ b \in Int /\ b = a + interval
      <3> DEFINE d == n - i - 1
      <3>1. d \in Int /\ n - i = d + 1
        BY ONLY <1>1, i \in 1 .. n
      <3> HIDE DEF d
      <3>2. (d + 1) * interval = d * interval + interval /\ d * interval \in Int
        BY ONLY <3>1, interval \in Nat \ {0}, OneMore
      <3> QED BY ONLY <3>1, <3>2, interval \in Nat \ {0} DEF d
    <2>2. a < base - times[i] /\ times[i] \in Int
      BY <1>1, <1>2
    <2> HIDE DEF a, b
    <2>3. b < next - times[i] /\ b < t - times[i]
      BY ONLY <2>1, <2>2, base \in Int, interval \in Nat \ {0}, t \in Int, next \in Int,
              base + interval <= next, next <= t
    <2> QED BY ONLY <2>3 DEF b
  <1>4. ASSUME NEW i \in 1 .. n + 1 PROVE ((n + 1) - i - 1) * interval < next - more[i]
    <2>1. CASE i \in 1 .. n
      <3>1. (n + 1) - i - 1 = n - i
        BY ONLY <2>1, <1>1
      <3> QED BY <3>1, <2>1, <1>1, <1>3
    <2>2. CASE i = n + 1
      <3>1. (n + 1) - i - 1 = -1 /\ (-1) * interval = -interval
        BY ONLY <2>2, <1>1, interval \in Nat \ {0}
      <3>2. -interval < next - t
        BY ONLY t - interval < next, t \in Int, next \in Int, interval \in Nat \ {0}
      <3> QED BY <3>1, <3>2, <2>2, <1>1
    <2> QED BY <2>1, <2>2, <1>1
  <1>5. ASSUME NEW i \in 1 .. n + 1, NEW j \in 1 .. n + 1, i < j
        PROVE  (j - i - 1) * interval < more[j] - more[i]
    <2>1. CASE j \in 1 .. n
      <3>1. i \in 1 .. n
        BY ONLY <2>1, <1>5, <1>1
      <3> QED BY ONLY <3>1, <2>1, <1>5, <1>1, <1>2
    <2>2. CASE j = n + 1
      <3>1. i \in 1 .. n /\ j - i - 1 = n - i
        BY ONLY <2>2, <1>5, <1>1
      <3> QED BY <3>1, <2>2, <1>1, <1>3
    <2> QED BY <2>1, <2>2, <1>1
  <1> QED BY ONLY <1>1, <1>4, <1>5 DEF Spaced, more

LEMMA PacedAppend ==
    ASSUME NEW times \in Seq(Int), NEW base \in Int, NEW interval \in Nat \ {0},
           Paced(times, base, interval),
           NEW t \in Int, NEW next \in Int,
           base + interval = next, t - interval < next, next <= t
    PROVE  Paced(Append(times, t), next, interval)
  <1> DEFINE n == Len(times)
             more == Append(times, t)
  <1>1. /\ n \in Nat /\ Len(more) = n + 1 /\ more[n + 1] = t
        /\ \A i \in 1 .. n : more[i] = times[i] /\ times[i] \in Int
        /\ \A i \in 1 .. n + 1 : i \in 1 .. n \/ i = n + 1
    BY AppendTime
  <1>2. /\ \A i \in 1 .. n : base - times[i] <= (n - i) * interval
        /\ \A i, j \in 1 .. n : i < j => times[j] - times[i] < (j - i + 1) * interval
    BY DEF Paced
  <1> HIDE DEF n, more
  <1>3. ASSUME NEW i \in 1 .. n
        PROVE  /\ next - times[i] <= ((n + 1) - i) * interval
               /\ t - times[i] < ((n + 1) - i + 1) * interval
    <2> DEFINE a == (n - i) * interval
               b == ((n + 1) - i) * interval
               c == ((n + 1) - i + 1) * interval
    <2>1. a \in Int /\ b \in Int /\ c \in Int /\ b = a + interval /\ c = b + interval
      <3> DEFINE d == n - i
      <3>1. d \in Int /\ (n + 1) - i = d + 1
        BY ONLY <1>1, i \in 1 .. n
      <3> HIDE DEF d
      <3>2. (d + 1) * interval = d * interval + interval /\ d * interval \in Int
        BY ONLY <3>1, interval \in Nat \ {0}, OneMore
      <3>3. ((d + 1) + 1) * interval = (d + 1) * interval + interval
        BY ONLY <3>1, interval \in Nat \ {0}, OneMore
      <3> QED BY ONLY <3>1, <3>2, <3>3, interval \in Nat \ {0} DEF d
    <2>2. base - times[i] <= a /\ times[i] \in Int
      BY <1>1, <1>2
    <2> HIDE DEF a, b, c
    <2>3. next - times[i] <= b /\ t - times[i] < c
      BY ONLY <2>1, <2>2, base \in Int, interval \in Nat \ {0}, t \in Int, next \in Int,
              base + interval = next, t - interval < next
    <2> QED BY ONLY <2>3 DEF b, c
  <1>4. ASSUME NEW i \in 1 .. n + 1 PROVE next - more[i] <= ((n + 1) - i) * interval
    <2>1. CASE i \in 1 .. n
      BY <2>1, <1>1, <1>3
    <2>2. CASE i = n + 1
      <3>1. (n + 1) - i = 0 /\ 0 * interval = 0
        BY ONLY <2>2, <1>1, interval \in Nat \ {0}
      <3> QED BY <3>1, <2>2, <1>1
    <2> QED BY <2>1, <2>2, <1>1
  <1>5. ASSUME NEW i \in 1 .. n + 1, NEW j \in 1 .. n + 1, i < j
        PROVE  more[j] - more[i] < (j - i + 1) * interval
    <2>1. CASE j \in 1 .. n
      <3>1. i \in 1 .. n
        BY ONLY <2>1, <1>5, <1>1
      <3> QED BY ONLY <3>1, <2>1, <1>5, <1>1, <1>2
    <2>2. CASE j = n + 1
      <3>1. i \in 1 .. n
        BY ONLY <2>2, <1>5, <1>1
      <3> QED BY <3>1, <2>2, <1>1, <1>3
    <2> QED BY <2>1, <2>2, <1>1
  <1> QED BY ONLY <1>1, <1>4, <1>5 DEF Paced, more

LEMMA RateTypes ==
    ASSUME RateInv
    PROVE  /\ TypeOK /\ Base \in Int /\ sends \in Seq(Int) /\ Len(sends) \in Nat
           /\ Limits # {} => Interval \in Nat \ {0}
  <1>1. TypeOK
    BY DEF RateInv
  <1>2. Base \in Int
    BY <1>1, TickerType DEF Base
  <1>3. sends \in Seq(0 .. MaxTime)
    BY <1>1 DEF TypeOK
  <1>4. sends \in Seq(Int)
    BY <1>3, SendRateConstants
  <1>5. Limits # {} => Interval \in Nat \ {0}
    BY <1>1, TickerType, IntervalProperties, SendRateConstants
  <1> QED BY <1>1, <1>2, <1>3, <1>4, <1>5

\* Reading sets the interval to what it was, and starts nothing anew.
LEMMA ReadKeepsPace ==
    ASSUME RateInv, TypeOK', IntervalInv',
           UNCHANGED <<self_max_send_packet_rate, peer_max_read_packet_rate, now, sends, held>>,
           is_fully_connected => is_fully_connected',
           send_packet_ticker'.m_last_known_now = send_packet_ticker.m_last_known_now,
           send_packet_ticker'.m_time_since_last_tick = send_packet_ticker.m_time_since_last_tick
    PROVE  RateInv'
  <1>1. Limits' = Limits /\ Interval' = Interval /\ Base' = Base
    BY DEF Limits, Interval, Base
  <1>2. TicksOften' = TicksOften
    BY <1>1 DEF TicksOften
  <1>3. RecordedInv' /\ LastInv'
    BY <1>1 DEF RateInv, RecordedInv, LastInv
  <1>4. Spaced(sends, Base, Interval)'
    BY <1>1 DEF RateInv, Spaced
  <1>5. PaceInv'
    BY <1>1, <1>2 DEF RateInv, PaceInv, Paced
  <1> QED BY <1>3, <1>4, <1>5 DEF RateInv

LEMMA ReadStep ==
    ASSUME RateInv, TypeOK', IntervalInv',
           \/ \E acks_ours, carries \in BOOLEAN : Read(acks_ours, carries)
           \/ ReadNothing
           \/ UNCHANGED vars
    PROVE  RateInv'
  <1>1. /\ UNCHANGED <<self_max_send_packet_rate, peer_max_read_packet_rate, now, sends, held>>
        /\ is_fully_connected => is_fully_connected'
    <2>1. UNCHANGED <<self_max_send_packet_rate, peer_max_read_packet_rate, now, sends, held>>
      BY DEF Read, ReadNothing, vars
    <2>2. is_fully_connected => is_fully_connected'
      BY DEF Read, ReadNothing, vars, is_fully_connected
    <2> QED BY <2>1, <2>2
  <1>2. /\ send_packet_ticker'.m_last_known_now = send_packet_ticker.m_last_known_now
        /\ send_packet_ticker'.m_time_since_last_tick = send_packet_ticker.m_time_since_last_tick
    <2> DEFINE t == send_packet_ticker
    <2>1. \/ t' = t
          \/ t' = WithInterval(t, Interval)
      BY DEF Read, ReadNothing, vars, Interval
    <2>2. WithInterval(t, Interval) =
            [m_last_known_now |-> t.m_last_known_now, m_tick_interval |-> Interval,
             m_time_since_last_tick |-> t.m_time_since_last_tick]
      BY TickerType DEF RateInv, WithInterval
    <2> QED BY <2>1, <2>2
  <1> QED BY <1>1, <1>2, ReadKeepsPace

LEMMA WriteStep ==
    ASSUME RateInv, TypeOK', IntervalInv', NEW jump \in Jumps, Write(jump)
    PROVE  RateInv'
  <1> DEFINE t == send_packet_ticker
             elapsed == TimeSinceLastTick(t, now)
  <1>1. /\ TypeOK /\ Base \in Int /\ sends \in Seq(Int) /\ Len(sends) \in Nat
        /\ Limits # {} => Interval \in Nat \ {0}
    BY RateTypes
  <1>2. /\ UNCHANGED <<self_max_send_packet_rate, peer_max_read_packet_rate,
                       is_peer_connected, m_self_is_connected>>
        /\ t' = Ticked(t, now) /\ now' = now + jump /\ held' = ~MayWrite
        /\ sends' = IF MayWrite /\ is_fully_connected /\ Limits # {}
                    THEN Append(sends, now) ELSE sends
    BY DEF Write
  <1>3. /\ Limits' = Limits /\ Interval' = Interval
        /\ (TicksOften' <=> TicksOften) /\ (is_fully_connected' <=> is_fully_connected)
    <2>1. Limits' = Limits /\ Interval' = Interval
      BY <1>2 DEF Limits, Interval
    <2> QED BY <2>1, <1>2 DEF TicksOften, is_fully_connected
  <1>4. /\ t'.m_last_known_now = now
        /\ t.m_tick_interval = NoInterval => t'.m_time_since_last_tick = 0
        /\ t.m_tick_interval # NoInterval =>
              t'.m_time_since_last_tick = IF Ticks(t, now) THEN Carried(t, now) ELSE elapsed
    BY <1>1, <1>2, TickedProperties
  <1>5. elapsed = now - Base /\ elapsed \in Int /\ now \in Int /\ now' \in Int /\ jump \in Int
    <2>1. /\ t.m_last_known_now \in Int /\ t.m_time_since_last_tick \in Int /\ now \in Int
      BY <1>1, TickerType
    <2> QED BY <2>1, <1>2, SendRateConstants DEF TimeSinceLastTick, Base
  <1>6. ASSUME TicksOften, Limits # {} PROVE now' - t'.m_last_known_now <= Interval
    <2>1. PICK slowest \in Limits : Interval = Second \div slowest
      BY <1>6, <1>1, TickerType, IntervalProperties
    <2>2. jump <= Interval
      BY <2>1, <1>6 DEF TicksOften
    <2> QED BY ONLY <2>2, <1>1, <1>2, <1>4, <1>5, <1>6
  <1>7. CASE t.m_tick_interval = NoInterval
    <2>1. MayWrite
      BY <1>7 DEF MayWrite, Ticks
    <2>2. ~is_peer_connected \/ Limits = {}
      <3>1. is_peer_connected => Interval = NoInterval
        BY <1>7 DEF RateInv, IntervalInv
      <3> QED BY <3>1, <1>1 DEF NoInterval
    <2>3. sends = << >> /\ sends' = << >>
      BY <2>2, <1>2 DEF RateInv, RecordedInv, is_fully_connected
    <2>4. RecordedInv' /\ LastInv'
      BY <2>3 DEF RecordedInv, LastInv
    <2>5. Len(sends') = 0
      BY <2>3
    <2>6. Spaced(sends, Base, Interval)' /\ Paced(sends, Base, Interval)'
      BY ONLY <2>5 DEF Spaced, Paced
    <2>7. PaceInv'
      BY <2>6, <1>3, <1>6 DEF PaceInv
    <2> QED BY <2>4, <2>6, <2>7 DEF RateInv
  <1>8. CASE t.m_tick_interval # NoInterval
    <2>1. is_peer_connected /\ t.m_tick_interval = Interval /\ Limits # {}
          /\ Interval \in Nat \ {0}
      <3>1. is_peer_connected /\ t.m_tick_interval = Interval
        BY <1>8 DEF RateInv, IntervalInv
      <3>2. Limits # {}
        BY <3>1, <1>1, <1>8, TickerType, IntervalProperties
      <3> QED BY <3>1, <3>2, <1>1
    <2>2. Ticks(t, now) <=> elapsed >= Interval
      BY <2>1, <1>8 DEF Ticks
    <2>3. CASE ~Ticks(t, now)
      <3>1. /\ t'.m_time_since_last_tick = elapsed /\ elapsed < Interval
        BY <2>1, <2>2, <2>3, <1>4, <1>5, <1>8
      <3>2. Base' = Base
        <4>1. Base' = now - elapsed
          BY <3>1, <1>4 DEF Base
        <4> QED BY ONLY <4>1, <1>1, <1>5
      <3>3. sends' = sends
        BY <2>3, <1>2 DEF MayWrite
      <3>4. Spaced(sends, Base, Interval)'
        BY <3>2, <3>3, <1>3 DEF RateInv, Spaced
      <3>5. RecordedInv'
        BY <3>3, <1>3 DEF RateInv, RecordedInv
      <3>6. LastInv'
        <4> SUFFICES ASSUME sends # << >>
            PROVE Base <= sends[Len(sends)] /\ now - sends[Len(sends)] < Interval
          BY <3>2, <3>3, <1>3, <1>4 DEF LastInv
        <4>1. Base <= sends[Len(sends)]
          BY DEF RateInv, LastInv
        <4>2. sends[Len(sends)] \in Int
          BY <1>1
        <4> QED BY ONLY <4>1, <4>2, <3>1, <2>1, <1>1, <1>5
      <3>7. PaceInv'
        <4>1. ASSUME TicksOften PROVE Paced(sends, Base, Interval)'
          BY <4>1, <3>2, <3>3, <2>1, <1>3 DEF RateInv, PaceInv, Paced
        <4> QED BY <4>1, <1>3, <1>6 DEF PaceInv
      <3> QED BY <3>4, <3>5, <3>6, <3>7 DEF RateInv
    <2>4. CASE Ticks(t, now)
      <3> DEFINE next == now - Carried(t, now)
      <3>1. Base' = next
        BY <2>4, <1>4, <1>8 DEF Base
      <3>2. Carried(t, now) = elapsed % Interval
        BY <2>1 DEF Carried
      <3>3. /\ Carried(t, now) \in 0 .. Interval - 1
            /\ elapsed - Carried(t, now) >= Interval
            /\ elapsed < Interval + Interval => elapsed - Carried(t, now) = Interval
        BY ONLY <3>2, <2>1, <2>2, <2>4, <1>5, WholeIntervals
      <3>4. next \in Int /\ Base + Interval <= next /\ now - Interval < next /\ next <= now
        BY ONLY <3>3, <2>1, <1>1, <1>5
      <3>5. TicksOften => Base + Interval = next
        <4> SUFFICES ASSUME TicksOften PROVE Base + Interval = next
          OBVIOUS
        <4>1. now - t.m_last_known_now <= Interval
          BY <2>1 DEF RateInv, PaceInv
        <4>2. t.m_time_since_last_tick < Interval
          BY <2>1, <1>8 DEF RateInv, IntervalInv
        <4>3. t.m_last_known_now \in Int /\ t.m_time_since_last_tick \in Int
          BY <1>1, TickerType
        <4>4. elapsed < Interval + Interval
          BY ONLY <4>1, <4>2, <4>3, <2>1, <1>5 DEF TimeSinceLastTick
        <4> QED BY ONLY <4>4, <3>3, <2>1, <1>1, <1>5
      <3>6. MayWrite
        BY <2>4 DEF MayWrite
      <3> HIDE DEF next
      <3>7. CASE is_fully_connected
        <4>1. sends' = Append(sends, now)
          BY <3>6, <3>7, <2>1, <1>2
        <4>2. Spaced(Append(sends, now), next, Interval)
          <5>1. Spaced(sends, Base, Interval)
            BY DEF RateInv
          <5> QED BY ONLY <5>1, <3>4, <2>1, <1>1, <1>5, SpacedAppend
        <4>3. TicksOften => Paced(Append(sends, now), next, Interval)
          <5> SUFFICES ASSUME TicksOften PROVE Paced(Append(sends, now), next, Interval)
            OBVIOUS
          <5>1. Paced(sends, Base, Interval)
            BY <2>1 DEF RateInv, PaceInv
          <5> QED BY ONLY <5>1, <3>4, <3>5, <2>1, <1>1, <1>5, PacedAppend, TicksOften
        <4>4. Spaced(sends, Base, Interval)'
          BY ONLY <4>1, <4>2, <3>1, <1>3 DEF Spaced
        <4>5. PaceInv'
          <5>1. ASSUME TicksOften PROVE Paced(sends, Base, Interval)'
            BY ONLY <5>1, <4>1, <4>3, <3>1, <1>3 DEF Paced
          <5> QED BY <5>1, <1>3, <1>6 DEF PaceInv
        <4>6. RecordedInv'
          BY <3>7, <2>1, <1>3 DEF RecordedInv
        <4>7. sends'[Len(sends')] = now
          BY ONLY <4>1, <1>1, <1>5
        <4>8. ~held'
          BY <3>6, <1>2
        <4>9. LastInv'
          BY ONLY <4>7, <4>8, <3>1, <3>4 DEF LastInv
        <4> QED BY <4>4, <4>5, <4>6, <4>9 DEF RateInv
      <3>8. CASE ~is_fully_connected
        <4>1. sends = << >> /\ sends' = << >>
          BY <3>8, <1>2 DEF RateInv, RecordedInv
        <4>2. RecordedInv' /\ LastInv'
          BY <4>1 DEF RecordedInv, LastInv
        <4>3. Len(sends') = 0
          BY <4>1
        <4>4. Spaced(sends, Base, Interval)' /\ Paced(sends, Base, Interval)'
          BY ONLY <4>3 DEF Spaced, Paced
        <4>5. PaceInv'
          BY <4>4, <1>3, <1>6 DEF PaceInv
        <4> QED BY <4>2, <4>4, <4>5 DEF RateInv
      <3> QED BY <3>7, <3>8
    <2> QED BY <2>3, <2>4
  <1> QED BY <1>7, <1>8

LEMMA RateInvAlways == Spec => []RateInv
  <1>1. Init => RateInv
    <2> SUFFICES ASSUME Init PROVE RateInv
      OBVIOUS
    <2>1. TypeOK /\ IntervalInv
      BY IntervalInvInit
    <2>2. Len(sends) = 0 /\ sends = << >>
      BY DEF Init
    <2>3. Spaced(sends, Base, Interval) /\ Paced(sends, Base, Interval)
      BY ONLY <2>2 DEF Spaced, Paced
    <2>4. Limits # {} => now - send_packet_ticker.m_last_known_now <= Interval
      <3>1. now - send_packet_ticker.m_last_known_now = 0
        BY DEF Init, NewTicker
      <3> QED BY <3>1, <2>1, TickerType, IntervalProperties
    <2> QED BY <2>1, <2>2, <2>3, <2>4 DEF RateInv, RecordedInv, LastInv, PaceInv
  <1>2. RateInv /\ [Next]_vars => RateInv'
    <2> SUFFICES ASSUME RateInv, [Next]_vars PROVE RateInv'
      OBVIOUS
    <2>1. TypeOK' /\ IntervalInv'
      BY IntervalInvStep DEF RateInv
    <2>2. ASSUME NEW jump \in Jumps, Write(jump) PROVE RateInv'
      BY <2>1, <2>2, WriteStep
    <2>3. CASE \/ \E acks_ours, carries \in BOOLEAN : Read(acks_ours, carries)
               \/ ReadNothing
               \/ UNCHANGED vars
      BY <2>1, <2>3, ReadStep
    <2> QED BY <2>2, <2>3 DEF Next
  <1> QED BY <1>1, <1>2, PTL DEF Spec

LEMMA LongerInterval ==
    ASSUME NEW interval \in Nat, NEW shorter \in 1 .. interval, NEW k \in Nat
    PROVE  k * shorter <= k * interval /\ k * shorter \in Int /\ k * interval \in Int
  OBVIOUS

LEMMA RateInvImplies == RateInv => RatesRespected /\ NotHeldBack /\ KeepsPace
  <1> SUFFICES ASSUME RateInv PROVE RatesRespected /\ NotHeldBack /\ KeepsPace
    OBVIOUS
  <1>1. /\ TypeOK /\ sends \in Seq(Int) /\ Len(sends) \in Nat
        /\ \A i \in 1 .. Len(sends) : sends[i] \in Int
        /\ sends # << >> => Limits # {}
    <2>1. sends \in Seq(Int) /\ TypeOK
      BY RateTypes
    <2>2. \A i \in 1 .. Len(sends) : sends[i] \in Int
      BY ONLY <2>1
    <2> QED BY <2>1, <2>2 DEF RateInv, RecordedInv
  <1>2. ASSUME Limits # {}
        PROVE  /\ Interval \in Nat \ {0}
               /\ \E slowest \in Limits : Interval = Second \div slowest
               /\ \A rate \in Limits : Second \div rate \in 1 .. Interval
    BY <1>2, <1>1, TickerType, IntervalProperties, RateTypes
  <1>3. RatesRespected
    <2> SUFFICES ASSUME NEW i \in 1 .. Len(sends), NEW j \in 1 .. Len(sends), i < j,
                        NEW rate \in Limits
        PROVE (j - i - 1) * (Second \div rate) < sends[j] - sends[i]
      BY DEF RatesRespected
    <2> DEFINE k == j - i - 1
               d == sends[j] - sends[i]
               shorter == Second \div rate
    <2>1. k \in Nat /\ d \in Int
      BY <1>1
    <2>2. k * Interval < d
      BY DEF RateInv, Spaced
    <2>3. Interval \in Nat /\ shorter \in 1 .. Interval
      BY <1>2
    <2> HIDE DEF k, d, shorter
    <2>4. k * shorter <= k * Interval /\ k * shorter \in Int /\ k * Interval \in Int
      BY ONLY <2>1, <2>3, LongerInterval
    <2>5. k * shorter < d
      BY ONLY <2>1, <2>2, <2>4
    <2> QED BY ONLY <2>5 DEF k, d, shorter
  <1>4. NotHeldBack
    <2> SUFFICES ASSUME held, sends # << >>
        PROVE \E rate \in Limits :
                send_packet_ticker.m_last_known_now - sends[Len(sends)] < Second \div rate
      BY DEF NotHeldBack
    <2>1. send_packet_ticker.m_last_known_now - sends[Len(sends)] < Interval
      BY DEF RateInv, LastInv
    <2> QED BY <2>1, <1>1, <1>2
  <1>5. KeepsPace
    <2> SUFFICES ASSUME TicksOften, NEW i \in 1 .. Len(sends), NEW j \in 1 .. Len(sends), i < j
        PROVE \E rate \in Limits : sends[j] - sends[i] < (j - i + 1) * (Second \div rate)
      BY DEF KeepsPace, TicksOften
    <2>1. Limits # {}
      BY <1>1
    <2>2. sends[j] - sends[i] < (j - i + 1) * Interval
      BY <2>1 DEF RateInv, PaceInv, Paced
    <2> QED BY <2>1, <2>2, <1>2
  <1> QED BY <1>3, <1>4, <1>5

\* A fully connected host never exceeds the rate of either side, counted in whole
\* units of the clock, for any rates, also those that do not divide a second, any
\* times between two ticks and a clock that may be set back.
THEOREM RatesAreRespected == Spec => []RatesRespected
  BY RateInvAlways, RateInvImplies, PTL

\* The packets that keep being read, each of which sets the interval again, hold
\* nothing back: a tick that writes nothing is less than an interval late.
THEOREM NothingHeldBack == Spec => []NotHeldBack
  BY RateInvAlways, RateInvImplies, PTL

\* If ticks are never further apart than the interval, packets do not drift: the
\* k-th packet after any one comes less than k + 1 intervals after it.
THEOREM PaceIsKept == Spec => []KeepsPace
  BY RateInvAlways, RateInvImplies, PTL
=============================================================================
