-------------------------- MODULE FakeNetworkProofs --------------------------
(***************************************************************************)
(* Proofs about FakeNetwork, for any addresses, any MTU, any sizes of       *)
(* payloads and buffers and any number of sockets and packets.              *)
(***************************************************************************)
EXTENDS FakeNetwork, FiniteSetTheorems, SequenceTheorems, TLAPS

-----------------------------------------------------------------------------
(* The inductive invariant.                                                  *)

Sent == [fd : Fd, to : Ips, payload : Payload, dropped : BOOLEAN]
Waiting == [sender : Ips, payload : Payload]
Got == [sender : Ips, payload : Payload, room : Sizes]

\* No address and no socket is bound twice.
BoundOnce(bound) ==
    \A one, two \in bound : one[1] = two[1] \/ one[2] = two[2] => one = two

\* The packets that are due at an address.
DueOf(sent, ip) == {n \in 1 .. Len(sent) : sent[n].to = ip /\ ~sent[n].dropped}

\* number counts off the members of due, in increasing order.
CountsOff(number, count, due) ==
    /\ number \in [1 .. count -> due]
    /\ \A i, j \in 1 .. count : i < j => number[i] < number[j]
    /\ \A n \in due : \E i \in 1 .. count : number[i] = n

\* The packets read and the packets that wait are the sends with those numbers, and
\* each names the address that the socket of that send is bound to.
Traced(number, read, waiting, sent, bound) ==
    /\ \A i \in 1 .. Len(read) :
         /\ read[i].payload = Cut(Cut(sent[number[i]].payload, m_mtu), read[i].room)
         /\ <<read[i].sender, sent[number[i]].fd>> \in bound
    /\ \A i \in 1 .. Len(waiting) :
         /\ waiting[i].payload = Cut(sent[number[Len(read) + i]].payload, m_mtu)
         /\ <<waiting[i].sender, sent[number[Len(read) + i]].fd>> \in bound

Accounted(read, waiting, sent, bound, ip) ==
    \E number :
        /\ CountsOff(number, Len(read) + Len(waiting), DueOf(sent, ip))
        /\ Traced(number, read, waiting, sent, bound)

NetworkInv ==
    /\ TypeOK
    /\ BoundOnce(m_bind)
    /\ \A ip \in Ips : Accounted(reads[ip], m_buffers[ip], sends, m_bind, ip)

-----------------------------------------------------------------------------
(* What the steps do to one address.                                         *)

\* More is bound.
LEMMA BindKeepsAccounted ==
    ASSUME NEW read, NEW waiting, NEW sent, NEW bound, NEW ip, NEW more,
           Accounted(read, waiting, sent, bound, ip), bound \subseteq more
    PROVE  Accounted(read, waiting, sent, more, ip)
  <1>1. PICK number :
          /\ CountsOff(number, Len(read) + Len(waiting), DueOf(sent, ip))
          /\ Traced(number, read, waiting, sent, bound)
    BY DEF Accounted
  <1>2. Traced(number, read, waiting, sent, more)
    BY <1>1 DEF Traced
  <1> QED BY <1>1, <1>2 DEF Accounted

\* A pair that IsTaken does not find adds no second binding.
LEMMA BindKeepsBoundOnce ==
    ASSUME BoundOnce(m_bind), NEW ip, NEW fd, ~IsTaken(fd, ip)
    PROVE  BoundOnce(m_bind \cup {<<ip, fd>>})
  BY DEF BoundOnce, IsTaken

\* The sends before the last are what they were.
LEMMA DueAfterSend ==
    ASSUME NEW sent \in Seq(Sent), NEW new \in Sent, NEW ip
    PROVE  /\ Append(sent, new) \in Seq(Sent)
           /\ \A n \in 1 .. Len(sent) : Append(sent, new)[n] = sent[n]
           /\ Append(sent, new)[Len(sent) + 1] = new
           /\ DueOf(Append(sent, new), ip) =
                DueOf(sent, ip) \cup
                  (IF new.to = ip /\ ~new.dropped THEN {Len(sent) + 1} ELSE {})
  <1> DEFINE more == Append(sent, new)
             last == Len(sent) + 1
  <1>1. Len(sent) \in Nat
    OBVIOUS
  <1>2. more \in Seq(Sent) /\ Len(more) = last /\ more[last] = new
        /\ \A n \in 1 .. Len(sent) : more[n] = sent[n]
    OBVIOUS
  <1>3. 1 .. last = (1 .. Len(sent)) \cup {last} /\ last \notin 1 .. Len(sent)
    BY <1>1
  <1> HIDE DEF more, last
  <1>4. ASSUME NEW n
        PROVE  n \in DueOf(more, ip) <=>
                 n \in DueOf(sent, ip) \cup
                   (IF new.to = ip /\ ~new.dropped THEN {last} ELSE {})
    <2>1. CASE n \in 1 .. Len(sent)
      BY <2>1, <1>2, <1>3 DEF DueOf
    <2>2. CASE n = last
      BY <2>2, <1>2, <1>3 DEF DueOf
    <2>3. CASE n \notin 1 .. Len(sent) /\ n # last
      BY <2>3, <1>2, <1>3 DEF DueOf
    <2> QED BY <2>1, <2>2, <2>3
  <1>5. DueOf(more, ip) = DueOf(sent, ip) \cup
                            (IF new.to = ip /\ ~new.dropped THEN {last} ELSE {})
    BY <1>4
  <1> QED BY <1>2, <1>5 DEF more, last

\* What is traced stays traced when more is sent.
LEMMA SendKeepsTraced ==
    ASSUME NEW sent \in Seq(Sent), NEW new \in Sent, NEW ip, NEW bound,
           NEW read \in Seq(Got), NEW waiting \in Seq(Waiting), NEW number,
           CountsOff(number, Len(read) + Len(waiting), DueOf(sent, ip)),
           Traced(number, read, waiting, sent, bound)
    PROVE  Traced(number, read, waiting, Append(sent, new), bound)
  <1> DEFINE more == Append(sent, new)
             count == Len(read) + Len(waiting)
  <1>1. \A n \in 1 .. Len(sent) : more[n] = sent[n]
    BY DueAfterSend
  <1>2. \A i \in 1 .. count : number[i] \in 1 .. Len(sent)
    BY DEF CountsOff, DueOf
  <1>3. Len(read) \in Nat /\ Len(waiting) \in Nat
    OBVIOUS
  <1>4. (\A i \in 1 .. Len(read) : i \in 1 .. count)
        /\ (\A i \in 1 .. Len(waiting) : Len(read) + i \in 1 .. count)
    BY <1>3
  <1> HIDE DEF more, count
  <1>5. (\A i \in 1 .. Len(read) : more[number[i]] = sent[number[i]])
        /\ (\A i \in 1 .. Len(waiting) :
              more[number[Len(read) + i]] = sent[number[Len(read) + i]])
    BY <1>1, <1>2, <1>4
  <1>6. Traced(number, read, waiting, more, bound)
    BY <1>5 DEF Traced
  <1> QED BY <1>6 DEF more

\* A packet is sent that this address does not get.
LEMMA OtherSendKeepsAccounted ==
    ASSUME NEW sent \in Seq(Sent), NEW new \in Sent, NEW ip, NEW bound,
           NEW read \in Seq(Got), NEW waiting \in Seq(Waiting),
           Accounted(read, waiting, sent, bound, ip), new.to # ip \/ new.dropped
    PROVE  Accounted(read, waiting, Append(sent, new), bound, ip)
  <1>1. PICK number :
          /\ CountsOff(number, Len(read) + Len(waiting), DueOf(sent, ip))
          /\ Traced(number, read, waiting, sent, bound)
    BY DEF Accounted
  <1>2. DueOf(Append(sent, new), ip) = DueOf(sent, ip)
    <2>1. DueOf(Append(sent, new), ip) =
            DueOf(sent, ip) \cup (IF new.to = ip /\ ~new.dropped THEN {Len(sent) + 1} ELSE {})
      BY DueAfterSend, Zenon
    <2>2. ~(new.to = ip /\ ~new.dropped)
      OBVIOUS
    <2> QED BY <2>1, <2>2, Zenon
  <1>3. Traced(number, read, waiting, Append(sent, new), bound)
    BY <1>1, SendKeepsTraced
  <1> QED BY <1>1, <1>2, <1>3 DEF Accounted

\* A packet is sent that goes behind those that wait at this address.
LEMMA SendKeepsAccounted ==
    ASSUME NEW sent \in Seq(Sent), NEW new \in Sent, NEW ip, NEW bound,
           NEW read \in Seq(Got), NEW waiting \in Seq(Waiting), NEW packet \in Waiting,
           Accounted(read, waiting, sent, bound, ip), new.to = ip, ~new.dropped,
           packet.payload = Cut(new.payload, m_mtu), <<packet.sender, new.fd>> \in bound
    PROVE  Accounted(read, Append(waiting, packet), Append(sent, new), bound, ip)
  <1> DEFINE more == Append(sent, new)
             longer == Append(waiting, packet)
             last == Len(sent) + 1
             count == Len(read) + Len(waiting)
  <1>1. PICK number :
          /\ CountsOff(number, count, DueOf(sent, ip))
          /\ Traced(number, read, waiting, sent, bound)
    BY DEF Accounted
  <1>2. DueOf(more, ip) = DueOf(sent, ip) \cup {last} /\ more[last] = new
    BY DueAfterSend
  <1>3. Traced(number, read, waiting, more, bound)
    BY <1>1, SendKeepsTraced
  <1>4. Len(longer) = Len(waiting) + 1 /\ longer[Len(waiting) + 1] = packet
        /\ \A i \in 1 .. Len(waiting) : longer[i] = waiting[i]
    OBVIOUS
  <1>5. Len(read) \in Nat /\ Len(waiting) \in Nat /\ Len(sent) \in Nat /\ count \in Nat
    <2>1. Len(read) \in Nat /\ Len(waiting) \in Nat /\ Len(sent) \in Nat
      OBVIOUS
    <2> QED BY <2>1
  <1>6. Len(read) + Len(longer) = count + 1
    BY <1>4, <1>5
  <1>7. \A n \in DueOf(sent, ip) : n \in 1 .. Len(sent) /\ n < last
    BY <1>5 DEF DueOf
  <1> DEFINE next == [i \in 1 .. count + 1 |-> IF i = count + 1 THEN last ELSE number[i]]
             due == DueOf(sent, ip)
  <1>8. next[count + 1] = last /\ \A i \in 1 .. count : next[i] = number[i]
    <2> HIDE DEF count, last
    <2> QED BY <1>5
  <1>9. \A i \in 1 .. count + 1 : i = count + 1 \/ i \in 1 .. count
    <2> HIDE DEF count
    <2> QED BY <1>5
  <1>10. number \in [1 .. count -> due]
    BY <1>1 DEF CountsOff
  <1>11. next \in [1 .. count + 1 -> due \cup {last}]
    <2>1. ASSUME NEW i \in 1 .. count + 1
          PROVE  (IF i = count + 1 THEN last ELSE number[i]) \in due \cup {last}
      BY <1>9, <1>10
    <2> HIDE DEF count, last, due
    <2> QED BY <2>1
  <1> HIDE DEF next
  <1>12. CountsOff(next, count + 1, due \cup {last})
    <2>1. ASSUME NEW i \in 1 .. count + 1, NEW j \in 1 .. count + 1, i < j
          PROVE  next[i] < next[j]
      <3>1. i \in 1 .. count /\ next[i] = number[i] /\ number[i] \in due
        <4>1. i # count + 1
          <5> HIDE DEF count
          <5> QED BY <2>1, <1>5
        <4> QED BY <4>1, <1>8, <1>9, <1>10
      <3>2. CASE j = count + 1
        BY <3>1, <3>2, <1>7, <1>8
      <3>3. CASE j \in 1 .. count
        BY <3>1, <3>3, <2>1, <1>1, <1>8 DEF CountsOff
      <3> QED BY <3>2, <3>3, <1>9
    <2>2. ASSUME NEW n \in due \cup {last} PROVE \E i \in 1 .. count + 1 : next[i] = n
      <3>1. CASE n = last
        <4>1. count + 1 \in 1 .. count + 1
          <5> HIDE DEF count
          <5> QED BY <1>5
        <4> QED BY <3>1, <4>1, <1>8
      <3>2. CASE n \in due
        <4>1. PICK i \in 1 .. count : number[i] = n
          BY <3>2, <1>1 DEF CountsOff
        <4>2. i \in 1 .. count + 1
          <5> HIDE DEF count
          <5> QED BY <1>5
        <4> QED BY <4>1, <4>2, <1>8
      <3> QED BY <3>1, <3>2
    <2> HIDE DEF count, last, due
    <2> QED BY <2>1, <2>2, <1>11 DEF CountsOff
  <1>13. \A i \in 1 .. Len(read) : next[i] = number[i]
    BY <1>5, <1>8
  <1>14. \A i \in 1 .. Len(waiting) : next[Len(read) + i] = number[Len(read) + i]
    BY <1>5, <1>8
  <1>15. Traced(next, read, longer, more, bound)
    <2> HIDE DEF more, longer, last
    <2>1. ASSUME NEW i \in 1 .. Len(read)
          PROVE  /\ read[i].payload = Cut(Cut(more[next[i]].payload, m_mtu), read[i].room)
                 /\ <<read[i].sender, more[next[i]].fd>> \in bound
      <3>1. next[i] = number[i]
        BY <1>13
      <3> QED BY <3>1, <1>3 DEF Traced
    <2>2. ASSUME NEW i \in 1 .. Len(longer)
          PROVE  /\ longer[i].payload = Cut(more[next[Len(read) + i]].payload, m_mtu)
                 /\ <<longer[i].sender, more[next[Len(read) + i]].fd>> \in bound
      <3>1. CASE i = Len(waiting) + 1
        <4>1. Len(read) + i = count + 1
          BY <3>1, <1>5
        <4>2. next[Len(read) + i] = last /\ longer[i] = packet
          BY <3>1, <4>1, <1>4, <1>8
        <4> QED BY <4>2, <1>2
      <3>2. CASE i # Len(waiting) + 1
        <4>1. i \in 1 .. Len(waiting)
          BY <3>2, <1>4, <1>5
        <4>2. next[Len(read) + i] = number[Len(read) + i] /\ longer[i] = waiting[i]
          BY <4>1, <1>4, <1>14
        <4> QED BY <4>1, <4>2, <1>3 DEF Traced
      <3> QED BY <3>1, <3>2
    <2> QED BY <2>1, <2>2 DEF Traced
  <1> HIDE DEF more, longer, count, last, due
  <1>16. CountsOff(next, Len(read) + Len(longer), DueOf(more, ip))
    BY <1>2, <1>6, <1>12 DEF due
  <1>17. Accounted(read, longer, more, bound, ip)
    BY <1>15, <1>16 DEF Accounted
  <1> QED BY <1>17 DEF more, longer

\* The first packet that waits is read.
LEMMA ReadKeepsAccounted ==
    ASSUME NEW sent \in Seq(Sent), NEW ip, NEW bound,
           NEW read \in Seq(Got), NEW waiting \in Seq(Waiting), waiting # << >>,
           Accounted(read, waiting, sent, bound, ip), NEW got \in Got,
           got.sender = Head(waiting).sender,
           got.payload = Cut(Head(waiting).payload, got.room)
    PROVE  Accounted(Append(read, got), Tail(waiting), sent, bound, ip)
  <1> DEFINE longer == Append(read, got)
             rest == Tail(waiting)
  <1>1. PICK number :
          /\ CountsOff(number, Len(read) + Len(waiting), DueOf(sent, ip))
          /\ Traced(number, read, waiting, sent, bound)
    BY DEF Accounted
  <1>2. Len(read) \in Nat /\ Len(waiting) \in Nat /\ Len(waiting) >= 1
    <2>1. Len(waiting) \in Nat /\ Len(waiting) # 0
      OBVIOUS
    <2> QED BY <2>1
  <1>3. Len(longer) = Len(read) + 1 /\ longer[Len(read) + 1] = got
        /\ \A i \in 1 .. Len(read) : longer[i] = read[i]
    OBVIOUS
  <1>4. Len(rest) = Len(waiting) - 1 /\ Head(waiting) = waiting[1]
        /\ \A i \in 1 .. Len(waiting) - 1 : rest[i] = waiting[i + 1]
    OBVIOUS
  <1> HIDE DEF longer, rest
  <1>5. Len(longer) + Len(rest) = Len(read) + Len(waiting)
    BY <1>2, <1>3, <1>4
  <1>6. ASSUME NEW i \in 1 .. Len(longer)
        PROVE  /\ longer[i].payload = Cut(Cut(sent[number[i]].payload, m_mtu), longer[i].room)
               /\ <<longer[i].sender, sent[number[i]].fd>> \in bound
    <2>1. CASE i = Len(read) + 1
      <3>1. 1 \in 1 .. Len(waiting)
        BY <1>2
      <3>2. /\ waiting[1].payload = Cut(sent[number[Len(read) + 1]].payload, m_mtu)
            /\ <<waiting[1].sender, sent[number[Len(read) + 1]].fd>> \in bound
        BY <3>1, <1>1 DEF Traced
      <3>3. longer[i] = got
        BY <2>1, <1>3
      <3> QED BY <2>1, <3>2, <3>3, <1>4
    <2>2. CASE i # Len(read) + 1
      <3>1. i \in 1 .. Len(read) /\ longer[i] = read[i]
        BY <2>2, <1>2, <1>3
      <3> QED BY <3>1, <1>1 DEF Traced
    <2> QED BY <2>1, <2>2
  <1>7. ASSUME NEW i \in 1 .. Len(rest)
        PROVE  /\ rest[i].payload = Cut(sent[number[Len(longer) + i]].payload, m_mtu)
               /\ <<rest[i].sender, sent[number[Len(longer) + i]].fd>> \in bound
    <2>1. i + 1 \in 1 .. Len(waiting) /\ Len(longer) + i = Len(read) + (i + 1)
          /\ i \in 1 .. Len(waiting) - 1
      <3> DEFINE r == Len(read)
                 w == Len(waiting)
      <3>1. r \in Nat /\ w \in Nat /\ i \in 1 .. w - 1 /\ Len(longer) = r + 1
        BY <1>2, <1>3, <1>4
      <3> HIDE DEF r, w
      <3>2. i + 1 \in 1 .. w /\ Len(longer) + i = r + (i + 1)
        BY ONLY <3>1
      <3> QED BY <3>1, <3>2 DEF r, w
    <2>2. rest[i] = waiting[i + 1]
      BY <2>1, <1>4
    <2> QED BY <2>1, <2>2, <1>1 DEF Traced
  <1>8. Traced(number, longer, rest, sent, bound)
    BY <1>6, <1>7 DEF Traced
  <1>9. CountsOff(number, Len(longer) + Len(rest), DueOf(sent, ip))
    BY <1>1, <1>5
  <1> QED BY <1>8, <1>9 DEF Accounted, longer, rest

-----------------------------------------------------------------------------
(* The invariant is preserved.                                               *)

\* Cutting leaves a payload that is no longer than the cut.
LEMMA CutPayload ==
    ASSUME NEW payload \in Payload, NEW room \in Nat
    PROVE  Cut(payload, room) \in Payload /\ Len(Cut(payload, room)) <= room
  <1> DEFINE count == IF Len(payload) < room THEN Len(payload) ELSE room
  <1>1. Len(payload) \in Nat
    BY DEF Payload
  <1>2. count \in 0 .. Len(payload) /\ count <= room
    BY <1>1
  <1>3. Cut(payload, room) = SubSeq(payload, 1, count)
    BY DEF Cut
  <1> HIDE DEF count
  <1>4. SubSeq(payload, 1, count) \in Payload /\ Len(SubSeq(payload, 1, count)) = count
    BY <1>1, <1>2 DEF Payload
  <1> QED BY <1>2, <1>3, <1>4

\* The address of a socket that is bound.
LEMMA FindIpIsBound ==
    ASSUME TypeOK, NEW fd, IsSocketBound(fd)
    PROVE  <<FindIp(fd), fd>> \in m_bind /\ FindIp(fd) \in Ips
  <1>1. PICK bound \in m_bind : bound = CHOOSE one \in m_bind : one[2] = fd
    BY DEF IsSocketBound
  <1>2. bound[2] = fd /\ FindIp(fd) = bound[1]
    BY <1>1 DEF IsSocketBound, FindIp
  <1>3. bound \in Ips \X Fd
    BY DEF TypeOK
  <1>4. bound = <<bound[1], bound[2]>> /\ bound[1] \in Ips
    BY <1>3
  <1> QED BY <1>2, <1>4

\* The counters are numbers.
LEMMA StatsType ==
    /\ DOMAIN NoStats = {"num_sent_packets", "num_read_packets", "num_sent_bytes",
                         "num_read_bytes"}
    /\ NoStats \in [DOMAIN NoStats -> Nat]
  <1>1. DOMAIN NoStats = {"num_sent_packets", "num_read_packets", "num_sent_bytes",
                          "num_read_bytes"}
    BY DEF NoStats
  <1>2. /\ NoStats.num_sent_packets = 0 /\ NoStats.num_read_packets = 0
        /\ NoStats.num_sent_bytes = 0 /\ NoStats.num_read_bytes = 0
    BY DEF NoStats
  <1>3. \A field \in DOMAIN NoStats : NoStats[field] \in Nat
    BY <1>1, <1>2
  <1>4. NoStats = [field \in DOMAIN NoStats |-> NoStats[field]]
    BY Zenon DEF NoStats
  <1> QED BY <1>1, <1>3, <1>4

\* Counting keeps them numbers.
LEMMA CountedStats ==
    ASSUME NEW stats \in [DOMAIN NoStats -> Nat], NEW size \in Nat
    PROVE  /\ SentStats(stats, size) \in [DOMAIN NoStats -> Nat]
           /\ ReadStats(stats, size) \in [DOMAIN NoStats -> Nat]
  <1> DEFINE once == [stats EXCEPT !.num_sent_packets = stats.num_sent_packets + 1]
             read == [stats EXCEPT !.num_read_packets = stats.num_read_packets + 1]
  <1>1. \A field \in DOMAIN NoStats : stats[field] \in Nat
    OBVIOUS
  <1>2. /\ stats.num_sent_packets \in Nat /\ stats.num_read_packets \in Nat
        /\ stats.num_sent_bytes \in Nat /\ stats.num_read_bytes \in Nat
    BY <1>1, StatsType
  <1>3. once \in [DOMAIN NoStats -> Nat] /\ once.num_sent_bytes = stats.num_sent_bytes
        /\ read \in [DOMAIN NoStats -> Nat] /\ read.num_read_bytes = stats.num_read_bytes
    BY <1>2, StatsType
  <1>4. SentStats(stats, size) = [once EXCEPT !.num_sent_bytes = stats.num_sent_bytes + size]
    BY DEF SentStats
  <1>5. ReadStats(stats, size) = [read EXCEPT !.num_read_bytes = stats.num_read_bytes + size]
    BY DEF ReadStats
  <1> HIDE DEF once, read
  <1>6. stats.num_sent_bytes + size \in Nat /\ stats.num_read_bytes + size \in Nat
    BY <1>2
  <1> QED BY <1>3, <1>4, <1>5, <1>6

LEMMA NetworkInit ==
    ASSUME Init
    PROVE  NetworkInv
  <1>1. TypeOK
    <2>1. NoStats \in [DOMAIN NoStats -> Nat]
      BY StatsType
    <2>2. /\ m_next_fd \in 0 .. MaxSockets /\ m_bind \subseteq Ips \X Fd
          /\ m_should_drop_packets \in BOOLEAN /\ cleared \in BOOLEAN
      <3>1. m_next_fd = 0 /\ m_bind = {} /\ m_should_drop_packets = FALSE /\ cleared = FALSE
        BY Zenon DEF Init
      <3>2. 0 \in 0 .. MaxSockets
        BY FakeNetworkConstants
      <3> QED BY <3>1, <3>2
    <2>3. /\ m_stats \in [Ips -> [DOMAIN NoStats -> Nat]]
          /\ m_buffers \in [Ips -> Seq([sender : Ips, payload : Payload])]
          /\ sends \in Seq([fd : Fd, to : Ips, payload : Payload, dropped : BOOLEAN])
          /\ reads \in [Ips -> Seq([sender : Ips, payload : Payload, room : Sizes])]
      BY <2>1 DEF Init
    <2>4. \A ip \in Ips : \A i \in 1 .. Len(m_buffers[ip]) :
            Len(m_buffers[ip][i].payload) <= m_mtu
      BY DEF Init
    <2> QED BY <2>2, <2>3, <2>4 DEF TypeOK
  <1>2. BoundOnce(m_bind)
    BY DEF Init, BoundOnce
  <1>3. ASSUME NEW ip \in Ips PROVE Accounted(<< >>, << >>, << >>, {}, ip)
    <2>1. Len(<< >>) + Len(<< >>) = 0 /\ Len(<< >>) = 0
      OBVIOUS
    <2>2. DueOf(<< >>, ip) = {}
      BY DEF DueOf
    <2>3. CountsOff([i \in 1 .. 0 |-> 0], 0, {})
      BY DEF CountsOff
    <2>4. Traced([i \in 1 .. 0 |-> 0], << >>, << >>, << >>, {})
      BY DEF Traced
    <2> QED BY <2>1, <2>2, <2>3, <2>4 DEF Accounted
  <1> QED BY <1>1, <1>2, <1>3 DEF Init, NetworkInv

\* What the histories and the buffers hold.
LEMMA TypesOf ==
    ASSUME TypeOK
    PROVE  /\ sends \in Seq(Sent)
           /\ \A ip \in Ips : reads[ip] \in Seq(Got) /\ m_buffers[ip] \in Seq(Waiting)
           /\ \A ip \in Ips : m_stats[ip] \in [DOMAIN NoStats -> Nat]
  BY DEF TypeOK, Sent, Got, Waiting

\* UdpSocketBind and Bind.
LEMMA BindStep ==
    ASSUME NetworkInv, m_bind' \subseteq Ips \X Fd, m_next_fd' \in 0 .. MaxSockets,
           m_bind \subseteq m_bind', BoundOnce(m_bind'),
           UNCHANGED <<m_buffers, m_should_drop_packets, m_stats, sends, reads, cleared>>
    PROVE  NetworkInv'
  <1>1. TypeOK /\ \A ip \in Ips : Accounted(reads[ip], m_buffers[ip], sends, m_bind, ip)
    BY DEF NetworkInv
  <1>2. TypeOK'
    BY <1>1 DEF TypeOK
  <1>3. \A ip \in Ips : Accounted(reads[ip], m_buffers[ip], sends, m_bind', ip)
    BY <1>1, BindKeepsAccounted
  <1> QED BY <1>2, <1>3 DEF NetworkInv

\* DropPackets and ClearStats.
LEMMA SettingStep ==
    ASSUME NetworkInv, m_should_drop_packets' \in BOOLEAN, cleared' \in BOOLEAN,
           m_stats' \in [Ips -> [DOMAIN NoStats -> Nat]],
           UNCHANGED <<m_next_fd, m_bind, m_buffers, sends, reads>>
    PROVE  NetworkInv'
  <1>1. TypeOK'
    BY DEF TypeOK, NetworkInv
  <1> QED BY <1>1 DEF NetworkInv

LEMMA UdpSocketBindStep ==
    ASSUME NetworkInv, NEW ip \in Ips, UdpSocketBind(ip)
    PROVE  NetworkInv'
  <1>1. m_next_fd \in 0 .. MaxSockets /\ m_next_fd < MaxSockets /\ MaxSockets \in Nat
        /\ m_bind \subseteq Ips \X Fd
    BY FakeNetworkConstants DEF UdpSocketBind, NetworkInv, TypeOK
  <1>2. m_next_fd' \in 0 .. MaxSockets /\ m_next_fd \in Fd
    BY <1>1 DEF UdpSocketBind, Fd
  <1>3. m_bind' \subseteq Ips \X Fd /\ m_bind \subseteq m_bind' /\ BoundOnce(m_bind')
    <2>1. CASE IsTaken(m_next_fd, ip)
      BY <2>1, <1>1 DEF UdpSocketBind, NetworkInv
    <2>2. CASE ~IsTaken(m_next_fd, ip)
      <3>1. m_bind' = m_bind \cup {<<ip, m_next_fd>>}
        BY <2>2 DEF UdpSocketBind
      <3>2. BoundOnce(m_bind \cup {<<ip, m_next_fd>>})
        BY <2>2, BindKeepsBoundOnce DEF NetworkInv
      <3> QED BY <3>1, <3>2, <1>1, <1>2
    <2> QED BY <2>1, <2>2
  <1> QED BY <1>2, <1>3, BindStep DEF UdpSocketBind

LEMMA BindOpenStep ==
    ASSUME NetworkInv, NEW fd \in Fd, NEW ip \in Ips, Bind(fd, ip)
    PROVE  NetworkInv'
  <1>1. m_next_fd \in 0 .. MaxSockets /\ m_bind \subseteq Ips \X Fd
    BY DEF NetworkInv, TypeOK
  <1>2. BoundOnce(m_bind \cup {<<ip, fd>>})
    BY BindKeepsBoundOnce DEF NetworkInv, Bind
  <1> QED BY <1>1, <1>2, BindStep DEF Bind

LEMMA SendToStep ==
    ASSUME NetworkInv, NEW fd \in Fd, NEW ip \in Ips, NEW size \in Sizes, SendTo(fd, ip, size)
    PROVE  NetworkInv'
  <1> DEFINE payload == [i \in 1 .. size |-> <<Len(sends) + 1, i>>]
             new == [fd |-> fd, to |-> ip, payload |-> payload, dropped |-> m_should_drop_packets]
             sender == FindIp(fd)
             packet == [sender |-> sender, payload |-> Cut(payload, m_mtu)]
  <1>1. /\ TypeOK /\ BoundOnce(m_bind)
        /\ \A at \in Ips : Accounted(reads[at], m_buffers[at], sends, m_bind, at)
    BY DEF NetworkInv
  <1>2. /\ Len(sends) < MaxSends
        /\ IsSocketBound(fd)
        /\ m_stats' = [m_stats EXCEPT ![sender] = SentStats(@, size)]
        /\ m_buffers' = IF m_should_drop_packets THEN m_buffers
                        ELSE [m_buffers EXCEPT ![ip] = Pushed(@, packet)]
        /\ sends' = Append(sends, new)
        /\ UNCHANGED <<m_next_fd, m_bind, m_should_drop_packets, reads, cleared>>
    BY DEF SendTo
  <1>3. size \in Nat /\ Len(sends) \in Nat /\ MaxSends \in Nat /\ m_mtu \in Nat
    BY <1>1, TypesOf, FakeNetworkConstants
  <1>4. payload \in Payload
    <2>1. \A i \in 1 .. size : <<Len(sends) + 1, i>> \in (1 .. MaxSends) \X Nat
      BY <1>2, <1>3
    <2> QED BY <2>1, <1>3 DEF Payload
  <1>5. <<sender, fd>> \in m_bind /\ sender \in Ips
    BY <1>1, <1>2, FindIpIsBound
  <1> HIDE DEF payload, sender
  <1>6. new \in Sent /\ new.to = ip /\ new.dropped = m_should_drop_packets
        /\ new.payload = payload /\ new.fd = fd
    BY <1>1, <1>4 DEF Sent, TypeOK
  <1>7. packet \in Waiting /\ Len(packet.payload) <= m_mtu
        /\ packet.sender = sender /\ packet.payload = Cut(payload, m_mtu)
    BY <1>3, <1>4, <1>5, CutPayload DEF Waiting
  <1> HIDE DEF new, packet
  <1>8. sends \in Seq(Sent) /\ sends' \in Seq(Sent)
        /\ \A at \in Ips : reads[at] \in Seq(Got) /\ m_buffers[at] \in Seq(Waiting)
    BY <1>1, <1>2, <1>6, TypesOf
  <1>9. m_stats' \in [Ips -> [DOMAIN NoStats -> Nat]]
    <2>1. m_stats \in [Ips -> [DOMAIN NoStats -> Nat]] /\ m_stats[sender] \in [DOMAIN NoStats -> Nat]
      BY <1>1, <1>5 DEF TypeOK
    <2>2. SentStats(m_stats[sender], size) \in [DOMAIN NoStats -> Nat]
      BY <2>1, <1>3, CountedStats
    <2> QED BY <2>1, <2>2, <1>2
  <1>10. CASE m_should_drop_packets
    <2>1. m_buffers' = m_buffers
      BY <1>2, <1>10
    <2>2. TypeOK'
      BY <1>1, <1>2, <1>8, <1>9, <2>1 DEF TypeOK, Sent
    <2>3. ASSUME NEW at \in Ips
          PROVE  Accounted(reads[at], m_buffers[at], sends', m_bind, at)
      BY <1>1, <1>2, <1>6, <1>8, <1>10, OtherSendKeepsAccounted
    <2> QED BY <1>1, <1>2, <2>1, <2>2, <2>3 DEF NetworkInv
  <1>11. CASE ~m_should_drop_packets
    <2>1. m_buffers' = [m_buffers EXCEPT ![ip] = Append(@, packet)]
      BY <1>2, <1>11 DEF Pushed
    <2>2. m_buffers \in [Ips -> Seq(Waiting)]
      BY <1>1 DEF TypeOK, Waiting
    <2>3. m_buffers' \in [Ips -> Seq(Waiting)] /\ m_buffers'[ip] = Append(m_buffers[ip], packet)
          /\ \A at \in Ips \ {ip} : m_buffers'[at] = m_buffers[at]
      BY <1>7, <1>8, <2>1, <2>2
    <2>4. \A at \in Ips : \A i \in 1 .. Len(m_buffers'[at]) :
            Len(m_buffers'[at][i].payload) <= m_mtu
      <3> SUFFICES ASSUME NEW at \in Ips, NEW i \in 1 .. Len(m_buffers'[at])
                   PROVE  Len(m_buffers'[at][i].payload) <= m_mtu
        OBVIOUS
      <3>1. \A j \in 1 .. Len(m_buffers[at]) : Len(m_buffers[at][j].payload) <= m_mtu
        BY <1>1 DEF TypeOK
      <3>2. CASE at = ip
        <4> DEFINE waiting == m_buffers[ip]
        <4>1. waiting \in Seq(Waiting) /\ Len(waiting) \in Nat
          BY <1>8
        <4>2. Len(Append(waiting, packet)) = Len(waiting) + 1
              /\ Append(waiting, packet)[Len(waiting) + 1] = packet
              /\ \A j \in 1 .. Len(waiting) : Append(waiting, packet)[j] = waiting[j]
          BY <4>1
        <4> HIDE DEF waiting
        <4>3. i = Len(waiting) + 1 \/ i \in 1 .. Len(waiting)
          BY <3>2, <4>1, <4>2, <2>3 DEF waiting
        <4> QED BY <3>1, <3>2, <4>2, <4>3, <2>3, <1>7 DEF waiting
      <3>3. CASE at # ip
        BY <3>1, <3>3, <2>3
      <3> QED BY <3>2, <3>3
    <2>5. TypeOK'
      BY <1>1, <1>2, <1>8, <1>9, <2>3, <2>4 DEF TypeOK, Sent, Waiting
    <2>6. ASSUME NEW at \in Ips
          PROVE  Accounted(reads[at], m_buffers'[at], sends', m_bind, at)
      <3>1. CASE at = ip
        <4>1. Accounted(reads[ip], Append(m_buffers[ip], packet), Append(sends, new), m_bind, ip)
          BY <1>1, <1>5, <1>6, <1>7, <1>8, <1>11, SendKeepsAccounted
        <4> QED BY <3>1, <4>1, <2>3, <1>2
      <3>2. CASE at # ip
        <4>1. Accounted(reads[at], m_buffers[at], Append(sends, new), m_bind, at)
          BY <3>2, <1>1, <1>6, <1>8, OtherSendKeepsAccounted
        <4> QED BY <3>2, <4>1, <2>3, <1>2
      <3> QED BY <3>1, <3>2
    <2> QED BY <1>1, <1>2, <2>5, <2>6 DEF NetworkInv
  <1> QED BY <1>10, <1>11

LEMMA ReadFromSocketStep ==
    ASSUME NetworkInv, NEW fd \in Fd, NEW room \in Sizes, ReadFromSocket(fd, room)
    PROVE  NetworkInv'
  <1> DEFINE ip == FindIp(fd)
             waiting == m_buffers[ip]
             packet == Head(waiting)
             got == [sender |-> packet.sender, payload |-> Cut(packet.payload, room),
                     room |-> room]
  <1>1. /\ TypeOK /\ BoundOnce(m_bind)
        /\ \A at \in Ips : Accounted(reads[at], m_buffers[at], sends, m_bind, at)
    BY DEF NetworkInv
  <1>2. /\ IsSocketBound(fd)
        /\ waiting # << >>
        /\ m_buffers' = [m_buffers EXCEPT ![ip] = Tail(waiting)]
        /\ m_stats' = [m_stats EXCEPT ![ip] = ReadStats(@, Len(packet.payload))]
        /\ reads' = [reads EXCEPT ![ip] = Append(reads[ip], got)]
        /\ UNCHANGED <<m_next_fd, m_bind, m_should_drop_packets, sends, cleared>>
    BY Zenon DEF ReadFromSocket
  <1>3. ip \in Ips
    BY <1>1, <1>2, FindIpIsBound
  <1> HIDE DEF ip
  <1>4. /\ m_buffers \in [Ips -> Seq(Waiting)] /\ reads \in [Ips -> Seq(Got)]
        /\ sends \in Seq(Sent) /\ waiting \in Seq(Waiting) /\ reads[ip] \in Seq(Got)
    BY <1>1, <1>3 DEF TypeOK, Waiting, Got, Sent
  <1>5. Len(waiting) \in Nat /\ Len(waiting) >= 1 /\ packet = waiting[1] /\ packet \in Waiting
        /\ Tail(waiting) \in Seq(Waiting) /\ Len(Tail(waiting)) = Len(waiting) - 1
        /\ \A i \in 1 .. Len(waiting) - 1 : Tail(waiting)[i] = waiting[i + 1]
    <2> HIDE DEF waiting
    <2>1. Len(waiting) \in Nat /\ Len(waiting) # 0
      BY <1>2, <1>4
    <2>2. Len(waiting) >= 1 /\ packet = waiting[1]
      BY <2>1
    <2>3. packet \in Waiting
      BY <2>1, <2>2, <1>4
    <2> QED BY <2>1, <2>2, <2>3, <1>2, <1>4
  <1> HIDE DEF packet
  <1>6. packet.payload \in Payload /\ packet.sender \in Ips /\ Len(packet.payload) \in Nat
        /\ room \in Nat
    BY <1>5, FakeNetworkConstants DEF Waiting, Payload
  <1>7. got \in Got /\ got.sender = packet.sender /\ got.room = room
        /\ got.payload = Cut(packet.payload, got.room)
    BY <1>6, CutPayload DEF Got
  <1> HIDE DEF got
  <1>8. m_stats' \in [Ips -> [DOMAIN NoStats -> Nat]]
    <2>1. m_stats \in [Ips -> [DOMAIN NoStats -> Nat]] /\ m_stats[ip] \in [DOMAIN NoStats -> Nat]
      BY <1>1, <1>3 DEF TypeOK
    <2>2. ReadStats(m_stats[ip], Len(packet.payload)) \in [DOMAIN NoStats -> Nat]
      BY <2>1, <1>6, CountedStats
    <2> QED BY <2>1, <2>2, <1>2
  <1>9. reads' \in [Ips -> Seq(Got)] /\ reads'[ip] = Append(reads[ip], got)
        /\ \A at \in Ips \ {ip} : reads'[at] = reads[at]
    BY <1>2, <1>3, <1>4, <1>7
  <1>10. m_buffers' \in [Ips -> Seq(Waiting)] /\ m_buffers'[ip] = Tail(waiting)
         /\ \A at \in Ips \ {ip} : m_buffers'[at] = m_buffers[at]
    <2> HIDE DEF waiting
    <2> QED BY <1>2, <1>3, <1>4, <1>5
  <1>11. \A at \in Ips : \A i \in 1 .. Len(m_buffers'[at]) :
           Len(m_buffers'[at][i].payload) <= m_mtu
    <2> SUFFICES ASSUME NEW at \in Ips, NEW i \in 1 .. Len(m_buffers'[at])
                 PROVE  Len(m_buffers'[at][i].payload) <= m_mtu
      OBVIOUS
    <2>1. \A j \in 1 .. Len(m_buffers[at]) : Len(m_buffers[at][j].payload) <= m_mtu
      BY <1>1 DEF TypeOK
    <2>2. CASE at = ip
      <3>1. i \in 1 .. Len(waiting) - 1
        BY <2>2, <1>5, <1>10
      <3>2. i + 1 \in 1 .. Len(waiting)
        <4> HIDE DEF waiting
        <4> QED BY <3>1, <1>5
      <3>3. m_buffers'[at][i] = waiting[i + 1]
        BY <2>2, <3>1, <1>5, <1>10
      <3> QED BY <2>1, <2>2, <3>2, <3>3
    <2>3. CASE at # ip
      BY <2>1, <2>3, <1>10
    <2> QED BY <2>2, <2>3
  <1>12. TypeOK'
    BY <1>1, <1>2, <1>8, <1>9, <1>10, <1>11 DEF TypeOK, Waiting, Got
  <1>13. ASSUME NEW at \in Ips
         PROVE  Accounted(reads'[at], m_buffers'[at], sends, m_bind, at)
    <2>1. CASE at = ip
      <3>1. Accounted(reads[ip], waiting, sends, m_bind, ip)
        BY <1>1, <1>3
      <3> HIDE DEF waiting
      <3>2. got.sender = Head(waiting).sender /\ got.payload = Cut(Head(waiting).payload, got.room)
        BY <1>7 DEF packet
      <3>3. Accounted(Append(reads[ip], got), Tail(waiting), sends, m_bind, ip)
        BY <3>1, <3>2, <1>2, <1>4, <1>7, ReadKeepsAccounted
      <3> QED BY <2>1, <3>3, <1>9, <1>10
    <2>2. CASE at # ip
      BY <2>2, <1>1, <1>9, <1>10
    <2> QED BY <2>1, <2>2
  <1> QED BY <1>1, <1>2, <1>12, <1>13 DEF NetworkInv

LEMMA NetworkStep ==
    ASSUME NetworkInv, [Next]_vars
    PROVE  NetworkInv'
  <1>1. CASE \E ip \in Ips : UdpSocketBind(ip)
    BY <1>1, UdpSocketBindStep
  <1>2. CASE \E fd \in 0 .. MaxSockets - 1, ip \in Ips : Bind(fd, ip)
    BY <1>2, BindOpenStep DEF Fd
  <1>3. CASE \E fd \in 0 .. MaxSockets - 1, ip \in Ips : \E size \in Sizes : SendTo(fd, ip, size)
    BY <1>3, SendToStep DEF Fd
  <1>4. CASE \E fd \in 0 .. MaxSockets - 1, room \in Sizes : ReadFromSocket(fd, room)
    BY <1>4, ReadFromSocketStep DEF Fd
  <1>5. CASE \E should_drop_packets \in BOOLEAN : DropPackets(should_drop_packets)
    BY <1>5, SettingStep DEF DropPackets, NetworkInv, TypeOK
  <1>6. CASE ClearStats
    <2>1. [ip \in Ips |-> NoStats] \in [Ips -> [DOMAIN NoStats -> Nat]]
      BY StatsType
    <2> QED BY <1>6, <2>1, SettingStep DEF ClearStats, NetworkInv, TypeOK
  <1>7. CASE UNCHANGED vars
    BY <1>7, SettingStep DEF vars, networkVars, NetworkInv, TypeOK
  <1> QED BY <1>1, <1>2, <1>3, <1>4, <1>5, <1>6, <1>7 DEF Next

-----------------------------------------------------------------------------
(* The theorems.                                                             *)

\* The inductive invariant holds in every reachable state.
LEMMA NetworkInvAlways == Spec => []NetworkInv
  <1>1. Init => NetworkInv
    BY NetworkInit
  <1>2. NetworkInv /\ [Next]_vars => NetworkInv'
    BY NetworkStep
  <1> QED BY <1>1, <1>2, PTL DEF Spec

\* The members of FakeNetwork keep their types, and no packet that waits is longer
\* than the MTU.
THEOREM TypeCorrect == Spec => []TypeOK
  <1>1. NetworkInv => TypeOK
    BY DEF NetworkInv
  <1> QED BY <1>1, NetworkInvAlways, PTL

\* The numbering of the invariant is one of Numberings.
LEMMA HasNumbering ==
    ASSUME NetworkInv, NEW ip \in Ips
    PROVE  \E number \in Numberings(ip) :
             Traced(number, reads[ip], m_buffers[ip], sends, m_bind)
  <1> DEFINE count == Len(reads[ip]) + Len(m_buffers[ip])
             due == DueOf(sends, ip)
  <1>1. PICK number :
          /\ CountsOff(number, count, due)
          /\ Traced(number, reads[ip], m_buffers[ip], sends, m_bind)
    BY DEF NetworkInv, Accounted
  <1>2. Due(ip) = due
    BY DEF Due, DueOf
  <1> HIDE DEF count, due
  <1>3. /\ number \in [1 .. count -> due] /\ DOMAIN number = 1 .. count
        /\ \A i, j \in 1 .. count : i < j => number[i] < number[j]
        /\ \A n \in due : \E i \in 1 .. count : number[i] = n
    BY <1>1 DEF CountsOff
  <1>4. number \in {num \in [1 .. count -> due] :
                      /\ \A i, j \in DOMAIN num : i < j => num[i] < num[j]
                      /\ \A n \in due : \E i \in DOMAIN num : num[i] = n}
    BY <1>3
  <1>5. number \in Numberings(ip)
    BY <1>2, <1>4, Zenon DEF Numberings, count
  <1> QED BY <1>1, <1>5

\* FakeNetwork delivers, of the packets it was not told to drop, every one once, in
\* order, cut at the MTU and at the reader's buffer and nowhere else.
THEOREM NetworkDelivers == Spec => []DeliversAllInOrder
  <1>1. NetworkInv => DeliversAllInOrder
    <2> SUFFICES ASSUME NetworkInv, NEW ip \in Ips
                 PROVE  \E number \in Numberings(ip) :
                          /\ \A i \in 1 .. Len(reads[ip]) :
                               reads[ip][i].payload =
                                  Cut(Cut(sends[number[i]].payload, m_mtu), reads[ip][i].room)
                          /\ \A i \in 1 .. Len(m_buffers[ip]) :
                               m_buffers[ip][i].payload =
                                  Cut(sends[number[Len(reads[ip]) + i]].payload, m_mtu)
      BY DEF DeliversAllInOrder
    <2>1. PICK number \in Numberings(ip) :
            Traced(number, reads[ip], m_buffers[ip], sends, m_bind)
      BY HasNumbering
    <2> QED BY <2>1 DEF Traced
  <1> QED BY <1>1, NetworkInvAlways, PTL

\* The sender that read_from_socket names is bound to the socket that sent the
\* packet and to no other, whatever sockets were opened and failed to bind.
THEOREM AnswersReachTheirSender == Spec => []AnswerReachesSender
  <1>1. NetworkInv => AnswerReachesSender
    <2> SUFFICES ASSUME NetworkInv, NEW ip \in Ips
                 PROVE  \E number \in Numberings(ip) :
                          \A i \in 1 .. Len(reads[ip]) : \A fd \in Fd :
                            <<reads[ip][i].sender, fd>> \in m_bind <=> fd = sends[number[i]].fd
      BY DEF AnswerReachesSender
    <2>1. PICK number \in Numberings(ip) :
            Traced(number, reads[ip], m_buffers[ip], sends, m_bind)
      BY HasNumbering
    <2>2. ASSUME NEW i \in 1 .. Len(reads[ip]), NEW fd \in Fd
          PROVE  <<reads[ip][i].sender, fd>> \in m_bind <=> fd = sends[number[i]].fd
      <3> DEFINE sender == reads[ip][i].sender
                 socket == sends[number[i]].fd
      <3>1. <<sender, socket>> \in m_bind
        BY <2>1 DEF Traced
      <3>2. BoundOnce(m_bind)
        BY DEF NetworkInv
      <3> HIDE DEF sender, socket
      <3>3. <<sender, fd>> \in m_bind <=> fd = socket
        BY <3>1, <3>2 DEF BoundOnce
      <3> QED BY <3>3 DEF sender, socket
    <2> QED BY <2>1, <2>2
  <1> QED BY <1>1, NetworkInvAlways, PTL

-----------------------------------------------------------------------------
(* The counters.                                                             *)

\* Every packet came from a socket that is bound, and the counters count what the
\* histories hold.
CountInv ==
    /\ \A n \in 1 .. Len(sends) : \E ip \in Ips : <<ip, sends[n].fd>> \in m_bind
    /\ ~cleared => \A ip \in Ips :
         /\ m_stats[ip].num_sent_packets = Cardinality(SentFrom(ip))
         /\ m_stats[ip].num_read_packets = Len(reads[ip])

LEMMA CountedPackets ==
    ASSUME NEW stats \in [DOMAIN NoStats -> Nat], NEW size \in Nat
    PROVE  /\ SentStats(stats, size).num_sent_packets = stats.num_sent_packets + 1
           /\ SentStats(stats, size).num_read_packets = stats.num_read_packets
           /\ ReadStats(stats, size).num_read_packets = stats.num_read_packets + 1
           /\ ReadStats(stats, size).num_sent_packets = stats.num_sent_packets
  <1>1. DOMAIN stats = {"num_sent_packets", "num_read_packets", "num_sent_bytes",
                        "num_read_bytes"}
    BY StatsType
  <1> QED BY <1>1 DEF SentStats, ReadStats

\* The numbers of what was sent from an address.
LEMMA SentFromFinite ==
    ASSUME TypeOK, NEW ip
    PROVE  /\ IsFiniteSet(SentFrom(ip)) /\ Cardinality(SentFrom(ip)) \in Nat
           /\ Len(sends) + 1 \notin SentFrom(ip)
  <1>1. Len(sends) \in Nat
    BY TypesOf
  <1>2. IsFiniteSet(1 .. Len(sends))
    BY <1>1, FS_Interval
  <1>3. SentFrom(ip) \in SUBSET (1 .. Len(sends))
    BY DEF SentFrom
  <1>4. IsFiniteSet(SentFrom(ip))
    BY <1>2, <1>3, FS_Subset
  <1>5. Len(sends) + 1 \notin 1 .. Len(sends)
    BY <1>1
  <1> QED BY <1>3, <1>4, <1>5, FS_CardinalityType

\* What is due at an address was read there or waits.
LEMMA DueCount ==
    ASSUME NetworkInv, NEW ip \in Ips
    PROVE  Cardinality(Due(ip)) = Len(reads[ip]) + Len(m_buffers[ip])
  <1> DEFINE count == Len(reads[ip]) + Len(m_buffers[ip])
             due == DueOf(sends, ip)
  <1>1. PICK number : CountsOff(number, count, due)
    BY DEF NetworkInv, Accounted
  <1>2. Due(ip) = due
    BY DEF Due, DueOf
  <1>3. Len(reads[ip]) \in Nat /\ Len(m_buffers[ip]) \in Nat
    BY TypesOf DEF NetworkInv
  <1>4. count \in Nat
    <2> DEFINE read == Len(reads[ip])
               waiting == Len(m_buffers[ip])
    <2>1. read \in Nat /\ waiting \in Nat
      BY <1>3
    <2> HIDE DEF read, waiting
    <2>2. read + waiting \in Nat
      BY <2>1
    <2> QED BY <2>2 DEF read, waiting
  <1>5. \A n \in due : n \in Nat
    <2>1. Len(sends) \in Nat
      BY TypesOf DEF NetworkInv
    <2> QED BY <2>1 DEF DueOf
  <1> HIDE DEF count, due
  <1>6. /\ number \in [1 .. count -> due]
        /\ \A i, j \in 1 .. count : i < j => number[i] < number[j]
        /\ \A n \in due : \E i \in 1 .. count : number[i] = n
    BY <1>1 DEF CountsOff
  <1>7. ASSUME NEW i \in 1 .. count, NEW j \in 1 .. count, number[i] = number[j]
        PROVE  i = j
    <2>1. number[i] \in Nat /\ number[j] \in Nat
      BY <1>5, <1>6
    <2>2. i < j \/ j < i \/ i = j
      BY <1>4
    <2> QED BY <1>6, <1>7, <2>1, <2>2
  <1>8. DOMAIN number = 1 .. count
    BY <1>6
  <1>9. number \in Bijection(1 .. count, due)
    BY <1>6, <1>7, <1>8 DEF Bijection, Injection, Surjection, IsInjective
  <1>10. IsFiniteSet(1 .. count) /\ Cardinality(1 .. count) = count
    <2>1. /\ IsFiniteSet(1 .. count)
          /\ Cardinality(1 .. count) = IF 1 > count THEN 0 ELSE count - 1 + 1
      BY <1>4, FS_Interval
    <2> QED BY <1>4, <2>1
  <1>11. Cardinality(due) = count
    BY <1>9, <1>10, FS_Bijection DEF ExistsBijection
  <1> QED BY <1>2, <1>11 DEF count

\* Nothing is counted, sent or read.
LEMMA CountFrame ==
    ASSUME CountInv, UNCHANGED <<m_bind, m_stats, sends, reads, cleared>>
    PROVE  CountInv'
  BY DEF CountInv, SentFrom

\* A socket is bound; none that has sent was not.
LEMMA CountBind ==
    ASSUME CountInv, m_bind \subseteq m_bind', BoundOnce(m_bind'),
           UNCHANGED <<m_stats, sends, reads, cleared>>
    PROVE  CountInv'
  <1>1. ASSUME NEW ip, NEW n \in 1 .. Len(sends)
        PROVE  <<ip, sends[n].fd>> \in m_bind' <=> <<ip, sends[n].fd>> \in m_bind
    <2>1. PICK at \in Ips : <<at, sends[n].fd>> \in m_bind
      BY DEF CountInv
    <2>2. <<ip, sends[n].fd>> \in m_bind' => <<ip, sends[n].fd>> = <<at, sends[n].fd>>
      BY <2>1 DEF BoundOnce
    <2> QED BY <2>1, <2>2
  <1>2. \A ip : SentFrom(ip)' = SentFrom(ip)
    BY <1>1 DEF SentFrom
  <1> QED BY <1>2 DEF CountInv

LEMMA CountSendTo ==
    ASSUME NetworkInv, CountInv, NEW fd \in Fd, NEW ip \in Ips, NEW size \in Sizes,
           SendTo(fd, ip, size)
    PROVE  CountInv'
  <1> DEFINE sender == FindIp(fd)
             last == Len(sends) + 1
  <1>1. TypeOK /\ BoundOnce(m_bind) /\ sends \in Seq(Sent) /\ Len(sends) \in Nat
    BY TypesOf DEF NetworkInv
  <1>2. PICK new :
          /\ new.fd = fd
          /\ sends' = Append(sends, new)
          /\ IsSocketBound(fd)
          /\ m_stats' = [m_stats EXCEPT ![sender] = SentStats(@, size)]
          /\ UNCHANGED <<m_bind, reads, cleared>>
    BY DEF SendTo
  <1>3. <<sender, fd>> \in m_bind /\ sender \in Ips /\ size \in Nat
    BY <1>1, <1>2, FindIpIsBound, FakeNetworkConstants
  <1> HIDE DEF sender
  <1>4. /\ Len(sends') = last /\ sends'[last] = new
        /\ \A n \in 1 .. Len(sends) : sends'[n] = sends[n]
    BY <1>1, <1>2
  <1>5. \A n : n \in 1 .. last <=> n \in 1 .. Len(sends) \/ n = last
    BY <1>1
  <1> HIDE DEF last
  <1>6. \A n \in 1 .. Len(sends') : \E at \in Ips : <<at, sends'[n].fd>> \in m_bind'
    BY <1>2, <1>3, <1>4, <1>5 DEF CountInv
  <1>7. \A at : <<at, fd>> \in m_bind <=> at = sender
    <2>1. \A at : <<at, fd>> \in m_bind => <<at, fd>> = <<sender, fd>>
      BY <1>1, <1>3 DEF BoundOnce
    <2> QED BY <1>3, <2>1
  <1>8. \A at : SentFrom(at)' = IF at = sender THEN SentFrom(at) \cup {last} ELSE SentFrom(at)
    <2>1. ASSUME NEW at, NEW n
          PROVE  n \in SentFrom(at)' <=> n \in SentFrom(at) \/ (n = last /\ at = sender)
      <3>1. last \notin 1 .. Len(sends)
        BY <1>1 DEF last
      <3> QED BY <1>2, <1>4, <1>5, <1>7, <3>1 DEF SentFrom
    <2> QED BY <2>1
  <1>9. /\ m_stats'[sender] = SentStats(m_stats[sender], size)
        /\ \A at \in Ips \ {sender} : m_stats'[at] = m_stats[at]
    BY <1>1, <1>2, <1>3 DEF TypeOK
  <1>10. /\ m_stats'[sender].num_sent_packets = m_stats[sender].num_sent_packets + 1
         /\ m_stats'[sender].num_read_packets = m_stats[sender].num_read_packets
    <2>1. m_stats[sender] \in [DOMAIN NoStats -> Nat]
      BY <1>1, <1>3, TypesOf
    <2> QED BY <1>3, <1>9, <2>1, CountedPackets
  <1>11. Cardinality(SentFrom(sender) \cup {last}) = Cardinality(SentFrom(sender)) + 1
    BY <1>1, SentFromFinite, FS_AddElement DEF last
  <1>12. ASSUME ~cleared', NEW at \in Ips
         PROVE  /\ m_stats'[at].num_sent_packets = Cardinality(SentFrom(at)')
                /\ m_stats'[at].num_read_packets = Len(reads'[at])
    <2>1. /\ m_stats[at].num_sent_packets = Cardinality(SentFrom(at))
          /\ m_stats[at].num_read_packets = Len(reads[at])
      BY <1>2, <1>12 DEF CountInv
    <2>2. CASE at = sender
      BY <1>2, <1>8, <1>10, <1>11, <2>1, <2>2
    <2>3. CASE at # sender
      BY <1>2, <1>8, <1>9, <2>1, <2>3
    <2> QED BY <2>2, <2>3
  <1> QED BY <1>6, <1>12 DEF CountInv

LEMMA CountRead ==
    ASSUME NetworkInv, CountInv, NEW fd \in Fd, NEW room \in Sizes, ReadFromSocket(fd, room)
    PROVE  CountInv'
  <1> DEFINE ip == FindIp(fd)
             size == Len(Head(m_buffers[ip]).payload)
  <1>1. TypeOK /\ reads \in [Ips -> Seq(Got)]
    BY DEF NetworkInv, TypeOK, Got
  <1>2. PICK got :
          /\ IsSocketBound(fd)
          /\ m_buffers[ip] # << >>
          /\ m_stats' = [m_stats EXCEPT ![ip] = ReadStats(@, size)]
          /\ reads' = [reads EXCEPT ![ip] = Append(@, got)]
          /\ UNCHANGED <<m_bind, sends, cleared>>
    BY Zenon DEF ReadFromSocket
  <1>3. ip \in Ips
    BY <1>1, <1>2, FindIpIsBound
  <1> HIDE DEF ip
  <1>4. size \in Nat
    <2>1. m_buffers[ip] \in Seq(Waiting)
      BY <1>1, <1>3, TypesOf
    <2>2. Head(m_buffers[ip]) \in Waiting
      BY <1>2, <2>1
    <2> QED BY <2>2 DEF Waiting, Payload
  <1> HIDE DEF size
  <1>5. /\ m_stats'[ip] = ReadStats(m_stats[ip], size)
        /\ \A at \in Ips \ {ip} : m_stats'[at] = m_stats[at]
    BY <1>1, <1>2, <1>3 DEF TypeOK
  <1>6. /\ m_stats'[ip].num_read_packets = m_stats[ip].num_read_packets + 1
        /\ m_stats'[ip].num_sent_packets = m_stats[ip].num_sent_packets
    <2>1. m_stats[ip] \in [DOMAIN NoStats -> Nat]
      BY <1>1, <1>3, TypesOf
    <2> QED BY <1>4, <1>5, <2>1, CountedPackets
  <1>7. /\ Len(reads'[ip]) = Len(reads[ip]) + 1
        /\ \A at \in Ips \ {ip} : reads'[at] = reads[at]
    <2>1. reads'[ip] = Append(reads[ip], got) /\ reads[ip] \in Seq(Got)
      BY <1>1, <1>2, <1>3
    <2>2. Len(Append(reads[ip], got)) = Len(reads[ip]) + 1
      BY <2>1
    <2> QED BY <1>1, <1>2, <2>1, <2>2
  <1>8. \A at : SentFrom(at)' = SentFrom(at)
    BY <1>2 DEF SentFrom
  <1>9. ASSUME ~cleared', NEW at \in Ips
        PROVE  /\ m_stats'[at].num_sent_packets = Cardinality(SentFrom(at)')
               /\ m_stats'[at].num_read_packets = Len(reads'[at])
    <2>1. /\ m_stats[at].num_sent_packets = Cardinality(SentFrom(at))
          /\ m_stats[at].num_read_packets = Len(reads[at])
      BY <1>2, <1>9 DEF CountInv
    <2>2. CASE at = ip
      BY <1>6, <1>7, <1>8, <2>1, <2>2
    <2>3. CASE at # ip
      BY <1>5, <1>7, <1>8, <2>1, <2>3
    <2> QED BY <2>2, <2>3
  <1> QED BY <1>2, <1>9 DEF CountInv

LEMMA CountStep ==
    ASSUME NetworkInv, NetworkInv', CountInv, [Next]_vars
    PROVE  CountInv'
  <1>1. BoundOnce(m_bind')
    BY DEF NetworkInv
  <1>2. CASE \E ip \in Ips : UdpSocketBind(ip)
    BY <1>1, <1>2, CountBind DEF UdpSocketBind
  <1>3. CASE \E fd \in 0 .. MaxSockets - 1, ip \in Ips : Bind(fd, ip)
    BY <1>1, <1>3, CountBind DEF Bind
  <1>4. CASE \E fd \in 0 .. MaxSockets - 1, ip \in Ips : \E size \in Sizes : SendTo(fd, ip, size)
    BY <1>4, CountSendTo DEF Fd
  <1>5. CASE \E fd \in 0 .. MaxSockets - 1, room \in Sizes : ReadFromSocket(fd, room)
    BY <1>5, CountRead DEF Fd
  <1>6. CASE \E should_drop_packets \in BOOLEAN : DropPackets(should_drop_packets)
    BY <1>6, CountFrame DEF DropPackets
  <1>7. CASE ClearStats
    BY <1>7 DEF ClearStats, CountInv
  <1>8. CASE UNCHANGED vars
    BY <1>8, CountFrame DEF vars, networkVars
  <1> QED BY <1>2, <1>3, <1>4, <1>5, <1>6, <1>7, <1>8 DEF Next

\* The counters of FakeNetwork, which its tests and those of Neptun compare with what
\* was sent, are exact at every address until clear_stats is called.
THEOREM CountersBalance == Spec => []StatsBalance
  <1>1. Init => CountInv
    <2> SUFFICES ASSUME Init PROVE CountInv
      OBVIOUS
    <2>1. Len(<< >>) = 0 /\ sends = << >>
      BY DEF Init
    <2>2. \A ip : SentFrom(ip) = {}
      BY <2>1 DEF SentFrom
    <2>3. \A ip \in Ips :
            /\ m_stats[ip].num_sent_packets = 0 /\ m_stats[ip].num_read_packets = 0
            /\ reads[ip] = << >>
      BY DEF Init, NoStats
    <2>4. \A n \in 1 .. Len(sends) : FALSE
      BY <2>1
    <2>5. \A ip : Cardinality(SentFrom(ip)) = 0
      BY <2>2, FS_EmptySet
    <2>6. \A ip \in Ips : Len(reads[ip]) = 0
      BY <2>1, <2>3
    <2> QED BY <2>3, <2>4, <2>5, <2>6 DEF CountInv
  <1>2. NetworkInv /\ NetworkInv' /\ CountInv /\ [Next]_vars => CountInv'
    BY CountStep
  <1>3. NetworkInv /\ CountInv => StatsBalance
    BY DueCount DEF CountInv, StatsBalance
  <1> QED BY <1>1, <1>2, <1>3, NetworkInvAlways, PTL DEF Spec
=============================================================================
