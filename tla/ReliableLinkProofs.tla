------------------------- MODULE ReliableLinkProofs -------------------------
(***************************************************************************)
(* Proofs about ReliableLink, for every size of buffer, packet and message  *)
(* and any number of messages, losses and false drops, wrap around of the   *)
(* sequence numbers included.                                               *)
(***************************************************************************)
EXTENDS ReliableLink, SequenceTheorems, TLAPS

\* A reader could take a message for one that is a whole round of sequence
\* numbers away only if the buffer could hold that many messages: it has 3200
\* bytes, and the numbers are u32.
NumbersOutlastBuffer == Capacity < SequenceModulus

-----------------------------------------------------------------------------
(* The inductive invariant.  It is stated of one sender h; the receiver of   *)
(* its messages is Other(h).                                                 *)

\* A payload tells the number of its message.
Number(message) == message.payload[1]

\* The messages lie one behind the other in the used part of the buffer, are
\* numbered up to the last one submitted, have the submitted sizes and hold their
\* bytes.  (The second conjunct follows from the first by induction over the
\* queue: the j-th message is at least j - i - 1 bytes behind the i-th.)
Laid(messages, buffer, sizes) ==
    LET c == Len(sizes) - Len(messages) IN
    /\ \A i \in 1 .. Len(messages) :
         /\ messages[i].begin = IF i = 1 THEN buffer.m_begin ELSE messages[i - 1].end
         /\ messages[i].end > messages[i].begin
         /\ messages[i].sequence_number = (c + i - 1) % SequenceModulus
         /\ messages[i].end - messages[i].begin = sizes[c + i]
         /\ \A x \in messages[i].begin + 1 .. messages[i].end : buffer.m_buffer[x] = c + i
    /\ \A i, j \in 1 .. Len(messages) :
         i < j => messages[j].begin >= messages[i].end + (j - i - 1)
    /\ buffer.m_end =
         IF Len(messages) = 0 THEN buffer.m_begin ELSE messages[Len(messages)].end
    /\ c >= 0

BufferInv(h) ==
    /\ Laid(Outstanding(h), m_buffer[h], submitted[h])
    /\ m_next_outgoing_sequence_number[h] = Len(submitted[h]) % SequenceModulus

\* What a packet carries: whole messages with consecutive numbers.
Carries(segment, sizes) ==
    /\ \A i \in 1 .. Len(segment) :
         LET m == Number(segment[i]) IN
         /\ m \in 1 .. Len(sizes)
         /\ segment[i].payload = [x \in 1 .. sizes[m] |-> m]
         /\ segment[i].sequence_number = (m - 1) % SequenceModulus
    /\ \A i, j \in 1 .. Len(segment) : Number(segment[j]) - Number(segment[i]) = j - i

PacketsInv(h) ==
    /\ Len(packets[h]) = sent[h]
    /\ \A k \in 1 .. sent[h] : Carries(packets[h][k], submitted[h])

\* A packet was written when its messages were in the buffer, so what older
\* packets carry is less than a buffer ahead of them.
PacketsNear(h) ==
    \A j, k \in 1 .. sent[h] : j <= k =>
        \A x \in 1 .. Len(packets[h][j]), y \in 1 .. Len(packets[h][k]) :
            Number(packets[h][j][x]) < Number(packets[h][k][y]) + Capacity

\* What is in flight is in a packet whose fate is open, or is being popped.
FlightInv(h) ==
    /\ Len(reported[h]) <= sent[h]
    /\ \A i \in 1 .. Len(in_flight_messages[h]) :
         LET id == in_flight_messages[h][i].packet_id IN
         /\ id \in 1 .. sent[h]
         /\ id >= IF call[h].op = "ack" THEN call[h].id ELSE Len(reported[h]) + 1
         /\ \E x \in 1 .. Len(packets[h][id]) : Number(packets[h][id][x]) = Consumed(h) + i
    /\ \A i, j \in 1 .. Len(in_flight_messages[h]) : i < j =>
         in_flight_messages[h][i].packet_id <= in_flight_messages[h][j].packet_id

\* The receiver is reading packet id.
Reads(r, id) == call[r].op = "read" /\ call[r].id = id

\* The packet whose messages are popped was read to its end.
AckInv(h) ==
    call[h].op = "ack" =>
        /\ call[h].id = Len(reported[h])
        /\ call[h].id \in accepted[h]
        /\ ~Reads(Other(h), call[h].id)

\* What is being read is the rest of the newest accepted packet.
ReadInv(h) ==
    /\ accepted[h] \subseteq 1 .. sent[h]
    /\ call[Other(h)].op = "read" =>
         LET id == call[Other(h)].id
             rest == call[Other(h)].messages
         IN
         /\ id \in accepted[h]
         /\ \A k \in accepted[h] : k <= id
         /\ Len(rest) \in 1 .. Len(packets[h][id])
         /\ \A i \in 1 .. Len(rest) :
              rest[i] = packets[h][id][Len(packets[h][id]) - Len(rest) + i]

\* What was delivered is the beginning of what was sent, and its last message
\* came with an accepted packet.
DeliveredInv(h) ==
    LET got == delivered[Other(h)] IN
    /\ Len(got) <= Len(submitted[h])
    /\ \A m \in 1 .. Len(got) : got[m] = PayloadOf(h, m)
    /\ m_next_expected_sequence_number[Other(h)] = Len(got) % SequenceModulus
    /\ got # << >> => \E k \in accepted[h] : \E x \in 1 .. Len(packets[h][k]) :
                         Number(packets[h][k][x]) = Len(got)
    /\ Consumed(h) <= Len(got)

\* A message in flight whose packet was accepted, with all the packets that carry
\* older messages, was delivered or is about to be: the reader has no gap there.
ProgressInv(h) ==
    \A i \in 1 .. Len(in_flight_messages[h]) :
        (\A j \in 1 .. i : in_flight_messages[h][j].packet_id \in accepted[h]) =>
            \/ Consumed(h) + i <= Len(delivered[Other(h)])
            \/ /\ Reads(Other(h), in_flight_messages[h][i].packet_id)
               /\ \E x \in 1 .. Len(call[Other(h)].messages) :
                    Number(call[Other(h)].messages[x]) = Consumed(h) + i

SenderInv(h) ==
    /\ BufferInv(h)
    /\ PacketsInv(h)
    /\ PacketsNear(h)
    /\ FlightInv(h)
    /\ AckInv(h)
    /\ ReadInv(h)
    /\ DeliveredInv(h)
    /\ ProgressInv(h)

\* Of an end that sends nothing, and of its reader, this is all that is needed.
EndInv(h) ==
    /\ Len(packets[h]) = sent[h]
    /\ call[h].op = "read" => call[h].messages # << >>

StreamInv ==
    /\ TypeOK
    /\ \A h \in Ends : EndInv(h)
    /\ \A h \in Senders : SenderInv(h)

-----------------------------------------------------------------------------
(* What the applications see of a step.                                      *)

Silent(h) ==
    /\ submitted'[h] = submitted[h]
    /\ delivered'[Other(h)] = delivered[Other(h)]
    /\ Consumed(h)' = Consumed(h)

Offers(h, size) ==
    /\ Len(submitted[h]) < MaxMessages
    /\ submitted'[h] = Append(submitted[h], size)
    /\ delivered'[Other(h)] = delivered[Other(h)]
    /\ Consumed(h)' = Consumed(h)

Delivers(h) ==
    LET got == delivered[Other(h)] IN
    /\ Len(got) < Len(submitted[h])
    /\ submitted'[h] = submitted[h]
    /\ delivered'[Other(h)] = Append(got, PayloadOf(h, Len(got) + 1))
    /\ Consumed(h)' = Consumed(h)

Frees(h) ==
    /\ Consumed(h) < Len(delivered[Other(h)])
    /\ submitted'[h] = submitted[h]
    /\ delivered'[Other(h)] = delivered[Other(h)]
    /\ Consumed(h)' = Consumed(h) + 1

\* The applications see nothing, or one change of one stream.
VisibleStep ==
    \/ \A h \in Senders : Silent(h)
    \/ \E g \in Senders :
         /\ \A h \in Senders : h # g => Silent(h)
         /\ \/ \E size \in 1 .. MaxSize : Offers(g, size)
            \/ Delivers(g)
            \/ Frees(g)

-----------------------------------------------------------------------------
(* Hosts, sequence numbers and queues.                                       *)

LEMMA OtherEnd ==
    ASSUME NEW h \in Ends
    PROVE  /\ Other(h) \in Ends
           /\ Other(Other(h)) = h
           /\ Other(h) # h
           /\ \A g \in Ends : g # h => g = Other(h)
  BY TwoHosts DEF Other, Ends

LEMMA SendersAreEnds == \A h \in Senders : h \in Ends /\ h \in Peers
  BY ReliableLinkConstants

\* Two numbers less than a round apart have different sequence numbers.
LEMMA ModEqual ==
    ASSUME NEW x \in Nat, NEW y \in Nat,
           x - y < SequenceModulus, y - x < SequenceModulus,
           x % SequenceModulus = y % SequenceModulus
    PROVE  x = y
  <1> DEFINE M == SequenceModulus
             p == x \div M
             q == y \div M
  <1>1. M \in Nat /\ M > 0
    BY SequenceModulusIsPos
  <1>2. p \in Int /\ q \in Int /\ x = M * p + (x % M) /\ y = M * q + (y % M) /\ x % M \in Int
    BY <1>1
  <1>3. x - y = M * (p - q)
    BY <1>1, <1>2
  <1> HIDE DEF p, q, M
  <1>4. CASE p = q
    BY <1>1, <1>2, <1>4, <1>3
  <1>5. CASE p > q
    <2>1. M * (p - q) >= M
      BY <1>1, <1>2, <1>5
    <2> QED BY <2>1, <1>3, <1>1 DEF M
  <1>6. CASE p < q
    <2>1. M * (q - p) >= M
      BY <1>1, <1>2, <1>6
    <2>2. y - x = M * (q - p)
      BY <1>1, <1>2, <1>3
    <2> QED BY <2>1, <2>2, <1>1 DEF M
  <1> QED BY <1>4, <1>5, <1>6, <1>2

LEMMA ModNext ==
    ASSUME NEW x \in Nat
    PROVE  /\ x % SequenceModulus \in 0 .. SequenceModulus - 1
           /\ ((x % SequenceModulus) + 1) % SequenceModulus = (x + 1) % SequenceModulus
  <1> DEFINE M == SequenceModulus
             p == x \div M
             q == (x + 1) \div M
             r == x % M
             t == (x + 1) % M
  <1>1. M \in Nat /\ M > 0
    BY SequenceModulusIsPos
  <1>2. /\ p \in Int /\ q \in Int
        /\ x = M * p + r /\ x + 1 = M * q + t
        /\ r \in 0 .. M - 1 /\ t \in 0 .. M - 1
    BY <1>1
  <1>3. (r + 1) % M = IF r + 1 = M THEN 0 ELSE r + 1
    BY <1>1, <1>2
  <1> HIDE DEF M, p, q, r, t
  <1>4. M * (q - p) = r + 1 - t
    BY <1>1, <1>2
  <1>5. q - p = 0 \/ q - p = 1
    <2>1. CASE q - p >= 2
      <3>1. M * (q - p) >= M + M
        BY <1>1, <1>2, <2>1
      <3> QED BY <3>1, <1>4, <1>1, <1>2
    <2>2. CASE q - p < 0
      <3>1. M * (p - q) >= M
        BY <1>1, <1>2, <2>2
      <3>2. M * (p - q) = t - r - 1
        BY <1>1, <1>2, <1>4
      <3> QED BY <3>1, <3>2, <1>1, <1>2
    <2> QED BY <2>1, <2>2, <1>2
  <1>6. t = IF r + 1 = M THEN 0 ELSE r + 1
    <2>1. CASE q - p = 0
      <3>1. t = r + 1
        BY <2>1, <1>4, <1>1, <1>2
      <3> QED BY <3>1, <1>1, <1>2
    <2>2. CASE q - p = 1
      <3>1. M = r + 1 - t
        BY <2>2, <1>4, <1>1, <1>2
      <3> QED BY <3>1, <1>1, <1>2
    <2> QED BY <2>1, <2>2, <1>5
  <1> QED BY <1>2, <1>3, <1>6 DEF M, r, t

LEMMA Lengths ==
    ASSUME TypeOK, NEW h \in Ends
    PROVE  /\ sent[h] \in Nat
           /\ accepted[h] \subseteq Nat \ {0}
           /\ reported[h] \in Seq(Fate) /\ Len(reported[h]) \in Nat
           /\ m_buffer[h] \in Buffer
           /\ in_flight_messages[h] \in Seq(InFlightMessage)
           /\ Len(in_flight_messages[h]) \in Nat
           /\ pending_messages[h] \in Seq(Message) /\ Len(pending_messages[h]) \in Nat
           /\ call[h] \in Call
           /\ packets[h] \in Seq(Seq(SegmentMessage)) /\ Len(packets[h]) \in Nat
           /\ submitted[h] \in Seq(Nat \ {0}) /\ Len(submitted[h]) \in Nat
           /\ delivered[h] \in Seq(Seq(Nat)) /\ Len(delivered[h]) \in Nat
  <1>1. /\ sent[h] \in Nat
        /\ accepted[h] \subseteq Nat \ {0}
        /\ reported[h] \in Seq(Fate)
        /\ m_buffer[h] \in Buffer
        /\ in_flight_messages[h] \in Seq(InFlightMessage)
        /\ pending_messages[h] \in Seq(Message)
        /\ call[h] \in Call
        /\ packets[h] \in Seq(Seq(SegmentMessage))
        /\ submitted[h] \in Seq(Nat \ {0})
        /\ delivered[h] \in Seq(Seq(Nat))
    BY DEF TypeOK
  <1> QED BY <1>1

\* Outstanding, of any two queues.
Queue(flight, pending) == [i \in 1 .. Len(flight) |-> flight[i].message] \o pending

LEMMA OutstandingIsQueue ==
    ASSUME NEW h
    PROVE  /\ Outstanding(h) = Queue(in_flight_messages[h], pending_messages[h])
           /\ Outstanding(h)' = Queue(in_flight_messages'[h], pending_messages'[h])
  BY DEF Outstanding, MessagesInFlight, Queue

LEMMA QueueAt ==
    ASSUME NEW flight \in Seq(InFlightMessage), NEW pending \in Seq(Message)
    PROVE  /\ Queue(flight, pending) \in Seq(Message)
           /\ Len(Queue(flight, pending)) = Len(flight) + Len(pending)
           /\ \A i \in 1 .. Len(flight) : Queue(flight, pending)[i] = flight[i].message
           /\ \A i \in 1 .. Len(pending) : Queue(flight, pending)[Len(flight) + i] = pending[i]
  <1> DEFINE first == [i \in 1 .. Len(flight) |-> flight[i].message]
  <1>1. \A i \in 1 .. Len(flight) : flight[i].message \in Message
    <2>1. \A i \in 1 .. Len(flight) : flight[i] \in InFlightMessage
      OBVIOUS
    <2> QED BY <2>1 DEF InFlightMessage
  <1>2. first \in Seq(Message) /\ Len(first) = Len(flight)
    BY <1>1
  <1>3. \A i \in 1 .. Len(flight) : first[i] = flight[i].message
    OBVIOUS
  <1>4. Queue(flight, pending) = first \o pending
    BY DEF Queue
  <1> HIDE DEF first
  <1>5. /\ first \o pending \in Seq(Message)
        /\ Len(first \o pending) = Len(first) + Len(pending)
        /\ \A i \in 1 .. Len(first) + Len(pending) : (first \o pending)[i] =
             IF i <= Len(first) THEN first[i] ELSE pending[i - Len(first)]
    BY ONLY <1>2, pending \in Seq(Message), ConcatProperties
  <1>6. Len(first) \in Nat /\ Len(pending) \in Nat
    BY <1>2
  <1>7. \A i \in 1 .. Len(flight) : (first \o pending)[i] = flight[i].message
    BY <1>2, <1>3, <1>5, <1>6
  <1>8. \A i \in 1 .. Len(pending) : (first \o pending)[Len(flight) + i] = pending[i]
    BY <1>2, <1>5, <1>6
  <1> QED BY ONLY <1>2, <1>4, <1>5, <1>7, <1>8

LEMMA OutstandingAt ==
    ASSUME TypeOK, NEW h \in Ends
    PROVE  /\ Outstanding(h) \in Seq(Message)
           /\ Len(Outstanding(h)) \in Nat
           /\ Len(Outstanding(h)) = Len(in_flight_messages[h]) + Len(pending_messages[h])
           /\ \A i \in 1 .. Len(in_flight_messages[h]) :
                Outstanding(h)[i] = in_flight_messages[h][i].message
           /\ \A i \in 1 .. Len(pending_messages[h]) :
                Outstanding(h)[Len(in_flight_messages[h]) + i] = pending_messages[h][i]
  <1>1. /\ in_flight_messages[h] \in Seq(InFlightMessage)
        /\ pending_messages[h] \in Seq(Message)
        /\ Len(in_flight_messages[h]) \in Nat /\ Len(pending_messages[h]) \in Nat
    BY Lengths
  <1> DEFINE flight == in_flight_messages[h]
             pending == pending_messages[h]
  <1>2. Outstanding(h) = Queue(flight, pending)
    BY OutstandingIsQueue
  <1> HIDE DEF flight, pending
  <1>3. /\ Queue(flight, pending) \in Seq(Message)
        /\ Len(Queue(flight, pending)) = Len(flight) + Len(pending)
        /\ \A i \in 1 .. Len(flight) : Queue(flight, pending)[i] = flight[i].message
        /\ \A i \in 1 .. Len(pending) : Queue(flight, pending)[Len(flight) + i] = pending[i]
    <2>1. flight \in Seq(InFlightMessage) /\ pending \in Seq(Message)
      BY <1>1 DEF flight, pending
    <2> QED BY ONLY <2>1, QueueAt
  <1>4. Len(flight) + Len(pending) \in Nat
    <2>1. Len(flight) \in Nat /\ Len(pending) \in Nat
      BY <1>1 DEF flight, pending
    <2> QED BY ONLY <2>1
  <1> QED BY ONLY <1>2, <1>3, <1>4 DEF flight, pending

-----------------------------------------------------------------------------
(* The buffer: what flip, advance and consume do to the messages in it.      *)

\* No message is outside the used part of the buffer, and each takes a byte.
LEMMA LaidBounds ==
    ASSUME NEW messages \in Seq(Message), NEW buffer \in Buffer,
           NEW sizes \in Seq(Nat \ {0}), Laid(messages, buffer, sizes)
    PROVE  /\ buffer.m_begin \in Nat /\ buffer.m_end \in Nat
           /\ Len(messages) <= buffer.m_end - buffer.m_begin
           /\ buffer.m_end <= Capacity
           /\ Len(sizes) - Len(messages) \in Nat
           /\ \A i \in 1 .. Len(messages) :
                /\ messages[i] \in Message
                /\ buffer.m_begin <= messages[i].begin
                /\ messages[i].begin < messages[i].end
                /\ messages[i].end <= buffer.m_end
  <1> DEFINE n == Len(messages)
             b == buffer.m_begin
             e == buffer.m_end
             begin(i) == messages[i].begin
             end(i) == messages[i].end
  <1>1. n \in Nat /\ Len(sizes) \in Nat
    OBVIOUS
  <1>2. b \in Nat /\ e \in Nat /\ e <= Capacity
    BY CapacityIsNat DEF Buffer
  <1>3. \A i \in 1 .. n : messages[i] \in Message /\ begin(i) \in Nat /\ end(i) \in Nat
    <2>1. \A i \in 1 .. n : messages[i] \in Message
      OBVIOUS
    <2> QED BY <2>1 DEF Message
  <1>4. /\ \A i \in 1 .. n : begin(i) < end(i)
        /\ \A i, j \in 1 .. n : i < j => begin(j) >= end(i) + (j - i - 1)
        /\ 1 \in 1 .. n => begin(1) = b
        /\ e = IF n = 0 THEN b ELSE end(n)
        /\ Len(sizes) - n >= 0
    BY DEF Laid
  <1> HIDE DEF n, b, e, begin, end
  <1>5. \A i \in 1 .. n : b <= begin(i)
    <2> SUFFICES ASSUME NEW i \in 1 .. n PROVE b <= begin(i)
      OBVIOUS
    <2>1. 1 \in 1 .. n
      BY <1>1
    <2>2. CASE i = 1
      BY <2>1, <2>2, <1>2, <1>4
    <2>3. CASE i > 1
      <3>1. begin(i) >= end(1) + (i - 2) /\ begin(1) = b /\ end(1) > begin(1)
        BY <2>1, <2>3, <1>4
      <3> QED BY <3>1, <2>1, <2>3, <1>2, <1>3
    <2> QED BY <2>2, <2>3, <1>1
  <1>6. \A i \in 1 .. n : end(i) <= e
    <2> SUFFICES ASSUME NEW i \in 1 .. n PROVE end(i) <= e
      OBVIOUS
    <2>1. n \in 1 .. n /\ n # 0
      BY <1>1
    <2>2. CASE i = n
      BY <2>1, <2>2, <1>2, <1>4
    <2>3. CASE i < n
      <3>1. begin(n) >= end(i) + (n - i - 1) /\ end(n) = e /\ end(n) > begin(n)
        BY <2>1, <2>3, <1>4
      <3> QED BY <3>1, <2>1, <2>3, <1>1, <1>2, <1>3
    <2> QED BY <2>2, <2>3, <1>1
  <1>7. n <= e - b
    <2>1. CASE n = 0
      BY <2>1, <1>2, <1>4
    <2>2. CASE n = 1
      BY <2>2, <1>2, <1>3, <1>4
    <2>3. CASE n > 1
      <3>1. 1 \in 1 .. n /\ n \in 1 .. n
        BY <2>3, <1>1
      <3>2. begin(n) >= end(1) + (n - 2) /\ end(1) > begin(1) /\ end(n) > begin(n)
            /\ begin(1) = b /\ end(n) = e
        BY <2>3, <3>1, <1>4
      <3> QED BY <3>1, <3>2, <1>1, <1>2, <1>3
    <2> QED BY <2>1, <2>2, <2>3, <1>1
  <1>8. Len(sizes) - n \in Nat
    BY <1>1, <1>4
  <1> QED BY ONLY <1>2, <1>3, <1>4, <1>5, <1>6, <1>7, <1>8 DEF n, b, e, begin, end

LEMMA ShiftedMessage ==
    ASSUME NEW message \in Message, NEW offset \in Nat, offset <= message.begin,
           message.begin < message.end
    PROVE  /\ Shifted(message, offset) \in Message
           /\ Shifted(message, offset).begin = message.begin - offset
           /\ Shifted(message, offset).end = message.end - offset
           /\ Shifted(message, offset).sequence_number = message.sequence_number
  <1>1. message.begin \in Nat /\ message.end \in Nat
        /\ message.begin - offset \in Nat /\ message.end - offset \in Nat
    BY DEF Message
  <1>2. /\ Shifted(message, offset).begin = message.begin - offset
        /\ Shifted(message, offset).end = message.end - offset
        /\ Shifted(message, offset).sequence_number = message.sequence_number
    BY DEF Shifted, Message
  <1>3. Shifted(message, offset) \in Message
    BY <1>1 DEF Shifted, Message
  <1> QED BY <1>2, <1>3

\* maybe_flip moves the bytes and the ranges together.
LEMMA LaidFlip ==
    ASSUME NEW messages \in Seq(Message), NEW buffer \in Buffer,
           NEW sizes \in Seq(Nat \ {0}), Laid(messages, buffer, sizes),
           NEW moved \in Seq(Message), Len(moved) = Len(messages),
           \A i \in 1 .. Len(messages) : moved[i] = Shifted(messages[i], buffer.m_begin)
    PROVE  /\ Flip(buffer) \in Buffer
           /\ Flip(buffer).m_begin = 0
           /\ Laid(moved, Flip(buffer), sizes)
  <1> DEFINE n == Len(messages)
             b == buffer.m_begin
             e == buffer.m_end
             f == Flip(buffer)
             c == Len(sizes) - n
  <1>1. n \in Nat /\ Len(sizes) \in Nat /\ b \in Nat /\ e \in Nat /\ b <= e /\ e <= Capacity
        /\ c \in Nat
    BY LaidBounds
  <1>2. /\ f.m_begin = 0 /\ f.m_end = e - b
        /\ f.m_buffer = [i \in 1 .. Capacity |->
             IF i <= e - b THEN buffer.m_buffer[b + i] ELSE buffer.m_buffer[i]]
    BY DEF Flip
  <1>3. f \in Buffer
    <2>1. buffer.m_buffer \in [1 .. Capacity -> Nat]
      BY DEF Buffer
    <2>2. \A i \in 1 .. Capacity : i <= e - b => b + i \in 1 .. Capacity
      BY <1>1, CapacityIsNat
    <2>3. [i \in 1 .. Capacity |->
             IF i <= e - b THEN buffer.m_buffer[b + i] ELSE buffer.m_buffer[i]]
             \in [1 .. Capacity -> Nat]
      BY <2>1, <2>2
    <2>4. e - b \in 0 .. Capacity /\ 0 \in 0 .. Capacity
      BY <1>1, CapacityIsNat
    <2> QED BY <2>3, <2>4 DEF Flip, Buffer
  <1>4. \A i \in 1 .. n :
          /\ messages[i].begin \in Nat /\ messages[i].end \in Nat
          /\ moved[i].begin = messages[i].begin - b
          /\ moved[i].end = messages[i].end - b
          /\ moved[i].sequence_number = messages[i].sequence_number
          /\ b <= messages[i].begin /\ messages[i].end <= e
    <2> SUFFICES ASSUME NEW i \in 1 .. n
                 PROVE  /\ messages[i].begin \in Nat /\ messages[i].end \in Nat
                        /\ moved[i].begin = messages[i].begin - b
                        /\ moved[i].end = messages[i].end - b
                        /\ moved[i].sequence_number = messages[i].sequence_number
                        /\ b <= messages[i].begin /\ messages[i].end <= e
      OBVIOUS
    <2>1. messages[i] \in Message /\ b <= messages[i].begin /\ messages[i].end <= e
          /\ messages[i].begin < messages[i].end
      BY LaidBounds
    <2>2. messages[i].begin \in Nat /\ messages[i].end \in Nat
      BY <2>1 DEF Message
    <2>3. moved[i] = Shifted(messages[i], b)
      OBVIOUS
    <2>4. /\ Shifted(messages[i], b).begin = messages[i].begin - b
          /\ Shifted(messages[i], b).end = messages[i].end - b
          /\ Shifted(messages[i], b).sequence_number = messages[i].sequence_number
      BY <2>1, <1>1, ShiftedMessage
    <2> QED BY ONLY <2>1, <2>2, <2>3, <2>4
  <1> DEFINE begin(i) == messages[i].begin
             end(i) == messages[i].end
             newBegin(i) == moved[i].begin
             newEnd(i) == moved[i].end
  <1>5. /\ \A i \in 1 .. n :
             /\ begin(i) = IF i = 1 THEN b ELSE end(i - 1)
             /\ end(i) > begin(i)
             /\ messages[i].sequence_number = (c + i - 1) % SequenceModulus
             /\ end(i) - begin(i) = sizes[c + i]
             /\ \A x \in begin(i) + 1 .. end(i) : buffer.m_buffer[x] = c + i
        /\ \A i, j \in 1 .. n : i < j => begin(j) >= end(i) + (j - i - 1)
        /\ e = IF n = 0 THEN b ELSE end(n)
    BY DEF Laid
  <1>6. \A i \in 1 .. n :
          /\ begin(i) \in Nat /\ end(i) \in Nat /\ b <= begin(i) /\ end(i) <= e
          /\ newBegin(i) = begin(i) - b
          /\ newEnd(i) = end(i) - b
    BY <1>4
  <1> HIDE DEF f, b, e, n, c, begin, end, newBegin, newEnd
  <1>7. ASSUME NEW i \in 1 .. n
        PROVE  /\ newBegin(i) = IF i = 1 THEN 0 ELSE newEnd(i - 1)
               /\ newEnd(i) > newBegin(i)
               /\ newEnd(i) - newBegin(i) = sizes[c + i]
    <2>1. i # 1 => i - 1 \in 1 .. n
      BY <1>1
    <2>2. newEnd(i) - newBegin(i) = end(i) - begin(i)
      BY ONLY <1>1, <1>6, i \in 1 .. n
    <2>3. newBegin(i) = IF i = 1 THEN 0 ELSE newEnd(i - 1)
      BY ONLY <2>1, <1>1, <1>5, <1>6, i \in 1 .. n
    <2>4. begin(i) < end(i) /\ end(i) - begin(i) = sizes[c + i]
      BY ONLY <1>5, i \in 1 .. n
    <2>5. newEnd(i) > newBegin(i)
      BY ONLY <2>4, <1>1, <1>6, i \in 1 .. n
    <2> QED BY ONLY <2>2, <2>3, <2>4, <2>5
  <1>8. ASSUME NEW i \in 1 .. n, NEW x \in newBegin(i) + 1 .. newEnd(i)
        PROVE  f.m_buffer[x] = c + i
    <2>1. x \in 1 .. Capacity /\ x <= e - b /\ b + x \in begin(i) + 1 .. end(i)
      BY <1>1, <1>6, CapacityIsNat
    <2>2. f.m_buffer[x] = buffer.m_buffer[b + x]
      BY <1>2, <2>1
    <2>3. buffer.m_buffer[b + x] = c + i
      BY <2>1, <1>5
    <2> QED BY <2>2, <2>3
  <1>9. ASSUME NEW i \in 1 .. n, NEW j \in 1 .. n, i < j
        PROVE  newBegin(j) >= newEnd(i) + (j - i - 1)
    <2>1. begin(j) >= end(i) + (j - i - 1)
      BY ONLY <1>5, <1>9, i \in 1 .. n, j \in 1 .. n
    <2> QED BY ONLY <2>1, <1>1, <1>6, i \in 1 .. n, j \in 1 .. n
  <1>10. f.m_end = IF n = 0 THEN f.m_begin ELSE newEnd(n)
    <2>1. n # 0 => n \in 1 .. n
      BY <1>1
    <2> QED BY ONLY <2>1, <1>1, <1>2, <1>5, <1>6
  <1>11. \A i \in 1 .. n : moved[i].sequence_number = (c + i - 1) % SequenceModulus
    BY <1>4, <1>5
  <1>12. Laid(moved, f, sizes)
    <2>1. Len(moved) = n /\ c >= 0
      BY <1>1 DEF n
    <2> QED BY ONLY <2>1, <1>2, <1>7, <1>8, <1>9, <1>10, <1>11
            DEF Laid, c, newBegin, newEnd
  <1> QED BY <1>2, <1>3, <1>12 DEF f

\* A message that is written behind the last one and advances the end.
LEMMA LaidAppend ==
    ASSUME NEW messages \in Seq(Message), NEW buffer \in Buffer,
           NEW sizes \in Seq(Nat \ {0}), Laid(messages, buffer, sizes),
           NEW size \in 1 .. Remaining(buffer), NEW message \in Message,
           message.begin = buffer.m_end, message.end = buffer.m_end + size,
           message.sequence_number = Len(sizes) % SequenceModulus
    PROVE  /\ WriteAndAdvance(buffer, size, Len(sizes) + 1) \in Buffer
           /\ Laid(Append(messages, message),
                   WriteAndAdvance(buffer, size, Len(sizes) + 1), Append(sizes, size))
  <1> DEFINE n == Len(messages)
             b == buffer.m_begin
             e == buffer.m_end
             c == Len(sizes) - n
             f == WriteAndAdvance(buffer, size, Len(sizes) + 1)
             longer == Append(messages, message)
             grown == Append(sizes, size)
  <1>1. /\ n \in Nat /\ Len(sizes) \in Nat /\ b \in Nat /\ e \in Nat /\ b <= e
        /\ e + size <= Capacity /\ size \in Nat \ {0} /\ c \in Nat
    <2>1. n \in Nat /\ Len(sizes) \in Nat /\ b \in Nat /\ e \in Nat /\ n <= e - b /\ c \in Nat
      BY LaidBounds
    <2> QED BY <2>1, CapacityIsNat DEF Remaining
  <1>2. /\ f.m_begin = b /\ f.m_end = e + size
        /\ f.m_buffer = [i \in 1 .. Capacity |->
             IF i \in e + 1 .. e + size THEN Len(sizes) + 1 ELSE buffer.m_buffer[i]]
    BY DEF WriteAndAdvance, Buffer
  <1>3. f \in Buffer
    <2>1. buffer.m_buffer \in [1 .. Capacity -> Nat] /\ b \in 0 .. Capacity
      BY DEF Buffer
    <2>2. [i \in 1 .. Capacity |->
             IF i \in e + 1 .. e + size THEN Len(sizes) + 1 ELSE buffer.m_buffer[i]]
             \in [1 .. Capacity -> Nat]
      <3>1. Len(sizes) + 1 \in Nat
        BY <1>1
      <3> QED BY ONLY <2>1, <3>1
    <2>3. e + size \in 0 .. Capacity
      BY <1>1, CapacityIsNat
    <2> QED BY <2>1, <2>2, <2>3 DEF WriteAndAdvance, Buffer
  <1>4. /\ longer \in Seq(Message) /\ Len(longer) = n + 1
        /\ \A i \in 1 .. n : longer[i] = messages[i]
        /\ longer[n + 1] = message
    BY AppendProperties
  <1>5. /\ Len(grown) = Len(sizes) + 1
        /\ \A i \in 1 .. Len(sizes) : grown[i] = sizes[i]
        /\ grown[Len(sizes) + 1] = size
    <2>1. size \in Nat \ {0}
      BY <1>1
    <2> QED BY <2>1, AppendProperties
  <1> DEFINE begin(i) == messages[i].begin
             end(i) == messages[i].end
             newBegin(i) == longer[i].begin
             newEnd(i) == longer[i].end
             L == Len(sizes)
  <1>6. /\ \A i \in 1 .. n :
             /\ begin(i) = IF i = 1 THEN b ELSE end(i - 1)
             /\ end(i) > begin(i)
             /\ messages[i].sequence_number = (c + i - 1) % SequenceModulus
             /\ end(i) - begin(i) = sizes[c + i]
             /\ \A x \in begin(i) + 1 .. end(i) : buffer.m_buffer[x] = c + i
        /\ \A i, j \in 1 .. n : i < j => begin(j) >= end(i) + (j - i - 1)
        /\ e = IF n = 0 THEN b ELSE end(n)
    BY DEF Laid
  <1>7. \A i \in 1 .. n : begin(i) \in Nat /\ end(i) \in Nat /\ b <= begin(i) /\ end(i) <= e
    <2> SUFFICES ASSUME NEW i \in 1 .. n
                 PROVE  begin(i) \in Nat /\ end(i) \in Nat /\ b <= begin(i) /\ end(i) <= e
      OBVIOUS
    <2>1. messages[i] \in Message /\ b <= begin(i) /\ end(i) <= e
      BY LaidBounds
    <2> QED BY <2>1 DEF Message
  <1>8. /\ \A i \in 1 .. n : newBegin(i) = begin(i) /\ newEnd(i) = end(i)
        /\ newBegin(n + 1) = e /\ newEnd(n + 1) = e + size
    BY <1>4
  <1>9. Len(grown) - Len(longer) = c /\ c + n + 1 = L + 1 /\ c + n = L
    BY <1>1, <1>4, <1>5
  <1>10. \A i \in 1 .. n : grown[c + i] = sizes[c + i]
    <2>1. \A i \in 1 .. n : c + i \in 1 .. Len(sizes)
      BY <1>1
    <2> QED BY <2>1, <1>5
  <1>11. grown[c + (n + 1)] = size
    BY <1>1, <1>5, <1>9
  <1>12. \A i \in 1 .. n : longer[i].sequence_number = (c + i - 1) % SequenceModulus
    BY <1>4, <1>6
  <1>13. longer[n + 1].sequence_number = (c + (n + 1) - 1) % SequenceModulus
    <2>1. c + (n + 1) - 1 = L
      BY <1>1
    <2> QED BY <2>1, <1>4
  <1> HIDE DEF f, b, e, n, c, begin, end, newBegin, newEnd, longer, grown, L
  <1>14. \A i \in 1 .. n + 1 : i \in 1 .. n \/ i = n + 1
    BY <1>1
  <1>15. ASSUME NEW i \in 1 .. n + 1
         PROVE  /\ newBegin(i) = IF i = 1 THEN b ELSE newEnd(i - 1)
                /\ newEnd(i) > newBegin(i)
                /\ longer[i].sequence_number = (c + i - 1) % SequenceModulus
                /\ newEnd(i) - newBegin(i) = grown[c + i]
    <2>1. CASE i \in 1 .. n
      <3>1. i # 1 => i - 1 \in 1 .. n
        BY <2>1, <1>1
      <3>2. newBegin(i) = IF i = 1 THEN b ELSE newEnd(i - 1)
        BY ONLY <2>1, <3>1, <1>6, <1>8
      <3>3. newEnd(i) > newBegin(i) /\ newEnd(i) - newBegin(i) = sizes[c + i]
        BY ONLY <2>1, <1>6, <1>8
      <3> QED BY <2>1, <3>2, <3>3, <1>10, <1>12
    <2>2. CASE i = n + 1
      <3>1. n # 0 => n \in 1 .. n
        BY <1>1
      <3>2. newBegin(n + 1) = IF n + 1 = 1 THEN b ELSE newEnd((n + 1) - 1)
        <4>1. (n + 1) - 1 = n
          BY <1>1
        <4> QED BY ONLY <4>1, <3>1, <1>1, <1>6, <1>8
      <3>3. newEnd(n + 1) > newBegin(n + 1) /\ newEnd(n + 1) - newBegin(n + 1) = size
        BY ONLY <1>1, <1>8
      <3> QED BY ONLY <2>2, <3>2, <3>3, <1>11, <1>13
    <2> QED BY <2>1, <2>2, <1>14
  <1>16. ASSUME NEW i \in 1 .. n + 1, NEW x \in newBegin(i) + 1 .. newEnd(i)
         PROVE  f.m_buffer[x] = c + i
    <2>1. CASE i \in 1 .. n
      <3>1. x \in begin(i) + 1 .. end(i)
        BY <2>1, <1>8
      <3>2. x \in 1 .. Capacity /\ ~(x \in e + 1 .. e + size)
        BY ONLY <2>1, <3>1, <1>1, <1>7, CapacityIsNat
      <3>3. f.m_buffer[x] = buffer.m_buffer[x]
        BY ONLY <1>2, <3>2
      <3> QED BY ONLY <2>1, <3>1, <3>3, <1>6
    <2>2. CASE i = n + 1
      <3>1. x \in e + 1 .. e + size
        BY <2>2, <1>8
      <3>2. x \in 1 .. Capacity
        BY ONLY <3>1, <1>1, CapacityIsNat
      <3>3. f.m_buffer[x] = L + 1
        BY ONLY <1>2, <3>1, <3>2 DEF L
      <3> QED BY ONLY <3>3, <2>2, <1>9, <1>1
    <2> QED BY <2>1, <2>2, <1>14
  <1>17. ASSUME NEW i \in 1 .. n + 1, NEW j \in 1 .. n + 1, i < j
         PROVE  newBegin(j) >= newEnd(i) + (j - i - 1)
    <2>1. i \in 1 .. n
      BY <1>1, <1>17
    <2>2. CASE j \in 1 .. n
      <3>1. begin(j) >= end(i) + (j - i - 1)
        BY ONLY <1>6, <1>17, <2>1, <2>2
      <3> QED BY ONLY <3>1, <2>1, <2>2, <1>8
    <2>3. CASE j = n + 1
      <3>1. n \in 1 .. n /\ end(n) = e
        BY ONLY <2>1, <1>1, <1>6
      <3>2. CASE i = n
        BY ONLY <3>1, <3>2, <2>1, <2>3, <1>1, <1>8
      <3>3. CASE i < n
        <4>1. begin(n) >= end(i) + (n - i - 1) /\ end(n) > begin(n)
          BY ONLY <3>1, <3>3, <2>1, <1>6
        <4>2. begin(n) \in Nat /\ end(i) \in Nat
          BY ONLY <3>1, <2>1, <1>7
        <4>3. e >= end(i) + (n - i)
          BY ONLY <4>1, <4>2, <3>1, <1>1, i \in 1 .. n + 1
        <4>4. (n + 1) - i - 1 = n - i
          BY ONLY <1>1, i \in 1 .. n + 1
        <4> QED BY ONLY <4>3, <4>4, <2>1, <2>3, <1>8
      <3> QED BY ONLY <3>2, <3>3, <2>1, <1>1
    <2> QED BY <2>2, <2>3, <1>14
  <1>18. f.m_end = IF n + 1 = 0 THEN f.m_begin ELSE newEnd(n + 1)
    BY ONLY <1>1, <1>2, <1>8
  <1>19. Laid(longer, f, grown)
    <2>1. Len(longer) = n + 1 /\ Len(grown) - Len(longer) = c /\ c >= 0 /\ b = f.m_begin
      BY <1>1, <1>2, <1>4, <1>9
    <2> QED BY ONLY <2>1, <1>15, <1>16, <1>17, <1>18 DEF Laid, newBegin, newEnd
  <1> QED BY <1>3, <1>19 DEF f, longer, grown

\* The bytes of the first message are given back.
LEMMA LaidPop ==
    ASSUME NEW messages \in Seq(Message), NEW buffer \in Buffer,
           NEW sizes \in Seq(Nat \ {0}), Laid(messages, buffer, sizes),
           messages # << >>,
           NEW rest \in Seq(Message), Len(rest) = Len(messages) - 1,
           \A i \in 1 .. Len(rest) : rest[i] = messages[i + 1]
    PROVE  /\ Consume(buffer, Size(messages[1])) \in Buffer
           /\ Laid(rest, Consume(buffer, Size(messages[1])), sizes)
  <1> DEFINE n == Len(messages)
             b == buffer.m_begin
             e == buffer.m_end
             c == Len(sizes) - n
             f == Consume(buffer, Size(messages[1]))
             begin(i) == messages[i].begin
             end(i) == messages[i].end
             newBegin(i) == rest[i].begin
             newEnd(i) == rest[i].end
  <1>1. /\ n \in Nat /\ n > 0 /\ Len(sizes) \in Nat /\ b \in Nat /\ e \in Nat /\ b <= e
        /\ e <= Capacity /\ c \in Nat
    BY LaidBounds
  <1>2. /\ \A i \in 1 .. n :
             /\ begin(i) = IF i = 1 THEN b ELSE end(i - 1)
             /\ end(i) > begin(i)
             /\ messages[i].sequence_number = (c + i - 1) % SequenceModulus
             /\ end(i) - begin(i) = sizes[c + i]
             /\ \A x \in begin(i) + 1 .. end(i) : buffer.m_buffer[x] = c + i
        /\ \A i, j \in 1 .. n : i < j => begin(j) >= end(i) + (j - i - 1)
        /\ e = IF n = 0 THEN b ELSE end(n)
    BY DEF Laid
  <1>3. \A i \in 1 .. n : begin(i) \in Nat /\ end(i) \in Nat /\ b <= begin(i) /\ end(i) <= e
    <2> SUFFICES ASSUME NEW i \in 1 .. n
                 PROVE  begin(i) \in Nat /\ end(i) \in Nat /\ b <= begin(i) /\ end(i) <= e
      OBVIOUS
    <2>1. messages[i] \in Message /\ b <= begin(i) /\ end(i) <= e
      BY LaidBounds
    <2> QED BY <2>1 DEF Message
  <1>4. b + Size(messages[1]) = end(1) /\ 1 \in 1 .. n
    BY <1>1, <1>2, <1>3 DEF Size
  <1>5. f.m_begin = end(1) /\ f.m_end = e /\ f.m_buffer = buffer.m_buffer
    <2>1. f.m_begin = b + Size(messages[1]) /\ f.m_end = e /\ f.m_buffer = buffer.m_buffer
      BY DEF Consume, Buffer
    <2> QED BY ONLY <2>1, <1>4
  <1>6. f \in Buffer
    <2>1. b + Size(messages[1]) \in 0 .. Capacity
      BY <1>1, <1>3, <1>4, CapacityIsNat
    <2> QED BY <2>1 DEF Consume, Buffer
  <1>7. /\ Len(rest) = n - 1 /\ Len(sizes) - Len(rest) = c + 1
        /\ \A i \in 1 .. n - 1 : i + 1 \in 1 .. n /\ rest[i] = messages[i + 1]
    BY <1>1
  <1>8. \A i \in 1 .. n - 1 : newBegin(i) = begin(i + 1) /\ newEnd(i) = end(i + 1)
    BY <1>7
  <1> HIDE DEF f, b, e, n, c, begin, end, newBegin, newEnd
  <1>9. ASSUME NEW i \in 1 .. n - 1
        PROVE  /\ newBegin(i) = IF i = 1 THEN end(1) ELSE newEnd(i - 1)
               /\ newEnd(i) > newBegin(i)
               /\ rest[i].sequence_number = ((c + 1) + i - 1) % SequenceModulus
               /\ newEnd(i) - newBegin(i) = sizes[(c + 1) + i]
               /\ \A x \in newBegin(i) + 1 .. newEnd(i) : f.m_buffer[x] = (c + 1) + i
    <2>1. i + 1 \in 1 .. n /\ i + 1 # 1 /\ (i + 1) - 1 = i /\ i \in Nat
          /\ (c + 1) + i = c + (i + 1) /\ (c + 1) + i - 1 = c + (i + 1) - 1
      BY <1>1
    <2>2. /\ begin(i + 1) = end(i)
          /\ end(i + 1) > begin(i + 1)
          /\ messages[i + 1].sequence_number = (c + (i + 1) - 1) % SequenceModulus
          /\ end(i + 1) - begin(i + 1) = sizes[c + (i + 1)]
          /\ \A x \in begin(i + 1) + 1 .. end(i + 1) : buffer.m_buffer[x] = c + (i + 1)
      BY ONLY <2>1, <1>2
    <2>3. i # 1 => newEnd(i - 1) = end(i)
      <3>1. i # 1 => i - 1 \in 1 .. n - 1 /\ (i - 1) + 1 = i
        BY <1>1
      <3> QED BY ONLY <3>1, <1>8
    <2>4. rest[i].sequence_number = messages[i + 1].sequence_number
      BY <1>7
    <2>5. newBegin(i) = begin(i + 1) /\ newEnd(i) = end(i + 1)
      BY <1>8
    <2> QED BY ONLY <2>1, <2>2, <2>3, <2>4, <2>5, <1>5
  <1>10. ASSUME NEW i \in 1 .. n - 1, NEW j \in 1 .. n - 1, i < j
         PROVE  newBegin(j) >= newEnd(i) + (j - i - 1)
    <2>1. i + 1 \in 1 .. n /\ j + 1 \in 1 .. n /\ i + 1 < j + 1
          /\ (j + 1) - (i + 1) - 1 = j - i - 1
      BY <1>1, <1>10
    <2>2. begin(j + 1) >= end(i + 1) + ((j + 1) - (i + 1) - 1)
      BY ONLY <2>1, <1>2
    <2> QED BY ONLY <2>1, <2>2, <1>8, i \in 1 .. n - 1, j \in 1 .. n - 1
  <1>11. f.m_end = IF n - 1 = 0 THEN f.m_begin ELSE newEnd(n - 1)
    <2>1. CASE n = 1
      BY ONLY <2>1, <1>1, <1>2, <1>5
    <2>2. CASE n > 1
      <3>1. n - 1 \in 1 .. n - 1 /\ (n - 1) + 1 = n
        BY <1>1, <2>2
      <3> QED BY ONLY <2>2, <3>1, <1>1, <1>2, <1>5, <1>8
    <2> QED BY <2>1, <2>2, <1>1
  <1>12. Laid(rest, f, sizes)
    <2>1. c + 1 >= 0 /\ f.m_begin = end(1)
      BY <1>1, <1>5
    <2> QED BY ONLY <2>1, <1>7, <1>9, <1>10, <1>11 DEF Laid, newBegin, newEnd
  <1> QED BY <1>6, <1>12 DEF f

\* What a message holds is its payload.
LEMMA LaidBytes ==
    ASSUME NEW messages \in Seq(Message), NEW buffer \in Buffer,
           NEW sizes \in Seq(Nat \ {0}), Laid(messages, buffer, sizes),
           NEW i \in 1 .. Len(messages)
    PROVE  LET m == Len(sizes) - Len(messages) + i IN
           /\ m \in 1 .. Len(sizes)
           /\ BytesAt(buffer, messages[i].begin, messages[i].end) = [j \in 1 .. sizes[m] |-> m]
           /\ sizes[m] > 0
  <1> DEFINE begin == messages[i].begin
             end == messages[i].end
             m == Len(sizes) - Len(messages) + i
  <1>1. /\ end > begin /\ end - begin = sizes[m]
        /\ \A x \in begin + 1 .. end : buffer.m_buffer[x] = m
    BY DEF Laid
  <1>2. begin \in Nat /\ end \in Nat
    <2>1. messages[i] \in Message
      OBVIOUS
    <2> QED BY <2>1 DEF Message
  <1>3. Len(sizes) - Len(messages) \in Nat /\ Len(sizes) \in Nat /\ Len(messages) \in Nat
    BY LaidBounds
  <1>4. m \in 1 .. Len(sizes)
    BY <1>3
  <1> HIDE DEF begin, end, m
  <1>5. \A j \in 1 .. end - begin : buffer.m_buffer[begin + j] = m
    <2>1. \A j \in 1 .. end - begin : begin + j \in begin + 1 .. end
      BY <1>2
    <2> QED BY <2>1, <1>1
  <1>6. BytesAt(buffer, begin, end) = [j \in 1 .. sizes[m] |-> m]
    BY ONLY <1>1, <1>5 DEF BytesAt
  <1>7. sizes[m] > 0
    BY ONLY <1>1, <1>2
  <1> QED BY ONLY <1>4, <1>6, <1>7 DEF begin, end, m

-----------------------------------------------------------------------------
(* What a step of one host leaves of the invariant of the other.             *)

LEMMA SenderFrame ==
    ASSUME NEW h \in Senders, SenderInv(h),
           m_buffer'[h] = m_buffer[h],
           in_flight_messages'[h] = in_flight_messages[h],
           pending_messages'[h] = pending_messages[h],
           m_next_outgoing_sequence_number'[h] = m_next_outgoing_sequence_number[h],
           m_next_expected_sequence_number'[Other(h)] = m_next_expected_sequence_number[Other(h)],
           sent'[h] = sent[h], accepted'[h] = accepted[h], reported'[h] = reported[h],
           packets'[h] = packets[h], submitted'[h] = submitted[h],
           delivered'[Other(h)] = delivered[Other(h)],
           call'[h] = call[h] \/ (call[h].op # "ack" /\ call'[h].op # "ack"),
           call'[Other(h)] = call[Other(h)]
             \/ (call[Other(h)].op # "read" /\ call'[Other(h)].op # "read")
    PROVE  SenderInv(h)' /\ Silent(h)
  <1>1. /\ Outstanding(h)' = Outstanding(h)
        /\ Consumed(h)' = Consumed(h)
        /\ \A m : PayloadOf(h, m)' = PayloadOf(h, m)
    BY DEF Outstanding, MessagesInFlight, Consumed, PayloadOf
  <1>2. BufferInv(h)'
    BY <1>1 DEF SenderInv, BufferInv
  <1>3. PacketsInv(h)'
    BY DEF SenderInv, PacketsInv
  <1>9. PacketsNear(h)'
    BY DEF SenderInv, PacketsNear
  <1>4. FlightInv(h)'
    BY <1>1 DEF SenderInv, FlightInv
  <1>5. AckInv(h)'
    BY <1>1 DEF SenderInv, AckInv, Reads
  <1>6. ReadInv(h)'
    BY <1>1 DEF SenderInv, ReadInv
  <1>8. DeliveredInv(h)'
    BY <1>1 DEF SenderInv, DeliveredInv
  <1>7. ProgressInv(h)'
    BY <1>1 DEF SenderInv, ProgressInv, Reads
  <1> QED BY <1>1, <1>2, <1>3, <1>4, <1>5, <1>6, <1>7, <1>8, <1>9 DEF SenderInv, Silent

-----------------------------------------------------------------------------
(* send.                                                                     *)

\* The queues after maybe_flip hold the same messages, shifted.
LEMMA FlippedQueues ==
    ASSUME TypeOK, NEW h \in Ends, BufferInv(h)
    PROVE  LET flight == FlippedInFlight(h)
               pending == FlippedPending(h)
           IN
           /\ flight \in Seq(InFlightMessage)
           /\ Len(flight) = Len(in_flight_messages[h])
           /\ \A i \in 1 .. Len(flight) :
                flight[i].packet_id = in_flight_messages[h][i].packet_id
           /\ pending \in Seq(Message)
           /\ Len(pending) = Len(pending_messages[h])
           /\ Queue(flight, pending) \in Seq(Message)
           /\ Len(Queue(flight, pending)) = Len(Outstanding(h))
           /\ \A i \in 1 .. Len(Outstanding(h)) : Queue(flight, pending)[i] =
                Shifted(Outstanding(h)[i], m_buffer[h].m_begin)
  <1> DEFINE b == m_buffer[h].m_begin
             old == in_flight_messages[h]
             waiting == pending_messages[h]
             queue == Outstanding(h)
             f == Len(old)
             p == Len(waiting)
             flight == FlippedInFlight(h)
             pending == FlippedPending(h)
             moved(i) == [old[i] EXCEPT !.message = Shifted(@, b)]
             shifted(i) == Shifted(waiting[i], b)
  <1>1. /\ old \in Seq(InFlightMessage) /\ f \in Nat
        /\ waiting \in Seq(Message) /\ p \in Nat
        /\ m_buffer[h] \in Buffer /\ submitted[h] \in Seq(Nat \ {0})
    BY Lengths
  <1>2. /\ queue \in Seq(Message) /\ Len(queue) = f + p
        /\ \A i \in 1 .. f : queue[i] = old[i].message
        /\ \A i \in 1 .. p : queue[f + i] = waiting[i]
    BY OutstandingAt
  <1>3. /\ b \in Nat
        /\ \A i \in 1 .. f + p : Shifted(queue[i], b) \in Message
    <2>1. Laid(queue, m_buffer[h], submitted[h])
      BY DEF BufferInv
    <2>2. b \in Nat /\ \A i \in 1 .. Len(queue) :
            queue[i] \in Message /\ b <= queue[i].begin /\ queue[i].begin < queue[i].end
      BY <1>1, <1>2, <2>1, LaidBounds
    <2> HIDE DEF queue, b
    <2> QED BY <1>2, <2>2, ShiftedMessage
  <1>4. /\ flight = [i \in 1 .. f |-> moved(i)]
        /\ pending = [i \in 1 .. p |-> shifted(i)]
    BY DEF FlippedInFlight, FlippedPending
  <1> HIDE DEF b, old, waiting, queue, f, p, flight, pending, moved, shifted
  <1>5. ASSUME NEW i \in 1 .. f
        PROVE  /\ moved(i) \in InFlightMessage
               /\ moved(i).message = Shifted(queue[i], b)
               /\ moved(i).packet_id = old[i].packet_id
    <2>1. old[i] \in InFlightMessage
      BY <1>1 DEF f
    <2>2. Shifted(queue[i], b) \in Message /\ queue[i] = old[i].message
      BY <1>1, <1>2, <1>3
    <2>3. Shifted(old[i].message, b) \in Message
      BY <2>2
    <2> QED BY ONLY <2>1, <2>2, <2>3 DEF InFlightMessage, moved
  <1>6. /\ flight \in Seq(InFlightMessage) /\ Len(flight) = f
        /\ \A i \in 1 .. f : flight[i].message = Shifted(queue[i], b)
        /\ \A i \in 1 .. f : flight[i].packet_id = old[i].packet_id
    <2>1. f \in Nat
      BY <1>1
    <2>2. flight \in Seq(InFlightMessage) /\ Len(flight) = f
      BY ONLY <2>1, <1>4, <1>5
    <2>3. \A i \in 1 .. f : flight[i] = moved(i)
      BY ONLY <1>4
    <2> QED BY ONLY <2>2, <2>3, <1>5
  <1>7. \A i \in 1 .. p : shifted(i) = Shifted(queue[f + i], b) /\ shifted(i) \in Message
    BY <1>1, <1>2, <1>3 DEF shifted
  <1>8. /\ pending \in Seq(Message) /\ Len(pending) = p
        /\ \A i \in 1 .. p : pending[i] = Shifted(queue[f + i], b)
    <2>1. p \in Nat
      BY <1>1
    <2>2. pending \in Seq(Message) /\ Len(pending) = p
      BY ONLY <2>1, <1>4, <1>7
    <2>3. \A i \in 1 .. p : pending[i] = shifted(i)
      BY ONLY <1>4
    <2> QED BY ONLY <2>2, <2>3, <1>7
  <1>9. /\ Queue(flight, pending) \in Seq(Message)
        /\ Len(Queue(flight, pending)) = f + p
        /\ \A i \in 1 .. f : Queue(flight, pending)[i] = flight[i].message
        /\ \A i \in 1 .. p : Queue(flight, pending)[f + i] = pending[i]
    BY ONLY <1>6, <1>8, QueueAt
  <1>10. ASSUME NEW i \in 1 .. f + p
         PROVE  Queue(flight, pending)[i] = Shifted(queue[i], b)
    <2>1. CASE i \in 1 .. f
      BY ONLY <2>1, <1>6, <1>9
    <2>2. CASE ~(i \in 1 .. f)
      <3> DEFINE j == i - f
      <3>1. j \in 1 .. p /\ i = f + j
        BY <2>2, <1>1
      <3> HIDE DEF j
      <3> QED BY ONLY <3>1, <1>8, <1>9
    <2> QED BY <2>1, <2>2
  <1> QED BY ONLY <1>2, <1>6, <1>8, <1>9, <1>10 DEF b, old, waiting, queue, f, p, flight, pending

LEMMA QueueAppend ==
    ASSUME NEW flight \in Seq(InFlightMessage), NEW pending \in Seq(Message),
           NEW message \in Message
    PROVE  Queue(flight, Append(pending, message)) = Append(Queue(flight, pending), message)
  <1> DEFINE first == [i \in 1 .. Len(flight) |-> flight[i].message]
  <1>1. first \in Seq(Message)
    <2>1. \A i \in 1 .. Len(flight) : flight[i] \in InFlightMessage
      OBVIOUS
    <2>2. \A i \in 1 .. Len(flight) : flight[i].message \in Message
      BY <2>1 DEF InFlightMessage
    <2> QED BY <2>2
  <1>2. /\ Queue(flight, pending) = first \o pending
        /\ Queue(flight, Append(pending, message)) = first \o Append(pending, message)
    BY DEF Queue
  <1> HIDE DEF first
  <1>3. Append(pending, message) = pending \o <<message>>
    BY AppendIsConcat
  <1>4. first \o pending \in Seq(Message) /\ <<message>> \in Seq(Message)
    BY <1>1, ConcatProperties
  <1>5. Append(first \o pending, message) = (first \o pending) \o <<message>>
    BY <1>4, AppendIsConcat
  <1>6. (first \o pending) \o <<message>> = first \o (pending \o <<message>>)
    BY <1>1, <1>4, ConcatAssociative
  <1> QED BY <1>2, <1>3, <1>5, <1>6

\* A new message changes nothing of what older ones went through.
LEMMA SenderGrows ==
    ASSUME TypeOK, NEW h \in Senders, SenderInv(h), BufferInv(h)',
           Consumed(h)' = Consumed(h),
           Len(in_flight_messages'[h]) = Len(in_flight_messages[h]),
           \A i \in 1 .. Len(in_flight_messages[h]) :
             in_flight_messages'[h][i].packet_id = in_flight_messages[h][i].packet_id,
           Len(submitted'[h]) \in Nat, Len(submitted[h]) <= Len(submitted'[h]),
           \A m \in 1 .. Len(submitted[h]) : submitted'[h][m] = submitted[h][m],
           UNCHANGED <<sent, accepted, reported, packets, delivered, call,
                       m_next_expected_sequence_number>>
    PROVE  SenderInv(h)'
  <1>1. h \in Ends /\ Len(submitted[h]) \in Nat
    BY SendersAreEnds, Lengths
  <1>2. \A m \in 1 .. Len(submitted[h]) :
          m \in 1 .. Len(submitted'[h]) /\ PayloadOf(h, m)' = PayloadOf(h, m)
    BY <1>1 DEF PayloadOf
  <1>3. PacketsInv(h)'
    <2>1. PacketsInv(h)
      BY DEF SenderInv
    <2>2. ASSUME NEW k \in 1 .. sent[h] PROVE Carries(packets[h][k], submitted'[h])
      <3>1. Carries(packets[h][k], submitted[h])
        BY <2>1 DEF PacketsInv
      <3>2. \A m \in 1 .. Len(submitted[h]) :
              m \in 1 .. Len(submitted'[h]) /\ submitted'[h][m] = submitted[h][m]
        BY <1>2
      <3> QED BY ONLY <3>1, <3>2 DEF Carries
    <2> QED BY <2>1, <2>2 DEF PacketsInv
  <1>4. PacketsNear(h)'
    BY SMTT(40) DEF SenderInv, PacketsNear
  <1>5. FlightInv(h)'
    BY DEF SenderInv, FlightInv
  <1>6. AckInv(h)' /\ ReadInv(h)'
    BY DEF SenderInv, AckInv, ReadInv, Reads
  <1>7. DeliveredInv(h)'
    <2>1. DeliveredInv(h)
      BY DEF SenderInv
    <2>2. Len(delivered[Other(h)]) \in Nat
      BY <1>1, OtherEnd, Lengths
    <2>3. \A m \in 1 .. Len(delivered[Other(h)]) : delivered[Other(h)][m] = PayloadOf(h, m)'
      <3>1. \A m \in 1 .. Len(delivered[Other(h)]) :
              m \in 1 .. Len(submitted[h]) /\ delivered[Other(h)][m] = PayloadOf(h, m)
        BY <2>1, <2>2, <1>1 DEF DeliveredInv
      <3> QED BY <3>1, <1>2
    <2>4. Len(delivered[Other(h)]) <= Len(submitted'[h])
      BY <2>1, <2>2, <1>1 DEF DeliveredInv
    <2> QED BY <2>1, <2>3, <2>4 DEF DeliveredInv
  <1>8. ProgressInv(h)'
    BY DEF SenderInv, ProgressInv, Reads
  <1> QED BY <1>3, <1>4, <1>5, <1>6, <1>7, <1>8 DEF SenderInv

LEMMA SendStep ==
    ASSUME StreamInv, NEW g \in Senders, NEW size \in 0 .. MaxSize, Send(g, size)
    PROVE  StreamInv' /\ VisibleStep
  <1> TypeOK /\ g \in Ends
    BY SendersAreEnds DEF StreamInv
  <1> DEFINE old == Outstanding(g)
             buffer == Flip(m_buffer[g])
             flight == FlippedInFlight(g)
             pending == FlippedPending(g)
             sizes == submitted[g]
             message == [begin |-> buffer.m_end, end |-> buffer.m_end + size,
                         sequence_number |-> m_next_outgoing_sequence_number[g]]
  <1>1. SenderInv(g) /\ BufferInv(g) /\ Laid(old, m_buffer[g], sizes)
        /\ m_next_outgoing_sequence_number[g] = Len(sizes) % SequenceModulus
    BY DEF StreamInv, SenderInv, BufferInv
  <1>2. /\ flight \in Seq(InFlightMessage)
        /\ Len(flight) = Len(in_flight_messages[g])
        /\ \A i \in 1 .. Len(flight) : flight[i].packet_id = in_flight_messages[g][i].packet_id
        /\ pending \in Seq(Message)
        /\ Len(pending) = Len(pending_messages[g])
        /\ Queue(flight, pending) \in Seq(Message)
        /\ Len(Queue(flight, pending)) = Len(old)
        /\ \A i \in 1 .. Len(old) : Queue(flight, pending)[i] =
             Shifted(old[i], m_buffer[g].m_begin)
    BY <1>1, FlippedQueues
  <1>3. /\ old \in Seq(Message) /\ m_buffer[g] \in Buffer
        /\ sizes \in Seq(Nat \ {0}) /\ Len(sizes) \in Nat /\ Len(old) \in Nat
    BY OutstandingAt, Lengths
  <1>4. /\ buffer \in Buffer
        /\ Laid(Queue(flight, pending), buffer, sizes)
    BY <1>1, <1>2, <1>3, LaidFlip
  <1>5. /\ in_flight_messages' = [in_flight_messages EXCEPT ![g] = flight]
        /\ size \in 0 .. Remaining(buffer)
        /\ UNCHANGED <<sent, accepted, reported, packets, delivered, call,
                       m_next_expected_sequence_number>>
    BY DEF Send, StreamSend, contractVars
  <1>6. in_flight_messages' \in [Ends -> Seq(InFlightMessage)]
    BY <1>2, <1>5 DEF TypeOK
  <1>7. in_flight_messages'[g] = flight
    BY <1>5 DEF TypeOK
  <1> HIDE DEF old, buffer, flight, pending
  <1>11. \A h \in Ends : EndInv(h)'
    BY <1>5 DEF StreamInv, EndInv
  <1>8. CASE size = 0
    <2>1. /\ m_buffer' = [m_buffer EXCEPT ![g] = buffer]
          /\ pending_messages' = [pending_messages EXCEPT ![g] = pending]
          /\ UNCHANGED <<m_next_outgoing_sequence_number, submitted>>
      <3>1. StreamSend(g, size, Len(submitted[g]) + 1)
            /\ submitted' = [submitted EXCEPT ![g] = submitted[g]]
        BY <1>8 DEF Send
      <3>2. UNCHANGED submitted
        BY <3>1 DEF TypeOK
      <3>3. ~(size > 0)
        BY <1>8
      <3> QED BY ONLY <3>1, <3>2, <3>3 DEF StreamSend, buffer, pending
    <2>2. /\ m_buffer' \in [Ends -> Buffer]
          /\ pending_messages' \in [Ends -> Seq(Message)]
      BY <2>1, <1>2, <1>4 DEF TypeOK
    <2>3. m_buffer'[g] = buffer /\ pending_messages'[g] = pending /\ submitted'[g] = sizes
      BY <2>1 DEF TypeOK
    <2>4. TypeOK'
      BY <2>1, <2>2, <1>5, <1>6 DEF TypeOK
    <2>5. Outstanding(g)' = Queue(flight, pending)
      BY <2>3, <1>7, OutstandingIsQueue
    <2>6. BufferInv(g)'
      BY <2>1, <2>3, <2>5, <1>1, <1>4 DEF BufferInv
    <2>7. Consumed(g)' = Consumed(g)
      BY <2>3, <2>5, <1>2 DEF Consumed, old
    <2>8. SenderInv(g)'
      <3>1. /\ Len(submitted'[g]) \in Nat /\ Len(submitted[g]) <= Len(submitted'[g])
            /\ \A m \in 1 .. Len(submitted[g]) : submitted'[g][m] = submitted[g][m]
        BY <2>1, <1>3
      <3> QED BY <3>1, <2>6, <2>7, <1>1, <1>2, <1>5, <1>7, SenderGrows
    <2>9. ASSUME NEW h \in Senders, h # g PROVE SenderInv(h)' /\ Silent(h)
      <3>1. h \in Ends /\ SenderInv(h)
        BY SendersAreEnds DEF StreamInv
      <3> QED BY <3>1, <2>1, <2>9, <1>5, SenderFrame DEF TypeOK
    <2>10. Silent(g)
      BY <2>1, <2>7, <1>5 DEF Silent
    <2> QED BY <2>4, <2>8, <2>9, <2>10, <1>11 DEF StreamInv, VisibleStep
  <1>9. CASE size > 0
    <2>1. /\ m_buffer' = [m_buffer EXCEPT ![g] = WriteAndAdvance(buffer, size, Len(sizes) + 1)]
          /\ pending_messages' = [pending_messages EXCEPT ![g] = Append(pending, message)]
          /\ m_next_outgoing_sequence_number' =
               [m_next_outgoing_sequence_number EXCEPT ![g] = (@ + 1) % SequenceModulus]
          /\ submitted' = [submitted EXCEPT ![g] = Append(@, size)]
      <3>1. size # 0
        BY <1>9
      <3>2. StreamSend(g, size, Len(submitted[g]) + 1)
            /\ submitted' = [submitted EXCEPT ![g] = Append(@, size)]
        BY <3>1 DEF Send
      <3> QED BY ONLY <3>1, <3>2 DEF StreamSend, buffer, pending
    <2>2. /\ message \in Message
          /\ message.begin = buffer.m_end
          /\ message.end = buffer.m_end + size
          /\ message.sequence_number = Len(sizes) % SequenceModulus
      <3>1. buffer.m_end \in Nat /\ buffer.m_end + size \in Nat
        BY <1>4, <1>9, CapacityIsNat DEF Buffer
      <3>2. m_next_outgoing_sequence_number[g] \in 0 .. SequenceModulus - 1
        BY DEF TypeOK
      <3> QED BY <3>1, <3>2, <1>1 DEF Message
    <2> HIDE DEF message
    <2>3. size \in 1 .. Remaining(buffer) /\ size \in Nat \ {0}
      BY <1>5, <1>9
    <2>4. /\ WriteAndAdvance(buffer, size, Len(sizes) + 1) \in Buffer
          /\ Laid(Append(Queue(flight, pending), message),
                  WriteAndAdvance(buffer, size, Len(sizes) + 1), Append(sizes, size))
      BY <2>2, <2>3, <1>2, <1>3, <1>4, LaidAppend
    <2>5. Append(pending, message) \in Seq(Message)
      BY <2>2, <1>2
    <2>6. Append(sizes, size) \in Seq(Nat \ {0})
      BY <2>3, <1>3
    <2>7. (m_next_outgoing_sequence_number[g] + 1) % SequenceModulus =
            (Len(sizes) + 1) % SequenceModulus
          /\ (Len(sizes) + 1) % SequenceModulus \in 0 .. SequenceModulus - 1
      <3>1. Len(sizes) + 1 \in Nat
        BY <1>3
      <3> QED BY ONLY <3>1, <1>1, <1>3, ModNext
    <2>8. TypeOK'
      <3>1. m_buffer' \in [Ends -> Buffer]
        BY <2>1, <2>4 DEF TypeOK
      <3>2. pending_messages' \in [Ends -> Seq(Message)]
        BY <2>1, <2>5 DEF TypeOK
      <3>3. submitted' \in [Ends -> Seq(Nat \ {0})]
        BY <2>1, <2>6 DEF TypeOK
      <3>4. m_next_outgoing_sequence_number' \in [Ends -> 0 .. SequenceModulus - 1]
        BY <2>1, <2>7 DEF TypeOK
      <3> QED BY <3>1, <3>2, <3>3, <3>4, <1>5, <1>6 DEF TypeOK
    <2>9. /\ m_buffer'[g] = WriteAndAdvance(buffer, size, Len(sizes) + 1)
          /\ pending_messages'[g] = Append(pending, message)
          /\ submitted'[g] = Append(sizes, size)
          /\ m_next_outgoing_sequence_number'[g] = (Len(sizes) + 1) % SequenceModulus
      BY <2>1, <2>7 DEF TypeOK
    <2> HIDE DEF sizes
    <2>10. /\ Len(submitted'[g]) = Len(sizes) + 1
           /\ \A m \in 1 .. Len(sizes) : submitted'[g][m] = sizes[m]
      BY <2>3, <2>9, <1>3, AppendProperties
    <2>11. Outstanding(g)' = Append(Queue(flight, pending), message)
      <3>1. Outstanding(g)' = Queue(flight, Append(pending, message))
        BY ONLY <2>9, <1>7, OutstandingIsQueue
      <3> QED BY ONLY <3>1, <2>2, <1>2, QueueAppend
    <2>12. BufferInv(g)'
      BY <2>4, <2>9, <2>10, <2>11 DEF BufferInv
    <2>13. Consumed(g)' = Consumed(g)
      <3>1. Len(Outstanding(g)') = Len(old) + 1
        BY <2>2, <2>11, <1>2, AppendProperties
      <3>2. Consumed(g)' = (Len(sizes) + 1) - (Len(old) + 1)
        BY <3>1, <2>10 DEF Consumed
      <3>3. Consumed(g) = Len(sizes) - Len(old)
        BY DEF Consumed, sizes, old
      <3> QED BY <3>2, <3>3, <1>3
    <2>14. SenderInv(g)'
      <3>1. Len(submitted'[g]) \in Nat /\ Len(submitted[g]) <= Len(submitted'[g])
            /\ \A m \in 1 .. Len(submitted[g]) : submitted'[g][m] = submitted[g][m]
        BY <2>10, <1>3 DEF sizes
      <3> QED BY <3>1, <2>12, <2>13, <1>1, <1>2, <1>5, <1>7, SenderGrows
    <2>15. ASSUME NEW h \in Senders, h # g PROVE SenderInv(h)' /\ Silent(h)
      <3>1. h \in Ends /\ SenderInv(h)
        BY SendersAreEnds DEF StreamInv
      <3> QED BY <3>1, <2>1, <2>15, <1>5, SenderFrame DEF TypeOK
    <2>16. Offers(g, size) /\ size \in 1 .. MaxSize
      <3>1. size \in 1 .. MaxSize /\ size # 0
        BY <2>3
      <3>2. Len(submitted[g]) < MaxMessages
        BY <3>1 DEF Send
      <3> QED BY <3>1, <3>2, <2>9, <2>13, <1>5 DEF Offers, sizes
    <2> QED BY <2>8, <2>14, <2>15, <2>16, <1>11 DEF StreamInv, VisibleStep
  <1>10. size \in Nat
    BY ReliableLinkConstants
  <1> QED BY <1>8, <1>9, <1>10

-----------------------------------------------------------------------------
(* write.                                                                    *)

\* The first n pending messages, in flight with packet id.
Launched(pending, n, id) == [i \in 1 .. n |-> [packet_id |-> id, message |-> pending[i]]]

\* They go in flight, and the queue stays as it is.
SameQueue(flight, pending, n, id, went, left) ==
    /\ went \in Seq(InFlightMessage)
    /\ Len(went) = Len(flight) + n
    /\ \A i \in 1 .. Len(flight) : went[i] = flight[i]
    /\ \A i \in 1 .. n : went[Len(flight) + i].packet_id = id
    /\ left \in Seq(Message)
    /\ Queue(went, left) = Queue(flight, pending)

LEMMA QueueMove ==
    ASSUME NEW flight \in Seq(InFlightMessage), NEW pending \in Seq(Message),
           NEW n \in 0 .. Len(pending), NEW id \in Nat,
           NEW went, went = flight \o Launched(pending, n, id),
           NEW left, left = SubSeq(pending, n + 1, Len(pending))
    PROVE  SameQueue(flight, pending, n, id, went, left)
  <1> DEFINE f == Len(flight)
             p == Len(pending)
             new == Launched(pending, n, id)
             longer == flight \o new
             rest == SubSeq(pending, n + 1, p)
             queue == Queue(flight, pending)
             moved == Queue(longer, rest)
  <1>1. f \in Nat /\ p \in Nat /\ n \in Nat /\ n <= p
    OBVIOUS
  <1>2. new \in Seq(InFlightMessage) /\ Len(new) = n
        /\ \A i \in 1 .. n : new[i].packet_id = id /\ new[i].message = pending[i]
    <2>1. \A i \in 1 .. n : pending[i] \in Message
      BY <1>1
    <2>2. \A i \in 1 .. n : [packet_id |-> id, message |-> pending[i]] \in InFlightMessage
      BY <2>1 DEF InFlightMessage
    <2>3. new \in Seq(InFlightMessage) /\ Len(new) = n
      BY ONLY <1>1, <2>2 DEF Launched
    <2> QED BY <2>3 DEF Launched
  <1> HIDE DEF new
  <1>3. /\ longer \in Seq(InFlightMessage) /\ Len(longer) = f + n
        /\ \A i \in 1 .. f + n : longer[i] = IF i <= f THEN flight[i] ELSE new[i - f]
    BY ONLY <1>2, flight \in Seq(InFlightMessage), ConcatProperties
  <1>4. /\ \A i \in 1 .. f : longer[i] = flight[i]
        /\ \A i \in 1 .. n : longer[f + i] = new[i]
    <2> HIDE DEF longer, f
    <2> QED BY ONLY <1>1, <1>3
  <1>5. /\ rest \in Seq(Message) /\ Len(rest) = p - n
        /\ \A i \in 1 .. p - n : rest[i] = pending[n + i]
    <2>1. n + 1 \in 1 .. p + 1 /\ p \in (n + 1) - 1 .. p
      BY <1>1
    <2>2. /\ rest \in Seq(Message)
          /\ Len(rest) = IF n + 1 <= p THEN p - (n + 1) + 1 ELSE 0
          /\ \A i \in 1 .. p - (n + 1) + 1 : rest[i] = pending[(n + 1) + i - 1]
      <3>1. \A i \in n + 1 .. p : pending[i] \in Message
        BY <1>1
      <3>2. n + 1 \in Int /\ p \in Int
        BY ONLY <1>1
      <3> HIDE DEF p
      <3> QED BY ONLY <3>1, <3>2, SubSeqProperties
    <2>3. p - (n + 1) + 1 = p - n /\ \A i \in 1 .. p - n : (n + 1) + i - 1 = n + i
      BY ONLY <1>1
    <2>4. (IF n + 1 <= p THEN p - (n + 1) + 1 ELSE 0) = p - n
      BY ONLY <1>1
    <2> HIDE DEF rest, p
    <2>5. \A i \in 1 .. p - n : rest[i] = pending[n + i]
      BY ONLY <2>2, <2>3
    <2> QED BY ONLY <2>2, <2>4, <2>5
  <1>6. /\ queue \in Seq(Message) /\ Len(queue) = f + p
        /\ \A i \in 1 .. f : queue[i] = flight[i].message
        /\ \A i \in 1 .. p : queue[f + i] = pending[i]
    BY QueueAt
  <1>11. longer = went /\ rest = left
    BY DEF new
  <1> HIDE DEF longer, rest, f, p, queue
  <1>7. /\ moved \in Seq(Message) /\ Len(moved) = Len(longer) + Len(rest)
        /\ \A i \in 1 .. Len(longer) : moved[i] = longer[i].message
        /\ \A i \in 1 .. Len(rest) : moved[Len(longer) + i] = rest[i]
    BY ONLY <1>3, <1>5, QueueAt
  <1> HIDE DEF moved
  <1>8. Len(moved) = Len(queue)
    BY ONLY <1>1, <1>3, <1>5, <1>6, <1>7
  <1>9. ASSUME NEW i \in 1 .. Len(queue) PROVE moved[i] = queue[i]
    <2>1. CASE i \in 1 .. f
      <3>1. i \in 1 .. f + n
        BY ONLY <2>1, <1>1
      <3> QED BY ONLY SMTT(40), <3>1, <2>1, <1>3, <1>4, <1>6, <1>7
    <2>2. CASE i \in f + 1 .. f + n
      <3> DEFINE j == i - f
      <3>1. j \in 1 .. n /\ j \in 1 .. p /\ i = f + j /\ i \in 1 .. f + n
        BY ONLY <2>2, <1>1
      <3> HIDE DEF j
      <3>2. moved[i] = longer[f + j].message
        BY ONLY <3>1, <1>3, <1>7
      <3> QED BY ONLY <3>1, <3>2, <1>2, <1>4, <1>6
    <2>3. CASE i \in f + n + 1 .. f + p
      <3> DEFINE j == i - f - n
      <3>1. j \in 1 .. p - n /\ n + j \in 1 .. p /\ i = (f + n) + j /\ i = f + (n + j)
        BY ONLY <2>3, <1>1
      <3> HIDE DEF j
      <3>2. moved[(f + n) + j] = rest[j]
        BY ONLY <3>1, <1>3, <1>5, <1>7
      <3>3. queue[f + (n + j)] = pending[n + j]
        BY ONLY <3>1, <1>6
      <3> QED BY ONLY <3>1, <3>2, <3>3, <1>5
    <2> QED BY ONLY <2>1, <2>2, <2>3, <1>1, <1>6, i \in 1 .. Len(queue)
  <1>10. moved = queue
    BY ONLY <1>6, <1>7, <1>8, <1>9, SeqEqual
  <1> QED BY ONLY <1>2, <1>3, <1>4, <1>5, <1>10, <1>11 DEF SameQueue, f, p, queue, moved

\* What goes into a packet is what was submitted.
LEMMA SegmentWritten ==
    ASSUME TypeOK, NEW h \in Ends, BufferInv(h), NEW n \in 0 .. Len(pending_messages[h])
    PROVE  LET first == Consumed(h) + Len(in_flight_messages[h])
               segment == SegmentToWrite(h, n)
           IN
           /\ Consumed(h) \in Nat
           /\ segment \in Seq(SegmentMessage)
           /\ Len(segment) = n
           /\ \A i \in 1 .. n :
                /\ first + i \in 1 .. Len(submitted[h])
                /\ Number(segment[i]) = first + i
                /\ segment[i].payload = PayloadOf(h, first + i)
                /\ segment[i].sequence_number = (first + i - 1) % SequenceModulus
           /\ Len(submitted[h]) <= Consumed(h) + Capacity
  <1> DEFINE f == Len(in_flight_messages[h])
             p == Len(pending_messages[h])
             queue == Outstanding(h)
             sizes == submitted[h]
             c == Consumed(h)
             segment == SegmentToWrite(h, n)
             bytes(i) == BytesAt(m_buffer[h], pending_messages[h][i].begin,
                                 pending_messages[h][i].end)
             entry(i) == [sequence_number |-> pending_messages[h][i].sequence_number,
                          payload |-> bytes(i)]
  <1>1. /\ f \in Nat /\ p \in Nat /\ Len(sizes) \in Nat /\ sizes \in Seq(Nat \ {0})
        /\ m_buffer[h] \in Buffer /\ n \in Nat /\ n <= p
    BY Lengths
  <1>2. /\ queue \in Seq(Message) /\ Len(queue) = f + p /\ Len(queue) \in Nat
        /\ \A i \in 1 .. p : queue[f + i] = pending_messages[h][i]
    BY OutstandingAt
  <1>3. Laid(queue, m_buffer[h], sizes)
    BY DEF BufferInv
  <1>4. c = Len(sizes) - Len(queue)
    BY DEF Consumed
  <1>5. /\ c \in Nat /\ Len(sizes) <= c + Capacity
    <2>1. /\ Len(sizes) - Len(queue) \in Nat /\ m_buffer[h].m_end <= Capacity
          /\ Len(queue) <= m_buffer[h].m_end - m_buffer[h].m_begin
          /\ m_buffer[h].m_begin \in Nat /\ m_buffer[h].m_end \in Nat
      BY ONLY <1>1, <1>2, <1>3, LaidBounds
    <2>2. Len(queue) \in Nat /\ Len(sizes) \in Nat
      BY <1>1, <1>2
    <2> HIDE DEF queue, c, sizes
    <2> QED BY ONLY <2>1, <2>2, <1>4, CapacityIsNat
  <1> HIDE DEF c, queue, sizes, f, p
  <1>6. ASSUME NEW i \in 1 .. n
        PROVE  /\ (c + f) + i \in 1 .. Len(sizes)
               /\ bytes(i) = [j \in 1 .. sizes[(c + f) + i] |-> (c + f) + i]
               /\ sizes[(c + f) + i] > 0
               /\ pending_messages[h][i].sequence_number = ((c + f) + i - 1) % SequenceModulus
               /\ sizes[(c + f) + i] \in Nat
    <2>1. f + i \in 1 .. Len(queue) /\ i \in 1 .. p
      BY ONLY <1>1, <1>2, i \in 1 .. n
    <2>2. Len(sizes) - Len(queue) + (f + i) = (c + f) + i /\ i \in Nat
      BY ONLY <1>1, <1>4, <1>5, i \in 1 .. n
    <2>3. queue[f + i] = pending_messages[h][i]
      BY ONLY <2>1, <1>2
    <2>4. /\ (c + f) + i \in 1 .. Len(sizes)
          /\ BytesAt(m_buffer[h], queue[f + i].begin, queue[f + i].end)
               = [j \in 1 .. sizes[(c + f) + i] |-> (c + f) + i]
          /\ sizes[(c + f) + i] > 0
      <3> DEFINE x == f + i
                 m == Len(sizes) - Len(queue) + x
      <3>1. x \in 1 .. Len(queue) /\ m = (c + f) + i
        BY ONLY <2>1, <2>2
      <3> HIDE DEF x
      <3>2. /\ m \in 1 .. Len(sizes)
            /\ BytesAt(m_buffer[h], queue[x].begin, queue[x].end) = [j \in 1 .. sizes[m] |-> m]
            /\ sizes[m] > 0
        BY ONLY <3>1, <1>1, <1>2, <1>3, LaidBytes
      <3> HIDE DEF m
      <3> QED BY ONLY <3>1, <3>2 DEF x
    <2>5. queue[f + i].sequence_number = (c + (f + i) - 1) % SequenceModulus
      BY ONLY <2>1, <1>3, <1>4 DEF Laid
    <2>6. c + (f + i) - 1 = (c + f) + i - 1
      BY ONLY <2>2, <1>1, <1>5
    <2>7. sizes[(c + f) + i] \in Nat
      BY ONLY <2>4, <1>1
    <2> QED BY ONLY <2>3, <2>4, <2>5, <2>6, <2>7
  <1>7. segment = [i \in 1 .. n |-> entry(i)]
    BY DEF SegmentToWrite
  <1>8. \A i \in 1 .. n : entry(i).payload = bytes(i)
          /\ entry(i).sequence_number = pending_messages[h][i].sequence_number
    OBVIOUS
  <1>9. ASSUME NEW i \in 1 .. n PROVE entry(i) \in SegmentMessage
    <2>1. bytes(i) \in Seq(Nat)
      <3>1. (c + f) + i \in Nat
        BY ONLY <1>1, <1>5, i \in 1 .. n
      <3> HIDE DEF bytes
      <3> QED BY ONLY <3>1, <1>6
    <2>2. pending_messages[h][i] \in Message
      <3>1. pending_messages[h] \in Seq(Message) /\ i \in 1 .. Len(pending_messages[h])
        BY Lengths, <1>1 DEF p
      <3> QED BY <3>1
    <2>3. pending_messages[h][i].sequence_number \in 0 .. SequenceModulus - 1
      BY <2>2 DEF Message
    <2> HIDE DEF bytes
    <2> QED BY ONLY <2>1, <2>3 DEF SegmentMessage
  <1> HIDE DEF entry, bytes, segment
  <1>10. /\ segment \in Seq(SegmentMessage) /\ Len(segment) = n
         /\ \A i \in 1 .. n : segment[i] = entry(i)
    BY ONLY <1>1, <1>7, <1>9
  <1>11. ASSUME NEW i \in 1 .. n
         PROVE  /\ Number(segment[i]) = (c + f) + i
                /\ segment[i].payload = [j \in 1 .. sizes[(c + f) + i] |-> (c + f) + i]
    <2>1. segment[i].payload = [j \in 1 .. sizes[(c + f) + i] |-> (c + f) + i]
      BY ONLY <1>6, <1>8, <1>10
    <2>2. 1 \in 1 .. sizes[(c + f) + i]
      BY ONLY <1>6
    <2> QED BY ONLY <2>1, <2>2 DEF Number
  <1>12. \A i \in 1 .. n : segment[i].sequence_number = ((c + f) + i - 1) % SequenceModulus
    BY ONLY <1>6, <1>8, <1>10
  <1> QED BY ONLY <1>5, <1>6, <1>10, <1>11, <1>12 DEF c, f, segment, sizes, PayloadOf

LEMMA WriteStep ==
    ASSUME StreamInv, NEW g \in Senders, WritePacket(g)
    PROVE  StreamInv' /\ VisibleStep
  <1> TypeOK /\ g \in Ends
    BY SendersAreEnds DEF StreamInv
  <1>1. PICK n \in 0 .. Len(pending_messages[g]) :
          /\ StreamWrite(g, sent[g] + 1, PacketRoom, n)
          /\ packets' = [packets EXCEPT ![g] = Append(@, SegmentToWrite(g, n))]
    BY DEF WritePacket
  <1> DEFINE flight == in_flight_messages[g]
             pending == pending_messages[g]
             f == Len(flight)
             s == sent[g]
             c == Consumed(g)
             segment == SegmentToWrite(g, n)
             went == flight \o Launched(pending, n, s + 1)
             rest == SubSeq(pending, n + 1, Len(pending))
  <1>2. SenderInv(g) /\ BufferInv(g)
    BY DEF StreamInv, SenderInv
  <1>3. /\ flight \in Seq(InFlightMessage) /\ f \in Nat /\ s \in Nat /\ n \in Nat
        /\ pending \in Seq(Message)
        /\ packets[g] \in Seq(Seq(SegmentMessage)) /\ Len(packets[g]) = s
        /\ Len(submitted[g]) \in Nat /\ Len(reported[g]) \in Nat
    BY <1>2, Lengths DEF SenderInv, PacketsInv
  <1>4. /\ c \in Nat
        /\ segment \in Seq(SegmentMessage) /\ Len(segment) = n
        /\ \A i \in 1 .. n :
             /\ (c + f) + i \in 1 .. Len(submitted[g])
             /\ Number(segment[i]) = (c + f) + i
             /\ segment[i].payload = PayloadOf(g, (c + f) + i)
             /\ segment[i].sequence_number = ((c + f) + i - 1) % SequenceModulus
        /\ Len(submitted[g]) <= c + Capacity
    BY <1>2, SegmentWritten
  <1>5. /\ in_flight_messages' = [in_flight_messages EXCEPT ![g] = went]
        /\ pending_messages' = [pending_messages EXCEPT ![g] = rest]
        /\ packets' = [packets EXCEPT ![g] = Append(@, segment)]
        /\ sent' = [sent EXCEPT ![g] = s + 1]
        /\ call[g].op = "none"
        /\ UNCHANGED <<m_buffer, m_next_outgoing_sequence_number,
                       m_next_expected_sequence_number, call, accepted, reported,
                       submitted, delivered>>
    BY <1>1 DEF WritePacket, StreamWrite, SendPacket, Idle, Launched
  <1>6. /\ in_flight_messages'[g] = went /\ pending_messages'[g] = rest
        /\ packets'[g] = Append(packets[g], segment) /\ sent'[g] = s + 1
    BY <1>5 DEF TypeOK
  <1>7. /\ went \in Seq(InFlightMessage)
        /\ Len(went) = f + n
        /\ \A i \in 1 .. f : went[i] = flight[i]
        /\ \A i \in 1 .. n : went[f + i].packet_id = s + 1
        /\ rest \in Seq(Message)
        /\ Queue(went, rest) = Queue(flight, pending)
    <2> DEFINE id == s + 1
    <2>1. /\ id \in Nat /\ n \in 0 .. Len(pending)
          /\ went = flight \o Launched(pending, n, id)
          /\ rest = SubSeq(pending, n + 1, Len(pending))
      BY <1>3
    <2>2. flight \in Seq(InFlightMessage) /\ pending \in Seq(Message)
      BY <1>3
    <2> HIDE DEF flight, pending, id, went, rest
    <2>3. SameQueue(flight, pending, n, id, went, rest)
      BY ONLY <2>1, <2>2, QueueMove
    <2> QED BY ONLY <2>3 DEF SameQueue, id
  <1>8. /\ Append(packets[g], segment) \in Seq(Seq(SegmentMessage))
        /\ Len(packets'[g]) = s + 1
        /\ \A k \in 1 .. s : packets'[g][k] = packets[g][k]
        /\ packets'[g][s + 1] = segment
    BY ONLY <1>3, <1>4, <1>6, AppendProperties
  <1>9. TypeOK'
    <2>1. in_flight_messages' \in [Ends -> Seq(InFlightMessage)]
      BY <1>5, <1>7 DEF TypeOK
    <2>2. pending_messages' \in [Ends -> Seq(Message)]
      BY <1>5, <1>7 DEF TypeOK
    <2>3. packets' \in [Ends -> Seq(Seq(SegmentMessage))]
      BY <1>5, <1>8 DEF TypeOK
    <2>4. sent' \in [Ends -> Nat]
      BY <1>3, <1>5 DEF TypeOK
    <2> QED BY <2>1, <2>2, <2>3, <2>4, <1>5 DEF TypeOK
  <1>10. ASSUME NEW h \in Ends PROVE EndInv(h)'
    <2>1. EndInv(h)
      BY DEF StreamInv
    <2>2. CASE h = g
      BY <2>1, <2>2, <1>5, <1>6, <1>8 DEF EndInv
    <2>3. CASE h # g
      BY <2>1, <2>3, <1>5 DEF EndInv, TypeOK
    <2> QED BY <2>2, <2>3
  <1>11. ASSUME NEW h \in Senders, h # g PROVE SenderInv(h)' /\ Silent(h)
    <2>1. h \in Ends /\ SenderInv(h)
      BY SendersAreEnds DEF StreamInv
    <2> QED BY <2>1, <1>5, <1>11, SenderFrame DEF TypeOK
  <1>12. /\ Outstanding(g)' = Outstanding(g)
         /\ Consumed(g)' = c
         /\ \A m : PayloadOf(g, m)' = PayloadOf(g, m)
    <2>1. Outstanding(g)' = Outstanding(g)
      BY ONLY <1>6, <1>7, OutstandingIsQueue
    <2> QED BY <2>1, <1>5 DEF Consumed, PayloadOf
  <1> DEFINE old(k) == packets[g][k]
             now(k) == packets'[g][k]
  <1>13. in_flight_messages'[g] = went
    BY <1>6
  <1> HIDE DEF flight, pending, f, s, c, segment, rest, went
  <1>14. BufferInv(g)'
    BY <1>2, <1>5, <1>12 DEF BufferInv
  <1>15. PacketsInv(g)'
    <2>1. PacketsInv(g)
      BY <1>2 DEF SenderInv
    <2>2. ASSUME NEW k \in 1 .. s + 1 PROVE Carries(now(k), submitted[g])
      <3>1. CASE k \in 1 .. s
        BY <3>1, <2>1, <1>8 DEF PacketsInv, s
      <3>2. CASE k = s + 1
        <4>1. now(k) = segment
          BY <3>2, <1>8
        <4>2. \A i, j \in 1 .. Len(segment) : Number(segment[j]) - Number(segment[i]) = j - i
          BY ONLY <1>3, <1>4
        <4>3. ASSUME NEW i \in 1 .. Len(segment)
              PROVE  LET m == Number(segment[i]) IN
                     /\ m \in 1 .. Len(submitted[g])
                     /\ segment[i].payload = [x \in 1 .. submitted[g][m] |-> m]
                     /\ segment[i].sequence_number = (m - 1) % SequenceModulus
          <5> DEFINE m == (c + f) + i
          <5>1. i \in 1 .. n
            BY ONLY <1>4, i \in 1 .. Len(segment)
          <5>2. c \in Nat /\ f \in Nat /\ i \in Nat
            BY ONLY <5>1, <1>3, <1>4
          <5>3. Number(segment[i]) = m
            BY ONLY <5>1, <1>4
          <5>4. m \in 1 .. Len(submitted[g])
            BY ONLY <5>1, <1>4
          <5>5. segment[i].payload = [x \in 1 .. submitted[g][m] |-> m]
            BY ONLY <5>1, <1>4 DEF PayloadOf
          <5>6. segment[i].sequence_number = (m - 1) % SequenceModulus
            BY ONLY SMTT(40), <5>1, <5>2, <1>4, SequenceModulusIsPos
          <5> HIDE DEF m
          <5> QED BY ONLY <5>3, <5>4, <5>5, <5>6
        <4> HIDE DEF now
        <4> QED BY ONLY <4>1, <4>2, <4>3 DEF Carries
      <3> QED BY ONLY <3>1, <3>2, <1>3, k \in 1 .. s + 1
    <2>3. Len(packets'[g]) = sent'[g] /\ sent'[g] = s + 1
      BY <1>6, <1>8
    <2>4. UNCHANGED submitted
      BY <1>5
    <2> QED BY ONLY <2>2, <2>3, <2>4 DEF PacketsInv, now
  <1>16. PacketsNear(g)'
    <2>1. PacketsNear(g) /\ PacketsInv(g)
      BY <1>2 DEF SenderInv
    <2>2. ASSUME NEW j \in 1 .. s + 1, NEW k \in 1 .. s + 1, j <= k,
                 NEW x \in 1 .. Len(now(j)), NEW y \in 1 .. Len(now(k))
          PROVE  Number(now(j)[x]) < Number(now(k)[y]) + Capacity
      <3>1. CASE k \in 1 .. s
        <4>1. j \in 1 .. s
          BY ONLY <3>1, <2>2, <1>3
        <4> QED BY <4>1, <3>1, <2>1, <2>2, <1>8 DEF PacketsNear, s
      <3>2. CASE k = s + 1
        <4>1. Number(now(j)[x]) \in 1 .. Len(submitted[g])
          <5>1. Carries(now(j), submitted[g])
            BY <1>15, <1>5, <1>6 DEF PacketsInv
          <5> QED BY <5>1 DEF Carries
        <4>2. now(k) = segment
          BY <3>2, <1>8
        <4>3. Number(now(k)[y]) = (c + f) + y /\ y \in 1 .. n
          BY ONLY <4>2, <1>4, y \in 1 .. Len(now(k))
        <4> HIDE DEF now
        <4> QED BY ONLY <4>1, <4>3, <1>3, <1>4, CapacityIsNat
      <3> QED BY ONLY <3>1, <3>2, <1>3, k \in 1 .. s + 1
    <2> QED BY <2>2, <1>6 DEF PacketsNear, now
  <1>17. FlightInv(g)'
    <2>1. FlightInv(g)
      BY <1>2 DEF SenderInv
    <2>2. Len(reported[g]) <= s + 1
      <3>1. Len(reported[g]) <= s
        BY <2>1 DEF FlightInv, s
      <3> QED BY ONLY <3>1, <1>3
    <2>3. \A i \in 1 .. f : /\ went[i].packet_id \in 1 .. s
                            /\ went[i].packet_id >= Len(reported[g]) + 1
                            /\ \E x \in 1 .. Len(old(went[i].packet_id)) :
                                  Number(old(went[i].packet_id)[x]) = c + i
      <3>1. \A i \in 1 .. f : went[i] = flight[i]
        BY <1>7 DEF went
      <3> QED BY <3>1, <2>1, <1>5 DEF FlightInv, flight, f, s, c
    <2>4. \A i \in 1 .. n : went[f + i].packet_id = s + 1
      BY <1>7 DEF went
    <2>5. ASSUME NEW i \in 1 .. f + n
          PROVE  /\ went[i].packet_id \in 1 .. s + 1
                 /\ went[i].packet_id >= Len(reported[g]) + 1
                 /\ \E x \in 1 .. Len(now(went[i].packet_id)) :
                       Number(now(went[i].packet_id)[x]) = c + i
      <3>1. CASE i \in 1 .. f
        <4>1. now(went[i].packet_id) = old(went[i].packet_id)
          BY <3>1, <2>3, <1>8
        <4>2. went[i].packet_id \in 1 .. s + 1
          BY ONLY <3>1, <2>3, <1>3
        <4> HIDE DEF now, old
        <4> QED BY ONLY <4>1, <4>2, <3>1, <2>3
      <3>2. CASE ~(i \in 1 .. f)
        <4> DEFINE j == i - f
        <4>1. j \in 1 .. n /\ i = f + j
          BY ONLY <3>2, <1>3, i \in 1 .. f + n
        <4> HIDE DEF j
        <4>2. went[i].packet_id = s + 1
          BY ONLY <4>1, <2>4
        <4>3. now(s + 1) = segment
          BY <1>8
        <4>4. Number(segment[j]) = c + i /\ j \in 1 .. Len(segment)
          <5>1. (c + f) + j = c + (f + j)
            BY ONLY <4>1, <1>3, <1>4
          <5> QED BY ONLY <5>1, <4>1, <1>4
        <4>5. s + 1 \in 1 .. s + 1 /\ s + 1 >= Len(reported[g]) + 1
          <5>1. Len(reported[g]) <= s
            BY <2>1 DEF FlightInv, s
          <5> QED BY ONLY <5>1, <1>3
        <4> HIDE DEF now
        <4> QED BY ONLY <4>2, <4>3, <4>4, <4>5
      <3> QED BY ONLY <3>1, <3>2
    <2>6. ASSUME NEW i \in 1 .. f + n, NEW j \in 1 .. f + n, i < j
          PROVE  went[i].packet_id <= went[j].packet_id
      <3>1. CASE j \in 1 .. f
        <4>1. i \in 1 .. f
          BY ONLY <3>1, <2>6, <1>3
        <4>2. went[i] = flight[i] /\ went[j] = flight[j]
          BY <4>1, <3>1, <1>7 DEF went
        <4> QED BY <4>1, <4>2, <3>1, <2>1, <2>6 DEF FlightInv, flight, f
      <3>2. CASE ~(j \in 1 .. f)
        <4> DEFINE x == j - f
        <4>1. x \in 1 .. n /\ j = f + x
          BY ONLY <3>2, <1>3, j \in 1 .. f + n
        <4> HIDE DEF x
        <4>2. went[j].packet_id = s + 1
          BY ONLY <4>1, <2>4
        <4>3. went[i].packet_id \in 1 .. s + 1
          BY <2>5
        <4> QED BY ONLY <4>2, <4>3, <1>3
      <3> QED BY ONLY <3>1, <3>2
    <2>7. Len(went) = f + n
      BY <1>7 DEF went
    <2> QED BY <2>2, <2>5, <2>6, <2>7, <1>5, <1>6, <1>12, <1>13 DEF FlightInv, now
  <1>18. AckInv(g)'
    BY <1>5 DEF AckInv
  <1>19. accepted[g] \subseteq 1 .. s /\ \A k \in accepted[g] : now(k) = old(k)
    <2>1. accepted[g] \subseteq 1 .. s
      BY <1>2 DEF SenderInv, ReadInv, s
    <2> QED BY <2>1, <1>8
  <1>20. ReadInv(g)'
    <2>1. ReadInv(g)
      BY <1>2 DEF SenderInv
    <2>2. accepted[g] \subseteq 1 .. s + 1
      BY <1>19, <1>3
    <2> QED BY ZenonT(60), <2>1, <2>2, <1>5, <1>6, <1>19 DEF ReadInv
  <1>21. DeliveredInv(g)'
    <2>1. DeliveredInv(g)
      BY <1>2 DEF SenderInv
    <2> QED BY <2>1, <1>5, <1>12, <1>19 DEF DeliveredInv, c
  <1>22. ProgressInv(g)'
    <2>1. ProgressInv(g)
      BY <1>2 DEF SenderInv
    <2>2. Len(went) = f + n
      BY <1>7 DEF went
    <2>3. ASSUME NEW i \in 1 .. f + n, \A j \in 1 .. i : went[j].packet_id \in accepted[g]
          PROVE  \/ c + i <= Len(delivered[Other(g)])
                 \/ /\ Reads(Other(g), went[i].packet_id)
                    /\ \E x \in 1 .. Len(call[Other(g)].messages) :
                         Number(call[Other(g)].messages[x]) = c + i
      <3>1. CASE i \in 1 .. f
        <4>1. \A j \in 1 .. i : j \in 1 .. f /\ went[j] = flight[j]
          <5>1. \A j \in 1 .. i : j \in 1 .. f
            BY ONLY <3>1, <1>3
          <5> QED BY <5>1, <1>7 DEF went
        <4>2. went[i] = flight[i] /\ \A j \in 1 .. i : flight[j].packet_id \in accepted[g]
          BY <4>1, <2>3, <3>1, <1>7 DEF went
        <4> QED BY <4>2, <3>1, <2>1 DEF ProgressInv, flight, f, c
      <3>2. CASE ~(i \in 1 .. f)
        <4> DEFINE x == i - f
        <4>1. x \in 1 .. n /\ i = f + x /\ i \in 1 .. i
          BY ONLY <3>2, <1>3, i \in 1 .. f + n
        <4> HIDE DEF x
        <4>2. went[i].packet_id = s + 1
          BY <4>1, <1>7 DEF went
        <4>3. s + 1 \in accepted[g]
          BY ONLY <4>1, <4>2, <2>3
        <4> QED BY ONLY <4>3, <1>3, <1>19
      <3> QED BY ONLY <3>1, <3>2
    <2> QED BY <2>2, <2>3, <1>5, <1>12, <1>13 DEF ProgressInv, Reads
  <1>23. SenderInv(g)'
    BY <1>14, <1>15, <1>16, <1>17, <1>18, <1>20, <1>21, <1>22 DEF SenderInv
  <1>24. Silent(g)
    BY <1>5, <1>12 DEF Silent, c
  <1> QED BY <1>9, <1>10, <1>11, <1>23, <1>24 DEF StreamInv, VisibleStep

-----------------------------------------------------------------------------
(* on_packet_delivery_status.                                                *)

LEMMA PacketsSame ==
    ASSUME NEW h, PacketsInv(h), PacketsNear(h), UNCHANGED <<sent, packets, submitted>>
    PROVE  PacketsInv(h)' /\ PacketsNear(h)'
  <1>1. PacketsInv(h)'
    BY DEF PacketsInv
  <1>2. PacketsNear(h)'
    BY DEF PacketsNear
  <1> QED BY <1>1, <1>2

\* A report of a fate changes nothing of the packets and of who reads them.
LEMMA PacketsKept ==
    ASSUME NEW h \in Senders, SenderInv(h),
           UNCHANGED <<sent, accepted, packets, submitted>>,
           call'[Other(h)] = call[Other(h)]
    PROVE  PacketsInv(h)' /\ PacketsNear(h)' /\ ReadInv(h)'
  <1>1. PacketsInv(h)' /\ PacketsNear(h)'
    BY PacketsSame DEF SenderInv
  <1>2. ReadInv(h)'
    BY DEF SenderInv, ReadInv
  <1> QED BY <1>1, <1>2

\* One more fate is known.
LEMMA FateReported ==
    ASSUME TypeOK, NEW h \in Ends, NEW fate \in Fate, Notify(h, <<fate>>)
    PROVE  /\ reported' \in [Ends -> Seq(Fate)]
           /\ Len(reported'[h]) = Len(reported[h]) + 1
           /\ \A g \in Ends : g # h => reported'[g] = reported[g]
           /\ Len(reported[h]) + 1 <= sent[h]
           /\ fate = "ACK" => Len(reported[h]) + 1 \in accepted[h]
           /\ UNCHANGED <<sent, accepted>>
  <1>1. reported[h] \in Seq(Fate) /\ Len(reported[h]) \in Nat
    BY Lengths
  <1>2. /\ reported' = [reported EXCEPT ![h] = @ \o <<fate>>]
        /\ UNCHANGED <<sent, accepted>>
        /\ Reportable(h, <<fate>>)
    BY DEF Notify, Report
  <1>3. <<fate>> \in Seq(Fate) /\ Len(<<fate>>) = 1 /\ <<fate>>[1] = fate
    OBVIOUS
  <1>4. /\ reported[h] \o <<fate>> \in Seq(Fate)
        /\ Len(reported[h] \o <<fate>>) = Len(reported[h]) + 1
    BY ONLY <1>1, <1>3, ConcatProperties
  <1>5. reported' \in [Ends -> Seq(Fate)] /\ reported'[h] = reported[h] \o <<fate>>
        /\ \A g \in Ends : g # h => reported'[g] = reported[g]
    BY <1>2, <1>4 DEF TypeOK
  <1>6. /\ Len(reported[h]) + 1 <= sent[h]
        /\ fate = "ACK" => Len(reported[h]) + 1 \in accepted[h]
    BY <1>1, <1>2, <1>3 DEF Reportable
  <1> QED BY ONLY <1>2, <1>4, <1>5, <1>6

LEMMA AckedStep ==
    ASSUME StreamInv, NEW g \in Senders, Acked(g)
    PROVE  StreamInv' /\ VisibleStep
  <1> TypeOK /\ g \in Ends /\ SenderInv(g)
    BY SendersAreEnds DEF StreamInv
  <1> DEFINE id == Len(reported[g]) + 1
  <1>1. /\ call' = [call EXCEPT ![g] = AckCall(id)]
        /\ call[g].op = "none"
        /\ ~Reads(Other(g), id)
        /\ UNCHANGED <<m_buffer, in_flight_messages, pending_messages, packets, submitted,
                       m_next_outgoing_sequence_number, m_next_expected_sequence_number,
                       delivered>>
    BY DEF Acked, StreamAck, Idle, Reads
  <1>2. /\ reported' \in [Ends -> Seq(Fate)]
        /\ Len(reported'[g]) = id
        /\ \A h \in Ends : h # g => reported'[h] = reported[h]
        /\ id <= sent[g]
        /\ id \in accepted[g]
        /\ UNCHANGED <<sent, accepted>>
    BY FateReported DEF Acked, Fate
  <1>3. Len(reported[g]) \in Nat /\ id \in Nat
    BY Lengths
  <1> HIDE DEF id
  <1>4. AckCall(id) \in Call /\ AckCall(id).op = "ack" /\ AckCall(id).id = id
    BY <1>3 DEF AckCall, Call
  <1>5. /\ call' \in [Ends -> Call] /\ call'[g] = AckCall(id)
        /\ \A h \in Ends : h # g => call'[h] = call[h]
    BY <1>1, <1>4 DEF TypeOK
  <1>6. TypeOK'
    BY <1>1, <1>2, <1>5 DEF TypeOK
  <1>7. ASSUME NEW h \in Ends PROVE EndInv(h)'
    <2>1. EndInv(h)
      BY DEF StreamInv
    <2>2. CASE h = g
      BY <2>1, <2>2, <1>1, <1>2, <1>4, <1>5 DEF EndInv
    <2>3. CASE h # g
      BY <2>1, <2>3, <1>1, <1>2, <1>5 DEF EndInv
    <2> QED BY <2>2, <2>3
  <1>8. ASSUME NEW h \in Senders, h # g PROVE SenderInv(h)' /\ Silent(h)
    <2>1. h \in Ends /\ SenderInv(h) /\ Other(h) = g
      BY <1>8, SendersAreEnds, OtherEnd DEF StreamInv
    <2> QED BY <2>1, <1>1, <1>2, <1>4, <1>5, <1>8, SenderFrame
  <1>9. Other(g) \in Ends /\ Other(g) # g /\ call'[Other(g)] = call[Other(g)]
    BY <1>5, OtherEnd
  <1>10. /\ Outstanding(g)' = Outstanding(g)
         /\ Consumed(g)' = Consumed(g)
         /\ \A m : PayloadOf(g, m)' = PayloadOf(g, m)
    BY <1>1 DEF Outstanding, MessagesInFlight, Consumed, PayloadOf
  <1>11. BufferInv(g)'
    BY <1>1, <1>10 DEF SenderInv, BufferInv
  <1>12. PacketsInv(g)' /\ PacketsNear(g)' /\ ReadInv(g)'
    BY <1>1, <1>2, <1>9, PacketsKept
  <1>13. FlightInv(g)'
    <2>1. \A i \in 1 .. Len(in_flight_messages[g]) : in_flight_messages[g][i].packet_id >= id
      BY <1>1 DEF SenderInv, FlightInv, id
    <2> QED BY <2>1, <1>1, <1>2, <1>4, <1>5, <1>10 DEF SenderInv, FlightInv
  <1>14. AckInv(g)'
    BY <1>1, <1>2, <1>4, <1>5, <1>9 DEF AckInv, Reads
  <1>15. DeliveredInv(g)'
    BY <1>1, <1>2, <1>10 DEF SenderInv, DeliveredInv
  <1>16. ProgressInv(g)'
    BY <1>1, <1>2, <1>9, <1>10 DEF SenderInv, ProgressInv, Reads
  <1>17. SenderInv(g)'
    BY <1>11, <1>12, <1>13, <1>14, <1>15, <1>16 DEF SenderInv
  <1>18. Silent(g)
    BY <1>1, <1>10 DEF Silent
  <1> QED BY <1>6, <1>7, <1>8, <1>17, <1>18 DEF StreamInv, VisibleStep

\* What was in flight waits again, at the head of the queue.
LEMMA QueueBack ==
    ASSUME NEW flight \in Seq(InFlightMessage), NEW pending \in Seq(Message),
           NEW first, first = [i \in 1 .. Len(flight) |-> flight[i].message]
    PROVE  /\ first \o pending \in Seq(Message)
           /\ Queue(<< >>, first \o pending) = Queue(flight, pending)
  <1> DEFINE whole == first \o pending
  <1>1. whole = Queue(flight, pending) /\ whole \in Seq(Message)
    BY QueueAt DEF Queue
  <1> HIDE DEF whole
  <1>2. << >> \in Seq(InFlightMessage) /\ Len(<< >>) = 0 /\ Len(whole) \in Nat
    BY <1>1
  <1>3. /\ Queue(<< >>, whole) \in Seq(Message)
        /\ Len(Queue(<< >>, whole)) = 0 + Len(whole)
        /\ \A i \in 1 .. Len(whole) : Queue(<< >>, whole)[0 + i] = whole[i]
    BY ONLY <1>1, <1>2, QueueAt
  <1>4. Queue(<< >>, whole) = whole
    <2> DEFINE queue == Queue(<< >>, whole)
    <2>1. queue \in Seq(Message) /\ Len(queue) = Len(whole)
          /\ \A i \in 1 .. Len(whole) : queue[i] = whole[i]
      BY <1>2, <1>3
    <2> HIDE DEF queue
    <2>2. queue = whole
      BY ONLY <2>1, <1>1, SeqEqual
    <2> QED BY <2>2 DEF queue
  <1> QED BY <1>1, <1>4 DEF whole

LEMMA DropStep ==
    ASSUME StreamInv, NEW g \in Senders, Dropped(g)
    PROVE  StreamInv' /\ VisibleStep
  <1> TypeOK /\ g \in Ends /\ SenderInv(g)
    BY SendersAreEnds DEF StreamInv
  <1>1. /\ pending_messages' =
             [pending_messages EXCEPT ![g] = MessagesInFlight(g) \o pending_messages[g]]
        /\ in_flight_messages' = [in_flight_messages EXCEPT ![g] = << >>]
        /\ call[g].op = "none"
        /\ UNCHANGED <<m_buffer, packets, submitted, call, delivered,
                       m_next_outgoing_sequence_number, m_next_expected_sequence_number>>
    BY DEF Dropped, StreamDrop, Idle
  <1>2. /\ reported' \in [Ends -> Seq(Fate)]
        /\ Len(reported'[g]) = Len(reported[g]) + 1
        /\ \A h \in Ends : h # g => reported'[h] = reported[h]
        /\ Len(reported[g]) + 1 <= sent[g]
        /\ UNCHANGED <<sent, accepted>>
    BY FateReported DEF Dropped, Fate
  <1>3. /\ MessagesInFlight(g) \o pending_messages[g] \in Seq(Message)
        /\ Queue(<< >>, MessagesInFlight(g) \o pending_messages[g]) = Outstanding(g)
    <2>1. in_flight_messages[g] \in Seq(InFlightMessage) /\ pending_messages[g] \in Seq(Message)
      BY Lengths
    <2> DEFINE flight == in_flight_messages[g]
               pending == pending_messages[g]
               first == MessagesInFlight(g)
    <2>2. first = [i \in 1 .. Len(flight) |-> flight[i].message]
      BY DEF MessagesInFlight
    <2>3. Outstanding(g) = Queue(flight, pending)
      BY OutstandingIsQueue
    <2> HIDE DEF flight, pending, first
    <2>4. first \o pending \in Seq(Message)
          /\ Queue(<< >>, first \o pending) = Queue(flight, pending)
      BY <2>1, <2>2, QueueBack DEF flight, pending
    <2> QED BY <2>3, <2>4 DEF flight, pending, first
  <1>4. /\ pending_messages' \in [Ends -> Seq(Message)]
        /\ in_flight_messages' \in [Ends -> Seq(InFlightMessage)]
        /\ in_flight_messages'[g] = << >>
        /\ pending_messages'[g] = MessagesInFlight(g) \o pending_messages[g]
        /\ \A h \in Ends : h # g => /\ pending_messages'[h] = pending_messages[h]
                                    /\ in_flight_messages'[h] = in_flight_messages[h]
    <2> HIDE DEF MessagesInFlight
    <2>1. << >> \in Seq(InFlightMessage)
      OBVIOUS
    <2> QED BY <2>1, <1>1, <1>3 DEF TypeOK
  <1>5. TypeOK'
    BY <1>1, <1>2, <1>4 DEF TypeOK
  <1>6. \A h \in Ends : EndInv(h)'
    BY <1>1, <1>2 DEF StreamInv, EndInv
  <1>7. ASSUME NEW h \in Senders, h # g PROVE SenderInv(h)' /\ Silent(h)
    <2>1. h \in Ends /\ SenderInv(h)
      BY SendersAreEnds DEF StreamInv
    <2> QED BY <2>1, <1>1, <1>2, <1>4, <1>7, SenderFrame
  <1>8. /\ Outstanding(g)' = Outstanding(g)
        /\ Consumed(g)' = Consumed(g)
        /\ \A m : PayloadOf(g, m)' = PayloadOf(g, m)
    <2>1. Outstanding(g)' = Outstanding(g)
      BY ONLY <1>3, <1>4, OutstandingIsQueue
    <2> QED BY <2>1, <1>1 DEF Consumed, PayloadOf
  <1>9. BufferInv(g)'
    BY <1>1, <1>8 DEF SenderInv, BufferInv
  <1>10. PacketsInv(g)' /\ PacketsNear(g)' /\ ReadInv(g)'
    BY <1>1, <1>2, PacketsKept
  <1>11. FlightInv(g)' /\ ProgressInv(g)'
    BY <1>2, <1>4 DEF FlightInv, ProgressInv
  <1>12. AckInv(g)'
    BY <1>1 DEF AckInv
  <1>13. DeliveredInv(g)'
    BY <1>1, <1>2, <1>8 DEF SenderInv, DeliveredInv
  <1>14. SenderInv(g)'
    BY <1>9, <1>10, <1>11, <1>12, <1>13 DEF SenderInv
  <1>15. Silent(g)
    BY <1>1, <1>8 DEF Silent
  <1> QED BY <1>5, <1>6, <1>7, <1>14, <1>15 DEF StreamInv, VisibleStep

\* The messages behind the first one.
TailOf(rest, messages) ==
    /\ Len(rest) = Len(messages) - 1
    /\ \A i \in 1 .. Len(rest) : rest[i] = messages[i + 1]

LEMMA QueueTail ==
    ASSUME NEW flight \in Seq(InFlightMessage), NEW pending \in Seq(Message),
           flight # << >>, NEW rest, rest = Tail(flight),
           NEW queue, queue = Queue(flight, pending), NEW next, next = Queue(rest, pending)
    PROVE  /\ rest \in Seq(InFlightMessage) /\ TailOf(rest, flight)
           /\ next \in Seq(Message) /\ TailOf(next, queue)
  <1> DEFINE f == Len(flight)
             p == Len(pending)
  <1>1. /\ rest \in Seq(InFlightMessage) /\ Len(rest) = f - 1
        /\ \A i \in 1 .. Len(rest) : rest[i] = flight[i + 1]
    BY HeadTailProperties
  <1>2. f \in Nat /\ p \in Nat /\ f > 0
    OBVIOUS
  <1>3. /\ queue \in Seq(Message) /\ Len(queue) = f + p
        /\ \A i \in 1 .. f : queue[i] = flight[i].message
        /\ \A i \in 1 .. p : queue[f + i] = pending[i]
    BY QueueAt
  <1>4. /\ next \in Seq(Message) /\ Len(next) = Len(rest) + p
        /\ \A i \in 1 .. Len(rest) : next[i] = rest[i].message
        /\ \A i \in 1 .. p : next[Len(rest) + i] = pending[i]
    BY ONLY <1>1, pending \in Seq(Message), next = Queue(rest, pending), QueueAt
  <1> HIDE DEF f, p
  <1>5. Len(next) = (f - 1) + p /\ Len(next) = Len(queue) - 1
    BY ONLY <1>1, <1>2, <1>3, <1>4
  <1>6. ASSUME NEW i \in 1 .. Len(next) PROVE next[i] = queue[i + 1]
    <2>1. CASE i \in 1 .. f - 1
      <3>1. i + 1 \in 1 .. f
        BY ONLY <2>1, <1>2
      <3>2. next[i] = rest[i].message /\ rest[i] = flight[i + 1]
        BY ONLY <2>1, <1>1, <1>4
      <3> QED BY ONLY <3>1, <3>2, <1>3
    <2>2. CASE ~(i \in 1 .. f - 1)
      <3> DEFINE j == i - (f - 1)
      <3>1. j \in 1 .. p /\ i = (f - 1) + j /\ i + 1 = f + j
        BY ONLY <2>2, <1>2, <1>5, i \in 1 .. Len(next)
      <3> HIDE DEF j
      <3>2. next[(f - 1) + j] = pending[j]
        BY ONLY <3>1, <1>1, <1>4
      <3>3. queue[f + j] = pending[j]
        BY ONLY <3>1, <1>3
      <3> QED BY ONLY <3>1, <3>2, <3>3
    <2> QED BY ONLY <2>1, <2>2
  <1> QED BY ONLY <1>1, <1>4, <1>5, <1>6 DEF f, TailOf

LEMMA PopStep ==
    ASSUME StreamInv, NEW g \in Senders, PopAckedMessage(g)
    PROVE  StreamInv' /\ VisibleStep
  <1> TypeOK /\ g \in Ends /\ SenderInv(g)
    BY SendersAreEnds DEF StreamInv
  <1> DEFINE flight == in_flight_messages[g]
             id == call[g].id
             f == Len(flight)
             c == Consumed(g)
             got == delivered[Other(g)]
  <1>1. /\ call[g].op = "ack"
        /\ UNCHANGED <<sent, accepted, reported, packets, submitted, delivered,
                       pending_messages, m_next_outgoing_sequence_number,
                       m_next_expected_sequence_number>>
    BY DEF PopAckedMessage, PopAcked, contractVars
  <1>2. id = Len(reported[g]) /\ id \in accepted[g] /\ ~Reads(Other(g), id)
    BY <1>1 DEF SenderInv, AckInv
  <1>3. Other(g) \in Ends /\ Other(g) # g
    BY OtherEnd
  <1>4. /\ flight \in Seq(InFlightMessage) /\ f \in Nat
        /\ Len(reported[g]) \in Nat /\ Len(got) \in Nat
        /\ pending_messages[g] \in Seq(Message) /\ m_buffer[g] \in Buffer
        /\ submitted[g] \in Seq(Nat \ {0}) /\ Len(submitted[g]) \in Nat
    BY <1>3, Lengths
  <1>5. \A i \in 1 .. f : flight[i].packet_id \in Nat /\ flight[i].packet_id >= id
    <2>1. \A i \in 1 .. f : flight[i] \in InFlightMessage
      BY <1>4
    <2> QED BY <2>1, <1>1 DEF InFlightMessage, SenderInv, FlightInv
  <1>6. CASE CarriedBy(g, id)
    <2> DEFINE rest == Tail(flight)
               queue == Outstanding(g)
               next == Queue(rest, pending_messages[g])
               buffer == Consume(m_buffer[g], Size(queue[1]))
    <2>1. flight # << >> /\ flight[1].packet_id = id /\ 1 \in 1 .. f
      <3>1. flight # << >> /\ Head(flight).packet_id = id
        BY <1>6 DEF CarriedBy
      <3> QED BY <3>1, <1>4
    <2>2. queue = Queue(flight, pending_messages[g]) /\ queue \in Seq(Message)
          /\ queue[1] = flight[1].message /\ queue # << >> /\ Len(queue) \in Nat
      <3>1. queue \in Seq(Message) /\ Len(queue) = f + Len(pending_messages[g])
            /\ queue[1] = flight[1].message /\ Len(queue) \in Nat
        BY <2>1, OutstandingAt
      <3>2. Len(pending_messages[g]) \in Nat
        BY Lengths
      <3>3. f > 0
        BY ONLY <2>1, <1>4
      <3>4. queue = Queue(flight, pending_messages[g])
        BY OutstandingIsQueue
      <3> HIDE DEF queue, f
      <3>5. Len(queue) > 0
        BY ONLY <3>1, <3>2, <3>3, <1>4
      <3>6. queue # << >>
        BY ONLY <3>1, <3>5
      <3> QED BY ONLY <3>1, <3>4, <3>6
    <2>3. /\ m_buffer' = [m_buffer EXCEPT ![g] = buffer]
          /\ in_flight_messages' = [in_flight_messages EXCEPT ![g] = rest]
          /\ UNCHANGED call
      <3>1. Head(flight) = flight[1]
        BY <2>1
      <3> QED BY <3>1, <2>2, <1>6 DEF PopAckedMessage, PopAcked
    <2> HIDE DEF flight, queue
    <2>4. /\ rest \in Seq(InFlightMessage) /\ Len(rest) = f - 1
          /\ \A i \in 1 .. Len(rest) : rest[i] = flight[i + 1]
          /\ next \in Seq(Message) /\ Len(next) = Len(queue) - 1
          /\ \A i \in 1 .. Len(next) : next[i] = queue[i + 1]
      <3> DEFINE pending == pending_messages[g]
      <3>1. /\ rest = Tail(flight) /\ next = Queue(rest, pending)
            /\ queue = Queue(flight, pending) /\ pending \in Seq(Message)
        BY <2>2, <1>4
      <3> HIDE DEF rest, next, pending
      <3>2. /\ rest \in Seq(InFlightMessage) /\ TailOf(rest, flight)
            /\ next \in Seq(Message) /\ TailOf(next, queue)
        BY ONLY <3>1, <2>1, <1>4, QueueTail
      <3> QED BY ONLY <3>2 DEF TailOf
    <2> HIDE DEF rest, next
    <2>5. /\ buffer \in Buffer /\ Laid(next, buffer, submitted[g])
      <3>1. Laid(queue, m_buffer[g], submitted[g])
        BY DEF SenderInv, BufferInv, queue
      <3> QED BY ONLY <3>1, <2>2, <2>4, <1>4, LaidPop
    <2> HIDE DEF buffer
    <2>6. /\ m_buffer' \in [Ends -> Buffer] /\ m_buffer'[g] = buffer
          /\ in_flight_messages' \in [Ends -> Seq(InFlightMessage)]
          /\ in_flight_messages'[g] = rest
          /\ \A h \in Ends : h # g => /\ m_buffer'[h] = m_buffer[h]
                                      /\ in_flight_messages'[h] = in_flight_messages[h]
      BY <2>3, <2>4, <2>5 DEF TypeOK
    <2>7. TypeOK'
      BY <2>3, <2>6, <1>1 DEF TypeOK
    <2>8. \A h \in Ends : EndInv(h)'
      BY <2>3, <1>1 DEF StreamInv, EndInv
    <2>9. ASSUME NEW h \in Senders, h # g PROVE SenderInv(h)' /\ Silent(h)
      <3>1. h \in Ends /\ SenderInv(h)
        BY SendersAreEnds DEF StreamInv
      <3> QED BY <3>1, <2>3, <2>6, <2>9, <1>1, SenderFrame
    <2>10. Outstanding(g)' = next
      BY <2>6, <1>1, OutstandingIsQueue DEF next
    <2>11. Consumed(g)' = c + 1 /\ c \in Nat
      <3>1. c = Len(submitted[g]) - Len(queue)
        BY DEF Consumed, queue
      <3>2. Consumed(g)' = Len(submitted[g]) - Len(next)
        BY <2>10, <1>1 DEF Consumed
      <3>3. Laid(queue, m_buffer[g], submitted[g])
        BY DEF SenderInv, BufferInv, queue
      <3>4. Len(submitted[g]) - Len(queue) \in Nat
        BY ONLY <3>3, <2>2, <1>4, LaidBounds
      <3> HIDE DEF c
      <3> QED BY ONLY <3>1, <3>2, <3>4, <2>2, <2>4, <1>4
    <2>12. BufferInv(g)'
      BY <2>5, <2>6, <2>10, <1>1 DEF SenderInv, BufferInv
    <2>13. PacketsInv(g)' /\ PacketsNear(g)' /\ ReadInv(g)'
      BY <2>3, <1>1, PacketsKept
    <2>14. \A i \in 1 .. f - 1 : i + 1 \in 1 .. f /\ c + (i + 1) = (c + 1) + i
      BY ONLY <2>11, <1>4
    <2> HIDE DEF c, f
    <2>15. FlightInv(g)'
      <3>1. FlightInv(g)
        BY DEF SenderInv
      <3>2. ASSUME NEW i \in 1 .. f - 1
            PROVE  /\ rest[i].packet_id \in 1 .. sent[g]
                   /\ rest[i].packet_id >= id
                   /\ \E x \in 1 .. Len(packets[g][rest[i].packet_id]) :
                         Number(packets[g][rest[i].packet_id][x]) = (c + 1) + i
        <4> DEFINE j == i + 1
        <4>1. j \in 1 .. f /\ rest[i] = flight[j] /\ c + j = (c + 1) + i
          BY ONLY <2>4, <2>14, i \in 1 .. f - 1
        <4> HIDE DEF j
        <4>2. /\ flight[j].packet_id \in 1 .. sent[g]
              /\ flight[j].packet_id >= id
              /\ \E x \in 1 .. Len(packets[g][flight[j].packet_id]) :
                    Number(packets[g][flight[j].packet_id][x]) = c + j
          BY <4>1, <3>1, <1>1 DEF FlightInv, flight, f, c
        <4> QED BY ONLY <4>1, <4>2
      <3>3. ASSUME NEW i \in 1 .. f - 1, NEW j \in 1 .. f - 1, i < j
            PROVE  rest[i].packet_id <= rest[j].packet_id
        <4>1. i + 1 \in 1 .. f /\ j + 1 \in 1 .. f /\ i + 1 < j + 1
          BY ONLY <2>14, <3>3, <1>4
        <4>2. flight[i + 1].packet_id <= flight[j + 1].packet_id
          BY <4>1, <3>1 DEF FlightInv, flight, f
        <4> QED BY ONLY <4>2, <2>4, i \in 1 .. f - 1, j \in 1 .. f - 1
      <3>4. Len(reported[g]) <= sent[g]
        BY ONLY <3>1 DEF FlightInv
      <3>5. /\ in_flight_messages'[g] = rest /\ Len(rest) = f - 1
            /\ sent' = sent /\ reported' = reported /\ packets' = packets
            /\ call' = call /\ call[g].op = "ack" /\ Consumed(g)' = c + 1
        BY ONLY <2>3, <2>4, <2>6, <2>11, <1>1
      <3> QED BY ONLY <3>2, <3>3, <3>4, <3>5 DEF FlightInv, id
    <2>16. AckInv(g)'
      BY <2>3, <1>1 DEF SenderInv, AckInv, Reads
    <2>17. c + 1 <= Len(got)
      <3>1. \A j \in 1 .. 1 : flight[j].packet_id \in accepted[g]
        BY <2>1, <1>2
      <3>2. \/ c + 1 <= Len(got)
            \/ Reads(Other(g), flight[1].packet_id)
        BY <3>1, <2>1 DEF SenderInv, ProgressInv, flight, f, c
      <3> QED BY <3>2, <2>1, <1>2
    <2>18. DeliveredInv(g)'
      <3>1. \A m : PayloadOf(g, m)' = PayloadOf(g, m)
        BY <1>1 DEF PayloadOf
      <3> QED BY <3>1, <2>11, <2>17, <1>1 DEF SenderInv, DeliveredInv
    <2>19. ProgressInv(g)'
      <3>1. ASSUME NEW i \in 1 .. f - 1, \A j \in 1 .. i : rest[j].packet_id \in accepted[g]
            PROVE  \/ (c + 1) + i <= Len(got)
                   \/ /\ Reads(Other(g), rest[i].packet_id)
                      /\ \E x \in 1 .. Len(call[Other(g)].messages) :
                           Number(call[Other(g)].messages[x]) = (c + 1) + i
        <4> DEFINE k == i + 1
        <4>1. k \in 1 .. f /\ rest[i] = flight[k] /\ c + k = (c + 1) + i
          BY ONLY <2>4, <2>14, i \in 1 .. f - 1
        <4>2. ASSUME NEW j \in 1 .. k PROVE flight[j].packet_id \in accepted[g]
          <5>1. CASE j = 1
            BY <5>1, <2>1, <1>2
          <5>2. CASE j # 1
            <6> DEFINE x == j - 1
            <6>1. x \in 1 .. i /\ x \in 1 .. f - 1 /\ x + 1 = j
              BY <5>2, <4>1, <1>4
            <6>2. rest[x].packet_id \in accepted[g] /\ rest[x] = flight[x + 1]
              BY ONLY <6>1, <3>1, <2>4
            <6> HIDE DEF x
            <6> QED BY ONLY <6>1, <6>2
          <5> QED BY <5>1, <5>2
        <4> HIDE DEF k
        <4>3. \/ c + k <= Len(got)
              \/ /\ Reads(Other(g), flight[k].packet_id)
                 /\ \E x \in 1 .. Len(call[Other(g)].messages) :
                      Number(call[Other(g)].messages[x]) = c + k
          BY <4>1, <4>2 DEF SenderInv, ProgressInv, flight, f, c
        <4> QED BY ONLY <4>1, <4>3
      <3>2. /\ in_flight_messages'[g] = rest /\ Len(rest) = f - 1
            /\ accepted' = accepted /\ delivered' = delivered /\ call' = call
            /\ Consumed(g)' = c + 1
        BY ONLY <2>3, <2>4, <2>6, <2>11, <1>1
      <3> QED BY ONLY <3>1, <3>2 DEF ProgressInv, Reads
    <2>20. SenderInv(g)'
      BY <2>12, <2>13, <2>15, <2>16, <2>18, <2>19 DEF SenderInv
    <2>21. Frees(g)
      <3>1. c < Len(got)
        BY <2>11, <2>17, <1>4
      <3> QED BY <3>1, <2>11, <1>1 DEF Frees, c
    <2> QED BY <2>7, <2>8, <2>9, <2>20, <2>21 DEF StreamInv, VisibleStep
  <1>7. CASE ~CarriedBy(g, id)
    <2>1. /\ call' = [call EXCEPT ![g] = NoCall]
          /\ UNCHANGED <<m_buffer, in_flight_messages>>
      BY <1>7 DEF PopAckedMessage, PopAcked
    <2>2. NoCall \in Call /\ NoCall.op = "none"
      BY DEF NoCall, Call
    <2>3. /\ call' \in [Ends -> Call] /\ call'[g] = NoCall
          /\ \A h \in Ends : h # g => call'[h] = call[h]
      BY <2>1, <2>2 DEF TypeOK
    <2>4. TypeOK'
      BY <2>1, <2>3, <1>1 DEF TypeOK
    <2>5. ASSUME NEW h \in Ends PROVE EndInv(h)'
      <3>1. EndInv(h)
        BY DEF StreamInv
      <3>2. CASE h = g
        BY <3>1, <3>2, <2>2, <2>3, <1>1 DEF EndInv
      <3>3. CASE h # g
        BY <3>1, <3>3, <2>3, <1>1 DEF EndInv
      <3> QED BY <3>2, <3>3
    <2>6. ASSUME NEW h \in Senders, h # g PROVE SenderInv(h)' /\ Silent(h)
      <3>1. h \in Ends /\ SenderInv(h) /\ Other(h) = g
        BY <2>6, SendersAreEnds, OtherEnd DEF StreamInv
      <3> QED BY <3>1, <2>1, <2>2, <2>3, <2>6, <1>1, SenderFrame
    <2>7. /\ Outstanding(g)' = Outstanding(g)
          /\ Consumed(g)' = Consumed(g)
          /\ \A m : PayloadOf(g, m)' = PayloadOf(g, m)
          /\ call'[Other(g)] = call[Other(g)]
      BY <2>1, <2>3, <1>1, <1>3 DEF Outstanding, MessagesInFlight, Consumed, PayloadOf
    <2>8. BufferInv(g)'
      BY <2>1, <2>7, <1>1 DEF SenderInv, BufferInv
    <2>9. PacketsInv(g)' /\ PacketsNear(g)' /\ ReadInv(g)'
      BY <2>7, <1>1, PacketsKept
    <2>10. ASSUME NEW i \in 1 .. f PROVE flight[i].packet_id >= Len(reported[g]) + 1
      <3>1. 1 \in 1 .. f /\ flight[1] = Head(flight) /\ flight # << >>
        BY <1>4
      <3>2. flight[1].packet_id # id
        BY <3>1, <1>7 DEF CarriedBy
      <3>3. i = 1 \/ flight[1].packet_id <= flight[i].packet_id
        <4>1. CASE 1 < i
          BY <4>1, <3>1 DEF SenderInv, FlightInv
        <4> QED BY <4>1, <1>4
      <3>4. flight[1].packet_id >= id /\ flight[1].packet_id \in Nat
            /\ flight[i].packet_id \in Nat
        BY <3>1, <1>5
      <3> HIDE DEF flight, id, f
      <3> QED BY ONLY <3>2, <3>3, <3>4, <1>2, <1>4
    <2>11. FlightInv(g)'
      BY <2>1, <2>2, <2>3, <2>7, <2>10, <1>1 DEF SenderInv, FlightInv
    <2>12. AckInv(g)'
      BY <2>2, <2>3 DEF AckInv
    <2>13. DeliveredInv(g)'
      BY <2>7, <1>1 DEF SenderInv, DeliveredInv
    <2>14. ProgressInv(g)'
      BY <2>1, <2>7, <1>1 DEF SenderInv, ProgressInv, Reads
    <2>15. SenderInv(g)'
      BY <2>8, <2>9, <2>11, <2>12, <2>13, <2>14 DEF SenderInv
    <2>16. Silent(g)
      BY <2>7, <1>1 DEF Silent
    <2> QED BY <2>4, <2>5, <2>6, <2>15, <2>16 DEF StreamInv, VisibleStep
  <1> QED BY <1>6, <1>7

-----------------------------------------------------------------------------
(* read.                                                                     *)

LEMMA ReceivePacketStep ==
    ASSUME StreamInv, NEW r \in Ends, NEW k \in 1 .. sent[Other(r)], ReceivePacket(r, k)
    PROVE  StreamInv' /\ VisibleStep
  <1> TypeOK
    BY DEF StreamInv
  <1> DEFINE g == Other(r)
             segment == packets[g][k]
             reading == IF segment = << >> THEN NoCall ELSE ReadCall(k, segment)
  <1>1. g \in Ends /\ g # r /\ Other(g) = r
    BY OtherEnd
  <1> HIDE DEF g
  <1>2. /\ call[r].op = "none"
        /\ k \in 1 .. sent[g] /\ \A j \in accepted[g] : j < k
        /\ accepted' = [accepted EXCEPT ![g] = @ \cup {k}]
        /\ reported' = [reported EXCEPT ![r] = @ \o << >>]
        /\ call' = [call EXCEPT ![r] = reading]
        /\ UNCHANGED <<sent, m_buffer, in_flight_messages, pending_messages, packets, submitted,
                       m_next_outgoing_sequence_number, m_next_expected_sequence_number,
                       delivered>>
    BY DEF ReceivePacket, Idle, Accept, Acceptable, Report, StreamRead, g
  <1>3. UNCHANGED reported
    <2>1. reported[r] \o << >> = reported[r]
      BY Lengths, ConcatEmptySeq
    <2> QED BY <2>1, <1>2 DEF TypeOK
  <1>4. /\ segment \in Seq(SegmentMessage) /\ Len(segment) \in Nat
        /\ segment = << >> => Len(segment) = 0
        /\ sent[g] \in Nat /\ k \in Nat \ {0}
    <2>1. packets[g] \in Seq(Seq(SegmentMessage)) /\ sent[g] \in Nat
      BY <1>1, Lengths
    <2>2. k \in 1 .. Len(packets[g])
      BY <1>1, <1>2 DEF StreamInv, EndInv
    <2>3. segment \in Seq(SegmentMessage)
      BY <2>1, <2>2
    <2> QED BY <2>1, <2>3, <1>2
  <1> HIDE DEF segment
  <1>5. /\ NoCall \in Call /\ NoCall.op = "none"
        /\ ReadCall(k, segment) \in Call
        /\ ReadCall(k, segment).op = "read"
        /\ ReadCall(k, segment).id = k
        /\ ReadCall(k, segment).messages = segment
    BY <1>4 DEF NoCall, ReadCall, Call
  <1>6. /\ reading \in Call
        /\ reading.op = IF segment = << >> THEN "none" ELSE "read"
        /\ segment # << >> => reading.id = k /\ reading.messages = segment
    BY <1>5
  <1> HIDE DEF reading
  <1>7. /\ call' \in [Ends -> Call] /\ call'[r] = reading
        /\ \A h \in Ends : h # r => call'[h] = call[h]
        /\ accepted' \in [Ends -> SUBSET (Nat \ {0})]
        /\ accepted'[g] = accepted[g] \cup {k}
        /\ \A h \in Ends : h # g => accepted'[h] = accepted[h]
    BY <1>1, <1>2, <1>4, <1>6 DEF TypeOK
  <1>8. TypeOK'
    BY <1>2, <1>3, <1>7 DEF TypeOK
  <1>9. ASSUME NEW h \in Ends PROVE EndInv(h)'
    <2>1. EndInv(h)
      BY DEF StreamInv
    <2>2. CASE h = r
      BY <2>1, <2>2, <1>2, <1>6, <1>7 DEF EndInv
    <2>3. CASE h # r
      BY <2>1, <2>3, <1>2, <1>7 DEF EndInv
    <2> QED BY <2>2, <2>3
  <1>10. ASSUME NEW h \in Senders, h # g PROVE SenderInv(h)' /\ Silent(h)
    <2>1. h \in Ends /\ SenderInv(h) /\ h = r /\ Other(h) = g
      BY <1>1, <1>10, SendersAreEnds, OtherEnd DEF StreamInv, g
    <2>2. call[h].op # "ack" /\ call'[h].op # "ack" /\ call'[Other(h)] = call[Other(h)]
      BY <2>1, <1>1, <1>2, <1>6, <1>7
    <2>3. accepted'[h] = accepted[h]
      BY <2>1, <1>7, <1>10
    <2> QED BY <2>1, <2>2, <2>3, <1>2, <1>3, SenderFrame
  <1>11. ASSUME g \in Senders PROVE SenderInv(g)' /\ Silent(g)
    <2> SenderInv(g)
      BY <1>11 DEF StreamInv
    <2>1. call'[g] = call[g] /\ call'[Other(g)] = reading /\ call[Other(g)].op = "none"
      BY <1>1, <1>2, <1>7
    <2>2. /\ Outstanding(g)' = Outstanding(g)
          /\ Consumed(g)' = Consumed(g)
          /\ \A m : PayloadOf(g, m)' = PayloadOf(g, m)
      BY <1>2 DEF Outstanding, MessagesInFlight, Consumed, PayloadOf
    <2>3. BufferInv(g)'
      BY <2>2, <1>2 DEF SenderInv, BufferInv
    <2>4. PacketsInv(g)' /\ PacketsNear(g)'
      BY <1>2, PacketsSame DEF SenderInv
    <2>6. FlightInv(g)'
      BY <2>1, <2>2, <1>2, <1>3 DEF SenderInv, FlightInv
    <2>7. AckInv(g)'
      <3>1. ASSUME call[g].op = "ack"
            PROVE  /\ call[g].id = Len(reported[g])
                   /\ call[g].id \in accepted[g] \cup {k}
                   /\ ~(reading.op = "read" /\ reading.id = call[g].id)
        <4>1. call[g].id = Len(reported[g]) /\ call[g].id \in accepted[g]
          BY <3>1 DEF SenderInv, AckInv
        <4>2. call[g].id < k
          BY <4>1, <1>2
        <4>3. call[g].id \in Nat
          BY <4>1, <1>1, Lengths
        <4> QED BY <4>1, <4>2, <4>3, <1>4, <1>6
      <3> QED BY <3>1, <2>1, <1>3, <1>7 DEF AckInv, Reads
    <2>8. accepted'[g] \subseteq 1 .. sent[g] /\ \A j \in accepted'[g] : j <= k
      <3>1. accepted[g] \subseteq 1 .. sent[g]
        BY DEF SenderInv, ReadInv
      <3> QED BY <3>1, <1>2, <1>4, <1>7
    <2>9. ReadInv(g)'
      <3>1. ASSUME segment # << >>
            PROVE  /\ Len(segment) \in 1 .. Len(segment)
                   /\ \A i \in 1 .. Len(segment) :
                        segment[i] = segment[Len(segment) - Len(segment) + i]
        <4>1. Len(segment) # 0
          BY <3>1, <1>4
        <4>2. \A i \in 1 .. Len(segment) : Len(segment) - Len(segment) + i = i
          BY <1>4
        <4> QED BY <4>1, <4>2, <1>4
      <3>2. packets'[g][k] = segment
        BY <1>2 DEF segment
      <3>3. k \in accepted'[g]
        BY <1>7
      <3> QED BY ZenonT(60), <3>1, <3>2, <3>3, <2>1, <2>8, <1>2, <1>6 DEF ReadInv
    <2>10. DeliveredInv(g)'
      BY <2>2, <1>2, <1>7 DEF SenderInv, DeliveredInv
    <2>11. ProgressInv(g)'
      <3> DEFINE flight == in_flight_messages[g]
                 c == Consumed(g)
      <3>1. /\ FlightInv(g)
            /\ \A i \in 1 .. Len(flight) : flight[i].packet_id \in 1 .. sent[g]
            /\ Len(flight) \in Nat
        BY <1>1, Lengths DEF SenderInv, FlightInv
      <3>2. ASSUME NEW i \in 1 .. Len(flight),
                   \A j \in 1 .. i : flight[j].packet_id \in accepted'[g]
            PROVE  \/ c + i <= Len(delivered[Other(g)])
                   \/ /\ reading.op = "read" /\ reading.id = flight[i].packet_id
                      /\ \E x \in 1 .. Len(reading.messages) :
                           Number(reading.messages[x]) = c + i
        <4>1. CASE flight[i].packet_id = k
          <5>1. PICK x \in 1 .. Len(segment) : Number(segment[x]) = c + i
            BY <4>1, <3>1 DEF FlightInv, segment
          <5>2. segment # << >>
            BY <5>1, <1>4
          <5> QED BY <5>1, <5>2, <4>1, <1>6
        <4>2. CASE flight[i].packet_id # k
          <5>1. flight[i].packet_id \in accepted[g] /\ flight[i].packet_id < k
            <6>1. i \in 1 .. i
              BY <3>1
            <6> QED BY <6>1, <4>2, <3>2, <1>2, <1>7
          <5>2. ASSUME NEW j \in 1 .. i PROVE flight[j].packet_id \in accepted[g]
            <6>1. j \in 1 .. Len(flight) /\ (j = i \/ j < i)
              BY <3>1
            <6>2. flight[j].packet_id <= flight[i].packet_id
              BY <6>1, <3>1 DEF FlightInv
            <6>3. flight[j].packet_id # k
              BY <6>1, <6>2, <5>1, <3>1, <1>4
            <6> QED BY <6>3, <3>2, <1>7
          <5>3. \/ c + i <= Len(delivered[Other(g)])
                \/ Reads(Other(g), flight[i].packet_id)
            BY <5>2 DEF SenderInv, ProgressInv
          <5> QED BY <5>3, <2>1 DEF Reads
        <4> QED BY <4>1, <4>2
      <3> QED BY <3>2, <2>1, <2>2, <1>2 DEF ProgressInv, Reads
    <2>12. Silent(g)
      BY <2>2, <1>2 DEF Silent
    <2> QED BY <2>3, <2>4, <2>6, <2>7, <2>9, <2>10, <2>11, <2>12 DEF SenderInv
  <1> QED BY <1>8, <1>9, <1>10, <1>11 DEF StreamInv, VisibleStep

\* The sequence numbers do not deceive reader r: the message that it takes is the
\* one behind the last that it took.
HeadKnown(g, r, messages, head) ==
    /\ Number(head) \in 1 .. Len(submitted[g])
    /\ head.payload = PayloadOf(g, Number(head))
    /\ IsNext(r, head) <=> Number(head) = Len(delivered[r]) + 1
    /\ \A y \in 1 .. Len(messages) : Number(messages[y]) = Number(head) + y - 1
    /\ \E x \in 1 .. Len(packets[g][call[r].id]) :
         Number(packets[g][call[r].id][x]) = Number(head)

LEMMA HeadIsNext ==
    ASSUME NumbersOutlastBuffer, TypeOK, NEW g \in Senders, SenderInv(g),
           NEW r, r = Other(g), call[r].op = "read",
           NEW messages, messages = call[r].messages,
           NEW head, head = Head(messages)
    PROVE  HeadKnown(g, r, messages, head)
  <1> DEFINE id == call[r].id
             segment == packets[g][id]
             n == Len(segment)
             left == Len(messages)
             m == Number(head)
             d == Len(delivered[r])
             s == Len(submitted[g])
             c == Consumed(g)
             first == n - left + 1
  <1>1. g \in Ends /\ r \in Ends
    BY SendersAreEnds, OtherEnd
  <1>2. /\ id \in accepted[g] /\ \A k \in accepted[g] : k <= id
        /\ accepted[g] \subseteq 1 .. sent[g]
        /\ left \in 1 .. n
        /\ \A i \in 1 .. left : messages[i] = segment[n - left + i]
    BY DEF SenderInv, ReadInv
  <1>3. messages \in Seq(SegmentMessage) /\ d \in Nat /\ s \in Nat /\ left \in Nat
    <2>1. call[r] \in Call /\ d \in Nat /\ s \in Nat
      BY <1>1, Lengths
    <2>2. call[r].messages \in Seq(SegmentMessage)
      BY <2>1 DEF Call
    <2> QED BY <2>1, <2>2
  <1>4. n \in Nat
    <2>1. packets[g] \in Seq(Seq(SegmentMessage)) /\ Len(packets[g]) = sent[g]
      BY <1>1, Lengths DEF SenderInv, PacketsInv
    <2>2. id \in 1 .. Len(packets[g])
      BY <2>1, <1>2
    <2>3. segment \in Seq(SegmentMessage)
      BY <2>1, <2>2
    <2> QED BY <2>3
  <1>5. c \in Nat /\ s <= c + Capacity
    <2>1. 0 \in 0 .. Len(pending_messages[g])
      BY <1>1, Lengths
    <2> QED BY <2>1, <1>1, SegmentWritten DEF SenderInv
  <1>6. /\ c <= d
        /\ m_next_expected_sequence_number[r] = d % SequenceModulus
        /\ delivered[r] # << >> => \E k \in accepted[g] : \E x \in 1 .. Len(packets[g][k]) :
              Number(packets[g][k][x]) = d
        /\ delivered[r] = << >> => d = 0
    BY DEF SenderInv, DeliveredInv
  <1>7. id \in 1 .. sent[g]
    BY <1>2
  <1>8. /\ \A i \in 1 .. n :
             /\ Number(segment[i]) \in 1 .. s
             /\ segment[i].payload = PayloadOf(g, Number(segment[i]))
             /\ segment[i].sequence_number = (Number(segment[i]) - 1) % SequenceModulus
        /\ \A i, j \in 1 .. n : Number(segment[j]) - Number(segment[i]) = j - i
    <2>1. Carries(segment, submitted[g])
      BY <1>7 DEF SenderInv, PacketsInv
    <2> HIDE DEF segment
    <2> QED BY <2>1 DEF Carries, PayloadOf
  <1>9. messages # << >> /\ head = messages[1]
    BY <1>2, <1>3
  <1>10. first \in 1 .. n /\ head = segment[first]
    <2> HIDE DEF left, n, segment
    <2>1. 1 \in 1 .. left /\ first \in 1 .. n
      BY ONLY <1>2, <1>3, <1>4
    <2> QED BY <2>1, <1>2, <1>9
  <1> HIDE DEF id, segment, n, left, m, d, s, c, first
  <1>11. m \in 1 .. s /\ m \in Nat /\ head.payload = PayloadOf(g, m)
         /\ head.sequence_number = (m - 1) % SequenceModulus
    <2>1. m = Number(segment[first])
      BY <1>10 DEF m
    <2>2. m \in 1 .. s /\ segment[first].payload = PayloadOf(g, m)
          /\ segment[first].sequence_number = (m - 1) % SequenceModulus
      BY ONLY <2>1, <1>8, <1>10
    <2> QED BY ONLY <2>2, <1>3, <1>10
  <1>12. ASSUME NEW y \in 1 .. left PROVE Number(messages[y]) = m + y - 1
    <2> DEFINE z == n - left + y
    <2>1. z \in 1 .. n /\ z - first = y - 1
      BY <1>2, <1>3, <1>4 DEF first
    <2>2. messages[y] = segment[z]
      BY <1>2
    <2> HIDE DEF z
    <2>3. Number(segment[z]) - Number(segment[first]) = z - first
          /\ Number(segment[z]) \in 1 .. s
      BY ONLY <2>1, <1>8, <1>10
    <2>4. m = Number(segment[first])
      BY <1>10 DEF m
    <2> QED BY ONLY <2>1, <2>2, <2>3, <2>4, <1>3, <1>11, y \in 1 .. left
  <1>13. d < m + Capacity
    <2>1. CASE delivered[r] = << >>
      BY ONLY <2>1, <1>6, <1>11, CapacityIsNat
    <2>2. CASE delivered[r] # << >>
      <3>1. PICK k \in accepted[g] : \E x \in 1 .. Len(packets[g][k]) :
                Number(packets[g][k][x]) = d
        BY <2>2, <1>6
      <3>2. PICK x \in 1 .. Len(packets[g][k]) : Number(packets[g][k][x]) = d
        BY <3>1
      <3>3. k \in 1 .. sent[g] /\ k <= id
        BY <1>2
      <3>4. Number(packets[g][k][x]) < Number(packets[g][id][first]) + Capacity
        BY <3>3, <1>7, <1>10 DEF SenderInv, PacketsNear, n, segment
      <3> QED BY <3>2, <3>4, <1>10 DEF m, segment
    <2> QED BY <2>1, <2>2
  <1>14. IsNext(r, head) <=> m = d + 1
    <2> DEFINE before == m - 1
    <2>1. before \in Nat /\ SequenceModulus \in Nat \ {0} /\ Capacity < SequenceModulus
      BY <1>11, SequenceModulusIsPos DEF NumbersOutlastBuffer
    <2>2. before - d < SequenceModulus /\ d - before < SequenceModulus
      BY ONLY SMTT(40), <2>1, <1>3, <1>5, <1>6, <1>11, <1>13, CapacityIsNat
    <2>3. IsNext(r, head) <=> before % SequenceModulus = d % SequenceModulus
      BY <1>6, <1>11 DEF IsNext
    <2>4. m = d + 1 <=> before = d
      BY ONLY <1>3, <1>11
    <2> HIDE DEF before
    <2>5. before % SequenceModulus = d % SequenceModulus => before = d
      BY ONLY <2>1, <2>2, <1>3, ModEqual
    <2> QED BY ONLY <2>3, <2>4, <2>5
  <1>15. Number(packets[g][call[r].id][first]) = Number(head) /\ first \in 1 .. Len(packets[g][call[r].id])
    BY <1>10 DEF segment, id, n
  <1> QED BY <1>11, <1>12, <1>14, <1>15 DEF HeadKnown, m, s, d, left

LEMMA ReceiveMessageStep ==
    ASSUME NumbersOutlastBuffer, StreamInv, NEW r \in Ends, ReceiveMessage(r)
    PROVE  StreamInv' /\ VisibleStep
  <1> TypeOK
    BY DEF StreamInv
  <1> DEFINE g == Other(r)
             messages == call[r].messages
             head == Head(messages)
             rest == Tail(messages)
             id == call[r].id
             got == delivered[r]
             now == IF IsNext(r, head) THEN Append(got, head.payload) ELSE got
             reading == IF rest = << >> THEN NoCall ELSE ReadCall(id, rest)
  <1>1. g \in Ends /\ g # r /\ Other(g) = r
    BY OtherEnd
  <1> HIDE DEF g
  <1>2. /\ call[r].op = "read"
        /\ m_next_expected_sequence_number' = [m_next_expected_sequence_number EXCEPT
             ![r] = IF IsNext(r, head) THEN (@ + 1) % SequenceModulus ELSE @]
        /\ call' = [call EXCEPT ![r] = reading]
        /\ delivered' = [delivered EXCEPT ![r] = now]
        /\ UNCHANGED <<sent, accepted, reported, m_buffer, in_flight_messages, packets,
                       pending_messages, submitted, m_next_outgoing_sequence_number>>
    BY DEF ReceiveMessage, ReadMessage, contractVars, TypeOK
  <1>3. /\ messages \in Seq(SegmentMessage) /\ messages # << >>
        /\ id \in Nat /\ got \in Seq(Seq(Nat)) /\ Len(got) \in Nat
    <2>1. call[r] \in Call /\ got \in Seq(Seq(Nat)) /\ Len(got) \in Nat
      BY Lengths
    <2>2. messages # << >>
      BY <1>2 DEF StreamInv, EndInv
    <2> QED BY <2>1, <2>2 DEF Call
  <1>4. /\ head \in SegmentMessage /\ rest \in Seq(SegmentMessage)
        /\ Len(rest) = Len(messages) - 1
        /\ \A i \in 1 .. Len(rest) : rest[i] = messages[i + 1]
        /\ Len(messages) \in Nat /\ Len(messages) > 0
        /\ (rest = << >>) <=> (Len(rest) = 0)
    <2> HIDE DEF messages
    <2>1. /\ head \in SegmentMessage /\ rest \in Seq(SegmentMessage)
          /\ Len(rest) = Len(messages) - 1
          /\ \A i \in 1 .. Len(rest) : rest[i] = messages[i + 1]
      BY ONLY <1>3, HeadTailProperties
    <2> HIDE DEF head, rest
    <2> QED BY <2>1, <1>3
  <1> HIDE DEF messages, head, rest
  <1>5. /\ NoCall \in Call /\ NoCall.op = "none"
        /\ ReadCall(id, rest) \in Call
        /\ ReadCall(id, rest).op = "read"
        /\ ReadCall(id, rest).id = id
        /\ ReadCall(id, rest).messages = rest
    BY <1>3, <1>4 DEF NoCall, ReadCall, Call
  <1>6. /\ reading \in Call
        /\ reading.op = IF rest = << >> THEN "none" ELSE "read"
        /\ rest # << >> => reading.id = id /\ reading.messages = rest
    BY <1>5
  <1>7. now \in Seq(Seq(Nat))
    <2>1. head.payload \in Seq(Nat)
      BY <1>4 DEF SegmentMessage
    <2> QED BY <2>1, <1>3
  <1> HIDE DEF reading, now
  <1>8. /\ call' \in [Ends -> Call] /\ call'[r] = reading
        /\ \A h \in Ends : h # r => call'[h] = call[h]
    BY <1>2, <1>6 DEF TypeOK
  <1>9. /\ delivered' \in [Ends -> Seq(Seq(Nat))] /\ delivered'[r] = now
        /\ \A h \in Ends : h # r => delivered'[h] = delivered[h]
    BY <1>2, <1>7 DEF TypeOK
  <1>10. /\ m_next_expected_sequence_number' \in [Ends -> 0 .. SequenceModulus - 1]
         /\ m_next_expected_sequence_number'[r] =
              IF IsNext(r, head) THEN (m_next_expected_sequence_number[r] + 1) % SequenceModulus
                                 ELSE m_next_expected_sequence_number[r]
         /\ \A h \in Ends : h # r =>
              m_next_expected_sequence_number'[h] = m_next_expected_sequence_number[h]
    <2> DEFINE old == m_next_expected_sequence_number[r]
               new == IF IsNext(r, head) THEN (old + 1) % SequenceModulus ELSE old
    <2>1. old \in 0 .. SequenceModulus - 1
      BY DEF TypeOK
    <2>2. (old + 1) % SequenceModulus \in 0 .. SequenceModulus - 1
      <3>1. old + 1 \in Nat
        BY <2>1, SequenceModulusIsPos
      <3> QED BY ONLY <3>1, ModNext
    <2>3. new \in 0 .. SequenceModulus - 1
      BY <2>1, <2>2
    <2>4. m_next_expected_sequence_number' = [m_next_expected_sequence_number EXCEPT ![r] = new]
      BY <1>2
    <2>5. m_next_expected_sequence_number \in [Ends -> 0 .. SequenceModulus - 1]
      BY DEF TypeOK
    <2> HIDE DEF new, old
    <2>6. /\ m_next_expected_sequence_number' \in [Ends -> 0 .. SequenceModulus - 1]
          /\ m_next_expected_sequence_number'[r] = new
          /\ \A h \in Ends : h # r =>
               m_next_expected_sequence_number'[h] = m_next_expected_sequence_number[h]
      BY ONLY <2>3, <2>4, <2>5, r \in Ends
    <2> QED BY <2>6 DEF new, old
  <1>11. TypeOK'
    BY <1>2, <1>8, <1>9, <1>10 DEF TypeOK
  <1>12. ASSUME NEW h \in Ends PROVE EndInv(h)'
    <2>1. EndInv(h)
      BY DEF StreamInv
    <2>2. CASE h = r
      BY <2>1, <2>2, <1>2, <1>6, <1>8 DEF EndInv
    <2>3. CASE h # r
      BY <2>1, <2>3, <1>2, <1>8 DEF EndInv
    <2> QED BY <2>2, <2>3
  <1>13. ASSUME NEW h \in Senders, h # g PROVE SenderInv(h)' /\ Silent(h)
    <2>1. h \in Ends /\ SenderInv(h) /\ h = r /\ Other(h) = g
      BY <1>1, <1>13, SendersAreEnds, OtherEnd DEF StreamInv, g
    <2>2. call[h].op # "ack" /\ call'[h].op # "ack" /\ call'[Other(h)] = call[Other(h)]
      BY <2>1, <1>1, <1>2, <1>6, <1>8
    <2>3. /\ delivered'[Other(h)] = delivered[Other(h)]
          /\ m_next_expected_sequence_number'[Other(h)] =
               m_next_expected_sequence_number[Other(h)]
      BY <2>1, <1>1, <1>9, <1>10
    <2> QED BY <2>1, <2>2, <2>3, <1>2, SenderFrame
  <1>14. ASSUME g \in Senders PROVE SenderInv(g)' /\ (Silent(g) \/ Delivers(g))
    <2> SenderInv(g)
      BY <1>14 DEF StreamInv
    <2> DEFINE m == Number(head)
               d == Len(got)
               c == Consumed(g)
               flight == in_flight_messages[g]
    <2>1. call'[g] = call[g] /\ call'[Other(g)] = reading
      BY <1>1, <1>8
    <2>2. /\ Outstanding(g)' = Outstanding(g)
          /\ Consumed(g)' = Consumed(g)
          /\ \A x : PayloadOf(g, x)' = PayloadOf(g, x)
      BY <1>2 DEF Outstanding, MessagesInFlight, Consumed, PayloadOf
    <2>3. /\ m \in 1 .. Len(submitted[g])
          /\ head.payload = PayloadOf(g, m)
          /\ IsNext(r, head) <=> m = d + 1
          /\ \A y \in 1 .. Len(messages) : Number(messages[y]) = m + y - 1
          /\ \E x \in 1 .. Len(packets[g][id]) : Number(packets[g][id][x]) = m
      <3>1. r = Other(g) /\ messages = call[r].messages /\ head = Head(messages)
        BY <1>1 DEF messages, head
      <3>2. HeadKnown(g, r, messages, head)
        BY <3>1, <1>2, <1>14, HeadIsNext
      <3> QED BY <3>2 DEF HeadKnown
    <2>4. /\ id \in accepted[g] /\ \A k \in accepted[g] : k <= id
          /\ Len(messages) \in 1 .. Len(packets[g][id])
          /\ \A i \in 1 .. Len(messages) :
               messages[i] = packets[g][id][Len(packets[g][id]) - Len(messages) + i]
      BY <1>1, <1>2 DEF SenderInv, ReadInv, messages
    <2>5. BufferInv(g)'
      BY <2>2, <1>2 DEF SenderInv, BufferInv
    <2>6. PacketsInv(g)' /\ PacketsNear(g)'
      BY <1>2, PacketsSame DEF SenderInv
    <2>8. FlightInv(g)'
      BY <2>1, <2>2, <1>2 DEF SenderInv, FlightInv
    <2>9. AckInv(g)'
      <3>1. AckInv(g)
        BY DEF SenderInv
      <3> QED BY <3>1, <2>1, <1>1, <1>2, <1>6 DEF AckInv, Reads
    <2>10. ReadInv(g)'
      <3> DEFINE n == Len(packets[g][id])
      <3>1. n \in Nat
        <4>1. packets[g] \in Seq(Seq(SegmentMessage)) /\ Len(packets[g]) = sent[g]
          BY <1>1, Lengths DEF SenderInv, PacketsInv
        <4>2. id \in 1 .. Len(packets[g])
          BY <4>1, <2>4 DEF SenderInv, ReadInv
        <4>3. packets[g][id] \in Seq(SegmentMessage)
          BY <4>1, <4>2
        <4> QED BY <4>3
      <3>2. rest # << >> => Len(rest) \in 1 .. n
        <4> HIDE DEF n
        <4>1. Len(messages) \in 1 .. n
          BY <2>4 DEF n
        <4> QED BY ONLY <4>1, <3>1, <1>4
      <3>3. ASSUME NEW i \in 1 .. Len(rest)
            PROVE  rest[i] = packets[g][id][n - Len(rest) + i]
        <4>1. i + 1 \in 1 .. Len(messages) /\ n - Len(messages) + (i + 1) = n - Len(rest) + i
          <5> HIDE DEF n
          <5> QED BY ONLY <3>1, <1>4, i \in 1 .. Len(rest)
        <4>2. messages[i + 1] = packets[g][id][n - Len(messages) + (i + 1)]
          BY ONLY <4>1, <2>4
        <4> QED BY <4>1, <4>2, <1>4
      <3>4. accepted[g] \subseteq 1 .. sent[g]
        BY DEF SenderInv, ReadInv
      <3>5. rest # << >> =>
              /\ Len(rest) \in 1 .. n
              /\ \A i \in 1 .. Len(rest) : rest[i] = packets[g][id][n - Len(rest) + i]
        BY <3>2, <3>3
      <3>6. /\ reading.op = IF rest = << >> THEN "none" ELSE "read"
            /\ rest # << >> => reading.id = id /\ reading.messages = rest
            /\ call'[Other(g)] = reading
            /\ UNCHANGED <<accepted, packets, sent>>
        BY <2>1, <1>2, <1>6
      <3> HIDE DEF id
      <3> QED BY ONLY <3>4, <3>5, <3>6, <2>4 DEF ReadInv, n
    <2>11. /\ Len(now) = IF m = d + 1 THEN d + 1 ELSE d
           /\ Len(now) \in Nat
           /\ Len(now) <= Len(submitted[g])
           /\ \A x \in 1 .. Len(now) : now[x] = PayloadOf(g, x)
           /\ m_next_expected_sequence_number'[r] = Len(now) % SequenceModulus
           /\ now # << >> => \E k \in accepted[g] : \E x \in 1 .. Len(packets[g][k]) :
                Number(packets[g][k][x]) = Len(now)
           /\ c <= Len(now)
      <3>1. /\ d <= Len(submitted[g])
            /\ \A x \in 1 .. d : got[x] = PayloadOf(g, x)
            /\ m_next_expected_sequence_number[r] = d % SequenceModulus
            /\ got # << >> => \E k \in accepted[g] : \E x \in 1 .. Len(packets[g][k]) :
                 Number(packets[g][k][x]) = d
            /\ c <= d /\ d \in Nat
        BY <1>1, <1>3 DEF SenderInv, DeliveredInv
      <3>2. CASE m = d + 1
        <4>1. now = Append(got, head.payload)
          BY <3>2, <2>3 DEF now
        <4>2. head.payload \in Seq(Nat)
          BY <1>4 DEF SegmentMessage
        <4>3. Len(now) = d + 1 /\ now[d + 1] = head.payload
              /\ \A x \in 1 .. d : now[x] = got[x]
          BY ONLY <4>1, <4>2, <1>3, AppendProperties
        <4>4. m_next_expected_sequence_number'[r] = (d + 1) % SequenceModulus
          BY <3>1, <3>2, <2>3, <1>10, ModNext
        <4>5. c \in Int
          <5>1. Len(submitted[g]) \in Nat /\ Len(Outstanding(g)) \in Nat
            BY <1>1, Lengths, OutstandingAt
          <5> QED BY <5>1 DEF Consumed
        <4> HIDE DEF m, d, c
        <4>6. ASSUME NEW x \in 1 .. d + 1 PROVE now[x] = PayloadOf(g, x)
          <5>1. CASE x \in 1 .. d
            BY ONLY <5>1, <4>3, <3>1
          <5>2. CASE x = d + 1
            BY ONLY <5>2, <4>3, <3>2, <2>3
          <5> QED BY ONLY <5>1, <5>2, <3>1, x \in 1 .. d + 1
        <4>7. d + 1 <= Len(submitted[g]) /\ c <= d + 1 /\ d + 1 \in Nat
          BY ONLY <4>5, <3>1, <3>2, <2>3
        <4>8. \E k \in accepted[g] : \E x \in 1 .. Len(packets[g][k]) :
                Number(packets[g][k][x]) = d + 1
          BY ONLY <3>2, <2>3, <2>4
        <4> QED BY ONLY <4>3, <4>4, <4>6, <4>7, <4>8, <3>2
      <3>3. CASE m # d + 1
        <4>1. now = got /\ ~IsNext(r, head)
          BY <3>3, <2>3 DEF now
        <4>2. m_next_expected_sequence_number'[r] = d % SequenceModulus /\ Len(now) = d
          BY <4>1, <3>1, <1>10
        <4> HIDE DEF m, d, c
        <4> QED BY ONLY <4>1, <4>2, <3>1, <3>3
      <3> QED BY <3>2, <3>3
    <2>12. DeliveredInv(g)'
      BY <2>2, <2>11, <1>1, <1>2, <1>9 DEF DeliveredInv
    <2>13. ProgressInv(g)'
      <3>1. c \in Nat /\ c <= d /\ d \in Nat /\ Len(flight) \in Nat /\ m \in Nat
        <4>1. 0 \in 0 .. Len(pending_messages[g]) /\ Len(submitted[g]) \in Nat
              /\ Len(flight) \in Nat
          BY <1>1, Lengths
        <4>2. c \in Nat
          BY <4>1, <1>1, SegmentWritten DEF SenderInv
        <4> QED BY <4>1, <4>2, <2>3, <1>1, <1>3 DEF SenderInv, DeliveredInv
      <3>2. \A i \in 1 .. Len(flight) :
              (\A j \in 1 .. i : flight[j].packet_id \in accepted[g]) =>
                \/ c + i <= d
                \/ /\ flight[i].packet_id = id
                   /\ \E y \in 1 .. Len(messages) : Number(messages[y]) = c + i
        BY <1>1 DEF SenderInv, ProgressInv, Reads, messages
      <3> HIDE DEF m, d, c, flight
      <3>3. ASSUME NEW i \in 1 .. Len(flight),
                   \A j \in 1 .. i : flight[j].packet_id \in accepted[g]
            PROVE  \/ c + i <= Len(now)
                   \/ /\ reading.op = "read" /\ reading.id = flight[i].packet_id
                      /\ \E x \in 1 .. Len(reading.messages) :
                           Number(reading.messages[x]) = c + i
        <4>1. CASE c + i <= d
          BY ONLY <4>1, <2>11, <3>1, i \in 1 .. Len(flight)
        <4>2. ASSUME flight[i].packet_id = id,
                     NEW y \in 1 .. Len(messages), Number(messages[y]) = c + i
              PROVE  \/ c + i <= Len(now)
                     \/ /\ reading.op = "read" /\ reading.id = flight[i].packet_id
                        /\ \E x \in 1 .. Len(reading.messages) :
                             Number(reading.messages[x]) = c + i
          <5>1. CASE y # 1
            <6> DEFINE x == y - 1
            <6>1. x \in 1 .. Len(rest) /\ y = x + 1
              BY ONLY <5>1, <1>4, y \in 1 .. Len(messages)
            <6> HIDE DEF x
            <6>2. rest[x] = messages[y] /\ Len(rest) # 0
              BY ONLY <6>1, <1>4
            <6>3. rest # << >>
              BY ONLY <6>2, <1>4
            <6> QED BY <6>1, <6>2, <6>3, <4>2, <1>6
          <5>2. CASE y = 1
            <6>1. m = c + i
              BY ONLY <5>2, <4>2, <3>1, <2>3
            <6>2. CASE m = d + 1
              BY ONLY <6>1, <6>2, <2>11
            <6>3. CASE m <= d
              BY ONLY <6>1, <6>3, <3>1, <2>11
            <6>4. CASE m > d + 1
              <7> DEFINE z == d + 1 - c
              <7>1. z \in 1 .. Len(flight) /\ z < i /\ c + z = d + 1
                BY ONLY <6>1, <6>4, <3>1, i \in 1 .. Len(flight)
              <7> HIDE DEF z
              <7>2. \A j \in 1 .. z : flight[j].packet_id \in accepted[g]
                <8>1. \A j \in 1 .. z : j \in 1 .. i
                  BY ONLY <7>1, <3>1, i \in 1 .. Len(flight)
                <8> QED BY ONLY <8>1, <3>3
              <7>3. ~(c + z <= d)
                BY ONLY <7>1, <3>1
              <7>4. PICK x \in 1 .. Len(messages) : Number(messages[x]) = c + z
                BY ONLY <7>1, <7>2, <7>3, <3>2
              <7>5. m + x - 1 = d + 1
                BY ONLY <7>1, <7>4, <2>3
              <7> QED BY ONLY <7>5, <6>4, <3>1, x \in 1 .. Len(messages)
            <6> QED BY ONLY <6>2, <6>3, <6>4, <3>1
          <5> QED BY <5>1, <5>2
        <4> QED BY <4>1, <4>2, <3>2, <3>3
      <3> QED BY <3>3, <2>1, <2>2, <1>1, <1>2, <1>9 DEF ProgressInv, Reads, flight, c
    <2>14. Silent(g) \/ Delivers(g)
      <3>1. submitted'[g] = submitted[g] /\ delivered'[Other(g)] = now
            /\ got = delivered[Other(g)]
        BY <1>1, <1>2, <1>9
      <3>2. CASE IsNext(r, head)
        <4>1. now = Append(got, PayloadOf(g, d + 1)) /\ d + 1 <= Len(submitted[g])
          BY <3>2, <2>3, <2>11 DEF now
        <4>2. d < Len(submitted[g])
          <5>1. Len(submitted[g]) \in Nat
            BY <1>1, Lengths
          <5> QED BY <5>1, <4>1, <1>3
        <4> QED BY <4>1, <4>2, <3>1, <2>2 DEF Delivers
      <3>3. CASE ~IsNext(r, head)
        BY <3>1, <3>3, <2>2 DEF Silent, now
      <3> QED BY <3>2, <3>3
    <2> QED BY <2>5, <2>6, <2>8, <2>9, <2>10, <2>12, <2>13, <2>14 DEF SenderInv
  <1> QED BY <1>11, <1>12, <1>13, <1>14 DEF StreamInv, VisibleStep

-----------------------------------------------------------------------------
(* The invariant.                                                            *)

LEMMA InvAtStart ==
    Init => StreamInv
  <1> SUFFICES ASSUME Init PROVE StreamInv
    OBVIOUS
  <1>1. /\ sent = [h \in Ends |-> 0] /\ accepted = [h \in Ends |-> {}]
        /\ reported = [h \in Ends |-> << >>] /\ packets = [h \in Ends |-> << >>]
        /\ submitted = [h \in Ends |-> << >>] /\ delivered = [h \in Ends |-> << >>]
        /\ m_buffer = [h \in Ends |-> NewBuffer]
        /\ in_flight_messages = [h \in Ends |-> << >>]
        /\ pending_messages = [h \in Ends |-> << >>]
        /\ m_next_outgoing_sequence_number = [h \in Ends |-> 0]
        /\ m_next_expected_sequence_number = [h \in Ends |-> 0]
        /\ call = [h \in Ends |-> NoCall]
    BY ReliableLinkConstants DEF Init, ContractInit, StreamInit
  <1>2. /\ NewBuffer \in Buffer /\ NewBuffer.m_begin = 0 /\ NewBuffer.m_end = 0
    BY CapacityIsNat DEF NewBuffer, NoByte, Buffer
  <1>3. NoCall \in Call /\ NoCall.op = "none"
    BY DEF NoCall, Call
  <1>4. 0 \in 0 .. SequenceModulus - 1 /\ 0 % SequenceModulus = 0
    BY SequenceModulusIsPos
  <1>5. /\ << >> \in Seq(Fate) /\ << >> \in Seq(InFlightMessage) /\ << >> \in Seq(Message)
        /\ << >> \in Seq(Seq(SegmentMessage)) /\ << >> \in Seq(Nat \ {0})
        /\ << >> \in Seq(Seq(Nat)) /\ Len(<< >>) = 0
    OBVIOUS
  <1>6. TypeOK
    BY <1>1, <1>2, <1>3, <1>4, <1>5 DEF TypeOK
  <1>7. ASSUME NEW h \in Ends
        PROVE  /\ sent[h] = 0 /\ accepted[h] = {} /\ reported[h] = << >>
               /\ packets[h] = << >> /\ submitted[h] = << >> /\ delivered[h] = << >>
               /\ m_buffer[h] = NewBuffer /\ in_flight_messages[h] = << >>
               /\ pending_messages[h] = << >>
               /\ m_next_outgoing_sequence_number[h] = 0
               /\ m_next_expected_sequence_number[h] = 0
               /\ call[h] = NoCall
    BY <1>1
  <1>8. \A h \in Ends : EndInv(h)
    BY <1>3, <1>5, <1>7 DEF EndInv
  <1>9. ASSUME NEW h \in Senders PROVE SenderInv(h)
    <2>1. h \in Ends /\ Other(h) \in Ends
      BY SendersAreEnds, OtherEnd
    <2>2. Len(Outstanding(h)) = 0 /\ Len(submitted[h]) = 0 /\ Consumed(h) = 0
      <3>1. Len(Outstanding(h)) = 0 + 0
        BY <2>1, <1>5, <1>6, <1>7, OutstandingAt
      <3> QED BY <3>1, <2>1, <1>5, <1>7 DEF Consumed
    <2>3. BufferInv(h)
      BY <2>1, <2>2, <1>2, <1>4, <1>7 DEF BufferInv, Laid
    <2>4. PacketsInv(h) /\ PacketsNear(h)
      BY <2>1, <1>5, <1>7 DEF PacketsInv, PacketsNear
    <2>5. FlightInv(h) /\ ProgressInv(h)
      BY <2>1, <1>5, <1>7 DEF FlightInv, ProgressInv
    <2>6. AckInv(h) /\ ReadInv(h)
      BY <2>1, <1>3, <1>7 DEF AckInv, ReadInv
    <2>7. DeliveredInv(h)
      <3>1. delivered[Other(h)] = << >> /\ Len(delivered[Other(h)]) = 0
            /\ m_next_expected_sequence_number[Other(h)] = 0
        BY <2>1, <1>5, <1>7
      <3> QED BY <3>1, <2>2, <1>4 DEF DeliveredInv
    <2> QED BY <2>3, <2>4, <2>5, <2>6, <2>7 DEF SenderInv
  <1> QED BY <1>6, <1>8, <1>9 DEF StreamInv

LEMMA StreamStep ==
    ASSUME NumbersOutlastBuffer, StreamInv, Next
    PROVE  StreamInv' /\ VisibleStep
  <1>1. ASSUME NEW h \in Senders, NEW size \in 0 .. MaxSize, Send(h, size)
        PROVE  StreamInv' /\ VisibleStep
    BY <1>1, SendStep
  <1>2. ASSUME NEW h \in Senders, WritePacket(h) PROVE StreamInv' /\ VisibleStep
    BY <1>2, WriteStep
  <1>3. ASSUME NEW h \in Senders, Acked(h) PROVE StreamInv' /\ VisibleStep
    BY <1>3, AckedStep
  <1>4. ASSUME NEW h \in Senders, PopAckedMessage(h) PROVE StreamInv' /\ VisibleStep
    BY <1>4, PopStep
  <1>5. ASSUME NEW h \in Senders, Dropped(h) PROVE StreamInv' /\ VisibleStep
    BY <1>5, DropStep
  <1>6. ASSUME NEW h \in Ends, NEW k \in 1 .. sent[Other(h)], ReceivePacket(h, k)
        PROVE  StreamInv' /\ VisibleStep
    BY <1>6, ReceivePacketStep
  <1>7. ASSUME NEW h \in Ends, ReceiveMessage(h) PROVE StreamInv' /\ VisibleStep
    BY <1>7, ReceiveMessageStep
  <1> QED BY <1>1, <1>2, <1>3, <1>4, <1>5, <1>6, <1>7 DEF Next

LEMMA StreamIdle ==
    ASSUME StreamInv, UNCHANGED vars
    PROVE  StreamInv'
  <1>1. UNCHANGED <<sent, accepted, reported, m_buffer, in_flight_messages, pending_messages,
                    m_next_outgoing_sequence_number, m_next_expected_sequence_number, call,
                    packets, submitted, delivered>>
    BY DEF vars, contractVars, streamVars
  <1>2. TypeOK'
    BY <1>1 DEF StreamInv, TypeOK
  <1>3. \A h \in Ends : EndInv(h)'
    BY <1>1 DEF StreamInv, EndInv
  <1>4. ASSUME NEW h \in Senders PROVE SenderInv(h)'
    BY <1>1, SenderFrame DEF StreamInv
  <1> QED BY <1>2, <1>3, <1>4 DEF StreamInv

\* The invariant holds always: the conjunct that a mistaken reader would break is
\* kept because no message is a whole round of sequence numbers away.
THEOREM StreamInvAlways == ASSUME NumbersOutlastBuffer PROVE Spec => []StreamInv
  <1>1. StreamInv /\ [Next]_vars => StreamInv'
    BY StreamStep, StreamIdle
  <1> QED BY <1>1, InvAtStart, PTL DEF Spec

\* Every member keeps its type: no index of the buffer and no range of a message
\* is ever negative or beyond the capacity, as the assertions of FlipBuffer and
\* BufferRange demand.
THEOREM TypeCorrect == ASSUME NumbersOutlastBuffer PROVE Spec => []TypeOK
  <1>1. StreamInv => TypeOK
    BY DEF StreamInv
  <1> QED BY <1>1, StreamInvAlways, PTL

\* The assertions of on_packet_delivery_status never fail.
THEOREM StatusAssertions == ASSUME NumbersOutlastBuffer PROVE Spec => []StatusAssertionsHold
  <1>1. ASSUME StreamInv PROVE StatusAssertionsHold
    <2> SUFFICES ASSUME NEW h \in Senders, in_flight_messages[h] # << >>
                 PROVE  IF call[h].op = "ack"
                        THEN Head(in_flight_messages[h]).packet_id >= call[h].id
                        ELSE Head(in_flight_messages[h]).packet_id >= Len(reported[h]) + 1
      BY DEF StatusAssertionsHold
    <2>1. in_flight_messages[h] \in Seq(InFlightMessage)
      BY <1>1, SendersAreEnds, Lengths DEF StreamInv
    <2>2. 1 \in 1 .. Len(in_flight_messages[h])
          /\ Head(in_flight_messages[h]) = in_flight_messages[h][1]
      BY <2>1
    <2> QED BY <2>2, <1>1 DEF StreamInv, SenderInv, FlightInv
  <1> QED BY <1>1, StreamInvAlways, PTL

\* No sequence of sends, flips, acks and drops makes two messages share a byte,
\* leaves a hole or changes their order.
THEOREM MessagesTile == ASSUME NumbersOutlastBuffer PROVE Spec => []BufferTiled
  <1>1. ASSUME StreamInv, NEW h \in Senders
        PROVE  LET messages == Outstanding(h)
                   limit(i) == IF i = 0 THEN m_buffer[h].m_begin ELSE messages[i].end
               IN
               /\ \A i \in 1 .. Len(messages) :
                    /\ messages[i].begin = limit(i - 1)
                    /\ messages[i].end > messages[i].begin
                    /\ messages[i].sequence_number = (Consumed(h) + i - 1) % SequenceModulus
               /\ limit(Len(messages)) = m_buffer[h].m_end
    <2> DEFINE messages == Outstanding(h)
    <2>1. Laid(messages, m_buffer[h], submitted[h])
      BY <1>1 DEF StreamInv, SenderInv, BufferInv
    <2>2. Consumed(h) = Len(submitted[h]) - Len(messages)
      BY DEF Consumed
    <2>3. Len(messages) \in Nat
      BY <1>1, SendersAreEnds, OutstandingAt DEF StreamInv
    <2> HIDE DEF messages
    <2>4. ASSUME NEW i \in 1 .. Len(messages)
          PROVE  /\ messages[i].begin =
                      IF i - 1 = 0 THEN m_buffer[h].m_begin ELSE messages[i - 1].end
                 /\ messages[i].end > messages[i].begin
                 /\ messages[i].sequence_number = (Consumed(h) + i - 1) % SequenceModulus
      <3>1. i - 1 = 0 <=> i = 1
        BY <2>3
      <3> QED BY <3>1, <2>1, <2>2 DEF Laid
    <2>5. (IF Len(messages) = 0 THEN m_buffer[h].m_begin ELSE messages[Len(messages)].end)
            = m_buffer[h].m_end
      BY <2>1 DEF Laid
    <2> QED BY <2>4, <2>5 DEF messages
  <1>2. StreamInv => BufferTiled
    BY <1>1 DEF BufferTiled
  <1> QED BY <1>2, StreamInvAlways, PTL

\* The bytes of a message stay in the buffer until it can no longer be resent.
THEOREM BytesStayIntact == ASSUME NumbersOutlastBuffer PROVE Spec => []BytesIntact
  <1>1. ASSUME StreamInv, NEW h \in Senders, NEW i \in 1 .. Len(Outstanding(h))
        PROVE  BytesAt(m_buffer[h], Outstanding(h)[i].begin, Outstanding(h)[i].end)
                 = PayloadOf(h, Consumed(h) + i)
    <2>1. /\ Outstanding(h) \in Seq(Message) /\ m_buffer[h] \in Buffer
          /\ submitted[h] \in Seq(Nat \ {0})
      BY <1>1, SendersAreEnds, OutstandingAt, Lengths DEF StreamInv
    <2>2. Laid(Outstanding(h), m_buffer[h], submitted[h])
      BY <1>1 DEF StreamInv, SenderInv, BufferInv
    <2> QED BY <2>1, <2>2, LaidBytes DEF PayloadOf, Consumed
  <1>2. StreamInv => BytesIntact
    BY <1>1 DEF BytesIntact
  <1> QED BY <1>2, StreamInvAlways, PTL

\* The receiving application gets what the sending one sent: each message once,
\* in order, unchanged, whatever is lost, late or falsely reported dropped.
THEOREM DeliversInOrder == ASSUME NumbersOutlastBuffer PROVE Spec => []DeliveredInOrder
  <1>1. StreamInv => DeliveredInOrder
    BY DEF StreamInv, SenderInv, DeliveredInv, DeliveredInOrder
  <1> QED BY <1>1, StreamInvAlways, PTL

\* A message that the reader skipped is never taken for delivered.
THEOREM ConsumesOnlyDelivered ==
    ASSUME NumbersOutlastBuffer PROVE Spec => []ConsumedWasDelivered
  <1>1. StreamInv => ConsumedWasDelivered
    BY DEF StreamInv, SenderInv, DeliveredInv, ConsumedWasDelivered
  <1> QED BY <1>1, StreamInvAlways, PTL

-----------------------------------------------------------------------------
(* Refinement: the streams are a reliable channel.                           *)

\* The variables of the channel.
OfferedBy(h) == [m \in 1 .. Len(submitted[h]) |-> PayloadOf(h, m)]
Offered == [h \in Senders |-> OfferedBy(h)]
Received == [h \in Senders |-> delivered[Other(h)]]
Released == [h \in Senders |-> Consumed(h)]

LEMMA SilentOffers ==
    ASSUME NEW h, submitted'[h] = submitted[h]
    PROVE  OfferedBy(h)' = OfferedBy(h)
  BY DEF OfferedBy, PayloadOf

LEMMA VisibleStepRefines ==
    ASSUME StreamInv, StreamInv', VisibleStep
    PROVE  Channel!ChannelNext
             \/ (Offered' = Offered /\ Received' = Received /\ Released' = Released)
  <1> DEFINE Payloads == UNION {[1 .. size -> 1 .. MaxMessages] : size \in 1 .. MaxSize}
  <1>1. ASSUME NEW h \in Senders, Silent(h)
        PROVE  Offered'[h] = Offered[h] /\ Received'[h] = Received[h]
               /\ Released'[h] = Released[h]
    BY <1>1, SilentOffers DEF Silent, Offered, Received, Released
  <1>2. CASE \A h \in Senders : Silent(h)
    BY <1>1, <1>2 DEF Offered, Received, Released
  <1>3. ASSUME NEW g \in Senders, \A h \in Senders : h # g => Silent(h), Frees(g)
        PROVE  Channel!Release(g)
    <2>1. /\ Offered'[g] = Offered[g] /\ Received'[g] = Received[g]
          /\ Released'[g] = Released[g] + 1 /\ Released[g] < Len(Received[g])
      BY <1>3, SilentOffers DEF Frees, Offered, Received, Released
    <2>2. Offered' = Offered /\ Received' = Received
      BY <2>1, <1>1, <1>3 DEF Offered, Received
    <2>3. Released' = [Released EXCEPT ![g] = @ + 1]
      BY <2>1, <1>1, <1>3 DEF Released
    <2> QED BY <2>1, <2>2, <2>3 DEF Channel!Release, Offered, Received, Released, OfferedBy
  <1>4. ASSUME NEW g \in Senders, \A h \in Senders : h # g => Silent(h), Delivers(g)
        PROVE  Channel!Receive(g)
    <2> DEFINE got == delivered[Other(g)]
    <2>1. /\ Offered'[g] = Offered[g] /\ Released'[g] = Released[g]
          /\ Len(got) < Len(submitted[g]) /\ Received[g] = got
          /\ Received'[g] = Append(got, PayloadOf(g, Len(got) + 1))
      BY <1>4, SilentOffers DEF Delivers, Offered, Received, Released
    <2>2. Len(got) \in Nat /\ Len(submitted[g]) \in Nat
      BY SendersAreEnds, OtherEnd, Lengths DEF StreamInv
    <2>3. /\ Len(Offered[g]) = Len(submitted[g])
          /\ Offered[g][Len(got) + 1] = PayloadOf(g, Len(got) + 1)
      <3>1. Offered[g] = OfferedBy(g)
        BY DEF Offered
      <3>2. Len(got) + 1 \in 1 .. Len(submitted[g])
        BY <2>1, <2>2
      <3> HIDE DEF got
      <3> QED BY <3>1, <3>2, <2>2 DEF OfferedBy
    <2>4. Offered' = Offered /\ Released' = Released
      BY <2>1, <1>1, <1>4 DEF Offered, Released
    <2>5. Received' = [Received EXCEPT ![g] = Append(@, Offered[g][Len(@) + 1])]
      <3> HIDE DEF got
      <3> QED BY <2>1, <2>3, <1>1, <1>4 DEF Received
    <2> QED BY <2>1, <2>3, <2>4, <2>5 DEF Channel!Receive, Offered, Received, Released, OfferedBy
  <1>5. ASSUME NEW g \in Senders, \A h \in Senders : h # g => Silent(h),
               NEW size \in 1 .. MaxSize, Offers(g, size)
        PROVE  \E payload \in Payloads : Channel!Offer(g, payload)
    <2> DEFINE n == Len(submitted[g])
               payload == [i \in 1 .. size |-> n + 1]
    <2>1. n \in Nat /\ n < MaxMessages /\ MaxMessages \in Nat /\ submitted[g] \in Seq(Nat \ {0})
          /\ MaxSize \in Nat /\ size \in Nat \ {0}
      BY <1>5, SendersAreEnds, Lengths, ReliableLinkConstants DEF StreamInv, Offers
    <2>2. payload \in Payloads
      <3>1. n + 1 \in 1 .. MaxMessages
        BY <2>1
      <3> QED BY <3>1
    <2>3. /\ Len(submitted'[g]) = n + 1
          /\ submitted'[g][n + 1] = size
          /\ \A m \in 1 .. n : submitted'[g][m] = submitted[g][m]
      <3>1. submitted'[g] = Append(submitted[g], size)
        BY <1>5 DEF Offers
      <3> QED BY ONLY <3>1, <2>1, AppendProperties
    <2>4. OfferedBy(g)' = Append(OfferedBy(g), payload)
      <3> DEFINE past(m) == [i \in 1 .. submitted[g][m] |-> m]
                 before == OfferedBy(g)
                 after == [m \in 1 .. n + 1 |-> IF m = n + 1 THEN payload ELSE past(m)]
      <3>1. before = [m \in 1 .. n |-> past(m)]
        BY DEF OfferedBy, PayloadOf
      <3>2. OfferedBy(g)' = after
        <4>1. OfferedBy(g)' = [m \in 1 .. n + 1 |-> [i \in 1 .. submitted'[g][m] |-> m]]
          BY <2>3 DEF OfferedBy, PayloadOf
        <4>2. ASSUME NEW m \in 1 .. n + 1
              PROVE  [i \in 1 .. submitted'[g][m] |-> m] =
                       IF m = n + 1 THEN payload ELSE past(m)
          <5>1. CASE m = n + 1
            BY <5>1, <2>3
          <5>2. CASE m # n + 1
            <6>1. m \in 1 .. n
              BY <5>2, <2>1
            <6> QED BY <5>2, <6>1, <2>3
          <5> QED BY <5>1, <5>2
        <4> QED BY <4>1, <4>2
      <3> HIDE DEF payload, past, before, n
      <3>3. DOMAIN before = 1 .. n /\ Len(before) = n
        BY <3>1, <2>1
      <3>4. Append(before, payload) = after
        BY <3>1, <3>3, <2>1
      <3> QED BY <3>2, <3>4 DEF before
    <2>5. /\ Offered'[g] = Append(Offered[g], payload) /\ Received'[g] = Received[g]
          /\ Released'[g] = Released[g]
      <3> HIDE DEF payload
      <3> QED BY <2>4, <1>5 DEF Offers, Offered, Received, Released
    <2>6. Received' = Received /\ Released' = Released
      BY <2>5, <1>1, <1>5 DEF Received, Released
    <2>7. Offered' = [Offered EXCEPT ![g] = Append(@, payload)]
      <3> HIDE DEF payload
      <3> QED BY <2>5, <1>1, <1>5 DEF Offered
    <2>8. PICK value \in Payloads : value = payload
      BY <2>2
    <2>9. Channel!Offer(g, value)
      <3> HIDE DEF payload
      <3> QED BY <2>6, <2>7, <2>8 DEF Channel!Offer, Offered, Received, Released, OfferedBy
    <2> HIDE DEF Payloads
    <2> QED BY <2>9
  <1> QED BY <1>2, <1>3, <1>4, <1>5 DEF VisibleStep, Channel!ChannelNext

\* The streams are a channel: every step that the applications see hands over the
\* oldest message not delivered yet, or frees the room of one that was.
THEOREM StreamsImplementChannel ==
    ASSUME NumbersOutlastBuffer PROVE Spec => Channel!ChannelSafety
  <1>1. Init => Channel!ChannelInit
    <2> SUFFICES ASSUME Init PROVE Channel!ChannelInit
      OBVIOUS
    <2>1. ASSUME NEW h \in Senders
          PROVE  OfferedBy(h) = << >> /\ delivered[Other(h)] = << >> /\ Consumed(h) = 0
      <3>1. h \in Ends /\ Other(h) \in Ends
        BY SendersAreEnds, OtherEnd
      <3>2. submitted[h] = << >> /\ delivered[Other(h)] = << >>
            /\ in_flight_messages[h] = << >> /\ pending_messages[h] = << >>
        BY <3>1, ReliableLinkConstants DEF Init, StreamInit
      <3>3. Len(Outstanding(h)) = 0 + 0
        BY <3>1, <3>2, InvAtStart, OutstandingAt DEF StreamInv
      <3> QED BY <3>2, <3>3 DEF Consumed, OfferedBy
    <2> QED BY <2>1 DEF Channel!ChannelInit, OfferedBy
  <1>2. StreamInv /\ StreamInv' /\ [Next]_vars => [Channel!ChannelNext]_(Channel!channelVars)
    <2> SUFFICES ASSUME StreamInv, StreamInv', [Next]_vars
                 PROVE  Channel!ChannelNext \/ UNCHANGED Channel!channelVars
      OBVIOUS
    <2>1. ASSUME Offered' = Offered, Received' = Received, Released' = Released
          PROVE  UNCHANGED Channel!channelVars
      BY <2>1 DEF Channel!channelVars, Offered, OfferedBy, Received, Released
    <2>2. CASE Next
      BY <2>1, <2>2, StreamStep, VisibleStepRefines
    <2>3. CASE UNCHANGED vars
      <3>1. \A h \in Senders : Silent(h)
        BY <2>3 DEF vars, contractVars, streamVars, Silent, Consumed, Outstanding,
                    MessagesInFlight
      <3>2. VisibleStep
        BY <3>1 DEF VisibleStep
      <3> QED BY <3>2, <2>1, VisibleStepRefines
    <2> QED BY <2>2, <2>3
  <1> QED BY <1>1, <1>2, StreamInvAlways, PTL DEF Spec, Channel!ChannelSafety
=============================================================================
