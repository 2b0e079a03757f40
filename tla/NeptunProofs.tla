---------------------------- MODULE NeptunProofs ----------------------------
(***************************************************************************)
(* Proofs about Neptun: its types, and with them the stages of tick and the *)
(* layout of both stream buffers, the invariant that NeptunDeliveryProofs   *)
(* builds on.                                                               *)
(***************************************************************************)
EXTENDS Neptun, Induction

-----------------------------------------------------------------------------
(* The inductive invariant.  All messages are one byte long.                 *)

InFlightMessage == [packet_id : PacketId, message : Message]
Span == [begin : 0 .. Capacity, end : 0 .. Capacity]
Call == [op : {"none", "ack", "read"}, id : PacketId, messages : Seq(SegmentMessage)]
Stage == {"none", "old", "acks", "segments", "write"}
\* A packet carries as many unreliable messages as its header says, or more.
SentPacket == {packet \in Packet :
                 packet.unreliable.message_count <= Len(packet.unreliable.messages)}
TickState == [host : Host \cup {"none"}, stage : Stage, statuses : Seq(DeliveryStatus),
              packet : SentPacket \cup {NoPacket}]

\* How many messages were given up.
Given(flight, pending, count) == count - Len(flight) - Len(pending)

\* Message number n in a buffer that begins with message number c + 1.
Slot(buffer, c, n) ==
    [begin |-> buffer.m_begin + n - 1, end |-> buffer.m_begin + n,
     sequence_number |-> (c + n - 1) % SequenceModulus]

\* The messages in flight and then the pending ones fill the used part of the
\* buffer.
Laid(flight, pending, buffer, count) ==
    LET c == Given(flight, pending, count) IN
    /\ c >= 0
    /\ buffer.m_end = buffer.m_begin + Len(flight) + Len(pending)
    /\ \A i \in 1 .. Len(flight) : flight[i].message = Slot(buffer, c, i)
    /\ \A i \in 1 .. Len(pending) : pending[i] = Slot(buffer, c, Len(flight) + i)
    /\ \A i \in 1 .. Len(flight) + Len(pending) :
         buffer.m_buffer[buffer.m_begin + i] = c + i

\* The spans are the last part of the used part of the buffer.
SpansLaid(spans, buffer, count) ==
    LET first == buffer.m_end - Len(spans) IN
    /\ buffer.m_begin <= first
    /\ Len(spans) <= count
    /\ \A i \in 1 .. Len(spans) :
         /\ spans[i] = [begin |-> first + i - 1, end |-> first + i]
         /\ buffer.m_buffer[first + i] = (count - Len(spans)) + i

StreamInv(h) ==
    /\ m_buffer[h] \in Buffer
    /\ in_flight_messages[h] \in Seq(InFlightMessage)
    /\ pending_messages[h] \in Seq(Message)
    /\ m_next_outgoing_sequence_number[h] = submitted[h] % SequenceModulus
    /\ Laid(in_flight_messages[h], pending_messages[h], m_buffer[h], submitted[h])

SpansInv(h) ==
    /\ m_unreliable_buffer[h] \in Buffer
    /\ m_pending_messages[h] \in Seq(Span)
    /\ SpansLaid(m_pending_messages[h], m_unreliable_buffer[h], usubmitted[h])

\* The part of TypeOK that the streams share with the applications.
CmTypeOK ==
    /\ m_in_flight_lets_connect \in [Host -> Seq(PacketId)]
    /\ m_underflow \in [Host -> Nat]
    /\ m_num_lets_connect_to_send \in [Host -> Nat]
    /\ is_fail \in [Host -> BOOLEAN]
    /\ m_is_initiator \in [Host -> BOOLEAN]
    /\ m_self_is_connected \in [Host -> BOOLEAN]
    /\ m_hangs \in [Host -> BOOLEAN]
    /\ m_peer_bandwidth_limit \in [Host -> Limit]

StreamTypeOK ==
    /\ m_buffer \in [Host -> Buffer]
    /\ in_flight_messages \in [Host -> Seq(InFlightMessage)]
    /\ pending_messages \in [Host -> Seq(Message)]
    /\ m_next_outgoing_sequence_number \in [Host -> 0 .. SequenceModulus - 1]
    /\ m_next_expected_sequence_number \in [Host -> 0 .. SequenceModulus - 1]
    /\ call \in [Host -> Call]

SpansTypeOK ==
    /\ m_unreliable_buffer \in [Host -> Buffer]
    /\ m_pending_messages \in [Host -> Seq(Span)]

NetTypeOK ==
    /\ now \in 0 .. MaxTime
    /\ network \in [Host -> Seq(SentPacket)]
    /\ has_peer \in [Host -> BOOLEAN]

HistoryTypeOK ==
    /\ submitted \in [Host -> 0 .. MaxReliable]
    /\ usubmitted \in [Host -> 0 .. MaxUnreliable]
    /\ delivered \in [Host -> Seq(Seq(Nat))]
    /\ udelivered \in [Host -> Seq(Seq(Nat))]

\* Where a tick can be.
TickInv ==
    /\ tick \in TickState
    /\ tick.stage = "none" => tick = NotTicking
    /\ tick.stage # "none" => tick.host \in Host
    /\ tick.statuses # << >> => tick.stage \in {"old", "acks"}
    /\ tick.stage \in {"acks", "segments"} => tick.packet \in SentPacket /\ has_peer[tick.host]
    /\ \A h \in Host :
         /\ call[h].op # "none" => tick.host = h
         /\ call[h].op = "ack" => tick.stage \in {"old", "acks"}
         /\ call[h].op = "read" =>
              tick.stage = "write" /\ has_peer[h] /\ call[h].messages # << >>

BaseInv ==
    /\ PdmTypeOK
    /\ CmTypeOK
    /\ StreamTypeOK
    /\ SpansTypeOK
    /\ NetTypeOK
    /\ HistoryTypeOK
    /\ TickInv
    /\ \A h \in Host : StreamInv(h)
    /\ \A h \in Host : SpansInv(h)

\* The segments that are left in a buffer come from such packets.
LeftSegments == {segments \in Segments :
                   segments.unreliable.message_count <= Len(segments.unreliable.messages)}
BufferInv == m_network_buffer \in [Host -> [Place -> LeftSegments]]

-----------------------------------------------------------------------------
(* Hosts, numbers and queues.                                                *)

LEMMA OtherHost ==
    ASSUME NEW h \in Host
    PROVE  /\ Other(h) \in Host
           /\ Other(Other(h)) = h
           /\ Other(h) # h
           /\ \A g \in Host : g # h => g = Other(h)
  BY NeptunConstants DEF Other

LEMMA Owners == Managers = Host /\ Peers = Host /\ UPeers = Host
  BY NeptunConstants

LEMMA NumberOfLetsConnect == NumRedundantPackets + 1 \in Nat
  <1>1. NumRedundantPackets \in Nat
    BY ConnectionConstants
  <1> QED BY ONLY <1>1

LEMMA IdsAreNumbers ==
    /\ \A id \in PacketId : id \in Nat
    /\ \A x, y \in PacketId : (x - y) % IdModulus \in PacketId
    /\ \A x \in PacketId : (x + 1) % IdModulus \in PacketId
    /\ \A x \in PacketId : x % IdModulus = x
  BY PacketConstants DEF PacketId

LEMMA SequenceNumbers ==
    ASSUME NEW n \in Nat
    PROVE  /\ n % SequenceModulus \in 0 .. SequenceModulus - 1
           /\ ((n % SequenceModulus) + 1) % SequenceModulus = (n + 1) % SequenceModulus
  <1> DEFINE m == SequenceModulus
             d == n \div m
             r == n % m
  <1>1. m \in Nat /\ m > 0
    BY SequenceModulusIsPos
  <1>2. r \in 0 .. m - 1 /\ d \in Nat /\ n = m * d + r
    BY <1>1
  <1> HIDE DEF r, d
  <1>3. CASE r + 1 < m
    <2>1. (r + 1) % m = r + 1
      BY <1>1, <1>2, <1>3
    <2>2. (n + 1) % m = r + 1
      <3>1. n + 1 = m * d + (r + 1) /\ r + 1 \in 0 .. m - 1
        BY <1>1, <1>2, <1>3
      <3> QED BY <3>1, <1>1, <1>2
    <2> QED BY <1>2, <2>1, <2>2 DEF r
  <1>4. CASE r + 1 = m
    <2>1. (r + 1) % m = 0
      BY <1>1, <1>4
    <2>2. (n + 1) % m = 0
      <3>1. n + 1 = m * (d + 1) + 0
        BY <1>1, <1>2, <1>4
      <3> QED BY <3>1, <1>1, <1>2
    <2> QED BY <1>2, <2>1, <2>2 DEF r
  <1> QED BY <1>1, <1>2, <1>3, <1>4

LEMMA PoppedProperties ==
    ASSUME NEW S, NEW queue \in Seq(S), NEW n \in 0 .. Len(queue)
    PROVE  /\ Popped(queue, n) \in Seq(S)
           /\ Len(Popped(queue, n)) = Len(queue) - n
           /\ \A i \in 1 .. Len(queue) - n : Popped(queue, n)[i] = queue[n + i]
  BY DEF Popped

LEMMA TailProperties ==
    ASSUME NEW S, NEW queue \in Seq(S), queue # << >>
    PROVE  /\ Tail(queue) \in Seq(S)
           /\ Len(queue) \in Nat /\ Len(queue) > 0
           /\ Len(Tail(queue)) = Len(queue) - 1
           /\ \A i \in 1 .. Len(queue) - 1 : Tail(queue)[i] = queue[i + 1]
           /\ Head(queue) = queue[1] /\ queue[1] \in S
  OBVIOUS

LEMMA ConcatIndices ==
    ASSUME NEW S, NEW s \in Seq(S), NEW t \in Seq(S)
    PROVE  /\ s \o t \in Seq(S)
           /\ Len(s \o t) = Len(s) + Len(t)
           /\ \A i \in 1 .. Len(s) : (s \o t)[i] = s[i]
           /\ \A i \in 1 .. Len(t) : (s \o t)[Len(s) + i] = t[i]
  OBVIOUS

\* A function on 1 .. n with values in S is a sequence.
LEMMA IsSequence ==
    ASSUME NEW S, NEW n \in Nat, NEW f, f \in [1 .. n -> S]
    PROVE  f \in Seq(S) /\ Len(f) = n
  OBVIOUS

-----------------------------------------------------------------------------
(* The buffer of the reliable stream.                                        *)

LEMMA BufferFields ==
    ASSUME NEW buffer \in Buffer
    PROVE  /\ buffer.m_begin \in 0 .. Capacity /\ buffer.m_end \in 0 .. Capacity
           /\ buffer.m_buffer \in [1 .. Capacity -> Nat]
  BY DEF Buffer

\* The messages that maybe_flip moves to the front.
FlightMoved(flight, offset) ==
    [i \in 1 .. Len(flight) |-> [flight[i] EXCEPT !.message = Shifted(@, offset)]]
PendingMoved(pending, offset) == [i \in 1 .. Len(pending) |-> Shifted(pending[i], offset)]

\* maybe_flip and the append of send.
LEMMA LaidSend ==
    ASSUME NEW flight \in Seq(InFlightMessage), NEW pending \in Seq(Message),
           NEW buffer \in Buffer, NEW count \in Nat, Laid(flight, pending, buffer, count),
           1 \in 0 .. Remaining(Flip(buffer)),
           NEW moved, moved = FlightMoved(flight, buffer.m_begin),
           NEW kept, kept = PendingMoved(pending, buffer.m_begin),
           NEW message, message = [begin |-> Flip(buffer).m_end, end |-> Flip(buffer).m_end + 1,
                                   sequence_number |-> count % SequenceModulus],
           NEW wrote, wrote = WriteAndAdvance(Flip(buffer), 1, count + 1)
    PROVE  /\ moved \in Seq(InFlightMessage)
           /\ Len(moved) = Len(flight)
           /\ \A i \in 1 .. Len(flight) : moved[i].packet_id = flight[i].packet_id
           /\ Append(kept, message) \in Seq(Message)
           /\ wrote \in Buffer
           /\ Laid(moved, Append(kept, message), wrote, count + 1)
  <1> DEFINE c == Given(flight, pending, count)
             f == Len(flight)
             p == Len(pending)
             b == buffer.m_begin
  <1>1. f \in Nat /\ p \in Nat /\ b \in Nat /\ Capacity \in Nat /\ b <= Capacity
    BY BufferFields, CapacityIsNat
  <1>2. c \in Nat /\ count = c + f + p /\ buffer.m_end = b + f + p /\ b + f + p <= Capacity
    BY <1>1, BufferFields DEF Laid, Given
  <1> DEFINE cells == [i \in 1 .. Capacity |->
                         IF i <= buffer.m_end - buffer.m_begin
                         THEN buffer.m_buffer[buffer.m_begin + i] ELSE buffer.m_buffer[i]]
             put == [i \in 1 .. Capacity |->
                       IF i \in f + p + 1 .. f + p + 1 THEN count + 1 ELSE cells[i]]
  <1>3. Flip(buffer) = [m_begin |-> 0, m_end |-> f + p, m_buffer |-> cells]
    <2>1. buffer.m_end - buffer.m_begin = f + p
      BY <1>1, <1>2
    <2>2. Flip(buffer) = [m_begin |-> 0, m_end |-> buffer.m_end - buffer.m_begin,
                          m_buffer |-> cells]
      BY DEF Flip
    <2> HIDE DEF cells, f, p
    <2> QED BY <2>1, <2>2
  <1>31. ASSUME NEW i \in 1 .. Capacity
         PROVE  cells[i] = IF i <= f + p THEN buffer.m_buffer[b + i] ELSE buffer.m_buffer[i]
    BY <1>1, <1>2
  <1> HIDE DEF cells, f, p, b, c
  <1>4. f + p + 1 <= Capacity
    BY <1>1, <1>3 DEF Remaining
  <1>5. wrote = [m_begin |-> 0, m_end |-> f + p + 1, m_buffer |-> put]
    <2>1. wrote = [Flip(buffer) EXCEPT !.m_end = @ + 1, !.m_buffer = put]
      BY <1>3 DEF WriteAndAdvance
    <2> HIDE DEF put
    <2> DEFINE e == f + p
    <2>2. wrote = [[m_begin |-> 0, m_end |-> e, m_buffer |-> cells]
                     EXCEPT !.m_end = @ + 1, !.m_buffer = put]
      BY <2>1, <1>3
    <2> HIDE DEF e
    <2>3. wrote = [m_begin |-> 0, m_end |-> e + 1, m_buffer |-> put]
      BY ONLY <2>2
    <2> QED BY <2>3 DEF e
  <1>51. ASSUME NEW i \in 1 .. Capacity
         PROVE  put[i] = IF i = f + p + 1 THEN count + 1
                         ELSE IF i <= f + p THEN buffer.m_buffer[b + i] ELSE buffer.m_buffer[i]
    BY <1>1, <1>31
  <1>52. put = [i \in 1 .. Capacity |-> put[i]]
    OBVIOUS
  <1> HIDE DEF put
  <1>6. wrote \in Buffer
    <2>1. \A i \in 1 .. Capacity : i <= f + p => b + i \in 1 .. Capacity
      BY <1>1, <1>2
    <2>2. \A i \in 1 .. Capacity : buffer.m_buffer[i] \in Nat
      BY BufferFields
    <2>3. ASSUME NEW i \in 1 .. Capacity PROVE put[i] \in Nat
      <3>1. CASE i = f + p + 1
        BY <3>1, <1>51
      <3>2. CASE i # f + p + 1 /\ i <= f + p
        <4>1. put[i] = buffer.m_buffer[b + i]
          BY <3>2, <1>51
        <4> QED BY <3>2, <4>1, <2>1, <2>2
      <3>3. CASE i # f + p + 1 /\ ~(i <= f + p)
        <4>1. put[i] = buffer.m_buffer[i]
          BY <3>3, <1>51
        <4> QED BY <4>1, <2>2
      <3> QED BY <3>1, <3>2, <3>3
    <2>31. put \in [1 .. Capacity -> Nat]
      BY <2>3, <1>52
    <2>4. f + p + 1 \in 0 .. Capacity /\ 0 \in 0 .. Capacity
      BY <1>1, <1>4
    <2> QED BY <1>5, <2>31, <2>4 DEF Buffer
  <1>7. ASSUME NEW n \in 1 .. f + p, NEW old \in Message, old = Slot(buffer, c, n)
        PROVE  Shifted(old, b) = Slot(wrote, c, n) /\ Shifted(old, b) \in Message
    <2>1. n \in Nat /\ n >= 1 /\ n <= f + p
      BY <1>1
    <2>2. old = [begin |-> b + n - 1, end |-> b + n,
                 sequence_number |-> (c + n - 1) % SequenceModulus]
      BY <1>7 DEF Slot, b
    <2>3. Shifted(old, b) = [begin |-> n - 1, end |-> n,
                             sequence_number |-> (c + n - 1) % SequenceModulus]
      <3>1. (b + n - 1) - b = n - 1 /\ (b + n) - b = n
        BY <2>1, <1>1
      <3>2. /\ Shifted(old, b).begin = old.begin - b
            /\ Shifted(old, b).end = old.end - b
            /\ Shifted(old, b).sequence_number = old.sequence_number
            /\ Shifted(old, b) \in [begin : Int, end : Int,
                                    sequence_number : 0 .. SequenceModulus - 1]
        <4>1. old \in [begin : Int, end : Int, sequence_number : 0 .. SequenceModulus - 1]
          BY CapacityIsNat DEF Message
        <4>2. b \in Int
          BY <1>1
        <4>3. /\ Shifted(old, b).begin = old.begin - b
              /\ Shifted(old, b).end = old.end - b
              /\ Shifted(old, b).sequence_number = old.sequence_number
          BY ONLY <4>1, <4>2 DEF Shifted
        <4>4. Shifted(old, b) \in [begin : Int, end : Int,
                                    sequence_number : 0 .. SequenceModulus - 1]
          <5>1. old.begin - b \in Int /\ old.end - b \in Int
            BY ONLY <4>1, <4>2
          <5> QED BY ONLY <4>1, <5>1 DEF Shifted
        <4> QED BY ONLY <4>3, <4>4
      <3>3. /\ Shifted(old, b).begin = n - 1
            /\ Shifted(old, b).end = n
            /\ Shifted(old, b).sequence_number = (c + n - 1) % SequenceModulus
        BY <3>1, <3>2, <2>2
      <3> QED BY <3>2, <3>3
    <2>4. old.sequence_number \in 0 .. SequenceModulus - 1
          /\ old.sequence_number = (c + n - 1) % SequenceModulus
      BY <2>2 DEF Message
    <2>5. n - 1 \in 0 .. Capacity /\ n \in 0 .. Capacity
      BY <2>1, <1>1, <1>4
    <2>6. Slot(wrote, c, n) = [begin |-> 0 + n - 1, end |-> 0 + n,
                               sequence_number |-> (c + n - 1) % SequenceModulus]
      BY <1>5 DEF Slot
    <2> QED BY <2>1, <2>3, <2>4, <2>5, <2>6 DEF Message
  <1>8. ASSUME NEW i \in 1 .. f
        PROVE  /\ moved[i] \in InFlightMessage
               /\ moved[i].packet_id = flight[i].packet_id
               /\ moved[i].message = Slot(wrote, c, i)
    <2>1. flight[i] \in InFlightMessage /\ i \in 1 .. f + p
      BY <1>1 DEF f
    <2>2. flight[i] = [packet_id |-> flight[i].packet_id, message |-> flight[i].message]
          /\ flight[i].packet_id \in PacketId /\ flight[i].message \in Message
      BY <2>1 DEF InFlightMessage
    <2>3. flight[i].message = Slot(buffer, c, i)
      BY DEF Laid, f, c
    <2>4. Shifted(flight[i].message, b) = Slot(wrote, c, i)
          /\ Shifted(flight[i].message, b) \in Message
      BY <2>1, <2>2, <2>3, <1>7
    <2>5. moved[i] = [packet_id |-> flight[i].packet_id,
                      message |-> Shifted(flight[i].message, b)]
      BY <2>2 DEF f, b, FlightMoved
    <2> QED BY <2>2, <2>4, <2>5 DEF InFlightMessage
  <1>9. ASSUME NEW i \in 1 .. p
        PROVE  kept[i] \in Message /\ kept[i] = Slot(wrote, c, f + i)
    <2>1. pending[i] \in Message /\ f + i \in 1 .. f + p
      BY <1>1 DEF p
    <2>2. pending[i] = Slot(buffer, c, f + i)
      BY DEF Laid, f, p, c
    <2>3. kept[i] = Shifted(pending[i], b)
      BY DEF p, b, PendingMoved
    <2> QED BY <2>1, <2>2, <2>3, <1>7
  <1>10. message \in Message /\ message = Slot(wrote, c, f + p + 1)
    <2>1. count % SequenceModulus \in 0 .. SequenceModulus - 1
      BY SequenceNumbers
    <2>2. message = [begin |-> f + p, end |-> f + p + 1,
                     sequence_number |-> count % SequenceModulus]
      BY <1>3
    <2>3. Slot(wrote, c, f + p + 1) = [begin |-> 0 + (f + p + 1) - 1, end |-> 0 + (f + p + 1),
                     sequence_number |-> (c + (f + p + 1) - 1) % SequenceModulus]
      BY <1>5 DEF Slot
    <2>4. 0 + (f + p + 1) - 1 = f + p /\ 0 + (f + p + 1) = f + p + 1
          /\ c + (f + p + 1) - 1 = count
      BY <1>1, <1>2
    <2>5. f + p \in 0 .. Capacity /\ f + p + 1 \in 0 .. Capacity
      BY <1>1, <1>4
    <2> QED BY <2>1, <2>2, <2>3, <2>4, <2>5 DEF Message
  <1>11. moved \in Seq(InFlightMessage) /\ Len(moved) = f
    BY <1>8, <1>1 DEF f, FlightMoved
  <1>12. kept \in Seq(Message) /\ Len(kept) = p
    BY <1>9, <1>1 DEF p, PendingMoved
  <1> DEFINE all == Append(kept, message)
  <1>13. /\ all \in Seq(Message) /\ Len(all) = p + 1
         /\ \A i \in 1 .. p : all[i] = kept[i]
         /\ all[p + 1] = message
    BY <1>10, <1>12
  <1>14. Given(moved, all, count + 1) = c
    BY ONLY <1>1, <1>2, <1>11, <1>13, count \in Nat DEF Given
  <1>15. \A i \in 1 .. Len(all) : all[i] = Slot(wrote, c, f + i)
    <2>1. ASSUME NEW i \in 1 .. p + 1 PROVE all[i] = Slot(wrote, c, f + i)
      <3>1. CASE i \in 1 .. p
        BY <3>1, <1>9, <1>13
      <3>2. CASE i = p + 1
        <4>1. f + i = f + p + 1
          BY <3>2, <1>1
        <4> QED BY <3>2, <4>1, <1>10, <1>13
      <3>3. i \in 1 .. p \/ i = p + 1
        BY ONLY <1>1, i \in 1 .. p + 1
      <3> QED BY <3>1, <3>2, <3>3
    <2> QED BY <2>1, <1>13
  <1>16. \A i \in 1 .. f + (p + 1) : wrote.m_buffer[0 + i] = c + i
    <2>1. ASSUME NEW i \in 1 .. f + (p + 1) PROVE wrote.m_buffer[i] = c + i
      <3>1. i \in 1 .. Capacity /\ i \in Nat /\ i <= f + p + 1
        BY <1>1, <1>4
      <3>2. CASE i = f + p + 1
        BY <3>1, <3>2, <1>5, <1>51, <1>1, <1>2
      <3>3. CASE i # f + p + 1
        <4>1. i \in 1 .. f + p /\ i <= f + p
          BY ONLY <3>1, <3>3, <1>1
        <4>2. wrote.m_buffer[i] = buffer.m_buffer[b + i]
          BY <3>1, <3>3, <4>1, <1>5, <1>51
        <4>3. buffer.m_buffer[b + i] = c + i
          BY <4>1 DEF Laid, c, f, p, b
        <4> QED BY <4>2, <4>3
      <3> QED BY <3>2, <3>3
    <2> QED BY <2>1, <1>1
  <1>17. wrote.m_begin = 0 /\ wrote.m_end = 0 + f + (p + 1)
    BY <1>5, <1>1
  <1> HIDE DEF all
  <1>18. Laid(moved, all, wrote, count + 1)
    <2>1. Given(moved, all, count + 1) >= 0
      BY ONLY <1>2, <1>14
    <2>2. wrote.m_end = wrote.m_begin + Len(moved) + Len(all)
      BY ONLY <1>11, <1>13, <1>17
    <2>3. \A i \in 1 .. Len(moved) : moved[i].message = Slot(wrote, Given(moved, all, count + 1), i)
      BY ONLY <1>8, <1>11, <1>14
    <2>4. \A i \in 1 .. Len(all) :
            all[i] = Slot(wrote, Given(moved, all, count + 1), Len(moved) + i)
      BY ONLY <1>11, <1>14, <1>15
    <2>5. \A i \in 1 .. Len(moved) + Len(all) :
            wrote.m_buffer[wrote.m_begin + i] = Given(moved, all, count + 1) + i
      BY ONLY <1>11, <1>13, <1>14, <1>16, <1>17
    <2> QED BY ONLY <2>1, <2>2, <2>3, <2>4, <2>5 DEF Laid
  <1> QED BY <1>6, <1>8, <1>11, <1>13, <1>18 DEF f, all

\* The messages in flight when packet id carries the first n pending ones.
FlightAfter(flight, pending, id, n) ==
    flight \o [i \in 1 .. n |-> [packet_id |-> id, message |-> pending[i]]]

\* write moves the first n pending messages to the end of those in flight.
LEMMA LaidWrite ==
    ASSUME NEW flight \in Seq(InFlightMessage), NEW pending \in Seq(Message),
           NEW buffer \in Buffer, NEW count \in Nat, Laid(flight, pending, buffer, count),
           NEW n \in 0 .. Len(pending), NEW id \in PacketId,
           NEW went, went = FlightAfter(flight, pending, id, n),
           NEW left, left = Popped(pending, n)
    PROVE  /\ went \in Seq(InFlightMessage)
           /\ Len(went) = Len(flight) + n
           /\ \A i \in 1 .. Len(flight) : went[i] = flight[i]
           /\ \A i \in 1 .. n : went[Len(flight) + i].packet_id = id
           /\ left \in Seq(Message)
           /\ Laid(went, left, buffer, count)
  <1> DEFINE c == Given(flight, pending, count)
             f == Len(flight)
             p == Len(pending)
             new == [i \in 1 .. n |-> [packet_id |-> id, message |-> pending[i]]]
  <1>1. f \in Nat /\ p \in Nat /\ n \in Nat /\ n <= p
    OBVIOUS
  <1>2. \A i \in 1 .. n : i \in 1 .. p
    BY <1>1
  <1>3. new \in Seq(InFlightMessage) /\ Len(new) = n
    BY <1>1, <1>2 DEF InFlightMessage
  <1>4. \A i \in 1 .. n : new[i].packet_id = id /\ new[i].message = pending[i]
    OBVIOUS
  <1> HIDE DEF new
  <1>5. went = flight \o new
    BY DEF new, FlightAfter
  <1>6. /\ went \in Seq(InFlightMessage) /\ Len(went) = f + n
        /\ \A i \in 1 .. f : went[i] = flight[i]
        /\ \A i \in 1 .. n : went[f + i] = new[i]
    <2>1. /\ flight \o new \in Seq(InFlightMessage)
          /\ Len(flight \o new) = Len(flight) + Len(new)
          /\ \A i \in 1 .. Len(flight) : (flight \o new)[i] = flight[i]
          /\ \A i \in 1 .. Len(new) : (flight \o new)[Len(flight) + i] = new[i]
      BY ONLY <1>3, flight \in Seq(InFlightMessage)
    <2> QED BY ONLY <2>1, <1>3, <1>5
  <1>7. /\ left \in Seq(Message) /\ Len(left) = p - n
        /\ \A i \in 1 .. p - n : left[i] = pending[n + i]
    BY <1>1, PoppedProperties
  <1>8. /\ c >= 0
        /\ buffer.m_end = buffer.m_begin + f + p
        /\ \A i \in 1 .. f : flight[i].message = Slot(buffer, c, i)
        /\ \A i \in 1 .. p : pending[i] = Slot(buffer, c, f + i)
        /\ \A i \in 1 .. f + p : buffer.m_buffer[buffer.m_begin + i] = c + i
    BY DEF Laid
  <1>9. Given(went, left, count) = c
    <2>1. Len(went) = f + n /\ Len(left) = p - n
      BY <1>6, <1>7
    <2>2. Given(went, left, count) = count - (f + n) - (p - n) /\ c = count - f - p
      BY <2>1 DEF Given
    <2> HIDE DEF f, p, c
    <2> QED BY ONLY <1>1, <2>2, count \in Nat
  <1> HIDE DEF c, f, p
  <1>10. (f + n) + (p - n) = f + p /\ buffer.m_begin + (f + n) + (p - n) = buffer.m_begin + f + p
    BY <1>1, BufferFields
  <1>11. ASSUME NEW i \in 1 .. f + n PROVE went[i].message = Slot(buffer, c, i)
    <2>1. CASE i \in 1 .. f
      BY <2>1, <1>6, <1>8
    <2>2. CASE i \notin 1 .. f
      <3>1. i - f \in 1 .. n /\ f + (i - f) = i
        BY <2>2, <1>1
      <3>2. went[i] = new[i - f] /\ new[i - f].message = pending[i - f]
        BY <3>1, <1>4, <1>6
      <3>3. i - f \in 1 .. p
        BY <3>1, <1>1
      <3>4. pending[i - f] = Slot(buffer, c, f + (i - f))
        BY <3>3, <1>8
      <3> QED BY <3>1, <3>2, <3>4
    <2> QED BY <2>1, <2>2
  <1>12. ASSUME NEW i \in 1 .. p - n PROVE left[i] = Slot(buffer, c, (f + n) + i)
    <2>1. n + i \in 1 .. p /\ f + (n + i) = (f + n) + i
      BY <1>1
    <2>2. left[i] = pending[n + i] /\ pending[n + i] = Slot(buffer, c, f + (n + i))
      BY <2>1, <1>7, <1>8
    <2> QED BY <2>1, <2>2
  <1>13. Laid(went, left, buffer, count)
    <2>1. buffer.m_end = buffer.m_begin + Len(went) + Len(left)
      BY <1>6, <1>7, <1>8, <1>10
    <2>2. Len(went) + Len(left) = f + p
      BY <1>6, <1>7, <1>10
    <2> QED BY ONLY <2>1, <2>2, <1>6, <1>7, <1>8, <1>9, <1>11, <1>12 DEF Laid
  <1> QED BY <1>4, <1>6, <1>7, <1>13 DEF f

\* An acknowledged message is popped and its byte is consumed.
LEMMA LaidPop ==
    ASSUME NEW flight \in Seq(InFlightMessage), NEW pending \in Seq(Message),
           NEW buffer \in Buffer, NEW count \in Nat, Laid(flight, pending, buffer, count),
           flight # << >>
    PROVE  /\ Consume(buffer, Size(Head(flight).message)) \in Buffer
           /\ Laid(Tail(flight), pending, Consume(buffer, Size(Head(flight).message)), count)
  <1> DEFINE c == Given(flight, pending, count)
             f == Len(flight)
             p == Len(pending)
             b == buffer.m_begin
             rest == Tail(flight)
             less == Consume(buffer, Size(Head(flight).message))
  <1>1. /\ f \in Nat /\ f > 0 /\ p \in Nat /\ b \in Nat /\ Capacity \in Nat
        /\ rest \in Seq(InFlightMessage) /\ Len(rest) = f - 1
        /\ \A i \in 1 .. f - 1 : rest[i] = flight[i + 1]
        /\ Head(flight) = flight[1]
    BY TailProperties, CapacityIsNat, BufferFields
  <1>2. /\ c >= 0 /\ c \in Int /\ count = c + f + p
        /\ buffer.m_end = b + f + p
        /\ \A i \in 1 .. f : flight[i].message = Slot(buffer, c, i)
        /\ \A i \in 1 .. p : pending[i] = Slot(buffer, c, f + i)
        /\ \A i \in 1 .. f + p : buffer.m_buffer[b + i] = c + i
    <2>1. c = count - f - p
      BY DEF Given
    <2>2. /\ c >= 0 /\ buffer.m_end = b + f + p
          /\ \A i \in 1 .. f : flight[i].message = Slot(buffer, c, i)
          /\ \A i \in 1 .. p : pending[i] = Slot(buffer, c, f + i)
          /\ \A i \in 1 .. f + p : buffer.m_buffer[b + i] = c + i
      BY DEF Laid
    <2> HIDE DEF c, f, p, b
    <2>3. c \in Int /\ count = c + f + p
      BY <1>1, <2>1
    <2> QED BY <2>2, <2>3
  <1>3. Size(Head(flight).message) = 1
    <2>1. 1 \in 1 .. f
      BY <1>1
    <2>2. Head(flight).message = Slot(buffer, c, 1)
      BY <2>1, <1>1, <1>2
    <2> QED BY <2>2, <1>1 DEF Slot, Size
  <1>4. less = [m_begin |-> b + 1, m_end |-> buffer.m_end, m_buffer |-> buffer.m_buffer]
    <2>1. buffer = [m_begin |-> b, m_end |-> buffer.m_end, m_buffer |-> buffer.m_buffer]
      BY DEF Buffer
    <2> HIDE DEF b
    <2> QED BY <2>1, <1>3 DEF Consume
  <1> HIDE DEF c, f, p, rest, less, b
  <1>5. less \in Buffer
    <2>1. b + 1 \in 0 .. Capacity
      BY <1>1, <1>2, BufferFields
    <2> QED BY <2>1, <1>4, BufferFields DEF Buffer
  <1>6. Given(rest, pending, count) = c + 1
    BY <1>1, <1>2 DEF Given, p
  <1>7. ASSUME NEW n \in 2 .. f + p PROVE Slot(buffer, c, n) = Slot(less, c + 1, n - 1)
    <2>1. /\ b + n - 1 = (b + 1) + (n - 1) - 1 /\ b + n = (b + 1) + (n - 1)
          /\ c + n - 1 = (c + 1) + (n - 1) - 1
      BY <1>1, <1>2
    <2>2. less.m_begin = b + 1 /\ buffer.m_begin = b
      BY <1>4 DEF b
    <2> QED BY ONLY <2>1, <2>2 DEF Slot
  <1>8. ASSUME NEW i \in 1 .. f - 1 PROVE rest[i].message = Slot(less, c + 1, i)
    <2>1. i + 1 \in 1 .. f /\ i + 1 \in 2 .. f + p /\ (i + 1) - 1 = i
      BY <1>1
    <2>2. rest[i].message = Slot(buffer, c, i + 1)
      BY <2>1, <1>1, <1>2
    <2>3. Slot(buffer, c, i + 1) = Slot(less, c + 1, (i + 1) - 1)
      BY <2>1, <1>7
    <2> QED BY <2>1, <2>2, <2>3
  <1>9. ASSUME NEW i \in 1 .. p PROVE pending[i] = Slot(less, c + 1, (f - 1) + i)
    <2>1. f + i \in 2 .. f + p /\ (f + i) - 1 = (f - 1) + i
      BY <1>1
    <2>2. Slot(buffer, c, f + i) = Slot(less, c + 1, (f + i) - 1)
      BY <2>1, <1>7
    <2>3. pending[i] = Slot(buffer, c, f + i)
      BY <1>2
    <2> QED BY <2>1, <2>2, <2>3
  <1>10. ASSUME NEW i \in 1 .. (f - 1) + p PROVE less.m_buffer[less.m_begin + i] = (c + 1) + i
    <2>1. i + 1 \in 1 .. f + p /\ (b + 1) + i = b + (i + 1) /\ (c + 1) + i = c + (i + 1)
      BY <1>1, <1>2
    <2>2. buffer.m_buffer[b + (i + 1)] = c + (i + 1)
      BY <2>1, <1>2
    <2> QED BY <2>1, <2>2, <1>4
  <1>11. less.m_end = less.m_begin + (f - 1) + p /\ c + 1 >= 0
    BY <1>1, <1>2, <1>4
  <1>12. Len(pending) = p
    BY DEF p
  <1>13. Laid(rest, pending, less, count)
    BY ONLY <1>1, <1>6, <1>8, <1>9, <1>10, <1>11, <1>12 DEF Laid
  <1> QED BY <1>5, <1>13 DEF rest, less

\* After a DROP everything in flight is pending again, in front.
LEMMA LaidDrop ==
    ASSUME NEW flight \in Seq(InFlightMessage), NEW pending \in Seq(Message),
           NEW buffer \in Buffer, NEW count \in Nat, Laid(flight, pending, buffer, count),
           NEW all, all = [i \in 1 .. Len(flight) |-> flight[i].message] \o pending
    PROVE  all \in Seq(Message) /\ Laid(<< >>, all, buffer, count)
  <1> DEFINE c == Given(flight, pending, count)
             f == Len(flight)
             p == Len(pending)
             back == [i \in 1 .. f |-> flight[i].message]
  <1>1. f \in Nat /\ p \in Nat
    OBVIOUS
  <1>2. back \in Seq(Message) /\ Len(back) = f
    <2>1. \A i \in 1 .. f : flight[i] \in InFlightMessage
      OBVIOUS
    <2>2. \A i \in 1 .. f : flight[i].message \in Message
      BY <2>1 DEF InFlightMessage
    <2> QED BY <1>1, <2>2
  <1>3. \A i \in 1 .. f : back[i] = flight[i].message
    OBVIOUS
  <1> HIDE DEF back
  <1>4. all = back \o pending
    BY DEF back
  <1>5. /\ all \in Seq(Message) /\ Len(all) = f + p
        /\ \A i \in 1 .. f : all[i] = back[i]
        /\ \A i \in 1 .. p : all[f + i] = pending[i]
    <2>1. /\ back \o pending \in Seq(Message)
          /\ Len(back \o pending) = Len(back) + Len(pending)
          /\ \A i \in 1 .. Len(back) : (back \o pending)[i] = back[i]
          /\ \A i \in 1 .. Len(pending) : (back \o pending)[Len(back) + i] = pending[i]
      BY ONLY <1>2, pending \in Seq(Message)
    <2> QED BY ONLY <2>1, <1>2, <1>4
  <1>6. /\ c >= 0 /\ c \in Int
        /\ buffer.m_end = buffer.m_begin + f + p
        /\ \A i \in 1 .. f : flight[i].message = Slot(buffer, c, i)
        /\ \A i \in 1 .. p : pending[i] = Slot(buffer, c, f + i)
        /\ \A i \in 1 .. f + p : buffer.m_buffer[buffer.m_begin + i] = c + i
    BY <1>1 DEF Laid, Given
  <1>7. Given(<< >>, all, count) = c
    BY <1>1, <1>5 DEF Given
  <1> HIDE DEF c, f, p
  <1>8. ASSUME NEW i \in 1 .. f + p PROVE all[i] = Slot(buffer, c, 0 + i)
    <2>1. CASE i \in 1 .. f
      <3>1. all[i] = Slot(buffer, c, i)
        BY <2>1, <1>3, <1>5, <1>6
      <3>2. 0 + i = i
        BY <2>1, <1>1
      <3> QED BY <3>1, <3>2
    <2>2. CASE i \notin 1 .. f
      <3>1. i - f \in 1 .. p /\ f + (i - f) = i /\ 0 + i = i
        BY <2>2, <1>1
      <3>2. all[f + (i - f)] = Slot(buffer, c, f + (i - f))
        BY <3>1, <1>5, <1>6
      <3> QED BY <3>1, <3>2
    <2> QED BY <2>1, <2>2
  <1>9. /\ Len(<< >>) = 0 /\ 0 + Len(all) = f + p
        /\ buffer.m_end = buffer.m_begin + 0 + Len(all)
    BY <1>1, <1>5, <1>6, BufferFields
  <1>10. \A i \in 1 .. Len(<< >>) : << >>[i].message = Slot(buffer, c, i)
    BY <1>9
  <1>11. Laid(<< >>, all, buffer, count)
    BY ONLY <1>5, <1>6, <1>7, <1>8, <1>9, <1>10 DEF Laid
  <1> QED BY <1>5, <1>11

\* A message of a segment is one of the first count messages.
IsMessage(message, count) ==
    \E s \in 0 .. count - 1 :
        message = [sequence_number |-> s % SequenceModulus, payload |-> <<s + 1>>]

LEMMA IsMessageType ==
    ASSUME NEW count \in Nat, NEW message, IsMessage(message, count)
    PROVE  message \in SegmentMessage
  <1>1. PICK s \in 0 .. count - 1 :
          message = [sequence_number |-> s % SequenceModulus, payload |-> <<s + 1>>]
    BY DEF IsMessage
  <1>2. s % SequenceModulus \in 0 .. SequenceModulus - 1
    BY SequenceNumbers
  <1>3. <<s + 1>> \in Seq(Nat)
    OBVIOUS
  <1> QED BY <1>1, <1>2, <1>3 DEF SegmentMessage

\* What write puts into a packet.
LEMMA LaidSegment ==
    ASSUME NEW flight \in Seq(InFlightMessage), NEW pending \in Seq(Message),
           NEW buffer \in Buffer, NEW count \in Nat, Laid(flight, pending, buffer, count),
           NEW n \in 0 .. Len(pending),
           NEW segment, segment = [i \in 1 .. n |->
               [sequence_number |-> pending[i].sequence_number,
                payload |-> BytesAt(buffer, pending[i].begin, pending[i].end)]]
    PROVE  /\ segment \in Seq(SegmentMessage)
           /\ \A i \in 1 .. Len(segment) : IsMessage(segment[i], count)
  <1> DEFINE c == Given(flight, pending, count)
             f == Len(flight)
             p == Len(pending)
             b == buffer.m_begin
  <1>1. f \in Nat /\ p \in Nat /\ n \in Nat /\ n <= p /\ b \in Nat
    BY BufferFields, CapacityIsNat
  <1>2. /\ c \in Nat /\ count = c + f + p
        /\ \A i \in 1 .. p : pending[i] = Slot(buffer, c, f + i)
        /\ \A i \in 1 .. f + p : buffer.m_buffer[b + i] = c + i
    <2>1. c = count - f - p
      BY DEF Given
    <2>2. /\ c >= 0
          /\ \A i \in 1 .. p : pending[i] = Slot(buffer, c, f + i)
          /\ \A i \in 1 .. f + p : buffer.m_buffer[b + i] = c + i
      BY DEF Laid
    <2> HIDE DEF c, f, p
    <2> QED BY <1>1, <2>1, <2>2
  <1>3. ASSUME NEW i \in 1 .. n PROVE IsMessage(segment[i], count)
    <2> DEFINE s == c + f + i - 1
    <2>1. /\ i \in 1 .. p /\ f + i \in 1 .. f + p /\ c + (f + i) - 1 = s
          /\ s \in 0 .. count - 1 /\ c + (f + i) = s + 1
          /\ b + (f + i) - (b + (f + i) - 1) = 1 /\ b + (f + i) - 1 + 1 = b + (f + i)
      <3>1. /\ c \in Nat /\ f \in Nat /\ p \in Nat /\ b \in Nat /\ n \in 0 .. p
            /\ count = c + f + p
        BY <1>1, <1>2
      <3> HIDE DEF c, f, p, b
      <3> QED BY ONLY <3>1, i \in 1 .. n
    <2>2. pending[i] = Slot(buffer, c, f + i)
      BY <2>1, <1>2
    <2>3. /\ pending[i].begin = b + (f + i) - 1 /\ pending[i].end = b + (f + i)
          /\ pending[i].sequence_number = s % SequenceModulus
      BY <2>1, <2>2 DEF Slot
    <2>4. buffer.m_buffer[b + (f + i)] = s + 1
      BY <2>1, <1>2
    <2> HIDE DEF s, c, f, p, b
    <2>5. BytesAt(buffer, pending[i].begin, pending[i].end) = <<s + 1>>
      <3>1. BytesAt(buffer, pending[i].begin, pending[i].end) =
              [x \in 1 .. 1 |-> buffer.m_buffer[(b + (f + i) - 1) + x]]
        <4> DEFINE first == pending[i].begin
                   last == pending[i].end
        <4>1. last - first = 1 /\ first = b + (f + i) - 1
          <5>1. first = b + (f + i) - 1 /\ last = b + (f + i)
            BY <2>3
          <5> HIDE DEF first, last
          <5> QED BY ONLY <5>1, <2>1
        <4>2. BytesAt(buffer, first, last) =
                [x \in 1 .. last - first |-> buffer.m_buffer[first + x]]
          BY DEF BytesAt
        <4> HIDE DEF first, last
        <4>3. BytesAt(buffer, first, last) = [x \in 1 .. 1 |-> buffer.m_buffer[first + x]]
          BY ONLY <4>1, <4>2
        <4>4. BytesAt(buffer, first, last) =
                [x \in 1 .. 1 |-> buffer.m_buffer[(b + (f + i) - 1) + x]]
          BY ONLY <4>1, <4>3
        <4> QED BY <4>4 DEF first, last
      <3>2. \A x \in 1 .. 1 : buffer.m_buffer[(b + (f + i) - 1) + x] = s + 1
        BY <2>1, <2>4
      <3> QED BY <3>1, <3>2
    <2>6. segment[i] = [sequence_number |-> s % SequenceModulus, payload |-> <<s + 1>>]
      BY <2>3, <2>5
    <2> QED BY <2>1, <2>6 DEF IsMessage
  <1>4. \A i \in 1 .. n : segment[i] \in SegmentMessage
    BY <1>3, IsMessageType
  <1>5. segment \in Seq(SegmentMessage) /\ Len(segment) = n
    BY <1>1, <1>4
  <1> QED BY <1>3, <1>5

-----------------------------------------------------------------------------
(* The buffer of the unreliable stream.                                      *)

LEMMA UnitBytes ==
    ASSUME NEW spans, NEW n \in Nat, \A i \in 1 .. n : USize(spans[i]) = 1
    PROVE  PayloadBytes(spans, n) = n
  <1> DEFINE Sums(f) == f = [i \in 0 .. n |-> IF i = 0 THEN 0 ELSE f[i - 1] + USize(spans[i])]
             total == CHOOSE f : Sums(f)
             ident == [i \in 0 .. n |-> i]
             g == [i \in 0 .. n |-> IF i = 0 THEN 0 ELSE ident[i - 1] + USize(spans[i])]
  <1>1. ASSUME NEW i \in 0 .. n PROVE ident[i] = g[i]
    <2>1. CASE i = 0
      BY <2>1
    <2>2. CASE i # 0
      <3>1. i - 1 \in 0 .. n /\ i \in 1 .. n
        BY <2>2
      <3>2. ident[i - 1] = i - 1 /\ USize(spans[i]) = 1
        BY <3>1
      <3> QED BY <2>2, <3>2
    <2> QED BY <2>1, <2>2
  <1>2. Sums(ident)
    BY <1>1
  <1>3. Sums(total)
    BY <1>2
  <1>4. PayloadBytes(spans, n) = total[n]
    BY DEF PayloadBytes
  <1> HIDE DEF total, ident
  <1>5. total[0] = 0 /\ \A i \in 1 .. n : total[i] = total[i - 1] + 1
    BY <1>3
  <1> DEFINE Good == {i \in 0 .. n : total[i] = i}
  <1>6. 0 \in Good /\ \A i \in 1 .. n : i - 1 \in Good => i \in Good
    BY <1>5
  <1>7. \A i \in 0 .. n : i \in Good
    <2> HIDE DEF Good
    <2> QED BY ONLY <1>6, n \in Nat, UpTo, Zenon
  <1>8. n \in 0 .. n
    OBVIOUS
  <1> QED BY <1>4, <1>7, <1>8

LEMMA SpanAt ==
    ASSUME NEW spans \in Seq(Span), NEW buffer \in Buffer, NEW count \in Nat,
           SpansLaid(spans, buffer, count), NEW i \in 1 .. Len(spans)
    PROVE  /\ USize(spans[i]) = 1
           /\ BytesAt(buffer, spans[i].begin, spans[i].end) = <<(count - Len(spans)) + i>>
  <1> DEFINE first == buffer.m_end - Len(spans)
             x == first + i - 1
             y == first + i
  <1>1. buffer.m_end \in Int /\ Len(spans) \in Int /\ i \in Int
    BY BufferFields
  <1>2. spans[i] = [begin |-> x, end |-> y] /\ buffer.m_buffer[first + i] = (count - Len(spans)) + i
    BY DEF SpansLaid
  <1>3. y - x = 1 /\ x + 1 = first + i
    BY <1>1
  <1> HIDE DEF x, y, first
  <1>4. spans[i].begin = x /\ spans[i].end = y
    BY <1>2
  <1>5. BytesAt(buffer, x, y) = [j \in 1 .. 1 |-> buffer.m_buffer[x + j]]
    BY <1>3 DEF BytesAt
  <1>6. \A j \in 1 .. 1 : buffer.m_buffer[x + j] = (count - Len(spans)) + i
    BY <1>2, <1>3
  <1> DEFINE v == (count - Len(spans)) + i
  <1>7. BytesAt(buffer, x, y) = <<v>>
    <2> HIDE DEF v
    <2> QED BY <1>5, <1>6 DEF v
  <1> QED BY <1>3, <1>4, <1>7 DEF USize

LEMMA SpansSend ==
    ASSUME NEW spans \in Seq(Span), NEW buffer \in Buffer, NEW count \in Nat,
           SpansLaid(spans, buffer, count), 1 \in 1 .. Remaining(buffer),
           NEW span, span = [begin |-> buffer.m_end, end |-> buffer.m_end + 1],
           NEW wrote, wrote = WriteAndAdvance(buffer, 1, count + 1)
    PROVE  /\ Append(spans, span) \in Seq(Span)
           /\ wrote \in Buffer
           /\ SpansLaid(Append(spans, span), wrote, count + 1)
  <1> DEFINE n == Len(spans)
             b == buffer.m_begin
             e == buffer.m_end
             cells == buffer.m_buffer
             put == [i \in 1 .. Capacity |-> IF i \in e + 1 .. e + 1 THEN count + 1 ELSE cells[i]]
             all == Append(spans, span)
  <1>1. /\ n \in Nat /\ b \in Nat /\ e \in Nat /\ Capacity \in Nat /\ e + 1 <= Capacity
        /\ b <= Capacity
    BY BufferFields, CapacityIsNat DEF Remaining
  <1>2. cells \in [1 .. Capacity -> Nat]
    BY BufferFields
  <1>3. /\ b <= e - n /\ n <= count
        /\ \A i \in 1 .. n : spans[i] = [begin |-> (e - n) + i - 1, end |-> (e - n) + i]
        /\ \A i \in 1 .. n : cells[(e - n) + i] = (count - n) + i
    BY DEF SpansLaid
  <1>4. wrote = [m_begin |-> b, m_end |-> e + 1, m_buffer |-> put]
    <2>1. buffer = [m_begin |-> b, m_end |-> e, m_buffer |-> cells]
      BY DEF Buffer
    <2>2. wrote = [buffer EXCEPT !.m_end = @ + 1, !.m_buffer = put]
      BY DEF WriteAndAdvance
    <2> HIDE DEF put, b, e, cells
    <2>3. wrote = [[m_begin |-> b, m_end |-> e, m_buffer |-> cells]
                     EXCEPT !.m_end = @ + 1, !.m_buffer = put]
      BY <2>1, <2>2
    <2> QED BY ONLY <2>3
  <1>5. /\ \A i \in 1 .. Capacity : i # e + 1 => put[i] = cells[i]
        /\ put[e + 1] = count + 1
        /\ put \in [1 .. Capacity -> Nat]
    BY <1>1, <1>2
  <1>6. span \in Span /\ span = [begin |-> e, end |-> e + 1]
    BY <1>1 DEF Span
  <1>7. /\ all \in Seq(Span) /\ Len(all) = n + 1
        /\ \A i \in 1 .. n : all[i] = spans[i]
        /\ all[n + 1] = span
    BY <1>6
  <1> HIDE DEF n, b, e, cells, put, all
  <1>8. wrote \in Buffer
    <2>1. b \in 0 .. Capacity /\ e + 1 \in 0 .. Capacity
      BY <1>1
    <2> QED BY <2>1, <1>4, <1>5 DEF Buffer
  <1>9. (e + 1) - (n + 1) = e - n /\ (count + 1) - (n + 1) = count - n /\ n + 1 <= count + 1
    BY <1>1, <1>3
  <1>10. ASSUME NEW i \in 1 .. n + 1
         PROVE  /\ all[i] = [begin |-> (e - n) + i - 1, end |-> (e - n) + i]
                /\ put[(e - n) + i] = (count - n) + i
    <2>1. CASE i \in 1 .. n
      <3>1. (e - n) + i \in 1 .. Capacity /\ (e - n) + i # e + 1
        BY <2>1, <1>1, <1>3
      <3>2. put[(e - n) + i] = cells[(e - n) + i]
        BY <3>1, <1>5
      <3> QED BY <2>1, <3>2, <1>3, <1>7
    <2>2. CASE i = n + 1
      <3>1. (e - n) + i - 1 = e /\ (e - n) + i = e + 1 /\ (count - n) + i = count + 1
        BY <2>2, <1>1
      <3>2. all[i] = [begin |-> e, end |-> e + 1]
        BY <2>2, <1>6, <1>7
      <3> QED BY <3>1, <3>2, <1>5
    <2>3. i \in 1 .. n \/ i = n + 1
      BY ONLY <1>1, i \in 1 .. n + 1
    <2> QED BY <2>1, <2>2, <2>3
  <1>11. SpansLaid(all, wrote, count + 1)
    <2>1. wrote.m_end - Len(all) = e - n /\ wrote.m_begin = b /\ wrote.m_buffer = put
          /\ (count + 1) - Len(all) = count - n
      BY <1>4, <1>7, <1>9
    <2> QED BY ONLY <2>1, <1>3, <1>7, <1>9, <1>10 DEF SpansLaid
  <1> QED BY <1>7, <1>8, <1>11 DEF all

LEMMA SpansWrite ==
    ASSUME NEW spans \in Seq(Span), NEW buffer \in Buffer, NEW count \in Nat,
           SpansLaid(spans, buffer, count), NEW n \in 1 .. Len(spans),
           NEW left, left = Flip(Consume(buffer, PayloadBytes(spans, n)))
    PROVE  left \in Buffer /\ SpansLaid(<< >>, left, count)
  <1> DEFINE b == buffer.m_begin
             e == buffer.m_end
             cells == buffer.m_buffer
             put == [i \in 1 .. Capacity |->
                       IF i <= e - (b + n) THEN cells[(b + n) + i] ELSE cells[i]]
  <1>1. /\ b \in Nat /\ e \in Nat /\ Capacity \in Nat /\ e <= Capacity /\ n \in Nat
        /\ Len(spans) \in Nat /\ n <= Len(spans)
    BY BufferFields, CapacityIsNat
  <1>2. b <= e - Len(spans)
    BY DEF SpansLaid
  <1>3. PayloadBytes(spans, n) = n
    <2>1. \A i \in 1 .. n : i \in 1 .. Len(spans)
      BY <1>1
    <2>2. \A i \in 1 .. n : USize(spans[i]) = 1
      BY <2>1, SpanAt
    <2> QED BY <1>1, <2>2, UnitBytes
  <1>4. Consume(buffer, n) = [m_begin |-> b + n, m_end |-> e, m_buffer |-> cells]
    <2>1. buffer = [m_begin |-> b, m_end |-> e, m_buffer |-> cells]
      BY DEF Buffer
    <2> HIDE DEF b, e, cells
    <2> QED BY <2>1 DEF Consume
  <1>5. left = [m_begin |-> 0, m_end |-> e - (b + n), m_buffer |-> put]
    <2> HIDE DEF b, e, cells
    <2> QED BY <1>3, <1>4 DEF Flip
  <1>6. \A i \in 1 .. Capacity : i <= e - (b + n) => (b + n) + i \in 1 .. Capacity
    BY <1>1
  <1>7. cells \in [1 .. Capacity -> Nat]
    BY BufferFields
  <1>8. put \in [1 .. Capacity -> Nat]
    <2> HIDE DEF cells, b, e
    <2> QED BY <1>6, <1>7
  <1>9. e - (b + n) \in 0 .. Capacity /\ 0 \in 0 .. Capacity
    BY <1>1, <1>2
  <1> HIDE DEF b, e, cells, put
  <1>10. left \in Buffer
    BY <1>5, <1>8, <1>9 DEF Buffer
  <1>11. /\ Len(<< >>) = 0 /\ left.m_begin = 0 /\ left.m_end \in 0 .. Capacity
         /\ \A i \in 1 .. Len(<< >>) : FALSE
    BY <1>5, <1>9
  <1>12. SpansLaid(<< >>, left, count)
    BY <1>1, <1>11 DEF SpansLaid
  <1> QED BY <1>10, <1>12

\* The bytes of the first n spans.
Payloads(spans, buffer, n) ==
    [i \in 1 .. n |-> BytesAt(buffer, spans[i].begin, spans[i].end)]

\* What write puts into a packet: the oldest of the messages that are left.
SegmentOfSpans(spans, buffer, n) ==
    [message_count |-> n % CountModulus, messages |-> Payloads(spans, buffer, n)]

OldestOf(segment, n, left, count) ==
    /\ segment \in USegment
    /\ Len(segment.messages) = n
    /\ segment.message_count \in 0 .. n
    /\ \A i \in 1 .. n : segment.messages[i] = <<(count - left) + i>>
    /\ left <= count

LEMMA SpansSegment ==
    ASSUME NEW spans \in Seq(Span), NEW buffer \in Buffer, NEW count \in Nat,
           SpansLaid(spans, buffer, count), NEW n \in 0 .. Len(spans)
    PROVE  OldestOf(SegmentOfSpans(spans, buffer, n), n, Len(spans), count)
  <1> DEFINE segment == SegmentOfSpans(spans, buffer, n)
  <1> DEFINE messages == [i \in 1 .. n |-> BytesAt(buffer, spans[i].begin, spans[i].end)]
  <1>1. n \in Nat /\ Len(spans) \in Nat /\ n <= Len(spans) /\ Len(spans) <= count
    BY DEF SpansLaid
  <1>2. ASSUME NEW i \in 1 .. n
        PROVE  messages[i] = <<(count - Len(spans)) + i>> /\ messages[i] \in Seq(Nat)
    <2>1. i \in 1 .. Len(spans)
      BY <1>1
    <2>2. messages[i] = <<(count - Len(spans)) + i>>
      BY <2>1, SpanAt
    <2>3. (count - Len(spans)) + i \in Nat
      BY <1>1
    <2> DEFINE v == (count - Len(spans)) + i
    <2> HIDE DEF v
    <2>4. <<v>> \in Seq(Nat)
      BY <2>3 DEF v
    <2> QED BY <2>2, <2>4 DEF v
  <1>3. messages \in Seq(Seq(Nat)) /\ Len(messages) = n
    BY <1>1, <1>2
  <1>4. n % CountModulus \in 0 .. CountModulus - 1 /\ n % CountModulus <= n
    <2> DEFINE m == CountModulus
    <2>1. m \in Nat /\ m > 0
      BY CountModulusIsPos
    <2>2. CASE n < m
      <3>1. n % m = n
        BY ONLY <1>1, <2>1, <2>2
      <3> QED BY ONLY <1>1, <2>1, <2>2, <3>1
    <2>3. CASE n >= m
      <3>1. n % m \in 0 .. m - 1
        BY ONLY <1>1, <2>1
      <3> QED BY ONLY <1>1, <2>1, <2>3, <3>1
    <2> QED BY <1>1, <2>1, <2>2, <2>3
  <1> HIDE DEF messages
  <1>5. segment = [message_count |-> n % CountModulus, messages |-> messages]
    BY DEF messages, Payloads, SegmentOfSpans
  <1> HIDE DEF segment
  <1>6. segment.message_count = n % CountModulus /\ segment.messages = messages
    BY <1>5
  <1>7. segment \in USegment
    BY <1>3, <1>4, <1>5 DEF USegment
  <1>8. segment.message_count \in 0 .. n
    BY <1>1, <1>4, <1>6
  <1>9. OldestOf(segment, n, Len(spans), count)
    BY <1>1, <1>2, <1>3, <1>6, <1>7, <1>8 DEF OldestOf
  <1> QED BY <1>9 DEF segment

-----------------------------------------------------------------------------
(* Types: every step keeps BaseInv.                                          *)

LEMMA TickFields ==
    ASSUME NEW t \in TickState
    PROVE  /\ t.host \in Host \cup {"none"} /\ t.stage \in Stage
           /\ t.statuses \in Seq(DeliveryStatus) /\ t.packet \in SentPacket \cup {NoPacket}
  BY DEF TickState

\* How the steps of tick move on.
Staged(t, stage) == [t EXCEPT !.stage = stage]
Handed(t, statuses) == [t EXCEPT !.statuses = statuses]
Moved(t, stage, packet) == [t EXCEPT !.stage = stage, !.packet = packet]
Began(t, stage, statuses, packet) ==
    [t EXCEPT !.stage = stage, !.statuses = statuses, !.packet = packet]

LEMMA TickUpdates ==
    ASSUME NEW t \in TickState
    PROVE  /\ \A stage : Staged(t, stage) =
                [host |-> t.host, stage |-> stage, statuses |-> t.statuses, packet |-> t.packet]
           /\ \A statuses : Handed(t, statuses) =
                [host |-> t.host, stage |-> t.stage, statuses |-> statuses, packet |-> t.packet]
           /\ \A stage, packet : Moved(t, stage, packet) =
                [host |-> t.host, stage |-> stage, statuses |-> t.statuses, packet |-> packet]
           /\ \A stage, statuses, packet : Began(t, stage, statuses, packet) =
                [host |-> t.host, stage |-> stage, statuses |-> statuses, packet |-> packet]
  <1>1. t = [host |-> t.host, stage |-> t.stage, statuses |-> t.statuses, packet |-> t.packet]
    BY DEF TickState
  <1> DEFINE a == t.host
             b == t.stage
             c == t.statuses
             d == t.packet
  <1>2. t = [host |-> a, stage |-> b, statuses |-> c, packet |-> d]
    BY <1>1
  <1> HIDE DEF a, b, c, d
  <1>3. \A stage : Staged(t, stage) =
          [host |-> a, stage |-> stage, statuses |-> c, packet |-> d]
    BY ONLY <1>2 DEF Staged
  <1>4. \A statuses : Handed(t, statuses) =
          [host |-> a, stage |-> b, statuses |-> statuses, packet |-> d]
    BY ONLY <1>2 DEF Handed
  <1>5. ASSUME NEW u, NEW stage, NEW statuses, NEW old, NEW packet,
               u = [host |-> a, stage |-> stage, statuses |-> statuses, packet |-> old]
        PROVE  [u EXCEPT !.packet = packet] =
                 [host |-> a, stage |-> stage, statuses |-> statuses, packet |-> packet]
    BY ONLY <1>5
  <1>6. ASSUME NEW stage, NEW packet
        PROVE  Moved(t, stage, packet) =
                 [host |-> a, stage |-> stage, statuses |-> c, packet |-> packet]
    <2> DEFINE u == Staged(t, stage)
    <2>1. Moved(t, stage, packet) = [u EXCEPT !.packet = packet]
      BY Zenon DEF Moved, Staged
    <2>2. u = [host |-> a, stage |-> stage, statuses |-> c, packet |-> d]
      BY <1>3
    <2> HIDE DEF u
    <2> QED BY ONLY <1>5, <2>1, <2>2
  <1>7. ASSUME NEW stage, NEW statuses, NEW packet
        PROVE  Began(t, stage, statuses, packet) =
                 [host |-> a, stage |-> stage, statuses |-> statuses, packet |-> packet]
    <2> DEFINE u == Staged(t, stage)
               v == [u EXCEPT !.statuses = statuses]
    <2>1. Began(t, stage, statuses, packet) = [v EXCEPT !.packet = packet]
      BY Zenon DEF Began, Staged
    <2>2. u = [host |-> a, stage |-> stage, statuses |-> c, packet |-> d]
      BY <1>3
    <2> HIDE DEF u
    <2>3. v = [host |-> a, stage |-> stage, statuses |-> statuses, packet |-> d]
      BY ONLY <2>2
    <2> HIDE DEF v
    <2> QED BY ONLY <1>5, <2>1, <2>3
  <1> QED BY <1>3, <1>4, <1>6, <1>7 DEF a, b, c, d

LEMMA NoTick == NotTicking \in TickState
  <1>1. << >> \in Seq(DeliveryStatus)
    OBVIOUS
  <1> QED BY <1>1 DEF NotTicking, TickState, Stage

\* The members of the objects of host h.
LEMMA TypesAt ==
    ASSUME BaseInv, NEW h \in Host
    PROVE  /\ m_next_outgoing_packet_id[h] \in PacketId
           /\ m_next_expected_packet_id[h] \in PacketId
           /\ m_pending_acks[h] \in Seq(PacketId) /\ Len(m_pending_acks[h]) \in Nat
           /\ m_in_flight_packets[h] \in Seq(InFlightPacket)
           /\ Len(m_in_flight_packets[h]) \in Nat
           /\ m_in_flight_lets_connect[h] \in Seq(PacketId)
           /\ m_underflow[h] \in Nat /\ m_num_lets_connect_to_send[h] \in Nat
           /\ m_buffer[h] \in Buffer
           /\ in_flight_messages[h] \in Seq(InFlightMessage)
           /\ Len(in_flight_messages[h]) \in Nat
           /\ pending_messages[h] \in Seq(Message) /\ Len(pending_messages[h]) \in Nat
           /\ m_next_expected_sequence_number[h] \in 0 .. SequenceModulus - 1
           /\ call[h] \in Call
           /\ m_unreliable_buffer[h] \in Buffer
           /\ m_pending_messages[h] \in Seq(Span) /\ Len(m_pending_messages[h]) \in Nat
           /\ network[h] \in Seq(SentPacket) /\ Len(network[h]) \in Nat
           /\ submitted[h] \in Nat /\ usubmitted[h] \in Nat
           /\ delivered[h] \in Seq(Seq(Nat)) /\ udelivered[h] \in Seq(Seq(Nat))
  <1>1. /\ m_next_outgoing_packet_id[h] \in PacketId
        /\ m_next_expected_packet_id[h] \in PacketId
        /\ m_pending_acks[h] \in Seq(PacketId)
        /\ m_in_flight_packets[h] \in Seq(InFlightPacket)
    BY DEF BaseInv, PdmTypeOK
  <1>2. /\ m_in_flight_lets_connect[h] \in Seq(PacketId)
        /\ m_underflow[h] \in Nat /\ m_num_lets_connect_to_send[h] \in Nat
    BY DEF BaseInv, CmTypeOK
  <1>3. /\ m_buffer[h] \in Buffer
        /\ in_flight_messages[h] \in Seq(InFlightMessage)
        /\ pending_messages[h] \in Seq(Message)
        /\ m_next_expected_sequence_number[h] \in 0 .. SequenceModulus - 1
        /\ call[h] \in Call
    BY DEF BaseInv, StreamTypeOK
  <1>4. m_unreliable_buffer[h] \in Buffer /\ m_pending_messages[h] \in Seq(Span)
    BY DEF BaseInv, SpansTypeOK
  <1>5. network[h] \in Seq(SentPacket)
    BY DEF BaseInv, NetTypeOK
  <1>6. /\ submitted[h] \in Nat /\ usubmitted[h] \in Nat
        /\ delivered[h] \in Seq(Seq(Nat)) /\ udelivered[h] \in Seq(Seq(Nat))
    BY NeptunConstants DEF BaseInv, HistoryTypeOK
  <1>7. \A S : \A s \in Seq(S) : Len(s) \in Nat
    OBVIOUS
  <1> QED BY <1>1, <1>2, <1>3, <1>4, <1>5, <1>6, <1>7

\* What a step leaves alone keeps its part of the invariant.
LEMMA PdmFrame ==
    ASSUME BaseInv, UNCHANGED pdmVars
    PROVE  PdmTypeOK'
  BY DEF BaseInv, PdmTypeOK, pdmVars

LEMMA CmFrame ==
    ASSUME BaseInv, UNCHANGED cmVars
    PROVE  CmTypeOK'
  BY DEF BaseInv, CmTypeOK, cmVars

LEMMA StreamFrame ==
    ASSUME BaseInv, UNCHANGED <<m_buffer, in_flight_messages, pending_messages,
                                m_next_outgoing_sequence_number, submitted>>,
           m_next_expected_sequence_number' \in [Host -> 0 .. SequenceModulus - 1],
           call' \in [Host -> Call]
    PROVE  StreamTypeOK' /\ \A h \in Host : StreamInv(h)'
  BY DEF BaseInv, StreamTypeOK, StreamInv

LEMMA StreamsFrame ==
    ASSUME BaseInv, UNCHANGED streamVars, UNCHANGED submitted
    PROVE  StreamTypeOK' /\ \A h \in Host : StreamInv(h)'
  BY DEF BaseInv, StreamTypeOK, StreamInv, streamVars

LEMMA SpansFrame ==
    ASSUME BaseInv, UNCHANGED unreliableVars, UNCHANGED usubmitted
    PROVE  SpansTypeOK' /\ \A h \in Host : SpansInv(h)'
  BY DEF BaseInv, SpansTypeOK, SpansInv, unreliableVars

LEMMA HistoryFrame ==
    ASSUME BaseInv, UNCHANGED historyVars
    PROVE  HistoryTypeOK' /\ submitted' = submitted /\ usubmitted' = usubmitted
  BY DEF BaseInv, HistoryTypeOK, historyVars

LEMMA NetFrame ==
    ASSUME BaseInv, now' = now, network' = network, has_peer' = has_peer
    PROVE  NetTypeOK'
  BY DEF BaseInv, NetTypeOK

LEMMA TickFrame ==
    ASSUME BaseInv, tick' = tick, call' = call,
           \A h \in Host : has_peer[h] => has_peer'[h]
    PROVE  TickInv'
  BY DEF BaseInv, TickInv

LEMMA BaseConnect ==
    ASSUME BaseInv, NEW h \in Initiators, Connect(h)
    PROVE  BaseInv'
  <1>1. h \in Host
    BY NeptunConstants
  <1>2. PdmTypeOK' /\ HistoryTypeOK'
    BY PdmFrame, HistoryFrame DEF Connect
  <1>3. CmTypeOK'
    <2>1. NumRedundantPackets + 1 \in Nat
      BY NumberOfLetsConnect
    <2>2. m_num_lets_connect_to_send' \in [Host -> Nat]
      BY <1>1, <2>1 DEF Connect, CmConnect, BaseInv, CmTypeOK
    <2>3. m_is_initiator' \in [Host -> BOOLEAN]
      BY <1>1, Zenon DEF Connect, CmConnect, BaseInv, CmTypeOK
    <2> QED BY <2>2, <2>3 DEF Connect, CmConnect, BaseInv, CmTypeOK
  <1>4. StreamTypeOK' /\ \A g \in Host : StreamInv(g)'
    BY StreamsFrame, HistoryFrame DEF Connect
  <1>5. SpansTypeOK' /\ \A g \in Host : SpansInv(g)'
    BY SpansFrame, HistoryFrame DEF Connect
  <1>6. NetTypeOK' /\ \A g \in Host : has_peer[g] => has_peer'[g]
    BY <1>1 DEF Connect, BaseInv, NetTypeOK
  <1>7. TickInv'
    BY <1>6, TickFrame DEF Connect, streamVars
  <1> QED BY <1>2, <1>3, <1>4, <1>5, <1>6, <1>7 DEF BaseInv

LEMMA BaseSendReliable ==
    ASSUME BaseInv, NEW h \in Host, SendReliable(h)
    PROVE  BaseInv'
  <1> DEFINE flight == in_flight_messages[h]
             pending == pending_messages[h]
             buffer == m_buffer[h]
             count == submitted[h]
             message == [begin |-> Flip(buffer).m_end, end |-> Flip(buffer).m_end + 1,
                         sequence_number |-> count % SequenceModulus]
             moved == FlippedInFlight(h)
             all == Append(FlippedPending(h), message)
             wrote == WriteAndAdvance(Flip(buffer), 1, count + 1)
  <1>1. /\ flight \in Seq(InFlightMessage) /\ pending \in Seq(Message)
        /\ buffer \in Buffer /\ count \in Nat
    BY TypesAt
  <1>2. Laid(flight, pending, buffer, count)
        /\ m_next_outgoing_sequence_number[h] = count % SequenceModulus
    BY DEF BaseInv, StreamInv
  <1>3. StreamSend(h, 1, count + 1) /\ submitted' = [submitted EXCEPT ![h] = @ + 1]
        /\ count < MaxReliable
    BY DEF SendReliable
  <1>4. /\ 1 \in 0 .. Remaining(Flip(buffer))
        /\ in_flight_messages' = [in_flight_messages EXCEPT ![h] = moved]
        /\ m_buffer' = [m_buffer EXCEPT ![h] = wrote]
        /\ pending_messages' = [pending_messages EXCEPT ![h] = all]
        /\ m_next_outgoing_sequence_number' = [m_next_outgoing_sequence_number
             EXCEPT ![h] = ((count % SequenceModulus) + 1) % SequenceModulus]
        /\ UNCHANGED <<m_next_expected_sequence_number, call>>
    BY <1>2, <1>3 DEF StreamSend
  <1>5. moved = FlightMoved(flight, buffer.m_begin)
        /\ FlippedPending(h) = PendingMoved(pending, buffer.m_begin)
    BY DEF FlippedInFlight, FlippedPending, FlightMoved, PendingMoved
  <1> HIDE DEF flight, pending, buffer, count, moved
  <1>6. /\ moved \in Seq(InFlightMessage)
        /\ all \in Seq(Message)
        /\ wrote \in Buffer
        /\ Laid(moved, all, wrote, count + 1)
    <2>1. /\ 1 \in 0 .. Remaining(Flip(buffer))
          /\ message = [begin |-> Flip(buffer).m_end, end |-> Flip(buffer).m_end + 1,
                        sequence_number |-> count % SequenceModulus]
          /\ wrote = WriteAndAdvance(Flip(buffer), 1, count + 1)
      BY <1>4
    <2> DEFINE kept == FlippedPending(h)
    <2>2. kept = PendingMoved(pending, buffer.m_begin)
      BY <1>5
    <2>3. all = Append(kept, message)
      OBVIOUS
    <2> HIDE DEF message, wrote, kept, all
    <2>4. /\ moved \in Seq(InFlightMessage)
          /\ Append(kept, message) \in Seq(Message)
          /\ wrote \in Buffer
          /\ Laid(moved, Append(kept, message), wrote, count + 1)
      <3>1. moved = FlightMoved(flight, buffer.m_begin)
        BY <1>5
      <3> HIDE DEF moved
      <3> QED BY ONLY <1>1, <1>2, <3>1, <2>1, <2>2, LaidSend
    <2> QED BY <2>3, <2>4
  <1> HIDE DEF all, wrote
  <1>7. /\ m_buffer'[h] = wrote /\ in_flight_messages'[h] = moved
        /\ pending_messages'[h] = all /\ submitted'[h] = count + 1
        /\ m_next_outgoing_sequence_number'[h] = (count + 1) % SequenceModulus
    <2>1. /\ m_buffer \in [Host -> Buffer]
          /\ in_flight_messages \in [Host -> Seq(InFlightMessage)]
          /\ pending_messages \in [Host -> Seq(Message)]
          /\ m_next_outgoing_sequence_number \in [Host -> 0 .. SequenceModulus - 1]
          /\ submitted \in [Host -> 0 .. MaxReliable]
      BY DEF BaseInv, StreamTypeOK, HistoryTypeOK
    <2>2. m_buffer'[h] = wrote /\ in_flight_messages'[h] = moved /\ pending_messages'[h] = all
      BY ONLY <2>1, <1>4, h \in Host
    <2>3. submitted'[h] = submitted[h] + 1
      BY ONLY <2>1, <1>3, h \in Host
    <2>4. m_next_outgoing_sequence_number'[h] = ((count % SequenceModulus) + 1) % SequenceModulus
      BY ONLY <2>1, <1>4, h \in Host
    <2>5. ((count % SequenceModulus) + 1) % SequenceModulus = (count + 1) % SequenceModulus
      BY <1>1, SequenceNumbers
    <2> QED BY <2>2, <2>3, <2>4, <2>5 DEF count
  <1>8. StreamInv(h)'
    BY <1>6, <1>7 DEF StreamInv
  <1>9. ASSUME NEW g \in Host, g # h PROVE StreamInv(g)'
    <2>1. /\ m_buffer'[g] = m_buffer[g] /\ in_flight_messages'[g] = in_flight_messages[g]
          /\ pending_messages'[g] = pending_messages[g] /\ submitted'[g] = submitted[g]
          /\ m_next_outgoing_sequence_number'[g] = m_next_outgoing_sequence_number[g]
      BY <1>3, <1>4, <1>9 DEF BaseInv, StreamTypeOK, HistoryTypeOK
    <2>2. StreamInv(g)
      BY DEF BaseInv
    <2> QED BY <2>1, <2>2 DEF StreamInv
  <1>10. StreamTypeOK'
    <2>1. (count + 1) % SequenceModulus \in 0 .. SequenceModulus - 1
          /\ ((count % SequenceModulus) + 1) % SequenceModulus = (count + 1) % SequenceModulus
      <3>1. count + 1 \in Nat
        BY <1>1
      <3> QED BY ONLY <1>1, <3>1, SequenceNumbers, Zenon
    <2>2. /\ m_buffer \in [Host -> Buffer]
          /\ in_flight_messages \in [Host -> Seq(InFlightMessage)]
          /\ pending_messages \in [Host -> Seq(Message)]
          /\ m_next_outgoing_sequence_number \in [Host -> 0 .. SequenceModulus - 1]
          /\ m_next_expected_sequence_number \in [Host -> 0 .. SequenceModulus - 1]
          /\ call \in [Host -> Call]
      BY DEF BaseInv, StreamTypeOK
    <2>3. m_buffer' \in [Host -> Buffer]
      BY ONLY <2>2, <1>4, <1>6
    <2>4. in_flight_messages' \in [Host -> Seq(InFlightMessage)]
      BY ONLY <2>2, <1>4, <1>6
    <2>5. pending_messages' \in [Host -> Seq(Message)]
      BY ONLY <2>2, <1>4, <1>6
    <2>6. m_next_outgoing_sequence_number' \in [Host -> 0 .. SequenceModulus - 1]
      BY ONLY <2>2, <1>4, <2>1
    <2> QED BY <2>2, <2>3, <2>4, <2>5, <2>6, <1>4 DEF StreamTypeOK
  <1>11. HistoryTypeOK'
    <2>1. MaxReliable \in Nat
      BY NeptunConstants
    <2>2. submitted \in [Host -> 0 .. MaxReliable] /\ submitted[h] + 1 \in 0 .. MaxReliable
      <3>1. submitted \in [Host -> 0 .. MaxReliable]
        BY DEF BaseInv, HistoryTypeOK
      <3> QED BY ONLY <1>1, <1>3, <2>1, <3>1 DEF count
    <2>3. submitted' \in [Host -> 0 .. MaxReliable]
      BY ONLY <1>3, <2>2, h \in Host
    <2> QED BY <2>3 DEF BaseInv, HistoryTypeOK, SendReliable
  <1>12. SpansTypeOK' /\ \A g \in Host : SpansInv(g)'
    BY SpansFrame DEF SendReliable
  <1>13. PdmTypeOK' /\ CmTypeOK' /\ NetTypeOK'
    BY PdmFrame, CmFrame, NetFrame DEF SendReliable
  <1>14. TickInv'
    BY <1>4, TickFrame DEF SendReliable
  <1> QED BY <1>8, <1>9, <1>10, <1>11, <1>12, <1>13, <1>14 DEF BaseInv

LEMMA BaseSendUnreliable ==
    ASSUME BaseInv, NEW h \in Host, SendUnreliable(h)
    PROVE  BaseInv'
  <1> DEFINE spans == m_pending_messages[h]
             buffer == m_unreliable_buffer[h]
             count == usubmitted[h]
             span == [begin |-> buffer.m_end, end |-> buffer.m_end + 1]
             all == Append(spans, span)
             wrote == WriteAndAdvance(buffer, 1, count + 1)
  <1>1. spans \in Seq(Span) /\ buffer \in Buffer /\ count \in Nat
    BY TypesAt
  <1>2. SpansLaid(spans, buffer, count)
    BY DEF BaseInv, SpansInv
  <1>3. /\ UnreliableSend(h, 1, count + 1) /\ count < MaxUnreliable
        /\ usubmitted' = [usubmitted EXCEPT ![h] = @ + 1]
    BY DEF SendUnreliable
  <1>4. /\ 1 \in 1 .. Remaining(buffer)
        /\ m_pending_messages' = [m_pending_messages EXCEPT ![h] = all]
        /\ m_unreliable_buffer' = [m_unreliable_buffer EXCEPT ![h] = wrote]
    BY <1>3 DEF UnreliableSend
  <1>5. all \in Seq(Span) /\ wrote \in Buffer /\ SpansLaid(all, wrote, count + 1)
    <2>1. /\ span = [begin |-> buffer.m_end, end |-> buffer.m_end + 1]
          /\ wrote = WriteAndAdvance(buffer, 1, count + 1)
          /\ all = Append(spans, span)
      OBVIOUS
    <2> HIDE DEF spans, buffer, count, span, wrote, all
    <2>2. Append(spans, span) \in Seq(Span) /\ wrote \in Buffer
          /\ SpansLaid(Append(spans, span), wrote, count + 1)
      BY ONLY <1>1, <1>2, <1>4, <2>1, SpansSend
    <2> QED BY <2>1, <2>2
  <1> HIDE DEF all, wrote, span
  <1>6. /\ m_unreliable_buffer \in [Host -> Buffer]
        /\ m_pending_messages \in [Host -> Seq(Span)]
        /\ usubmitted \in [Host -> 0 .. MaxUnreliable]
    BY DEF BaseInv, SpansTypeOK, HistoryTypeOK
  <1>7. /\ m_unreliable_buffer'[h] = wrote /\ m_pending_messages'[h] = all
        /\ usubmitted'[h] = count + 1
    BY <1>3, <1>4, <1>6
  <1>8. SpansInv(h)'
    BY <1>5, <1>7 DEF SpansInv
  <1>9. ASSUME NEW g \in Host, g # h PROVE SpansInv(g)'
    <2>1. /\ m_unreliable_buffer'[g] = m_unreliable_buffer[g]
          /\ m_pending_messages'[g] = m_pending_messages[g] /\ usubmitted'[g] = usubmitted[g]
      BY <1>3, <1>4, <1>6, <1>9
    <2>2. SpansInv(g)
      BY DEF BaseInv
    <2> QED BY <2>1, <2>2 DEF SpansInv
  <1>10. SpansTypeOK'
    BY <1>4, <1>5, <1>6 DEF SpansTypeOK
  <1>11. HistoryTypeOK'
    <2>1. MaxUnreliable \in Nat
      BY NeptunConstants
    <2>2. /\ usubmitted \in [Host -> 0 .. MaxUnreliable]
          /\ usubmitted[h] + 1 \in 0 .. MaxUnreliable
      <3>1. usubmitted \in [Host -> 0 .. MaxUnreliable]
        BY DEF BaseInv, HistoryTypeOK
      <3> QED BY ONLY <1>1, <1>3, <2>1, <3>1 DEF count
    <2>3. usubmitted' \in [Host -> 0 .. MaxUnreliable]
      BY ONLY <1>3, <2>2, h \in Host
    <2> QED BY <2>3 DEF BaseInv, HistoryTypeOK, SendUnreliable
  <1>12. StreamTypeOK' /\ \A g \in Host : StreamInv(g)'
    BY StreamsFrame DEF SendUnreliable
  <1>13. PdmTypeOK' /\ CmTypeOK' /\ NetTypeOK'
    BY PdmFrame, CmFrame, NetFrame DEF SendUnreliable
  <1>14. TickInv'
    BY TickFrame DEF SendUnreliable, streamVars
  <1> QED BY <1>8, <1>9, <1>10, <1>11, <1>12, <1>13, <1>14 DEF BaseInv

LEMMA BaseElapse ==
    ASSUME BaseInv, Elapse
    PROVE  BaseInv'
  <1>1. PdmTypeOK' /\ CmTypeOK' /\ HistoryTypeOK'
    BY PdmFrame, CmFrame, HistoryFrame DEF Elapse
  <1>2. StreamTypeOK' /\ \A g \in Host : StreamInv(g)'
    BY StreamsFrame, HistoryFrame DEF Elapse
  <1>3. SpansTypeOK' /\ \A g \in Host : SpansInv(g)'
    BY SpansFrame, HistoryFrame DEF Elapse
  <1>4. NetTypeOK'
    BY NeptunConstants DEF Elapse, BaseInv, NetTypeOK
  <1>5. TickInv'
    BY TickFrame DEF Elapse, streamVars
  <1> QED BY <1>1, <1>2, <1>3, <1>4, <1>5 DEF BaseInv

\* A queue without its element i.
LEMMA RemovedProperties ==
    ASSUME NEW S, NEW s \in Seq(S), NEW i \in 1 .. Len(s)
    PROVE  /\ RemoveAt(s, i) \in Seq(S)
           /\ Len(RemoveAt(s, i)) = Len(s) - 1
           /\ \A j \in 1 .. i - 1 : RemoveAt(s, i)[j] = s[j]
           /\ \A j \in i .. Len(s) - 1 : RemoveAt(s, i)[j] = s[j + 1]
  <1> DEFINE n == Len(s)
             a == SubSeq(s, 1, i - 1)
             b == SubSeq(s, i + 1, n)
  <1>1. n \in Nat /\ i \in Nat /\ 1 <= i /\ i <= n
    OBVIOUS
  <1>2. /\ a \in Seq(S) /\ Len(a) = i - 1 /\ \A j \in 1 .. i - 1 : a[j] = s[j]
    BY <1>1
  <1>3. /\ b \in Seq(S) /\ Len(b) = n - i /\ \A j \in 1 .. n - i : b[j] = s[i + j]
    BY <1>1
  <1>4. RemoveAt(s, i) = a \o b
    BY DEF RemoveAt
  <1> HIDE DEF a, b, n
  <1>5. /\ a \o b \in Seq(S) /\ Len(a \o b) = Len(a) + Len(b)
        /\ \A j \in 1 .. Len(a) : (a \o b)[j] = a[j]
        /\ \A j \in 1 .. Len(b) : (a \o b)[Len(a) + j] = b[j]
    <2>1. a \in Seq(S) /\ b \in Seq(S)
      BY <1>2, <1>3
    <2> QED BY ONLY <2>1
  <1>6. Len(a \o b) = n - 1 /\ \A j \in 1 .. i - 1 : (a \o b)[j] = s[j]
    BY <1>1, <1>2, <1>3, <1>5
  <1>7. ASSUME NEW j \in i .. n - 1 PROVE (a \o b)[j] = s[j + 1]
    <2> DEFINE k == j - (i - 1)
    <2>1. k \in 1 .. n - i /\ (i - 1) + k = j /\ i + k = j + 1
      BY <1>1
    <2> HIDE DEF k
    <2>2. (a \o b)[(i - 1) + k] = b[k] /\ b[k] = s[i + k]
      BY <2>1, <1>2, <1>3, <1>5
    <2> QED BY <2>1, <2>2
  <1> QED BY <1>4, <1>5, <1>6, <1>7 DEF n

LEMMA BaseLose ==
    ASSUME BaseInv, NEW h \in Host, NEW i \in 1 .. Len(network[h]), Lose(h, i)
    PROVE  BaseInv'
  <1>1. PdmTypeOK' /\ CmTypeOK' /\ HistoryTypeOK'
    BY PdmFrame, CmFrame, HistoryFrame DEF Lose
  <1>2. StreamTypeOK' /\ \A g \in Host : StreamInv(g)'
    BY StreamsFrame, HistoryFrame DEF Lose
  <1>3. SpansTypeOK' /\ \A g \in Host : SpansInv(g)'
    BY SpansFrame, HistoryFrame DEF Lose
  <1>4. NetTypeOK'
    <2>1. RemoveAt(network[h], i) \in Seq(SentPacket)
      BY TypesAt, RemovedProperties
    <2> QED BY <2>1 DEF Lose, BaseInv, NetTypeOK
  <1>5. TickInv'
    BY TickFrame DEF Lose, streamVars
  <1> QED BY <1>1, <1>2, <1>3, <1>4, <1>5 DEF BaseInv

LEMMA Statuses ==
    ASSUME BaseInv, NEW h \in Host, NEW n \in 0 .. Len(m_in_flight_packets[h]), NEW header
    PROVE  /\ DropStatuses(h, n) \in Seq(DeliveryStatus)
           /\ Len(DropStatuses(h, n)) = n
           /\ \A i \in 1 .. n : DropStatuses(h, n)[i].id = m_in_flight_packets[h][i].id
           /\ \A i \in 1 .. n : DropStatuses(h, n)[i].status = DROP
           /\ ReadStatuses(h, header, n) \in Seq(DeliveryStatus)
           /\ Len(ReadStatuses(h, header, n)) = n
           /\ \A i \in 1 .. n : ReadStatuses(h, header, n)[i].id = m_in_flight_packets[h][i].id
           /\ \A i \in 1 .. n : ReadStatuses(h, header, n)[i].status =
                                  StatusOf(m_in_flight_packets[h][i].id, header)
  <1> DEFINE packets == m_in_flight_packets[h]
  <1>1. packets \in Seq(InFlightPacket) /\ n \in Nat
    BY TypesAt
  <1>2. \A i \in 1 .. n : packets[i] \in InFlightPacket
    BY <1>1
  <1>3. \A i \in 1 .. n : packets[i].id \in PacketId
    BY <1>2 DEF InFlightPacket
  <1>4. \A i \in 1 .. n : StatusOf(packets[i].id, header) \in {ACK, DROP}
    BY DEF StatusOf
  <1> HIDE DEF packets
  <1>5. /\ [i \in 1 .. n |-> [id |-> packets[i].id, status |-> DROP]] \in [1 .. n -> DeliveryStatus]
        /\ [i \in 1 .. n |-> [id |-> packets[i].id, status |-> StatusOf(packets[i].id, header)]]
             \in [1 .. n -> DeliveryStatus]
    BY <1>3, <1>4 DEF DeliveryStatus
  <1>6. /\ DropStatuses(h, n) = [i \in 1 .. n |-> [id |-> packets[i].id, status |-> DROP]]
        /\ ReadStatuses(h, header, n) =
             [i \in 1 .. n |-> [id |-> packets[i].id, status |-> StatusOf(packets[i].id, header)]]
    BY DEF DropStatuses, ReadStatuses, packets
  <1>7. /\ DropStatuses(h, n) \in Seq(DeliveryStatus) /\ Len(DropStatuses(h, n)) = n
        /\ ReadStatuses(h, header, n) \in Seq(DeliveryStatus) /\ Len(ReadStatuses(h, header, n)) = n
    BY ONLY <1>1, <1>5, <1>6, IsSequence
  <1>8. /\ \A i \in 1 .. n : DropStatuses(h, n)[i] = [id |-> packets[i].id, status |-> DROP]
        /\ \A i \in 1 .. n : ReadStatuses(h, header, n)[i] =
             [id |-> packets[i].id, status |-> StatusOf(packets[i].id, header)]
    BY ONLY <1>6
  <1> QED BY <1>7, <1>8 DEF packets

LEMMA BaseTickBegin ==
    ASSUME BaseInv, NEW h \in Host, TickBegin(h)
    PROVE  BaseInv'
  <1>1. PICK n \in 0 .. Len(m_in_flight_packets[h]) :
          /\ DropOldPackets(h, now, n)
          /\ tick' = [host |-> h, stage |-> "old", statuses |-> DropStatuses(h, n),
                      packet |-> NoPacket]
    BY DEF TickBegin
  <1>2. /\ tick = NotTicking
        /\ UNCHANGED <<cmVars, streamVars, unreliableVars, now, network, has_peer, historyVars>>
    BY DEF TickBegin
  <1>3. PdmTypeOK'
    <2>1. Popped(m_in_flight_packets[h], n) \in Seq(InFlightPacket)
      BY TypesAt, PoppedProperties
    <2> QED BY <1>1, <2>1 DEF DropOldPackets, BaseInv, PdmTypeOK
  <1>4. CmTypeOK' /\ NetTypeOK' /\ HistoryTypeOK'
    BY <1>2, CmFrame, NetFrame, HistoryFrame
  <1>5. StreamTypeOK' /\ \A g \in Host : StreamInv(g)'
    BY <1>2, StreamsFrame, HistoryFrame
  <1>6. SpansTypeOK' /\ \A g \in Host : SpansInv(g)'
    BY <1>2, SpansFrame, HistoryFrame
  <1>7. TickInv'
    <2>1. DropStatuses(h, n) \in Seq(DeliveryStatus)
      BY Statuses
    <2>2. tick' \in TickState
      BY <1>1, <2>1 DEF TickState, Stage
    <2>3. tick'.stage = "old" /\ tick'.host = h
      BY <1>1
    <2>4. \A g \in Host : call'[g].op = "none"
      <3>1. \A g \in Host : call[g].op # "none" => tick.stage \in {"old", "acks", "write"}
        BY TypesAt DEF BaseInv, TickInv, Call
      <3> QED BY <1>2, <3>1 DEF NotTicking, streamVars
    <2> QED BY <2>2, <2>3, <2>4 DEF TickInv
  <1> QED BY <1>3, <1>4, <1>5, <1>6, <1>7 DEF BaseInv

\* A step of tick that only moves on.
LEMMA TickMoves ==
    ASSUME BaseInv, TickInv',
           UNCHANGED <<pdmVars, cmVars, streamVars, unreliableVars, now, network, has_peer,
                       historyVars>>
    PROVE  BaseInv'
  <1>1. /\ UNCHANGED pdmVars /\ UNCHANGED cmVars /\ UNCHANGED streamVars
        /\ UNCHANGED unreliableVars /\ UNCHANGED historyVars
        /\ now' = now /\ network' = network /\ has_peer' = has_peer
    OBVIOUS
  <1>2. HistoryTypeOK' /\ submitted' = submitted /\ usubmitted' = usubmitted
    BY <1>1, HistoryFrame
  <1>3. PdmTypeOK' /\ CmTypeOK' /\ NetTypeOK'
    BY <1>1, PdmFrame, CmFrame, NetFrame
  <1>4. StreamTypeOK' /\ \A g \in Host : StreamInv(g)'
    BY <1>1, <1>2, StreamsFrame
  <1>5. SpansTypeOK' /\ \A g \in Host : SpansInv(g)'
    BY <1>1, <1>2, SpansFrame
  <1> QED BY <1>2, <1>3, <1>4, <1>5 DEF BaseInv

\* tick returns.
LEMMA TickEnds ==
    ASSUME BaseInv, NEW h \in Host, tick.host = h, call[h].op = "none",
           tick' = NotTicking, call' = call
    PROVE  TickInv'
  <1>1. \A g \in Host : call[g].op = "none"
    BY DEF BaseInv, TickInv
  <1>2. tick'.stage = "none" /\ tick'.statuses = << >>
    BY DEF NotTicking
  <1> QED BY <1>1, <1>2, NoTick DEF TickInv

LEMMA BaseReadNothing ==
    ASSUME BaseInv, NEW h \in Host, ReadNothing(h)
    PROVE  BaseInv'
  <1>1. /\ tick.host = h /\ tick.stage = "old" /\ tick.statuses = << >> /\ call[h].op = "none"
        /\ tick' = [tick EXCEPT !.stage = "write"]
        /\ UNCHANGED <<pdmVars, cmVars, streamVars, unreliableVars, now, network, has_peer,
                       historyVars>>
    BY DEF ReadNothing, InStage, StatusesDone, Goto
  <1>2. TickInv'
    <2>1. tick \in TickState
      BY DEF BaseInv, TickInv
    <2>2. tick' = [host |-> h, stage |-> "write", statuses |-> << >>, packet |-> tick.packet]
      <3>1. tick' = Staged(tick, "write")
        BY ONLY <1>1, Zenon DEF Staged
      <3> QED BY <1>1, <2>1, <3>1, TickUpdates
    <2>3. tick' \in TickState
      BY <1>1, <2>1, <2>2, TickFields DEF TickState, Stage
    <2>4. \A g \in Host : call'[g].op = "none"
      BY <1>1 DEF BaseInv, TickInv, streamVars
    <2> QED BY <2>2, <2>3, <2>4 DEF TickInv
  <1> QED BY <1>1, <1>2, TickMoves

LEMMA BaseReadFails ==
    ASSUME BaseInv, NEW h \in Host, ReadFails(h)
    PROVE  BaseInv'
  <1>1. TickInv'
    BY TickEnds DEF ReadFails, InStage, StatusesDone, streamVars
  <1> QED BY <1>1, TickMoves DEF ReadFails

LEMMA BaseHoldPacket ==
    ASSUME BaseInv, NEW h \in Host, HoldPacket(h)
    PROVE  BaseInv'
  <1>1. TickInv'
    BY TickEnds DEF HoldPacket, InStage, streamVars
  <1> QED BY <1>1, TickMoves DEF HoldPacket

LEMMA BaseNoPeerToWriteTo ==
    ASSUME BaseInv, NEW h \in Host, NoPeerToWriteTo(h)
    PROVE  BaseInv'
  <1>1. tick.host = h /\ tick.stage = "write" /\ ~has_peer[h] /\ tick' = NotTicking
    BY DEF NoPeerToWriteTo, InStage
  <1>2. call[h].op = "none"
    BY <1>1, TypesAt DEF BaseInv, TickInv, Call
  <1>3. TickInv'
    BY <1>1, <1>2, TickEnds DEF NoPeerToWriteTo, streamVars
  <1> QED BY <1>3, TickMoves DEF NoPeerToWriteTo

LEMMA BaseIgnoreSegments ==
    ASSUME BaseInv, NEW h \in Host, IgnoreSegments(h)
    PROVE  BaseInv'
  <1>1. /\ tick.host = h /\ tick.stage = "segments" /\ call[h].op = "none"
        /\ tick' = [tick EXCEPT !.stage = "write", !.packet = NoPacket]
    BY DEF IgnoreSegments, InStage
  <1>2. TickInv'
    <2>1. tick \in TickState /\ tick.statuses = << >>
      BY <1>1 DEF BaseInv, TickInv
    <2>2. tick' = [host |-> h, stage |-> "write", statuses |-> << >>, packet |-> NoPacket]
      <3>1. tick' = Moved(tick, "write", NoPacket)
        BY ONLY <1>1, Zenon DEF Moved
      <3> QED BY <1>1, <2>1, <3>1, TickUpdates
    <2>3. tick' \in TickState
      BY <2>1, <2>2, TickFields DEF TickState, Stage
    <2>4. \A g \in Host : call'[g].op = "none"
      BY <1>1 DEF BaseInv, TickInv, IgnoreSegments, streamVars
    <2> QED BY <2>2, <2>3, <2>4 DEF TickInv
  <1> QED BY <1>2, TickMoves DEF IgnoreSegments

LEMMA BaseHang ==
    ASSUME BaseInv, NEW h \in Host, Hang(h)
    PROVE  BaseInv'
  <1>1. /\ tick.host = h /\ call[h].op = "none" /\ tick' = NotTicking
        /\ UNCHANGED <<pdmVars, streamVars, unreliableVars, now, network, has_peer, historyVars>>
    BY DEF Hang
  <1>2. HistoryTypeOK' /\ submitted' = submitted /\ usubmitted' = usubmitted
    BY <1>1, HistoryFrame
  <1>3. PdmTypeOK' /\ NetTypeOK'
    BY <1>1, PdmFrame, NetFrame
  <1>4. CmTypeOK'
    <2>1. m_self_is_connected' \in [Host -> BOOLEAN] /\ m_hangs' \in [Host -> BOOLEAN]
      BY Zenon DEF Hang, CmAckAfterUnderflow, BaseInv, CmTypeOK
    <2> QED BY <2>1 DEF Hang, CmAckAfterUnderflow, BaseInv, CmTypeOK
  <1>5. StreamTypeOK' /\ \A g \in Host : StreamInv(g)'
    BY <1>1, <1>2, StreamsFrame
  <1>6. SpansTypeOK' /\ \A g \in Host : SpansInv(g)'
    BY <1>1, <1>2, SpansFrame
  <1>7. TickInv'
    BY <1>1, TickEnds DEF streamVars
  <1> QED BY <1>2, <1>3, <1>4, <1>5, <1>6, <1>7 DEF BaseInv

LEMMA CmStatusTypes ==
    ASSUME BaseInv, NEW h \in Host, NEW id,
           CmIgnore(h, id) \/ CmAck(h, id) \/ CmDrop(h, id)
    PROVE  CmTypeOK'
  <1>1. CASE CmIgnore(h, id)
    BY <1>1, CmFrame DEF CmIgnore
  <1>2. CASE CmAck(h, id)
    <2>1. m_self_is_connected' \in [Host -> BOOLEAN]
      BY <1>2, Zenon DEF CmAck, BaseInv, CmTypeOK
    <2>2. << >> \in Seq(PacketId)
      OBVIOUS
    <2>3. m_in_flight_lets_connect' \in [Host -> Seq(PacketId)]
      BY <1>2, <2>2 DEF CmAck, BaseInv, CmTypeOK
    <2> QED BY <1>2, <2>1, <2>3 DEF CmAck, BaseInv, CmTypeOK
  <1>3. CASE CmDrop(h, id)
    <2>1. Resent(h) \in Nat
      BY TypesAt DEF Resent
    <2>2. m_num_lets_connect_to_send' \in [Host -> Nat]
      BY <1>3, <2>1 DEF CmDrop, BaseInv, CmTypeOK
    <2>3. m_in_flight_lets_connect[h] # << >> => Tail(m_in_flight_lets_connect[h]) \in Seq(PacketId)
      BY TypesAt, TailProperties
    <2>4. m_in_flight_lets_connect' \in [Host -> Seq(PacketId)] /\ m_underflow' \in [Host -> Nat]
      <3>1. m_in_flight_lets_connect \in [Host -> Seq(PacketId)] /\ m_underflow \in [Host -> Nat]
        BY DEF BaseInv, CmTypeOK
      <3>2. \/ /\ m_in_flight_lets_connect[h] # << >> /\ m_underflow' = m_underflow
               /\ m_in_flight_lets_connect' = [m_in_flight_lets_connect EXCEPT
                                                ![h] = Tail(m_in_flight_lets_connect[h])]
            \/ /\ m_in_flight_lets_connect' = m_in_flight_lets_connect
               /\ m_underflow' = [m_underflow EXCEPT ![h] = m_underflow[h] + 1]
        BY <1>3 DEF CmDrop, IsFront
      <3> DEFINE rest == Tail(m_in_flight_lets_connect[h])
      <3>3. m_in_flight_lets_connect[h] # << >> => rest \in Seq(PacketId)
        BY <2>3
      <3>4. \/ m_in_flight_lets_connect' = m_in_flight_lets_connect
            \/ /\ m_in_flight_lets_connect[h] # << >>
               /\ m_in_flight_lets_connect' = [m_in_flight_lets_connect EXCEPT ![h] = rest]
        BY <3>2
      <3> HIDE DEF rest
      <3>5. m_in_flight_lets_connect' \in [Host -> Seq(PacketId)]
        BY <3>1, <3>3, <3>4
      <3>6. m_underflow' \in [Host -> Nat]
        <4>1. m_underflow[h] + 1 \in Nat
          BY TypesAt
        <4> QED BY <3>1, <3>2, <4>1
      <3> QED BY <3>5, <3>6
    <2> QED BY <1>3, <2>2, <2>4 DEF CmDrop, BaseInv, CmTypeOK
  <1> QED BY <1>1, <1>2, <1>3

LEMMA StreamDropKeeps ==
    ASSUME BaseInv, NEW h \in Host, NEW id, StreamDrop(h, id), submitted' = submitted
    PROVE  StreamTypeOK' /\ \A g \in Host : StreamInv(g)'
  <1> DEFINE flight == in_flight_messages[h]
             pending == pending_messages[h]
             buffer == m_buffer[h]
             count == submitted[h]
             all == MessagesInFlight(h) \o pending
  <1>1. /\ flight \in Seq(InFlightMessage) /\ pending \in Seq(Message)
        /\ buffer \in Buffer /\ count \in Nat
    BY TypesAt
  <1>2. Laid(flight, pending, buffer, count)
    BY DEF BaseInv, StreamInv
  <1>3. /\ pending_messages' = [pending_messages EXCEPT ![h] = all]
        /\ in_flight_messages' = [in_flight_messages EXCEPT ![h] = << >>]
        /\ UNCHANGED <<m_buffer, m_next_outgoing_sequence_number,
                       m_next_expected_sequence_number, call>>
    BY DEF StreamDrop
  <1>4. all = [i \in 1 .. Len(flight) |-> flight[i].message] \o pending
    BY DEF MessagesInFlight
  <1> HIDE DEF flight, pending, buffer, count, all
  <1>5. all \in Seq(Message) /\ Laid(<< >>, all, buffer, count)
    BY ONLY <1>1, <1>2, <1>4, LaidDrop
  <1>6. << >> \in Seq(InFlightMessage)
    OBVIOUS
  <1>7. /\ pending_messages \in [Host -> Seq(Message)]
        /\ in_flight_messages \in [Host -> Seq(InFlightMessage)]
    BY DEF BaseInv, StreamTypeOK
  <1>8. /\ pending_messages' \in [Host -> Seq(Message)]
        /\ in_flight_messages' \in [Host -> Seq(InFlightMessage)]
        /\ pending_messages'[h] = all /\ in_flight_messages'[h] = << >>
        /\ \A g \in Host \ {h} : /\ pending_messages'[g] = pending_messages[g]
                                 /\ in_flight_messages'[g] = in_flight_messages[g]
    BY ONLY <1>3, <1>5, <1>6, <1>7, h \in Host
  <1>9. StreamTypeOK'
    BY <1>3, <1>8 DEF BaseInv, StreamTypeOK
  <1>10. StreamInv(h)
    BY DEF BaseInv
  <1>11. StreamInv(h)'
    BY <1>3, <1>5, <1>6, <1>8, <1>10 DEF StreamInv, buffer, count
  <1>12. ASSUME NEW g \in Host \ {h} PROVE StreamInv(g)'
    <2>1. StreamInv(g)
      BY DEF BaseInv
    <2> QED BY <1>3, <1>8, <2>1 DEF StreamInv
  <1> QED BY <1>9, <1>11, <1>12

LEMMA BaseProcessStatus ==
    ASSUME BaseInv, NEW h \in Host, ProcessStatus(h)
    PROVE  BaseInv'
  <1> DEFINE id == Head(tick.statuses).id
             status == Head(tick.statuses).status
  <1>1. /\ tick.host = h /\ tick.statuses # << >> /\ call[h].op = "none"
        /\ CmIgnore(h, id) \/ CmAck(h, id) \/ CmDrop(h, id)
        /\ (status = ACK /\ StreamAck(h, id)) \/ (status = DROP /\ StreamDrop(h, id))
        /\ tick' = [tick EXCEPT !.statuses = Tail(@)]
        /\ UNCHANGED <<pdmVars, unreliableVars, now, network, has_peer, historyVars>>
    BY DEF ProcessStatus
  <1>2. tick \in TickState
    BY DEF BaseInv, TickInv
  <1>3. Head(tick.statuses) \in DeliveryStatus /\ Tail(tick.statuses) \in Seq(DeliveryStatus)
    <2>1. tick.statuses \in Seq(DeliveryStatus)
      BY <1>2, TickFields
    <2> QED BY <1>1, <2>1, TailProperties
  <1>4. id \in PacketId
    BY <1>3 DEF DeliveryStatus
  <1> HIDE DEF id, status
  <1>5. HistoryTypeOK' /\ submitted' = submitted /\ usubmitted' = usubmitted
    BY <1>1, HistoryFrame
  <1>6. PdmTypeOK' /\ NetTypeOK'
    BY <1>1, PdmFrame, NetFrame
  <1>7. CmTypeOK'
    BY <1>1, CmStatusTypes
  <1>8. SpansTypeOK' /\ \A g \in Host : SpansInv(g)'
    BY <1>1, <1>5, SpansFrame
  <1>9. StreamTypeOK' /\ \A g \in Host : StreamInv(g)'
    <2>1. CASE StreamAck(h, id)
      <3>1. AckCall(id) \in Call
        <4>1. << >> \in Seq(SegmentMessage)
          OBVIOUS
        <4> QED BY <1>4, <4>1 DEF AckCall, Call
      <3>2. call' \in [Host -> Call] /\ m_next_expected_sequence_number' \in [Host -> 0 .. SequenceModulus - 1]
        BY <2>1, <3>1 DEF StreamAck, BaseInv, StreamTypeOK
      <3> QED BY <2>1, <3>2, <1>5, StreamFrame DEF StreamAck
    <2>2. CASE StreamDrop(h, id)
      BY <2>2, <1>5, StreamDropKeeps
    <2> QED BY <1>1, <2>1, <2>2
  <1>10. TickInv'
    <2>1. tick.stage \in {"old", "acks"}
      BY <1>1 DEF BaseInv, TickInv
    <2>2. tick' = [host |-> h, stage |-> tick.stage, statuses |-> Tail(tick.statuses),
                   packet |-> tick.packet]
      <3>1. tick' = Handed(tick, Tail(tick.statuses))
        BY ONLY <1>1, Zenon DEF Handed
      <3> QED BY <1>1, <1>2, <3>1, TickUpdates
    <2>3. tick' \in TickState
      BY <1>2, <1>3, <2>2, TickFields DEF TickState
    <2>4. /\ tick'.stage = tick.stage /\ tick'.host = h /\ tick'.packet = tick.packet
          /\ has_peer' = has_peer
      BY <1>1, <2>2
    <2>5. call'[h].op \in {"none", "ack"} /\ \A g \in Host \ {h} : call'[g].op = "none"
      <3>1. \A g \in Host \ {h} : call[g].op = "none"
        BY <1>1 DEF BaseInv, TickInv
      <3>2. call' = call \/ call' = [call EXCEPT ![h] = AckCall(id)]
        BY <1>1 DEF StreamAck, StreamDrop
      <3> QED BY <3>1, <3>2, <1>1 DEF AckCall, BaseInv, StreamTypeOK
    <2>6. \A g \in Host :
         /\ call'[g].op # "none" => tick'.host = g
         /\ call'[g].op = "ack" => tick'.stage \in {"old", "acks"}
         /\ call'[g].op # "read"
      BY <2>1, <2>4, <2>5
    <2>7. tick'.stage \in {"acks", "segments"} => tick'.packet \in SentPacket /\ has_peer'[tick'.host]
      BY <1>1, <2>4 DEF BaseInv, TickInv
    <2> QED BY <2>1, <2>3, <2>4, <2>6, <2>7 DEF TickInv
  <1> QED BY <1>5, <1>6, <1>7, <1>8, <1>9, <1>10 DEF BaseInv

LEMMA BasePopAckedMessage ==
    ASSUME BaseInv, NEW h \in Host, PopAckedMessage(h)
    PROVE  BaseInv'
  <1> DEFINE flight == in_flight_messages[h]
             pending == pending_messages[h]
             buffer == m_buffer[h]
             count == submitted[h]
             less == Consume(buffer, Size(Head(flight).message))
  <1>1. /\ tick.host = h /\ call[h].op = "ack"
        /\ UNCHANGED <<pdmVars, cmVars, unreliableVars, now, network, has_peer, tick, historyVars>>
        /\ UNCHANGED <<pending_messages, m_next_outgoing_sequence_number,
                       m_next_expected_sequence_number>>
        /\ \/ /\ flight # << >>
              /\ m_buffer' = [m_buffer EXCEPT ![h] = less]
              /\ in_flight_messages' = [in_flight_messages EXCEPT ![h] = Tail(flight)]
              /\ call' = call
           \/ /\ call' = [call EXCEPT ![h] = NoCall]
              /\ UNCHANGED <<m_buffer, in_flight_messages>>
    BY DEF PopAckedMessage, PopAcked, CarriedBy
  <1>2. HistoryTypeOK' /\ submitted' = submitted /\ usubmitted' = usubmitted
    BY <1>1, HistoryFrame
  <1>3. PdmTypeOK' /\ CmTypeOK' /\ NetTypeOK'
    BY <1>1, PdmFrame, CmFrame, NetFrame
  <1>4. SpansTypeOK' /\ \A g \in Host : SpansInv(g)'
    BY <1>1, <1>2, SpansFrame
  <1>5. NoCall \in Call
    <2>1. << >> \in Seq(SegmentMessage) /\ 0 \in PacketId
      BY PacketConstants DEF PacketId
    <2> QED BY <2>1 DEF NoCall, Call
  <1>6. call' \in [Host -> Call] /\ call'[h].op \in {"ack", "none"}
        /\ \A g \in Host \ {h} : call'[g] = call[g]
    <2>1. call \in [Host -> Call] /\ NoCall.op = "none"
      BY DEF BaseInv, StreamTypeOK, NoCall
    <2>2. call' = call \/ call' = [call EXCEPT ![h] = NoCall]
      BY <1>1
    <2> QED BY <1>1, <1>5, <2>1, <2>2
  <1>7. StreamTypeOK' /\ \A g \in Host : StreamInv(g)'
    <2>1. CASE UNCHANGED <<m_buffer, in_flight_messages>>
      <3>1. m_next_expected_sequence_number' \in [Host -> 0 .. SequenceModulus - 1]
        BY <1>1 DEF BaseInv, StreamTypeOK
      <3> QED BY <1>1, <1>2, <1>6, <2>1, <3>1, StreamFrame
    <2>2. CASE /\ flight # << >>
               /\ m_buffer' = [m_buffer EXCEPT ![h] = less]
               /\ in_flight_messages' = [in_flight_messages EXCEPT ![h] = Tail(flight)]
      <3>1. /\ flight \in Seq(InFlightMessage) /\ pending \in Seq(Message)
            /\ buffer \in Buffer /\ count \in Nat
        BY TypesAt
      <3>2. Laid(flight, pending, buffer, count)
        BY DEF BaseInv, StreamInv
      <3>3. less \in Buffer /\ Laid(Tail(flight), pending, less, count)
            /\ Tail(flight) \in Seq(InFlightMessage)
        BY <2>2, <3>1, <3>2, LaidPop, TailProperties
      <3> HIDE DEF less
      <3>4. /\ m_buffer \in [Host -> Buffer]
            /\ in_flight_messages \in [Host -> Seq(InFlightMessage)]
        BY DEF BaseInv, StreamTypeOK
      <3>5. /\ m_buffer' \in [Host -> Buffer]
            /\ in_flight_messages' \in [Host -> Seq(InFlightMessage)]
            /\ m_buffer'[h] = less /\ in_flight_messages'[h] = Tail(flight)
            /\ \A g \in Host \ {h} : /\ m_buffer'[g] = m_buffer[g]
                                     /\ in_flight_messages'[g] = in_flight_messages[g]
        BY <2>2, <3>3, <3>4
      <3>6. StreamTypeOK'
        BY <1>1, <1>6, <3>5 DEF BaseInv, StreamTypeOK
      <3>7. \A g \in Host : StreamInv(g)
        BY DEF BaseInv
      <3>8. StreamInv(h)'
        BY <1>1, <1>2, <3>3, <3>5, <3>7 DEF StreamInv
      <3>9. ASSUME NEW g \in Host \ {h} PROVE StreamInv(g)'
        BY <1>1, <1>2, <3>5, <3>7 DEF StreamInv
      <3> QED BY <3>6, <3>8, <3>9
    <2> QED BY <1>1, <2>1, <2>2
  <1>8. TickInv'
    BY <1>1, <1>6 DEF BaseInv, TickInv
  <1> QED BY <1>2, <1>3, <1>4, <1>7, <1>8 DEF BaseInv

LEMMA PacketFields ==
    ASSUME NEW packet \in SentPacket
    PROVE  /\ packet.header \in PacketHeader /\ packet.header.id \in PacketId
           /\ packet.handshake \in Handshake
           /\ packet.reliable \in Seq(SegmentMessage)
           /\ packet.unreliable \in USegment
           /\ packet.unreliable.messages \in Seq(Seq(Nat))
           /\ packet.unreliable.message_count \in 0 .. Len(packet.unreliable.messages)
  <1>1. /\ packet.header \in PacketHeader /\ packet.handshake \in Handshake
        /\ packet.reliable \in Seq(SegmentMessage)
        /\ packet.unreliable \in USegment
        /\ packet.unreliable.message_count <= Len(packet.unreliable.messages)
    BY DEF SentPacket, Packet, USegment
  <1>2. packet.header.id \in PacketId
    BY <1>1 DEF PacketHeader
  <1>3. /\ packet.unreliable.messages \in Seq(Seq(Nat))
        /\ packet.unreliable.message_count \in Nat
    BY <1>1, CountModulusIsPos DEF USegment
  <1>4. Len(packet.unreliable.messages) \in Nat
    BY <1>3
  <1> QED BY <1>1, <1>2, <1>3, <1>4

LEMMA BaseReadPacket ==
    ASSUME BaseInv, NEW h \in Host, NEW i \in 1 .. Len(network[h]), ReadPacket(h, i)
    PROVE  BaseInv'
  <1> DEFINE packet == network[h][i]
             accepts == Accepts(h, packet.header)
  <1>1. PICK n \in 0 .. Len(m_in_flight_packets[h]) :
         /\ ProcessRead(h, packet.header, n)
         /\ tick' = [tick EXCEPT
              !.stage = IF accepts THEN "acks" ELSE "write",
              !.statuses = StatusesToProcess(h, packet.header, n),
              !.packet = IF accepts THEN packet ELSE NoPacket]
    BY Zenon DEF ReadPacket
  <1>2. /\ tick.host = h /\ tick.stage = "old" /\ call[h].op = "none"
        /\ network' = IF Unordered THEN network ELSE [network EXCEPT ![h] = RemoveAt(@, i)]
        /\ has_peer' = [has_peer EXCEPT ![h] = TRUE]
        /\ UNCHANGED <<cmVars, streamVars, unreliableVars, now, historyVars>>
    BY DEF ReadPacket, InStage, StatusesDone
  <1>3. packet \in SentPacket /\ packet.header.id \in PacketId
    BY TypesAt, PacketFields
  <1> HIDE DEF packet, accepts
  <1>4. HistoryTypeOK' /\ submitted' = submitted /\ usubmitted' = usubmitted
    BY <1>2, HistoryFrame
  <1>5. CmTypeOK'
    BY <1>2, CmFrame
  <1>6. StreamTypeOK' /\ \A g \in Host : StreamInv(g)'
    BY <1>2, <1>4, StreamsFrame
  <1>7. SpansTypeOK' /\ \A g \in Host : SpansInv(g)'
    BY <1>2, <1>4, SpansFrame
  <1>8. NetTypeOK'
    <2>1. RemoveAt(network[h], i) \in Seq(SentPacket)
      BY TypesAt, RemovedProperties
    <2>2. network' \in [Host -> Seq(SentPacket)]
      BY <1>2, <2>1 DEF BaseInv, NetTypeOK
    <2>3. has_peer' \in [Host -> BOOLEAN]
      BY <1>2, Zenon DEF BaseInv, NetTypeOK
    <2> QED BY <1>2, <2>2, <2>3 DEF BaseInv, NetTypeOK
  <1>9. PdmTypeOK'
    <2> DEFINE id == packet.header.id
               acks == Append(m_pending_acks[h], id)
               next == (id + 1) % IdModulus
    <2>1. Popped(m_in_flight_packets[h], n) \in Seq(InFlightPacket)
      BY TypesAt, PoppedProperties
    <2>2. acks \in Seq(PacketId)
      BY <1>3, TypesAt
    <2>3. next \in PacketId
      BY <1>3, IdsAreNumbers
    <2>4. /\ m_in_flight_packets' = [m_in_flight_packets EXCEPT
                                       ![h] = Popped(m_in_flight_packets[h], n)]
          /\ m_next_outgoing_packet_id' = m_next_outgoing_packet_id
          /\ \/ /\ m_pending_acks' = [m_pending_acks EXCEPT ![h] = acks]
                /\ m_next_expected_packet_id' = [m_next_expected_packet_id EXCEPT ![h] = next]
             \/ UNCHANGED <<m_pending_acks, m_next_expected_packet_id>>
      BY <1>1 DEF ProcessRead, ProcessPacketHeader
    <2> HIDE DEF acks, next
    <2> QED BY <2>1, <2>2, <2>3, <2>4 DEF BaseInv, PdmTypeOK
  <1>10. TickInv'
    <2> DEFINE statuses == StatusesToProcess(h, packet.header, n)
               read == IF accepts THEN packet ELSE NoPacket
               stage == IF accepts THEN "acks" ELSE "write"
    <2> HIDE DEF statuses, read, stage
    <2>1. tick \in TickState
      BY DEF BaseInv, TickInv
    <2>2. statuses \in Seq(DeliveryStatus) /\ (~accepts => statuses = << >>)
      <3>1. ReadStatuses(h, packet.header, n) \in Seq(DeliveryStatus)
        BY Statuses
      <3> QED BY ONLY <3>1 DEF StatusesToProcess, statuses, accepts
    <2>3. read \in SentPacket \cup {NoPacket} /\ (accepts => read \in SentPacket)
      BY ONLY <1>3 DEF read
    <2>4. stage \in {"acks", "write"} /\ (stage = "acks" => accepts) /\ (stage = "write" => ~accepts)
      BY ONLY TRUE DEF stage
    <2>5. tick' = [tick EXCEPT !.stage = stage, !.statuses = statuses, !.packet = read]
      BY ONLY <1>1 DEF stage, statuses, read
    <2>6. tick' = [host |-> tick.host, stage |-> stage, statuses |-> statuses, packet |-> read]
      <3>1. tick' = Began(tick, stage, statuses, read)
        BY ONLY <2>5, Zenon DEF Began
      <3> QED BY ONLY <2>1, <3>1, TickUpdates
    <2>7. tick'.host = h /\ tick'.stage = stage /\ tick'.statuses = statuses /\ tick'.packet = read
      BY <1>2, <2>6
    <2>8. tick' \in TickState
      BY <1>2, <2>2, <2>3, <2>4, <2>6 DEF TickState, Stage
    <2>9. has_peer'[h]
      BY <1>2 DEF BaseInv, NetTypeOK
    <2>10. \A g \in Host : call'[g].op = "none"
      BY <1>2 DEF BaseInv, TickInv, streamVars
    <2> QED BY <2>2, <2>3, <2>4, <2>7, <2>8, <2>9, <2>10 DEF TickInv
  <1> QED BY <1>4, <1>5, <1>6, <1>7, <1>8, <1>9, <1>10 DEF BaseInv

LEMMA TwoBytes ==
    /\ \A size \in PacketSize, byte \in 0 .. 255 : size - (size % 256) + byte \in PacketSize
    /\ \A high, low \in 0 .. 255 : 256 * high + low \in PacketSize
  <1> DEFINE top == 256 * 256 - 1
  <1>1. PacketSize = 0 .. top
    BY Zenon DEF PacketSize
  <1>2. top = 256 * 256 - 1
    OBVIOUS
  <1>21. top \in Nat
    BY SMT
  <1> HIDE DEF top
  <1>3. ASSUME NEW high \in 0 .. 255, NEW low \in 0 .. 255
        PROVE  256 * high + low \in PacketSize
    <2>1. 256 * high + low \in Nat /\ 256 * high + low <= top
      BY ONLY <1>2, high \in 0 .. 255, low \in 0 .. 255
    <2> QED BY ONLY <2>1, <1>1, <1>21
  <1>4. ASSUME NEW size \in PacketSize, NEW byte \in 0 .. 255
        PROVE  size - (size % 256) + byte \in PacketSize
    <2> DEFINE q == size \div 256
               r == size % 256
    <2>1. size \in Nat /\ size <= top
      BY <1>1, <1>21
    <2>2. q \in Nat /\ r \in Nat /\ size = 256 * q + r /\ r <= 255
      BY ONLY <2>1
    <2> HIDE DEF q, r
    <2>3. q \in 0 .. 255
      BY ONLY <2>1, <2>2, <1>2
    <2>4. size - r = 256 * q
      BY ONLY <2>1, <2>2
    <2>5. 256 * q + byte \in PacketSize
      BY ONLY <2>3, <1>3, byte \in 0 .. 255
    <2> QED BY <2>4, <2>5 DEF r
  <1> QED BY <1>3, <1>4

LEMMA LimitDecoded ==
    ASSUME NEW handshake \in Handshake, handshake # << >>, NEW size \in Decodings(handshake)
    PROVE  size \in PacketSize
  <1>1. \A byte \in StaleBytes : byte \in 0 .. 255
    BY ConnectionConstants
  <1>2. CASE handshake = <<"Reject">>
    <2>1. size \in {256 * high + low : high \in StaleBytes, low \in StaleBytes}
      BY <1>2 DEF Decodings
    <2>2. PICK high \in StaleBytes, low \in StaleBytes : size = 256 * high + low
      BY <2>1
    <2> QED BY ONLY <1>1, <2>2, TwoBytes
  <1>3. CASE handshake # <<"Reject">>
    <2>1. PICK g \in Host : handshake = <<"LetsConnect", MaxReadPacketSize[g]>>
      BY <1>3 DEF Handshake
    <2> DEFINE m == MaxReadPacketSize[g]
    <2>2. m \in PacketSize
      BY ConnectionConstants, Owners
    <2>3. size \in {m - (m % 256) + byte : byte \in StaleBytes}
      BY <2>1 DEF Decodings
    <2> HIDE DEF m
    <2>4. PICK byte \in StaleBytes : size = m - (m % 256) + byte
      BY <2>3
    <2> QED BY ONLY <1>1, <2>2, <2>4, TwoBytes
  <1> QED BY <1>2, <1>3

LEMMA BaseReadHandshake ==
    ASSUME BaseInv, NEW h \in Host, ReadHandshake(h)
    PROVE  BaseInv'
  <1>1. /\ tick.host = h /\ tick.stage = "acks" /\ tick.statuses = << >> /\ call[h].op = "none"
        /\ tick' = [tick EXCEPT !.stage = "segments"]
        /\ UNCHANGED <<pdmVars, streamVars, unreliableVars, now, network, has_peer, historyVars>>
    BY DEF ReadHandshake, InStage, StatusesDone, Goto
  <1>2. HistoryTypeOK' /\ submitted' = submitted /\ usubmitted' = usubmitted
    BY <1>1, HistoryFrame
  <1>3. PdmTypeOK' /\ NetTypeOK'
    BY <1>1, PdmFrame, NetFrame
  <1>4. StreamTypeOK' /\ \A g \in Host : StreamInv(g)'
    BY <1>1, <1>2, StreamsFrame
  <1>5. SpansTypeOK' /\ \A g \in Host : SpansInv(g)'
    BY <1>1, <1>2, SpansFrame
  <1>6. tick \in TickState /\ tick.packet \in SentPacket /\ has_peer[h]
    BY <1>1 DEF BaseInv, TickInv
  <1>7. CmTypeOK'
    <2>1. CASE UNCHANGED cmVars
      BY <2>1, CmFrame
    <2>2. ASSUME NEW size \in Decodings(tick.packet.handshake),
                 tick.packet.handshake # << >>, CmReadLetsConnect(h, size)
          PROVE  CmTypeOK'
      <3>1. size \in Limit
        BY <1>6, <2>2, PacketFields, LimitDecoded DEF Limit
      <3>2. NumRedundantPackets + 1 \in Nat
        BY NumberOfLetsConnect
      <3>3. is_fail' \in [Host -> BOOLEAN]
        BY <2>2, Zenon DEF CmReadLetsConnect, BaseInv, CmTypeOK
      <3>4. m_num_lets_connect_to_send' \in [Host -> Nat]
        BY <2>2, <3>2 DEF CmReadLetsConnect, BaseInv, CmTypeOK
      <3>5. m_peer_bandwidth_limit' \in [Host -> Limit]
        BY <2>2, <3>1, Zenon DEF CmReadLetsConnect, BaseInv, CmTypeOK
      <3> QED BY <2>2, <3>3, <3>4, <3>5 DEF CmReadLetsConnect, BaseInv, CmTypeOK
    <2> QED BY <2>1, <2>2 DEF ReadHandshake
  <1>8. TickInv'
    <2>1. tick' = [host |-> h, stage |-> "segments", statuses |-> << >>, packet |-> tick.packet]
      <3>1. tick' = Staged(tick, "segments")
        BY ONLY <1>1, Zenon DEF Staged
      <3> QED BY <1>1, <1>6, <3>1, TickUpdates
    <2>2. tick' \in TickState
      BY <1>1, <1>6, <2>1, TickFields DEF TickState, Stage
    <2>3. \A g \in Host : call'[g].op = "none"
      BY <1>1 DEF BaseInv, TickInv, streamVars
    <2>4. has_peer'[h]
      BY <1>1, <1>6
    <2> QED BY <1>6, <2>1, <2>2, <2>3, <2>4 DEF TickInv
  <1> QED BY <1>2, <1>3, <1>4, <1>5, <1>7, <1>8 DEF BaseInv

LEMMA NoCallType == NoCall \in Call
  <1>1. << >> \in Seq(SegmentMessage) /\ 0 \in PacketId
    BY PacketConstants DEF PacketId
  <1> QED BY <1>1 DEF NoCall, Call

LEMMA ReadCallType ==
    ASSUME NEW id \in PacketId, NEW messages \in Seq(SegmentMessage)
    PROVE  ReadCall(id, messages) \in Call
  BY DEF ReadCall, Call

\* The payloads that the unreliable stream hands to the application.
LEMMA UnreliableReadProperties ==
    ASSUME NEW segment \in USegment, segment.message_count \in 0 .. Len(segment.messages)
    PROVE  /\ UnreliableRead(segment) \in Seq(Seq(Nat))
           /\ Len(UnreliableRead(segment)) = segment.message_count
           /\ \A i \in 1 .. segment.message_count :
                UnreliableRead(segment)[i] = segment.messages[i]
  <1> DEFINE messages == segment.messages
             n == segment.message_count
  <1>1. messages \in Seq(Seq(Nat)) /\ n \in 0 .. Len(messages)
    BY DEF USegment
  <1>2. UnreliableRead(segment) = SubSeq(messages, 1, n)
    BY DEF UnreliableRead
  <1> HIDE DEF messages, n
  <1>3. /\ SubSeq(messages, 1, n) \in Seq(Seq(Nat))
        /\ Len(SubSeq(messages, 1, n)) = n
        /\ \A i \in 1 .. n : SubSeq(messages, 1, n)[i] = messages[i]
    BY <1>1
  <1> QED BY <1>2, <1>3 DEF messages, n

LEMMA LeftFields ==
    ASSUME NEW segments \in LeftSegments
    PROVE  /\ segments.reliable \in Seq(SegmentMessage)
           /\ segments.unreliable \in USegment
           /\ segments.unreliable.message_count \in 0 .. Len(segments.unreliable.messages)
  <1>1. /\ segments.reliable \in Seq(SegmentMessage) /\ segments.unreliable \in USegment
        /\ segments.unreliable.message_count <= Len(segments.unreliable.messages)
    BY DEF LeftSegments, Segments
  <1>2. /\ segments.unreliable.messages \in Seq(Seq(Nat))
        /\ segments.unreliable.message_count \in Nat
    BY <1>1, CountModulusIsPos DEF USegment
  <1>3. Len(segments.unreliable.messages) \in Nat
    BY <1>2
  <1> QED BY <1>1, <1>2, <1>3

LEMMA LeftRecord ==
    ASSUME NEW reliable \in Seq(SegmentMessage), NEW unreliable \in USegment,
           unreliable.message_count <= Len(unreliable.messages)
    PROVE  [reliable |-> reliable, unreliable |-> unreliable] \in LeftSegments
  BY DEF LeftSegments, Segments

LEMMA NothingLeft ==
    /\ << >> \in Seq(SegmentMessage) /\ NoUnreliable \in USegment
    /\ NoUnreliable.message_count <= Len(NoUnreliable.messages)
    /\ NoSegments \in LeftSegments
  <1>1. << >> \in Seq(SegmentMessage) /\ << >> \in Seq(Seq(Nat)) /\ Len(<< >>) = 0
    OBVIOUS
  <1>2. /\ NoUnreliable \in USegment
        /\ NoUnreliable.message_count <= Len(NoUnreliable.messages)
    BY <1>1, CountModulusIsPos DEF NoUnreliable, USegment
  <1> QED BY <1>1, <1>2, LeftRecord DEF NoSegments

\* What the streams find behind the handshake, in the packet or in the buffer.
LEMMA SegmentsReadType ==
    ASSUME BufferInv, NEW h \in Host, tick.packet \in SentPacket
    PROVE  /\ SegmentsRead(h).reliable \in Seq(SegmentMessage)
           /\ SegmentsRead(h).unreliable \in USegment
           /\ SegmentsRead(h).unreliable.message_count
                \in 0 .. Len(SegmentsRead(h).unreliable.messages)
  <1> DEFINE packet == tick.packet
             buffer == m_network_buffer[h]
  <1>1. buffer \in [Place -> LeftSegments] /\ LetsConnectBytes \in Place
    BY NeptunConstants DEF BufferInv, Place, LetsConnectBytes
  <1>2. [reliable |-> packet.reliable, unreliable |-> packet.unreliable] \in LeftSegments
    BY PacketFields, LeftRecord
  <1>3. LeftOvers(buffer) \in LeftSegments
    <2> DEFINE first == buffer[LetsConnectBytes]
               next == LetsConnectBytes + ReliableLength(first.reliable)
               rest == IF next \in Place THEN buffer[next].unreliable ELSE NoUnreliable
    <2>1. first.reliable \in Seq(SegmentMessage)
      BY <1>1, LeftFields
    <2> HIDE DEF next, buffer
    <2>2. rest \in USegment /\ rest.message_count <= Len(rest.messages)
      <3>1. CASE next \in Place
        <4>1. rest = buffer[next].unreliable /\ buffer[next] \in LeftSegments
          BY <1>1, <3>1
        <4> QED BY <4>1 DEF LeftSegments, Segments
      <3>2. CASE next \notin Place
        BY <3>2, NothingLeft
      <3> QED BY <3>1, <3>2
    <2>3. LeftOvers(buffer) = [reliable |-> first.reliable, unreliable |-> rest]
      BY DEF LeftOvers, next
    <2> HIDE DEF rest, first
    <2> QED BY <2>1, <2>2, <2>3, LeftRecord
  <1>4. SegmentsRead(h) \in LeftSegments
    BY <1>2, <1>3, NothingLeft DEF SegmentsRead
  <1> QED BY <1>4, LeftFields

\* What a packet leaves in the buffer.
LEMMA OverwrittenType ==
    ASSUME NEW buffer \in [Place -> LeftSegments], NEW packet \in SentPacket, NEW end
    PROVE  Overwritten(buffer, packet, end) \in [Place -> LeftSegments]
  <1> DEFINE reliable(at) == IF at = ReliablePlace(packet) THEN packet.reliable ELSE << >>
             unreliable(at) == IF at = UnreliablePlace(packet) THEN packet.unreliable
                               ELSE NoUnreliable
             new(at) == IF at >= end THEN buffer[at]
                        ELSE [reliable |-> reliable(at), unreliable |-> unreliable(at)]
  <1>1. ASSUME NEW at \in Place PROVE new(at) \in LeftSegments
    <2>1. reliable(at) \in Seq(SegmentMessage)
      BY PacketFields, NothingLeft
    <2>2. /\ unreliable(at) \in USegment
          /\ unreliable(at).message_count <= Len(unreliable(at).messages)
      BY PacketFields, NothingLeft
    <2> HIDE DEF reliable, unreliable
    <2>3. [reliable |-> reliable(at), unreliable |-> unreliable(at)] \in LeftSegments
      BY <2>1, <2>2, LeftRecord
    <2>4. buffer[at] \in LeftSegments
      OBVIOUS
    <2> QED BY <2>3, <2>4
  <1>2. Overwritten(buffer, packet, end) = [at \in Place |-> new(at)]
    BY DEF Overwritten
  <1> HIDE DEF new
  <1> QED BY <1>1, <1>2

LEMMA BaseReadSegments ==
    ASSUME BaseInv, BufferInv, NEW h \in Host, ReadSegments(h)
    PROVE  BaseInv'
  <1> DEFINE packet == tick.packet
             found == SegmentsRead(h)
             got == UnreliableRead(found.unreliable)
             new == IF found.reliable = << >> THEN NoCall
                    ELSE ReadCall(packet.header.id, found.reliable)
  <1>1. /\ tick.host = h /\ tick.stage = "segments" /\ call[h].op = "none"
        /\ call' = [call EXCEPT ![h] = new]
        /\ UNCHANGED <<m_buffer, in_flight_messages, pending_messages,
                       m_next_outgoing_sequence_number, m_next_expected_sequence_number>>
        /\ udelivered' = [udelivered EXCEPT ![h] = @ \o got]
        /\ tick' = [tick EXCEPT !.stage = "write", !.packet = NoPacket]
        /\ UNCHANGED <<pdmVars, cmVars, unreliableVars, now, network, has_peer,
                       submitted, delivered, usubmitted>>
    BY DEF ReadSegments, InStage, StreamRead
  <1>2. tick \in TickState /\ packet \in SentPacket /\ has_peer[h] /\ tick.statuses = << >>
    BY <1>1 DEF BaseInv, TickInv
  <1>3. PdmTypeOK' /\ CmTypeOK' /\ NetTypeOK'
    BY <1>1, PdmFrame, CmFrame, NetFrame
  <1>4. SpansTypeOK' /\ \A g \in Host : SpansInv(g)'
    BY <1>1, SpansFrame
  <1>5. /\ packet.header.id \in PacketId /\ found.reliable \in Seq(SegmentMessage)
        /\ found.unreliable \in USegment
        /\ found.unreliable.message_count \in 0 .. Len(found.unreliable.messages)
    BY <1>2, PacketFields, SegmentsReadType
  <1> HIDE DEF found
  <1>6. /\ new \in Call /\ new.op \in {"none", "read"}
        /\ new.op = "read" => new.messages # << >>
    <2>1. CASE found.reliable = << >>
      BY <2>1, NoCallType DEF NoCall
    <2>2. CASE found.reliable # << >>
      <3>1. new = ReadCall(packet.header.id, found.reliable)
        BY <2>2
      <3>2. new \in Call
        BY <1>5, <3>1, ReadCallType
      <3> QED BY <2>2, <3>1, <3>2 DEF ReadCall
    <2> QED BY <2>1, <2>2
  <1>7. got \in Seq(Seq(Nat))
    BY <1>5, UnreliableReadProperties
  <1> HIDE DEF new, got, packet
  <1>8. call' \in [Host -> Call] /\ call'[h] = new /\ \A g \in Host \ {h} : call'[g] = call[g]
    BY <1>1, <1>6 DEF BaseInv, StreamTypeOK
  <1>9. StreamTypeOK' /\ \A g \in Host : StreamInv(g)'
    <2>1. m_next_expected_sequence_number' \in [Host -> 0 .. SequenceModulus - 1]
      BY <1>1 DEF BaseInv, StreamTypeOK
    <2> QED BY <1>1, <1>8, <2>1, StreamFrame
  <1>10. HistoryTypeOK'
    <2>1. udelivered[h] \o got \in Seq(Seq(Nat))
      BY <1>7, TypesAt, ConcatIndices
    <2> QED BY <1>1, <2>1 DEF BaseInv, HistoryTypeOK
  <1>11. TickInv'
    <2>1. tick' = [host |-> h, stage |-> "write", statuses |-> << >>, packet |-> NoPacket]
      <3>1. tick' = Moved(tick, "write", NoPacket)
        BY ONLY <1>1, Zenon DEF Moved
      <3> QED BY <1>1, <1>2, <3>1, TickUpdates
    <2>2. tick' \in TickState
      BY <1>2, <2>1, TickFields DEF TickState, Stage
    <2>3. has_peer'[h]
      BY <1>1, <1>2
    <2>4. \A g \in Host \ {h} : call'[g].op = "none"
      BY <1>1, <1>8 DEF BaseInv, TickInv
    <2> QED BY <1>6, <1>8, <2>1, <2>2, <2>3, <2>4 DEF TickInv
  <1> QED BY <1>3, <1>4, <1>9, <1>10, <1>11 DEF BaseInv

LEMMA BaseReadReliableMessage ==
    ASSUME BaseInv, NEW h \in Host, ReadReliableMessage(h)
    PROVE  BaseInv'
  <1> DEFINE message == Head(call[h].messages)
             rest == Tail(call[h].messages)
             new == IF rest = << >> THEN NoCall ELSE ReadCall(call[h].id, rest)
             number == IF IsNext(h, message)
                       THEN (m_next_expected_sequence_number[h] + 1) % SequenceModulus
                       ELSE m_next_expected_sequence_number[h]
             got == IF IsNext(h, message) THEN Append(delivered[h], message.payload)
                    ELSE delivered[h]
  <1>1. /\ tick.host = h /\ call[h].op = "read"
        /\ call' = [call EXCEPT ![h] = new]
        /\ m_next_expected_sequence_number' =
             [m_next_expected_sequence_number EXCEPT ![h] = number]
        /\ delivered' = [delivered EXCEPT ![h] = got]
        /\ UNCHANGED <<m_buffer, in_flight_messages, pending_messages,
                       m_next_outgoing_sequence_number>>
        /\ UNCHANGED <<pdmVars, cmVars, unreliableVars, now, network, has_peer, tick,
                       submitted, usubmitted, udelivered>>
    BY DEF ReadReliableMessage, ReadMessage
  <1>2. call[h].messages # << >> /\ tick.stage = "write" /\ has_peer[h]
    BY <1>1 DEF BaseInv, TickInv
  <1>3. call[h].id \in PacketId /\ call[h].messages \in Seq(SegmentMessage)
    BY TypesAt DEF Call
  <1>4. rest \in Seq(SegmentMessage) /\ message \in SegmentMessage
    BY <1>2, <1>3, TailProperties
  <1>5. /\ new \in Call /\ new.op \in {"none", "read"}
        /\ new.op = "read" => new.messages # << >>
    <2>1. CASE rest = << >>
      BY <2>1, NoCallType DEF NoCall
    <2>2. CASE rest # << >>
      <3>1. new = ReadCall(call[h].id, rest)
        BY <2>2
      <3>2. new \in Call
        BY <1>3, <1>4, <3>1, ReadCallType
      <3> QED BY <2>2, <3>1, <3>2 DEF ReadCall
    <2> QED BY <2>1, <2>2
  <1>6. number \in 0 .. SequenceModulus - 1
    <2>1. m_next_expected_sequence_number[h] \in 0 .. SequenceModulus - 1
      BY TypesAt
    <2>2. m_next_expected_sequence_number[h] + 1 \in Nat
      BY <2>1, SequenceModulusIsPos
    <2>3. (m_next_expected_sequence_number[h] + 1) % SequenceModulus \in 0 .. SequenceModulus - 1
      BY <2>2, SequenceNumbers
    <2> QED BY <2>1, <2>3
  <1>7. got \in Seq(Seq(Nat))
    <2>1. message.payload \in Seq(Nat)
      BY <1>4 DEF SegmentMessage
    <2>2. delivered[h] \in Seq(Seq(Nat))
      BY TypesAt
    <2> HIDE DEF message
    <2>3. Append(delivered[h], message.payload) \in Seq(Seq(Nat))
      BY <2>1, <2>2
    <2> QED BY <2>2, <2>3
  <1> HIDE DEF new, number, got, rest, message
  <1>8. call' \in [Host -> Call] /\ call'[h] = new /\ \A g \in Host \ {h} : call'[g] = call[g]
    BY <1>1, <1>5 DEF BaseInv, StreamTypeOK
  <1>9. StreamTypeOK' /\ \A g \in Host : StreamInv(g)'
    <2>1. m_next_expected_sequence_number' \in [Host -> 0 .. SequenceModulus - 1]
      BY <1>1, <1>6 DEF BaseInv, StreamTypeOK
    <2> QED BY <1>1, <1>8, <2>1, StreamFrame
  <1>10. HistoryTypeOK'
    BY <1>1, <1>7 DEF BaseInv, HistoryTypeOK
  <1>11. PdmTypeOK' /\ CmTypeOK' /\ NetTypeOK'
    BY <1>1, PdmFrame, CmFrame, NetFrame
  <1>12. SpansTypeOK' /\ \A g \in Host : SpansInv(g)'
    BY <1>1, SpansFrame
  <1>13. TickInv'
    BY <1>1, <1>2, <1>5, <1>8 DEF BaseInv, TickInv
  <1> QED BY <1>9, <1>10, <1>11, <1>12, <1>13 DEF BaseInv

\* What write puts into the header and the handshake of a packet.
LEMMA HeaderType ==
    ASSUME BaseInv, NEW h \in Host, NEW a, AcksFit(h, a)
    PROVE  HeaderToWrite(h, a) \in PacketHeader /\ HandshakeToWrite(h) \in Handshake
  <1> DEFINE acks == m_pending_acks[h]
             number == IF acks = << >> THEN 0 ELSE acks[1]
             bits == {AckOffset(h, i) : i \in 1 .. a}
  <1>1. acks \in Seq(PacketId) /\ a \in 0 .. Len(acks) /\ \A i \in 1 .. a : AckOffset(h, i) < AckWindow
    BY TypesAt DEF AcksFit
  <1>2. number \in PacketId
    BY <1>1, PacketConstants DEF PacketId
  <1>3. ASSUME NEW i \in 1 .. a PROVE AckOffset(h, i) \in 0 .. AckWindow - 1
    <2>1. acks[i] \in PacketId /\ acks[1] \in PacketId
      BY <1>1
    <2>2. AckOffset(h, i) \in PacketId
      BY <2>1, IdsAreNumbers DEF AckOffset
    <2> QED BY <1>1, <2>2, PacketConstants DEF PacketId
  <1>4. bits \in SUBSET (0 .. AckWindow - 1)
    BY <1>3
  <1>5. m_next_outgoing_packet_id[h] \in PacketId
    BY TypesAt
  <1>6. HeaderToWrite(h, a) = [id |-> m_next_outgoing_packet_id[h],
                               ack_sequence_number |-> number, ack_bitmask |-> bits]
    BY DEF HeaderToWrite
  <1> HIDE DEF number, bits, acks
  <1>7. HeaderToWrite(h, a) \in PacketHeader
    BY <1>2, <1>4, <1>5, <1>6 DEF PacketHeader
  <1>8. HandshakeToWrite(h) \in Handshake
    BY DEF HandshakeToWrite, Handshake
  <1> QED BY <1>7, <1>8

LEMMA PdmWriteTypes ==
    ASSUME BaseInv, NEW h \in Host, NEW a, PdmWrite(h, now, a)
    PROVE  PdmTypeOK'
  <1> DEFINE next == (m_next_outgoing_packet_id[h] + 1) % IdModulus
             packet == [id |-> m_next_outgoing_packet_id[h], time_dispatched |-> now]
             flight == Append(m_in_flight_packets[h], packet)
             acks == Popped(m_pending_acks[h], a)
  <1>1. next \in PacketId
    BY TypesAt, IdsAreNumbers
  <1>2. flight \in Seq(InFlightPacket)
    <2>1. now \in Nat
      BY DEF BaseInv, NetTypeOK
    <2>2. packet \in InFlightPacket
      BY <2>1, TypesAt DEF InFlightPacket
    <2> HIDE DEF packet
    <2> QED BY <2>2, TypesAt
  <1>3. acks \in Seq(PacketId)
    BY TypesAt, PoppedProperties DEF PdmWrite, AcksFit
  <1>4. /\ m_next_outgoing_packet_id' = [m_next_outgoing_packet_id EXCEPT ![h] = next]
        /\ m_in_flight_packets' = [m_in_flight_packets EXCEPT ![h] = flight]
        /\ m_pending_acks' = [m_pending_acks EXCEPT ![h] = acks]
        /\ m_next_expected_packet_id' = m_next_expected_packet_id
    BY DEF PdmWrite
  <1> HIDE DEF next, flight, acks
  <1> QED BY <1>1, <1>2, <1>3, <1>4 DEF BaseInv, PdmTypeOK

LEMMA CmWriteTypes ==
    ASSUME BaseInv, NEW h \in Host, NEW id \in PacketId, CmWrite(h, id)
    PROVE  CmTypeOK'
  <1> DEFINE queue == Append(m_in_flight_lets_connect[h], id)
  <1>1. queue \in Seq(PacketId)
    BY TypesAt
  <1>2. /\ m_num_lets_connect_to_send \in [Host -> Nat]
        /\ m_in_flight_lets_connect \in [Host -> Seq(PacketId)]
        /\ m_underflow \in [Host -> Nat]
    BY DEF BaseInv, CmTypeOK
  <1>3. \/ m_num_lets_connect_to_send' = m_num_lets_connect_to_send
        \/ /\ m_num_lets_connect_to_send[h] > 0
           /\ m_num_lets_connect_to_send' = [m_num_lets_connect_to_send EXCEPT
                                               ![h] = m_num_lets_connect_to_send[h] - 1]
    BY DEF CmWrite
  <1>4. \/ m_in_flight_lets_connect' = m_in_flight_lets_connect
        \/ m_in_flight_lets_connect' = [m_in_flight_lets_connect EXCEPT ![h] = queue]
    BY Zenon DEF CmWrite
  <1>5. \/ m_underflow' = m_underflow
        \/ /\ m_underflow[h] > 0
           /\ m_underflow' = [m_underflow EXCEPT ![h] = m_underflow[h] - 1]
    BY DEF CmWrite
  <1>6. m_num_lets_connect_to_send' \in [Host -> Nat]
    <2>1. m_num_lets_connect_to_send[h] > 0 => m_num_lets_connect_to_send[h] - 1 \in Nat
      BY <1>2
    <2> QED BY <1>2, <1>3, <2>1
  <1> HIDE DEF queue
  <1>7. m_in_flight_lets_connect' \in [Host -> Seq(PacketId)]
    BY <1>1, <1>2, <1>4
  <1>8. m_underflow' \in [Host -> Nat]
    <2>1. m_underflow[h] > 0 => m_underflow[h] - 1 \in Nat
      BY <1>2
    <2> QED BY <1>2, <1>5, <2>1
  <1> QED BY <1>6, <1>7, <1>8 DEF BaseInv, CmTypeOK, CmWrite

LEMMA StreamWriteKeeps ==
    ASSUME BaseInv, NEW h \in Host, NEW id \in PacketId, NEW room, NEW r,
           StreamWrite(h, id, room, r), submitted' = submitted
    PROVE  /\ StreamTypeOK' /\ \A g \in Host : StreamInv(g)'
           /\ SegmentToWrite(h, r) \in Seq(SegmentMessage)
           /\ \A i \in 1 .. Len(SegmentToWrite(h, r)) :
                IsMessage(SegmentToWrite(h, r)[i], submitted[h])
  <1> DEFINE flight == in_flight_messages[h]
             pending == pending_messages[h]
             buffer == m_buffer[h]
             count == submitted[h]
             went == flight \o [i \in 1 .. r |-> [packet_id |-> id, message |-> pending[i]]]
             left == SubSeq(pending, r + 1, Len(pending))
             segment == SegmentToWrite(h, r)
  <1>1. /\ flight \in Seq(InFlightMessage) /\ pending \in Seq(Message)
        /\ buffer \in Buffer /\ count \in Nat
    BY TypesAt
  <1>2. Laid(flight, pending, buffer, count)
    BY DEF BaseInv, StreamInv
  <1>3. /\ r \in 0 .. Len(pending)
        /\ in_flight_messages' = [in_flight_messages EXCEPT ![h] = went]
        /\ pending_messages' = [pending_messages EXCEPT ![h] = left]
        /\ UNCHANGED <<m_buffer, m_next_outgoing_sequence_number,
                       m_next_expected_sequence_number, call>>
    BY DEF StreamWrite, MessagesFit
  <1>4. /\ segment = [i \in 1 .. r |->
               [sequence_number |-> pending[i].sequence_number,
                payload |-> BytesAt(buffer, pending[i].begin, pending[i].end)]]
        /\ went = FlightAfter(flight, pending, id, r)
        /\ left = Popped(pending, r)
    BY DEF SegmentToWrite, FlightAfter, Popped
  <1> HIDE DEF flight, pending, buffer, count, went, left, segment
  <1>5. went \in Seq(InFlightMessage) /\ left \in Seq(Message) /\ Laid(went, left, buffer, count)
    <2>1. went = FlightAfter(flight, pending, id, r)
          /\ left = Popped(pending, r) /\ r \in 0 .. Len(pending)
      BY <1>3, <1>4
    <2> QED BY ONLY <1>1, <1>2, <2>1, id \in PacketId, LaidWrite
  <1>6. segment \in Seq(SegmentMessage) /\ \A i \in 1 .. Len(segment) : IsMessage(segment[i], count)
    <2>1. r \in 0 .. Len(pending)
      BY <1>3
    <2>2. segment = [i \in 1 .. r |->
               [sequence_number |-> pending[i].sequence_number,
                payload |-> BytesAt(buffer, pending[i].begin, pending[i].end)]]
      BY <1>4
    <2> QED BY ONLY <1>1, <1>2, <2>1, <2>2, LaidSegment
  <1>7. /\ pending_messages \in [Host -> Seq(Message)]
        /\ in_flight_messages \in [Host -> Seq(InFlightMessage)]
    BY DEF BaseInv, StreamTypeOK
  <1>8. /\ pending_messages' \in [Host -> Seq(Message)]
        /\ in_flight_messages' \in [Host -> Seq(InFlightMessage)]
        /\ pending_messages'[h] = left /\ in_flight_messages'[h] = went
        /\ \A g \in Host \ {h} : /\ pending_messages'[g] = pending_messages[g]
                                 /\ in_flight_messages'[g] = in_flight_messages[g]
    BY ONLY <1>3, <1>5, <1>7, h \in Host
  <1>9. StreamTypeOK'
    BY <1>3, <1>8 DEF BaseInv, StreamTypeOK
  <1>10. \A g \in Host : StreamInv(g)
    BY DEF BaseInv
  <1>11. StreamInv(h)'
    BY <1>3, <1>5, <1>8, <1>10 DEF StreamInv, buffer, count
  <1>12. ASSUME NEW g \in Host \ {h} PROVE StreamInv(g)'
    BY <1>3, <1>8, <1>10 DEF StreamInv
  <1> QED BY <1>6, <1>9, <1>11, <1>12 DEF segment, count

LEMMA UnreliableWriteKeeps ==
    ASSUME BaseInv, NEW h \in Host, NEW room, NEW u,
           UnreliableWrite(h, room, u), usubmitted' = usubmitted
    PROVE  /\ SpansTypeOK' /\ \A g \in Host : SpansInv(g)'
           /\ USegmentToWrite(h, u) \in USegment
           /\ u \in 0 .. Len(m_pending_messages[h])
           /\ Len(USegmentToWrite(h, u).messages) = u
           /\ USegmentToWrite(h, u).message_count \in 0 .. u
           /\ \A i \in 1 .. u : USegmentToWrite(h, u).messages[i] =
                                  <<(usubmitted[h] - Len(m_pending_messages[h])) + i>>
           /\ Len(m_pending_messages[h]) <= usubmitted[h]
  <1> DEFINE spans == m_pending_messages[h]
             buffer == m_unreliable_buffer[h]
             count == usubmitted[h]
             left == Flip(Consume(buffer, PayloadBytes(spans, u)))
             segment == USegmentToWrite(h, u)
  <1>1. spans \in Seq(Span) /\ buffer \in Buffer /\ count \in Nat
    BY TypesAt
  <1>2. SpansLaid(spans, buffer, count)
    BY DEF BaseInv, SpansInv
  <1>3. /\ u \in 0 .. Len(spans)
        /\ \/ UNCHANGED unreliableVars
           \/ /\ u > 0
              /\ m_unreliable_buffer' = [m_unreliable_buffer EXCEPT ![h] = left]
              /\ m_pending_messages' = [m_pending_messages EXCEPT ![h] = << >>]
    BY DEF UnreliableWrite, UMessagesFit
  <1>4. segment = SegmentOfSpans(spans, buffer, u)
        /\ left = Flip(Consume(buffer, PayloadBytes(spans, u)))
    BY DEF USegmentToWrite, SegmentOfSpans, Payloads
  <1> HIDE DEF spans, buffer, count, left, segment
  <1>5. /\ segment \in USegment
        /\ Len(segment.messages) = u
        /\ segment.message_count \in 0 .. u
        /\ \A i \in 1 .. u : segment.messages[i] = <<(count - Len(spans)) + i>>
        /\ Len(spans) <= count
    <2>1. u \in 0 .. Len(spans)
      BY <1>3
    <2>2. segment = SegmentOfSpans(spans, buffer, u)
      BY <1>4
    <2>3. OldestOf(segment, u, Len(spans), count)
      BY ONLY <1>1, <1>2, <2>1, <2>2, SpansSegment
    <2> QED BY ONLY <2>3 DEF OldestOf
  <1>6. SpansTypeOK' /\ \A g \in Host : SpansInv(g)'
    <2>1. CASE UNCHANGED unreliableVars
      BY <2>1, SpansFrame
    <2>2. CASE /\ u > 0
               /\ m_unreliable_buffer' = [m_unreliable_buffer EXCEPT ![h] = left]
               /\ m_pending_messages' = [m_pending_messages EXCEPT ![h] = << >>]
      <3>1. u \in 1 .. Len(spans)
        BY <1>1, <1>3, <2>2
      <3>2. left = Flip(Consume(buffer, PayloadBytes(spans, u)))
        BY <1>4
      <3>3. left \in Buffer /\ SpansLaid(<< >>, left, count)
        BY ONLY <1>1, <1>2, <3>1, <3>2, SpansWrite
      <3>4. << >> \in Seq(Span)
        OBVIOUS
      <3>5. /\ m_unreliable_buffer \in [Host -> Buffer]
            /\ m_pending_messages \in [Host -> Seq(Span)]
        BY DEF BaseInv, SpansTypeOK
      <3>6. /\ m_unreliable_buffer' \in [Host -> Buffer]
            /\ m_pending_messages' \in [Host -> Seq(Span)]
            /\ m_unreliable_buffer'[h] = left /\ m_pending_messages'[h] = << >>
            /\ \A g \in Host \ {h} : /\ m_unreliable_buffer'[g] = m_unreliable_buffer[g]
                                     /\ m_pending_messages'[g] = m_pending_messages[g]
        BY ONLY <2>2, <3>3, <3>4, <3>5, h \in Host
      <3>7. \A g \in Host : SpansInv(g)
        BY DEF BaseInv
      <3>8. SpansInv(h)'
        BY <3>3, <3>4, <3>6 DEF SpansInv, count
      <3>9. ASSUME NEW g \in Host \ {h} PROVE SpansInv(g)'
        BY <3>6, <3>7 DEF SpansInv
      <3> QED BY <3>6, <3>8, <3>9 DEF SpansTypeOK
    <2> QED BY <1>3, <2>1, <2>2
  <1> QED BY <1>3, <1>5, <1>6 DEF segment, count, spans

\* The packet that h writes.
PacketToWrite(h, a, r, u) ==
    [header |-> HeaderToWrite(h, a), handshake |-> HandshakeToWrite(h),
     reliable |-> SegmentToWrite(h, r), unreliable |-> USegmentToWrite(h, u)]

\* What WritePacket does, and what is known of the packet.
LEMMA Written ==
    ASSUME BaseInv, NEW h \in Host, WritePacket(h)
    PROVE  \E a \in 0 .. Len(m_pending_acks[h]), r \in 0 .. Len(pending_messages[h]),
              u \in 0 .. Len(m_pending_messages[h]) :
             /\ PdmWrite(h, now, a) /\ AcksFit(h, a)
             /\ CmWrite(h, m_next_outgoing_packet_id[h])
             /\ StreamWrite(h, m_next_outgoing_packet_id[h], StreamRoom(h), r)
             /\ UnreliableWrite(h, StreamRoom(h) - ReliableBytes(h, r), u)
             /\ SendTo(Other(h), PacketToWrite(h, a, r, u))
             /\ m_network_buffer' = [m_network_buffer EXCEPT ![h] =
                  Overwritten(@, PacketToWrite(h, a, r, u), WrittenEnd(PacketToWrite(h, a, r, u)))]
             /\ PacketToWrite(h, a, r, u) \in SentPacket
             /\ \A i \in 1 .. Len(PacketToWrite(h, a, r, u).reliable) :
                  IsMessage(PacketToWrite(h, a, r, u).reliable[i], submitted[h])
             /\ Len(PacketToWrite(h, a, r, u).unreliable.messages) = u
             /\ \A i \in 1 .. u : PacketToWrite(h, a, r, u).unreliable.messages[i] =
                                    <<(usubmitted[h] - Len(m_pending_messages[h])) + i>>
             /\ Len(m_pending_messages[h]) <= usubmitted[h]
  <1>1. PICK a \in 0 .. Len(m_pending_acks[h]), r \in 0 .. Len(pending_messages[h]),
             u \in 0 .. Len(m_pending_messages[h]) :
          /\ PdmWrite(h, now, a)
          /\ CmWrite(h, m_next_outgoing_packet_id[h])
          /\ StreamWrite(h, m_next_outgoing_packet_id[h], StreamRoom(h), r)
          /\ UnreliableWrite(h, StreamRoom(h) - ReliableBytes(h, r), u)
          /\ SendTo(Other(h), PacketToWrite(h, a, r, u))
          /\ m_network_buffer' = [m_network_buffer EXCEPT ![h] =
               Overwritten(@, PacketToWrite(h, a, r, u), WrittenEnd(PacketToWrite(h, a, r, u)))]
    BY DEF WritePacket, PacketToWrite
  <1> DEFINE packet == PacketToWrite(h, a, r, u)
  <1>2. submitted' = submitted /\ usubmitted' = usubmitted
    BY DEF WritePacket, historyVars
  <1>3. AcksFit(h, a)
    BY <1>1 DEF PdmWrite
  <1>4. HeaderToWrite(h, a) \in PacketHeader /\ HandshakeToWrite(h) \in Handshake
    BY <1>3, HeaderType
  <1>5. /\ SegmentToWrite(h, r) \in Seq(SegmentMessage)
        /\ \A i \in 1 .. Len(SegmentToWrite(h, r)) :
             IsMessage(SegmentToWrite(h, r)[i], submitted[h])
    BY <1>1, <1>2, TypesAt, StreamWriteKeeps
  <1>6. /\ USegmentToWrite(h, u) \in USegment
        /\ Len(USegmentToWrite(h, u).messages) = u
        /\ USegmentToWrite(h, u).message_count \in 0 .. u
        /\ \A i \in 1 .. u : USegmentToWrite(h, u).messages[i] =
                               <<(usubmitted[h] - Len(m_pending_messages[h])) + i>>
        /\ Len(m_pending_messages[h]) <= usubmitted[h]
    BY <1>1, <1>2, UnreliableWriteKeeps
  <1>7. /\ packet = [header |-> HeaderToWrite(h, a), handshake |-> HandshakeToWrite(h),
                     reliable |-> SegmentToWrite(h, r), unreliable |-> USegmentToWrite(h, u)]
        /\ SendTo(Other(h), packet)
    BY <1>1 DEF PacketToWrite
  <1>8. packet.reliable = SegmentToWrite(h, r) /\ packet.unreliable = USegmentToWrite(h, u)
    BY <1>7
  <1>9. packet \in SentPacket
    <2>1. packet \in Packet
      BY <1>4, <1>5, <1>6, <1>7 DEF Packet, USegment
    <2>2. packet.unreliable.message_count <= Len(packet.unreliable.messages)
      BY <1>6, <1>8
    <2> QED BY <2>1, <2>2 DEF SentPacket
  <1> QED BY <1>1, <1>3, <1>5, <1>6, <1>7, <1>8, <1>9

LEMMA BaseWritePacket ==
    ASSUME BaseInv, NEW h \in Host, WritePacket(h)
    PROVE  BaseInv'
  <1>1. PICK a, r, u :
          /\ PdmWrite(h, now, a)
          /\ CmWrite(h, m_next_outgoing_packet_id[h])
          /\ StreamWrite(h, m_next_outgoing_packet_id[h], StreamRoom(h), r)
          /\ UnreliableWrite(h, StreamRoom(h) - ReliableBytes(h, r), u)
          /\ SendTo(Other(h), PacketToWrite(h, a, r, u))
          /\ PacketToWrite(h, a, r, u) \in SentPacket
    BY Written
  <1> DEFINE packet == PacketToWrite(h, a, r, u)
             o == Other(h)
  <1>2. /\ tick.host = h /\ call[h].op = "none" /\ tick' = NotTicking
        /\ UNCHANGED <<now, has_peer, historyVars>>
    BY DEF WritePacket, InStage
  <1>3. m_next_outgoing_packet_id[h] \in PacketId
    BY TypesAt
  <1>4. HistoryTypeOK' /\ submitted' = submitted /\ usubmitted' = usubmitted
    BY <1>2, HistoryFrame
  <1>5. PdmTypeOK'
    BY <1>1, PdmWriteTypes
  <1>6. CmTypeOK'
    BY <1>1, <1>3, CmWriteTypes
  <1>7. StreamTypeOK' /\ \A g \in Host : StreamInv(g)'
    BY <1>1, <1>3, <1>4, StreamWriteKeeps
  <1>8. SpansTypeOK' /\ \A g \in Host : SpansInv(g)'
    BY <1>1, <1>4, UnreliableWriteKeeps
  <1>9. NetTypeOK'
    <2>1. packet \in SentPacket /\ SendTo(o, packet)
      BY <1>1
    <2> HIDE DEF packet
    <2>2. o \in Host /\ network[o] \in Seq(SentPacket)
      BY OtherHost, TypesAt
    <2> HIDE DEF o
    <2> DEFINE more == Append(network[o], packet)
    <2>3. more \in Seq(SentPacket)
      BY <2>1, <2>2
    <2>4. network' = [network EXCEPT ![o] = more] \/ network' = network
      BY <2>1 DEF SendTo
    <2> HIDE DEF more
    <2> QED BY <1>2, <2>2, <2>3, <2>4 DEF BaseInv, NetTypeOK
  <1>10. TickInv'
    BY <1>1, <1>2, TickEnds DEF StreamWrite
  <1> QED BY <1>4, <1>5, <1>6, <1>7, <1>8, <1>9, <1>10 DEF BaseInv

LEMMA BaseInit ==
    ASSUME Init
    PROVE  BaseInv
  <1>1. \A S : << >> \in Seq(S) /\ Len(<< >>) = 0
    OBVIOUS
  <1>2. PdmTypeOK
    BY <1>1, PacketConstants DEF Init, PdmInit, PdmTypeOK, PacketId
  <1>3. CmTypeOK
    BY <1>1, Owners DEF Init, CmInit, CmTypeOK, Limit
  <1>4. NewBuffer \in Buffer /\ NewBuffer.m_begin = 0 /\ NewBuffer.m_end = 0
    BY CapacityIsNat DEF NewBuffer, Buffer, NoByte
  <1>5. 0 \in 0 .. SequenceModulus - 1 /\ 0 % SequenceModulus = 0
    BY SequenceModulusIsPos
  <1>6. StreamTypeOK
    BY <1>1, <1>4, <1>5, Owners, NoCallType DEF Init, StreamInit, StreamTypeOK
  <1>7. SpansTypeOK
    BY <1>1, <1>4, Owners DEF Init, UnreliableInit, SpansTypeOK
  <1>8. NetTypeOK /\ HistoryTypeOK
    BY <1>1, NeptunConstants DEF Init, NetTypeOK, HistoryTypeOK
  <1>9. TickInv
    <2>1. tick = NotTicking /\ \A h \in Host : call[h] = NoCall
      BY Owners DEF Init, StreamInit
    <2>2. tick.stage = "none" /\ tick.statuses = << >> /\ NoCall.op = "none"
      BY <2>1 DEF NotTicking, NoCall
    <2> QED BY <2>1, <2>2, NoTick DEF TickInv
  <1>10. ASSUME NEW h \in Host PROVE StreamInv(h) /\ SpansInv(h)
    <2>1. /\ m_buffer[h] = NewBuffer /\ in_flight_messages[h] = << >>
          /\ pending_messages[h] = << >> /\ m_next_outgoing_sequence_number[h] = 0
          /\ m_unreliable_buffer[h] = NewBuffer /\ m_pending_messages[h] = << >>
          /\ submitted[h] = 0 /\ usubmitted[h] = 0
      BY Owners DEF Init, StreamInit, UnreliableInit
    <2>2. Laid(<< >>, << >>, NewBuffer, 0)
      <3>1. Given(<< >>, << >>, 0) = 0 /\ \A i \in 1 .. 0 : FALSE
        <4>1. Len(<< >>) = 0
          OBVIOUS
        <4>2. Given(<< >>, << >>, 0) = 0 - 0 - 0
          BY ONLY <4>1, Zenon DEF Given
        <4>3. \A i \in 1 .. 0 : FALSE
          BY ONLY TRUE
        <4> QED BY ONLY <4>2, <4>3
      <3>2. 0 + Len(<< >>) + Len(<< >>) = 0
        BY <1>1
      <3> QED BY <1>1, <1>4, <3>1, <3>2 DEF Laid
    <2>3. SpansLaid(<< >>, NewBuffer, 0)
      BY <1>1, <1>4 DEF SpansLaid
    <2> QED BY <1>1, <1>4, <1>5, <2>1, <2>2, <2>3 DEF StreamInv, SpansInv
  <1> QED BY <1>2, <1>3, <1>6, <1>7, <1>8, <1>9, <1>10 DEF BaseInv

LEMMA BufferInit ==
    ASSUME Init
    PROVE  BufferInv
  BY NothingLeft DEF Init, BufferInv

\* Only a packet that is read or written changes the buffer.
LEMMA BufferStep ==
    ASSUME BaseInv, BufferInv, [Next]_vars
    PROVE  BufferInv'
  <1>1. CASE UNCHANGED m_network_buffer
    BY <1>1 DEF BufferInv
  <1>2. ASSUME NEW h \in Host, NEW packet \in SentPacket, NEW end,
               m_network_buffer' = [m_network_buffer EXCEPT
                 ![h] = Overwritten(@, packet, end)]
        PROVE  BufferInv'
    <2> DEFINE new == Overwritten(m_network_buffer[h], packet, end)
    <2>1. m_network_buffer[h] \in [Place -> LeftSegments]
      BY DEF BufferInv
    <2>2. new \in [Place -> LeftSegments]
      BY <2>1, OverwrittenType
    <2>3. m_network_buffer' = [m_network_buffer EXCEPT ![h] = new]
      BY <1>2
    <2> HIDE DEF new
    <2> QED BY <2>2, <2>3 DEF BufferInv
  <1>3. ASSUME NEW h \in Host, NEW i \in 1 .. Len(network[h]), ReadPacket(h, i)
        PROVE  BufferInv'
    <2>1. network[h][i] \in SentPacket
      BY TypesAt
    <2>2. m_network_buffer' = [m_network_buffer EXCEPT
            ![h] = Overwritten(@, network[h][i], PacketEnd(network[h][i]))]
      BY <1>3 DEF ReadPacket
    <2> QED BY <1>2, <2>1, <2>2
  <1>4. ASSUME NEW h \in Host, WritePacket(h) PROVE BufferInv'
    <2>1. PICK a, r, u :
            /\ m_network_buffer' = [m_network_buffer EXCEPT ![h] =
                 Overwritten(@, PacketToWrite(h, a, r, u), WrittenEnd(PacketToWrite(h, a, r, u)))]
            /\ PacketToWrite(h, a, r, u) \in SentPacket
      BY <1>4, Written
    <2> QED BY <1>2, <2>1
  <1>5. ASSUME NEW h \in Host, Tick(h) PROVE BufferInv'
    BY <1>1, <1>3, <1>4, <1>5
       DEF Tick, TickBegin, ProcessStatus, PopAckedMessage, Hang, ReadNothing, ReadFails,
           ReadHandshake, IgnoreSegments, ReadSegments, ReadReliableMessage, HoldPacket,
           NoPeerToWriteTo
  <1> QED BY <1>1, <1>5 DEF Next, Elapse, Connect, SendReliable, SendUnreliable, Lose, vars

LEMMA BaseStep ==
    ASSUME BaseInv, BufferInv, [Next]_vars
    PROVE  BaseInv'
  <1>1. CASE Elapse
    BY <1>1, BaseElapse
  <1>2. ASSUME NEW h \in Initiators, Connect(h) PROVE BaseInv'
    BY <1>2, BaseConnect
  <1>3. ASSUME NEW h \in Senders, SendReliable(h) \/ SendUnreliable(h) PROVE BaseInv'
    <2>1. h \in Host
      BY NeptunConstants
    <2> QED BY <1>3, <2>1, BaseSendReliable, BaseSendUnreliable
  <1>4. ASSUME NEW h \in Host, NEW i \in 1 .. Len(network[h]), Lose(h, i) PROVE BaseInv'
    BY <1>4, BaseLose
  <1>5. ASSUME NEW h \in Host, Tick(h) PROVE BaseInv'
    BY <1>5, BaseTickBegin, BaseProcessStatus, BasePopAckedMessage, BaseHang, BaseReadNothing,
       BaseReadFails, BaseReadPacket, BaseReadHandshake, BaseIgnoreSegments, BaseReadSegments,
       BaseReadReliableMessage, BaseWritePacket, BaseHoldPacket, BaseNoPeerToWriteTo DEF Tick
  <1>6. CASE UNCHANGED vars
    <2>1. /\ UNCHANGED <<pdmVars, cmVars, streamVars, unreliableVars, now, network, has_peer,
                         historyVars>>
          /\ tick' = tick
      BY <1>6 DEF vars
    <2>2. TickInv'
      BY <2>1, TickFrame DEF streamVars
    <2> QED BY <2>1, <2>2, TickMoves
  <1> QED BY <1>1, <1>2, <1>3, <1>4, <1>5, <1>6 DEF Next

LEMMA BaseTypes ==
    ASSUME BaseInv, BufferInv
    PROVE  TypeOK
  <1>1. PdmTypeOK
    BY DEF BaseInv
  <1>2. /\ m_in_flight_lets_connect \in [Host -> Seq(PacketId)]
        /\ m_underflow \in [Host -> Nat]
        /\ m_num_lets_connect_to_send \in [Host -> Nat]
        /\ m_peer_bandwidth_limit \in [Host -> Limit]
    BY DEF BaseInv, CmTypeOK
  <1>3. {is_fail, m_is_initiator, m_self_is_connected, m_hangs, has_peer}
          \subseteq [Host -> BOOLEAN]
    BY Zenon DEF BaseInv, CmTypeOK, NetTypeOK
  <1>4. /\ m_buffer \in [Host -> Buffer] /\ m_unreliable_buffer \in [Host -> Buffer]
        /\ in_flight_messages \in [Host -> Seq([packet_id : PacketId, message : Message])]
        /\ pending_messages \in [Host -> Seq(Message)]
        /\ m_next_outgoing_sequence_number \in [Host -> 0 .. SequenceModulus - 1]
        /\ m_next_expected_sequence_number \in [Host -> 0 .. SequenceModulus - 1]
        /\ m_pending_messages \in [Host -> Seq([begin : 0 .. Capacity, end : 0 .. Capacity])]
        /\ call \in [Host -> [op : {"none", "ack", "read"}, id : PacketId,
                              messages : Seq(SegmentMessage)]]
    BY Zenon DEF BaseInv, StreamTypeOK, SpansTypeOK, InFlightMessage, Span, Call
  <1>5. \A s : s \in Seq(SentPacket) => s \in Seq(Packet)
    <2>1. SentPacket \subseteq Packet
      BY DEF SentPacket
    <2> QED BY <2>1
  <1>6. network \in [Host -> Seq(Packet)] /\ now \in 0 .. MaxTime
    <2>1. network \in [Host -> Seq(SentPacket)] /\ now \in 0 .. MaxTime
      BY DEF BaseInv, NetTypeOK
    <2> QED BY <1>5, <2>1
  <1>7. /\ tick.host \in Host \cup {"none"}
        /\ tick.stage \in {"none", "old", "acks", "segments", "write"}
        /\ tick.statuses \in Seq(DeliveryStatus)
        /\ tick.packet \in Packet \cup {NoPacket}
    <2>1. tick \in TickState
      BY DEF BaseInv, TickInv
    <2> QED BY <2>1, TickFields DEF Stage, SentPacket
  <1>8. HistoryTypeOK
    BY DEF BaseInv
  <1>9. m_network_buffer \in [Host -> [Place -> Segments]]
    <2>1. LeftSegments \subseteq Segments
      BY DEF LeftSegments
    <2> QED BY <2>1 DEF BufferInv
  <1> QED BY <1>1, <1>2, <1>3, <1>4, <1>6, <1>7, <1>8, <1>9, Zenon DEF TypeOK, HistoryTypeOK

LEMMA BaseHolds == Spec => []BaseInv /\ []BufferInv
  <1>1. Init => BaseInv /\ BufferInv
    BY BaseInit, BufferInit
  <1>2. BaseInv /\ BufferInv /\ [Next]_vars => BaseInv' /\ BufferInv'
    BY BaseStep, BufferStep
  <1> QED BY <1>1, <1>2, PTL DEF Spec

\* Every member of the objects of both hosts keeps its type, whatever the network
\* loses, reorders or duplicates and however a tick ends (neptun.h:47-129).
THEOREM TypeCorrect == Spec => []TypeOK
  BY BaseHolds, BaseTypes, PTL
=============================================================================
