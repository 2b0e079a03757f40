------------------------ MODULE NeptunDeliveryProofs ------------------------
(***************************************************************************)
(* Proofs about what two Neptun objects deliver (module Neptun): the        *)
(* messages of both streams arrive in the order they were sent, and over a  *)
(* network that keeps the order of packets tick tells the reliable stream   *)
(* the fates of packets in their order, as the stream asserts.  Then the    *)
(* handshake: what a host believes of it is true, and it never gets stuck.  *)
(***************************************************************************)
EXTENDS NeptunProofs, SequenceTheorems

-----------------------------------------------------------------------------
(* Packets on their way.                                                     *)

\* The packets on their way to host h, and what was read of one.
Underway(h) == {network[h][i] : i \in 1 .. Len(network[h])}
Reading == tick.stage \in {"acks", "segments"}

LEMMA UnderwayTypes ==
    ASSUME BaseInv, NEW h \in Host, NEW packet \in Underway(h)
    PROVE  packet \in SentPacket
  <1>1. network[h] \in Seq(SentPacket)
    BY TypesAt
  <1> QED BY <1>1 DEF Underway

\* A packet that is removed leaves the others.
LEMMA RemovedMembers ==
    ASSUME NEW S, NEW s \in Seq(S), NEW i \in 1 .. Len(s), NEW j \in 1 .. Len(RemoveAt(s, i))
    PROVE  \E k \in 1 .. Len(s) : RemoveAt(s, i)[j] = s[k]
  <1> DEFINE n == Len(s)
             less == RemoveAt(s, i)
  <1>1. n \in Nat /\ i \in 1 .. n /\ Len(less) = n - 1
        /\ (\A k \in 1 .. i - 1 : less[k] = s[k])
        /\ (\A k \in i .. n - 1 : less[k] = s[k + 1])
    BY RemovedProperties
  <1> HIDE DEF n, less
  <1>2. j \in 1 .. n - 1
    BY <1>1 DEF less
  <1>3. CASE j < i
    <2>1. j \in 1 .. i - 1 /\ j \in 1 .. n
      BY <1>1, <1>2, <1>3
    <2>2. less[j] = s[j]
      BY <1>1, <2>1
    <2> QED BY <2>1, <2>2 DEF n, less
  <1>4. CASE ~(j < i)
    <2>1. j \in i .. n - 1 /\ j + 1 \in 1 .. n
      BY <1>1, <1>2, <1>4
    <2>2. less[j] = s[j + 1]
      BY <1>1, <2>1
    <2> QED BY <2>1, <2>2 DEF n, less
  <1> QED BY <1>3, <1>4

LEMMA UnderwayRemoved ==
    ASSUME BaseInv, NEW h \in Host, NEW i \in 1 .. Len(network[h]),
           network' = [network EXCEPT ![h] = RemoveAt(@, i)]
    PROVE  \A g \in Host : Underway(g)' \subseteq Underway(g)
  <1>1. network \in [Host -> Seq(SentPacket)]
    BY DEF BaseInv, NetTypeOK
  <1>2. network[h] \in Seq(SentPacket)
    BY <1>1
  <1>3. network'[h] = RemoveAt(network[h], i) /\ \A g \in Host \ {h} : network'[g] = network[g]
    BY <1>1
  <1>4. \A j \in 1 .. Len(network'[h]) : \E k \in 1 .. Len(network[h]) : network'[h][j] = network[h][k]
    BY <1>2, <1>3, RemovedMembers
  <1> QED BY <1>3, <1>4 DEF Underway

LEMMA UnderwaySent ==
    ASSUME BaseInv, NEW o \in Host, NEW packet \in SentPacket, SendTo(o, packet)
    PROVE  /\ Underway(o)' \subseteq Underway(o) \cup {packet}
           /\ \A g \in Host \ {o} : Underway(g)' = Underway(g)
  <1>1. network \in [Host -> Seq(SentPacket)]
    BY DEF BaseInv, NetTypeOK
  <1>2. CASE network' = network
    BY <1>2 DEF Underway
  <1>3. CASE network' = [network EXCEPT ![o] = Append(@, packet)]
    <2> DEFINE queue == network[o]
               more == Append(queue, packet)
    <2>1. queue \in Seq(SentPacket)
      BY <1>1
    <2>2. network'[o] = more /\ \A g \in Host \ {o} : network'[g] = network[g]
      BY <1>1, <1>3
    <2>3. /\ Len(queue) \in Nat /\ Len(more) = Len(queue) + 1
          /\ \A i \in 1 .. Len(queue) : more[i] = queue[i]
          /\ more[Len(queue) + 1] = packet
      BY <2>1
    <2> HIDE DEF queue, more
    <2>4. \A i \in 1 .. Len(more) : i \in 1 .. Len(queue) \/ i = Len(queue) + 1
      BY ONLY <2>3
    <2>5. \A i \in 1 .. Len(more) :
            more[i] = packet \/ \E k \in 1 .. Len(queue) : more[i] = queue[k]
      BY ONLY <2>3, <2>4
    <2> QED BY <2>2, <2>5 DEF Underway, queue
  <1> QED BY <1>2, <1>3 DEF SendTo

\* Most steps add no packet, hand nothing to an application and leave the queues
\* of the streams alone.
Quiet ==
    /\ \A h \in Host : Underway(h)' \subseteq Underway(h)
    /\ UNCHANGED historyVars
    /\ UNCHANGED <<m_next_outgoing_packet_id, m_next_expected_packet_id,
                   m_next_expected_sequence_number, m_pending_messages>>
    /\ \A h \in Host : call'[h].op = "read" => call'[h] = call[h]
    /\ Reading' => Reading /\ tick'.host = tick.host /\ tick'.packet = tick.packet
    /\ tick'.stage # "none" =>
         \/ tick.stage # "none" /\ tick'.host = tick.host
         \/ m_next_outgoing_packet_id[tick'.host] < MaxPackets[tick'.host]

LEMMA QuietTick ==
    ASSUME BaseInv, NEW h \in Host,
           \/ TickBegin(h) \/ ProcessStatus(h) \/ PopAckedMessage(h) \/ Hang(h)
           \/ ReadNothing(h) \/ ReadFails(h) \/ ReadHandshake(h) \/ IgnoreSegments(h)
           \/ HoldPacket(h) \/ NoPeerToWriteTo(h)
    PROVE  Quiet
  <1>1. network' = network => \A g \in Host : Underway(g)' \subseteq Underway(g)
    BY DEF Underway
  <1>2. tick \in TickState /\ call \in [Host -> Call]
    BY DEF BaseInv, TickInv, StreamTypeOK
  <1>3. NotTicking.stage = "none" /\ ~(NotTicking.stage \in {"acks", "segments"})
    BY DEF NotTicking
  <1>4. call' = call => \A g \in Host : call'[g].op = "read" => call'[g] = call[g]
    OBVIOUS
  <1>5. CASE TickBegin(h)
    <2>1. tick'.stage = "old" /\ tick'.host = h /\ m_next_outgoing_packet_id[h] < MaxPackets[h]
      BY <1>5 DEF TickBegin
    <2>2. /\ network' = network /\ call' = call /\ UNCHANGED historyVars
          /\ UNCHANGED <<m_next_outgoing_packet_id, m_next_expected_packet_id,
                         m_next_expected_sequence_number, m_pending_messages>>
      BY <1>5 DEF TickBegin, DropOldPackets, streamVars, unreliableVars
    <2> QED BY <1>1, <1>4, <2>1, <2>2 DEF Quiet, Reading
  <1>6. CASE ProcessStatus(h)
    <2>1. /\ tick'.stage = tick.stage /\ tick'.host = tick.host /\ tick'.packet = tick.packet
      <3>1. tick' = Handed(tick, Tail(tick.statuses))
        BY <1>6, Zenon DEF ProcessStatus, Handed
      <3> QED BY <1>2, <3>1, TickUpdates
    <2>2. /\ network' = network /\ UNCHANGED historyVars
          /\ UNCHANGED <<m_next_outgoing_packet_id, m_next_expected_packet_id,
                         m_next_expected_sequence_number, m_pending_messages>>
      BY <1>6 DEF ProcessStatus, StreamAck, StreamDrop, pdmVars, unreliableVars
    <2>3. \A g \in Host : call'[g].op = "read" => call'[g] = call[g]
      <3>1. \/ call' = call
            \/ call' = [call EXCEPT ![h] = AckCall(Head(tick.statuses).id)]
        BY <1>6 DEF ProcessStatus, StreamAck, StreamDrop
      <3>2. AckCall(Head(tick.statuses).id).op = "ack"
        BY DEF AckCall
      <3> QED BY <1>2, <3>1, <3>2
    <2>4. Reading' => Reading
      BY <2>1 DEF Reading
    <2> QED BY <1>1, <2>1, <2>2, <2>3, <2>4 DEF Quiet
  <1>7. CASE PopAckedMessage(h)
    <2>1. tick' = tick /\ network' = network /\ UNCHANGED historyVars
          /\ UNCHANGED <<m_next_outgoing_packet_id, m_next_expected_packet_id,
                         m_next_expected_sequence_number, m_pending_messages>>
      BY <1>7 DEF PopAckedMessage, PopAcked, pdmVars, unreliableVars
    <2>2. \A g \in Host : call'[g].op = "read" => call'[g] = call[g]
      <3>1. call' = call \/ call' = [call EXCEPT ![h] = NoCall]
        BY <1>7 DEF PopAckedMessage, PopAcked
      <3>2. NoCall.op = "none"
        BY DEF NoCall
      <3> QED BY <1>2, <3>1, <3>2
    <2>3. Reading' = Reading
      BY <2>1 DEF Reading
    <2> QED BY <1>1, <2>1, <2>2, <2>3 DEF Quiet
  <1>8. CASE Hang(h) \/ ReadFails(h) \/ HoldPacket(h) \/ NoPeerToWriteTo(h)
    <2>1. tick' = NotTicking /\ network' = network /\ call' = call /\ UNCHANGED historyVars
          /\ UNCHANGED <<m_next_outgoing_packet_id, m_next_expected_packet_id,
                         m_next_expected_sequence_number, m_pending_messages>>
      BY <1>8 DEF Hang, ReadFails, HoldPacket, NoPeerToWriteTo, pdmVars, streamVars, unreliableVars
    <2> QED BY <1>1, <1>3, <1>4, <2>1 DEF Quiet, Reading
  <1>9. CASE ReadNothing(h) \/ ReadHandshake(h) \/ IgnoreSegments(h)
    <2>1. network' = network /\ call' = call /\ UNCHANGED historyVars
          /\ UNCHANGED <<m_next_outgoing_packet_id, m_next_expected_packet_id,
                         m_next_expected_sequence_number, m_pending_messages>>
      BY <1>9 DEF ReadNothing, ReadHandshake, IgnoreSegments, pdmVars, streamVars, unreliableVars
    <2>2. \/ tick' = Staged(tick, "write")
          \/ tick' = Staged(tick, "segments") /\ tick.stage = "acks"
          \/ tick' = Moved(tick, "write", NoPacket)
      BY <1>9, Zenon DEF ReadNothing, ReadHandshake, IgnoreSegments, Goto, InStage, Staged, Moved
    <2>3. /\ tick'.host = tick.host
          /\ \/ tick'.stage = "write"
             \/ tick'.packet = tick.packet /\ tick.stage = "acks"
      BY ONLY <1>2, <2>2, TickUpdates
    <2>4. tick.stage # "none"
      BY <1>9 DEF ReadNothing, ReadHandshake, IgnoreSegments, InStage
    <2>5. Reading' => Reading /\ tick'.packet = tick.packet
      BY <2>3 DEF Reading
    <2> QED BY <1>1, <1>4, <2>1, <2>3, <2>4, <2>5 DEF Quiet
  <1> QED BY <1>5, <1>6, <1>7, <1>8, <1>9

\* The steps that are not quiet.
LEMMA Steps ==
    ASSUME BaseInv, [Next]_vars
    PROVE  \/ Quiet
           \/ \E h \in Host :
                \/ SendReliable(h)
                \/ SendUnreliable(h)
                \/ \E i \in 1 .. Len(network[h]) : ReadPacket(h, i)
                \/ ReadSegments(h)
                \/ ReadReliableMessage(h)
                \/ WritePacket(h)
  <1>1. network' = network => \A g \in Host : Underway(g)' \subseteq Underway(g)
    BY DEF Underway
  <1>2. ASSUME tick' = tick, call' = call, UNCHANGED historyVars,
               \A g \in Host : Underway(g)' \subseteq Underway(g),
               UNCHANGED <<pdmVars, streamVars, unreliableVars>>
        PROVE  Quiet
    <2>1. Reading' = Reading
      BY <1>2 DEF Reading
    <2> QED BY <1>2, <2>1 DEF Quiet, pdmVars, streamVars, unreliableVars
  <1>3. CASE Elapse
    BY <1>1, <1>2, <1>3 DEF Elapse, streamVars
  <1>4. CASE UNCHANGED vars
    BY <1>1, <1>2, <1>4 DEF vars, streamVars
  <1>5. ASSUME NEW h \in Initiators, Connect(h) PROVE Quiet
    BY <1>1, <1>2, <1>5 DEF Connect, streamVars
  <1>6. ASSUME NEW h \in Host, NEW i \in 1 .. Len(network[h]), Lose(h, i) PROVE Quiet
    <2>1. \A g \in Host : Underway(g)' \subseteq Underway(g)
      BY <1>6, UnderwayRemoved DEF Lose
    <2> QED BY <1>2, <1>6, <2>1 DEF Lose, streamVars
  <1>7. Senders \subseteq Host
    BY NeptunConstants
  <1> QED BY <1>3, <1>4, <1>5, <1>6, <1>7, QuietTick DEF Next, Tick

\* What ReadPacket does.
LEMMA PacketRead ==
    ASSUME BaseInv, NEW h \in Host, NEW i \in 1 .. Len(network[h]), ReadPacket(h, i)
    PROVE  \E n \in 0 .. Len(m_in_flight_packets[h]), packet \in Underway(h) :
             /\ packet = network[h][i] /\ packet \in SentPacket
             /\ AcksResolve(h, packet.header, n)
             /\ tick.host = h /\ tick.stage = "old" /\ tick.statuses = << >>
             /\ call[h].op = "none"
             /\ \A g \in Host : Underway(g)' \subseteq Underway(g)
             /\ m_in_flight_packets' =
                  [m_in_flight_packets EXCEPT ![h] = Popped(m_in_flight_packets[h], n)]
             /\ UNCHANGED <<m_next_outgoing_packet_id, cmVars, streamVars, unreliableVars, now,
                            historyVars>>
             /\ tick'.host = h
             /\ \/ /\ Accepts(h, packet.header)
                   /\ m_next_expected_packet_id' =
                        [m_next_expected_packet_id EXCEPT ![h] = (packet.header.id + 1) % IdModulus]
                   /\ tick'.stage = "acks" /\ tick'.packet = packet
                   /\ tick'.statuses = ReadStatuses(h, packet.header, n)
                \/ /\ ~Accepts(h, packet.header)
                   /\ m_next_expected_packet_id' = m_next_expected_packet_id
                   /\ tick'.stage = "write"
                   /\ tick'.statuses = << >>
  <1> DEFINE packet == network[h][i]
             accepts == Accepts(h, packet.header)
  <1>1. PICK n \in 0 .. Len(m_in_flight_packets[h]) :
         /\ ProcessRead(h, packet.header, n)
         /\ tick' = [tick EXCEPT
              !.stage = IF accepts THEN "acks" ELSE "write",
              !.statuses = StatusesToProcess(h, packet.header, n),
              !.packet = IF accepts THEN packet ELSE NoPacket]
    BY DEF ReadPacket
  <1>2. /\ tick.host = h /\ tick.stage = "old" /\ call[h].op = "none" /\ tick.statuses = << >>
        /\ network' = IF Unordered THEN network ELSE [network EXCEPT ![h] = RemoveAt(@, i)]
        /\ UNCHANGED <<cmVars, streamVars, unreliableVars, now, historyVars>>
    BY DEF ReadPacket, InStage, StatusesDone
  <1>3. packet \in SentPacket
    BY TypesAt
  <1>4. packet \in Underway(h)
    BY DEF Underway
  <1>5. \A g \in Host : Underway(g)' \subseteq Underway(g)
    <2>1. CASE network' = network
      BY <2>1 DEF Underway
    <2>2. CASE network' = [network EXCEPT ![h] = RemoveAt(@, i)]
      BY <2>2, UnderwayRemoved
    <2> QED BY <1>2, <2>1, <2>2
  <1>6. tick \in TickState
    BY DEF BaseInv, TickInv
  <1> HIDE DEF packet
  <1>7. /\ AcksResolve(h, packet.header, n)
        /\ m_in_flight_packets' =
             [m_in_flight_packets EXCEPT ![h] = Popped(m_in_flight_packets[h], n)]
        /\ m_next_outgoing_packet_id' = m_next_outgoing_packet_id
        /\ \/ /\ accepts
              /\ m_next_expected_packet_id' =
                   [m_next_expected_packet_id EXCEPT ![h] = (packet.header.id + 1) % IdModulus]
           \/ /\ ~accepts
              /\ m_next_expected_packet_id' = m_next_expected_packet_id
    BY <1>1 DEF ProcessRead, ProcessPacketHeader
  <1>8. /\ tick'.host = h
        /\ accepts => /\ tick'.stage = "acks" /\ tick'.packet = packet
                      /\ tick'.statuses = ReadStatuses(h, packet.header, n)
        /\ ~accepts => tick'.stage = "write" /\ tick'.statuses = << >>
    <2> DEFINE statuses == StatusesToProcess(h, packet.header, n)
               read == IF accepts THEN packet ELSE NoPacket
               stage == IF accepts THEN "acks" ELSE "write"
    <2>1. tick' = [tick EXCEPT !.stage = stage, !.statuses = statuses, !.packet = read]
      BY ONLY <1>1
    <2>2. /\ accepts => stage = "acks" /\ read = packet
                        /\ statuses = ReadStatuses(h, packet.header, n)
          /\ ~accepts => stage = "write" /\ statuses = << >>
      BY DEF StatusesToProcess
    <2> HIDE DEF statuses, read, stage, accepts
    <2>3. tick' = [host |-> tick.host, stage |-> stage, statuses |-> statuses, packet |-> read]
      <3>1. tick' = Began(tick, stage, statuses, read)
        BY ONLY <2>1, Zenon DEF Began
      <3> QED BY ONLY <1>6, <3>1, TickUpdates
    <2> QED BY <1>2, <2>2, <2>3
  <1> HIDE DEF accepts
  <1> WITNESS n \in 0 .. Len(m_in_flight_packets[h])
  <1> WITNESS packet \in Underway(h)
  <1>9. packet = network[h][i]
    BY DEF packet
  <1> QED BY <1>2, <1>3, <1>5, <1>7, <1>8, <1>9 DEF accepts

-----------------------------------------------------------------------------
(* The reliable messages arrive in order.                                    *)

LEMMA SmallRemainder ==
    ASSUME NEW m \in Nat, NEW n \in Nat, n < m
    PROVE  n % m = n
  OBVIOUS

\* All messages of a segment are among the first count messages.
SegmentOf(messages, count) == \A i \in 1 .. Len(messages) : IsMessage(messages[i], count)

\* What is on its way to h, in its hands or delivered to its application was sent
\* by the other application, and the number that h expects counts what it delivered.
OrderInv(h) ==
    /\ \A packet \in Underway(h) : SegmentOf(packet.reliable, submitted[Other(h)])
    /\ Reading /\ tick.host = h => SegmentOf(tick.packet.reliable, submitted[Other(h)])
    /\ call[h].op = "read" => SegmentOf(call[h].messages, submitted[Other(h)])
    /\ Len(delivered[h]) <= submitted[Other(h)]
    /\ \A m \in 1 .. Len(delivered[h]) : delivered[h][m] = <<m>>
    /\ m_next_expected_sequence_number[h] = Len(delivered[h])

LEMMA SegmentGrows ==
    ASSUME NEW count \in Nat, NEW more \in Nat, count <= more, NEW messages,
           SegmentOf(messages, count)
    PROVE  SegmentOf(messages, more)
  <1>1. \A s \in 0 .. count - 1 : s \in 0 .. more - 1
    OBVIOUS
  <1>2. \A message : IsMessage(message, count) => IsMessage(message, more)
    BY <1>1 DEF IsMessage
  <1> QED BY <1>2 DEF SegmentOf

\* A step that hands nothing to the application of h and puts no message of its own
\* on the way.
LEMMA OrderFrame ==
    ASSUME BaseInv, NEW h \in Host, OrderInv(h),
           submitted'[Other(h)] \in Nat, submitted[Other(h)] <= submitted'[Other(h)],
           \A packet \in Underway(h)' :
               packet \in Underway(h) \/ SegmentOf(packet.reliable, submitted[Other(h)]),
           Reading' /\ tick'.host = h =>
               SegmentOf(tick'.packet.reliable, submitted[Other(h)]),
           call'[h].op = "read" => SegmentOf(call'[h].messages, submitted[Other(h)]),
           delivered'[h] = delivered[h],
           m_next_expected_sequence_number'[h] = m_next_expected_sequence_number[h]
    PROVE  OrderInv(h)'
  <1> DEFINE count == submitted[Other(h)]
             more == submitted'[Other(h)]
  <1>1. count \in Nat /\ more \in Nat /\ count <= more
    BY OtherHost, TypesAt
  <1>2. \A messages : SegmentOf(messages, count) => SegmentOf(messages, more)
    BY <1>1, SegmentGrows
  <1>3. /\ \A packet \in Underway(h) : SegmentOf(packet.reliable, count)
        /\ Len(delivered[h]) <= count
        /\ \A m \in 1 .. Len(delivered[h]) : delivered[h][m] = <<m>>
        /\ m_next_expected_sequence_number[h] = Len(delivered[h])
    BY DEF OrderInv
  <1>4. Len(delivered[h]) \in Nat
    BY TypesAt
  <1>5. \A packet \in Underway(h)' : SegmentOf(packet.reliable, more)
    BY <1>2, <1>3
  <1>6. /\ Reading' /\ tick'.host = h => SegmentOf(tick'.packet.reliable, more)
        /\ call'[h].op = "read" => SegmentOf(call'[h].messages, more)
    BY <1>2
  <1>7. /\ Len(delivered'[h]) <= more
        /\ \A m \in 1 .. Len(delivered'[h]) : delivered'[h][m] = <<m>>
        /\ m_next_expected_sequence_number'[h] = Len(delivered'[h])
    BY <1>1, <1>3, <1>4
  <1> QED BY <1>5, <1>6, <1>7 DEF OrderInv

LEMMA OrderQuiet ==
    ASSUME BaseInv, NEW h \in Host, OrderInv(h), Quiet
    PROVE  OrderInv(h)'
  <1>1. submitted[Other(h)] \in Nat /\ submitted' = submitted /\ delivered' = delivered
    BY OtherHost, TypesAt DEF Quiet, historyVars
  <1>2. m_next_expected_sequence_number' = m_next_expected_sequence_number
    BY DEF Quiet
  <1>3. \A packet \in Underway(h)' : packet \in Underway(h)
    BY DEF Quiet
  <1>4. Reading' /\ tick'.host = h => SegmentOf(tick'.packet.reliable, submitted[Other(h)])
    BY DEF Quiet, OrderInv
  <1>5. call'[h].op = "read" => SegmentOf(call'[h].messages, submitted[Other(h)])
    BY DEF Quiet, OrderInv
  <1>6. submitted'[Other(h)] \in Nat /\ submitted[Other(h)] <= submitted'[Other(h)]
    BY <1>1
  <1> QED BY <1>1, <1>2, <1>3, <1>4, <1>5, <1>6, OrderFrame

LEMMA OrderSend ==
    ASSUME BaseInv, NEW h \in Host, OrderInv(h), NEW g \in Host,
           SendReliable(g) \/ SendUnreliable(g)
    PROVE  OrderInv(h)'
  <1>1. /\ UNCHANGED <<network, tick, delivered>>
        /\ UNCHANGED <<m_next_expected_sequence_number, call>>
    BY DEF SendReliable, SendUnreliable, StreamSend, streamVars
  <1>2. submitted' = [submitted EXCEPT ![g] = @ + 1] \/ submitted' = submitted
    BY DEF SendReliable, SendUnreliable
  <1>3. submitted[Other(h)] \in Nat /\ submitted \in [Host -> Nat] /\ Other(h) \in Host
    BY OtherHost, TypesAt, NeptunConstants DEF BaseInv, HistoryTypeOK
  <1>4. submitted'[Other(h)] \in Nat /\ submitted[Other(h)] <= submitted'[Other(h)]
    BY ONLY <1>2, <1>3
  <1>5. Underway(h)' = Underway(h) /\ Reading' = Reading
    BY <1>1 DEF Underway, Reading
  <1>6. /\ Reading' /\ tick'.host = h => SegmentOf(tick'.packet.reliable, submitted[Other(h)])
        /\ call'[h].op = "read" => SegmentOf(call'[h].messages, submitted[Other(h)])
    BY <1>1, <1>5 DEF OrderInv
  <1> QED BY <1>1, <1>4, <1>5, <1>6, OrderFrame

LEMMA OrderReadPacket ==
    ASSUME BaseInv, NEW h \in Host, OrderInv(h), NEW g \in Host,
           NEW i \in 1 .. Len(network[g]), ReadPacket(g, i)
    PROVE  OrderInv(h)'
  <1>1. PICK packet \in Underway(g) :
          /\ \A f \in Host : Underway(f)' \subseteq Underway(f)
          /\ UNCHANGED <<streamVars, historyVars>>
          /\ tick'.host = g
          /\ \/ tick'.stage = "acks" /\ tick'.packet = packet
             \/ tick'.stage = "write"
    BY PacketRead
  <1>2. /\ submitted' = submitted /\ delivered' = delivered /\ call' = call
        /\ m_next_expected_sequence_number' = m_next_expected_sequence_number
    BY <1>1 DEF streamVars, historyVars
  <1>3. submitted[Other(h)] \in Nat
    BY OtherHost, TypesAt
  <1>4. submitted'[Other(h)] \in Nat /\ submitted[Other(h)] <= submitted'[Other(h)]
    BY <1>2, <1>3
  <1>5. Reading' /\ tick'.host = h => SegmentOf(tick'.packet.reliable, submitted[Other(h)])
    BY <1>1 DEF Reading, OrderInv
  <1>6. call'[h].op = "read" => SegmentOf(call'[h].messages, submitted[Other(h)])
    BY <1>2 DEF OrderInv
  <1>7. \A p \in Underway(h)' : p \in Underway(h)
    BY <1>1
  <1> QED BY <1>2, <1>4, <1>5, <1>6, <1>7, OrderFrame

\* What ReadSegments does.
LEMMA SegmentsTaken ==
    ASSUME BaseInv, NEW h \in Host, ReadSegments(h)
    PROVE  /\ tick.host = h /\ tick.stage = "segments" /\ tick.packet \in SentPacket
           /\ tick'.stage = "write" /\ tick'.host = h /\ tick'.statuses = tick.statuses
           /\ \A g \in Host \ {h} : call'[g] = call[g] /\ udelivered'[g] = udelivered[g]
           /\ \/ call'[h].op = "none"
              \/ call'[h].op = "read" /\ call'[h].messages = SegmentsRead(h).reliable
           /\ udelivered'[h] = udelivered[h] \o UnreliableRead(SegmentsRead(h).unreliable)
           /\ UNCHANGED <<m_buffer, in_flight_messages, pending_messages,
                          m_next_outgoing_sequence_number, m_next_expected_sequence_number>>
           /\ UNCHANGED <<pdmVars, cmVars, unreliableVars, now, network, has_peer,
                          submitted, delivered, usubmitted>>
  <1> DEFINE new == IF SegmentsRead(h).reliable = << >> THEN NoCall
                    ELSE ReadCall(tick.packet.header.id, SegmentsRead(h).reliable)
             all == udelivered[h] \o UnreliableRead(SegmentsRead(h).unreliable)
  <1>1. /\ tick.host = h /\ tick.stage = "segments"
        /\ tick' = [tick EXCEPT !.stage = "write", !.packet = NoPacket]
        /\ call' = [call EXCEPT ![h] = new]
        /\ udelivered' = [udelivered EXCEPT ![h] = all]
        /\ UNCHANGED <<m_buffer, in_flight_messages, pending_messages,
                       m_next_outgoing_sequence_number, m_next_expected_sequence_number>>
        /\ UNCHANGED <<pdmVars, cmVars, unreliableVars, now, network, has_peer,
                       submitted, delivered, usubmitted>>
    BY DEF ReadSegments, InStage, StreamRead
  <1>2. tick \in TickState /\ tick.packet \in SentPacket
    BY <1>1 DEF BaseInv, TickInv
  <1>3. tick' = [host |-> tick.host, stage |-> "write", statuses |-> tick.statuses,
                 packet |-> NoPacket]
    <2>1. tick' = Moved(tick, "write", NoPacket)
      BY ONLY <1>1, Zenon DEF Moved
    <2> QED BY ONLY <1>2, <2>1, TickUpdates
  <1>4. \/ new.op = "none"
        \/ new.op = "read" /\ new.messages = SegmentsRead(h).reliable
    BY DEF NoCall, ReadCall
  <1> HIDE DEF new, all
  <1>5. call'[h] = new /\ \A g \in Host \ {h} : call'[g] = call[g]
    BY <1>1 DEF BaseInv, StreamTypeOK
  <1>6. udelivered'[h] = all /\ \A g \in Host \ {h} : udelivered'[g] = udelivered[g]
    BY <1>1 DEF BaseInv, HistoryTypeOK
  <1> QED BY <1>1, <1>2, <1>3, <1>4, <1>5, <1>6 DEF all

\* No Reject is being read: the streams then find the segments of the packet.
NotRefused == Reading => tick.packet.handshake # <<"Reject">>

LEMMA SegmentsOfPacket ==
    ASSUME NotRefused, NEW h \in Host, tick.stage = "segments"
    PROVE  /\ SegmentsRead(h).reliable = tick.packet.reliable
           /\ SegmentsRead(h).unreliable = tick.packet.unreliable
  <1>1. tick.packet.handshake # <<"Reject">>
    BY DEF NotRefused, Reading
  <1> QED BY <1>1 DEF SegmentsRead

LEMMA OrderReadSegments ==
    ASSUME NotRefused, BaseInv, NEW h \in Host, OrderInv(h), NEW g \in Host, ReadSegments(g)
    PROVE  OrderInv(h)'
  <1>1. /\ tick.host = g /\ tick.stage = "segments" /\ tick'.stage = "write"
        /\ \A f \in Host \ {g} : call'[f] = call[f]
        /\ \/ call'[g].op = "none"
           \/ call'[g].op = "read" /\ call'[g].messages = tick.packet.reliable
        /\ UNCHANGED <<network, submitted, delivered, m_next_expected_sequence_number>>
    BY SegmentsTaken, SegmentsOfPacket
  <1>2. submitted[Other(h)] \in Nat
    BY OtherHost, TypesAt
  <1>3. submitted'[Other(h)] \in Nat /\ submitted[Other(h)] <= submitted'[Other(h)]
    BY <1>1, <1>2
  <1>4. Underway(h)' = Underway(h) /\ ~Reading' /\ Reading
    BY <1>1 DEF Underway, Reading
  <1>5. call'[h].op = "read" => SegmentOf(call'[h].messages, submitted[Other(h)])
    BY <1>1, <1>4 DEF OrderInv
  <1> QED BY <1>1, <1>3, <1>4, <1>5, OrderFrame

LEMMA OrderReadMessage ==
    ASSUME MaxReliable < SequenceModulus,
           BaseInv, NEW h \in Host, OrderInv(h), NEW g \in Host, ReadReliableMessage(g)
    PROVE  OrderInv(h)'
  <1> DEFINE message == Head(call[g].messages)
             rest == Tail(call[g].messages)
             new == IF rest = << >> THEN NoCall ELSE ReadCall(call[g].id, rest)
             number == IF IsNext(g, message)
                       THEN (m_next_expected_sequence_number[g] + 1) % SequenceModulus
                       ELSE m_next_expected_sequence_number[g]
             got == IF IsNext(g, message) THEN Append(delivered[g], message.payload)
                    ELSE delivered[g]
  <1>1. /\ tick.host = g /\ call[g].op = "read"
        /\ call' = [call EXCEPT ![g] = new]
        /\ m_next_expected_sequence_number' =
             [m_next_expected_sequence_number EXCEPT ![g] = number]
        /\ delivered' = [delivered EXCEPT ![g] = got]
        /\ UNCHANGED <<network, tick, submitted>>
    BY DEF ReadReliableMessage, ReadMessage
  <1> HIDE DEF new, number, got
  <1>2. /\ call'[g] = new /\ \A f \in Host \ {g} : call'[f] = call[f]
        /\ delivered'[g] = got /\ \A f \in Host \ {g} : delivered'[f] = delivered[f]
        /\ m_next_expected_sequence_number'[g] = number
        /\ \A f \in Host \ {g} :
             m_next_expected_sequence_number'[f] = m_next_expected_sequence_number[f]
    BY <1>1 DEF BaseInv, StreamTypeOK, HistoryTypeOK
  <1>3. Underway(h)' = Underway(h) /\ Reading' = Reading
    BY <1>1 DEF Underway, Reading
  <1>4. submitted[Other(h)] \in Nat
    BY OtherHost, TypesAt
  <1>5. CASE h # g
    <2>1. submitted'[Other(h)] \in Nat /\ submitted[Other(h)] <= submitted'[Other(h)]
      BY <1>1, <1>4
    <2>2. /\ Reading' /\ tick'.host = h => SegmentOf(tick'.packet.reliable, submitted[Other(h)])
          /\ call'[h].op = "read" => SegmentOf(call'[h].messages, submitted[Other(h)])
      BY <1>1, <1>2, <1>3, <1>5 DEF OrderInv
    <2>3. /\ delivered'[h] = delivered[h]
          /\ m_next_expected_sequence_number'[h] = m_next_expected_sequence_number[h]
      BY <1>2, <1>5
    <2> QED BY <1>3, <2>1, <2>2, <2>3, OrderFrame
  <1>6. CASE h = g
    <2> DEFINE count == submitted[Other(h)]
               size == Len(delivered[h])
    <2>1. call[g].messages # << >> /\ call[g].messages \in Seq(SegmentMessage)
      BY <1>1, TypesAt DEF BaseInv, TickInv, Call
    <2>2. /\ Len(call[g].messages) \in Nat /\ Len(call[g].messages) > 0
          /\ Len(rest) = Len(call[g].messages) - 1
          /\ \A i \in 1 .. Len(call[g].messages) - 1 : rest[i] = call[g].messages[i + 1]
          /\ message = call[g].messages[1]
      BY <2>1, TailProperties
    <2>3. SegmentOf(call[g].messages, count)
      BY <1>1, <1>6 DEF OrderInv
    <2>4. IsMessage(message, count)
      BY <2>2, <2>3 DEF SegmentOf
    <2>5. SegmentOf(rest, count)
      <3> SUFFICES ASSUME NEW i \in 1 .. Len(rest) PROVE IsMessage(rest[i], count)
        BY DEF SegmentOf
      <3>1. i \in 1 .. Len(call[g].messages) - 1 /\ i + 1 \in 1 .. Len(call[g].messages)
        BY <2>2
      <3> QED BY <2>2, <2>3, <3>1 DEF SegmentOf
    <2>6. call'[h].op = "read" => SegmentOf(call'[h].messages, count)
      <3>1. call'[h] = new
        BY <1>2, <1>6
      <3>2. CASE rest = << >>
        BY <3>1, <3>2 DEF new, NoCall
      <3>3. CASE rest # << >>
        BY <2>5, <3>1, <3>3 DEF new, ReadCall
      <3> QED BY <3>2, <3>3
    <2>7. /\ size \in Nat /\ size <= count /\ count \in Nat
          /\ \A m \in 1 .. size : delivered[h][m] = <<m>>
          /\ m_next_expected_sequence_number[h] = size
          /\ delivered[h] \in Seq(Seq(Nat))
      BY <1>4, TypesAt DEF OrderInv
    <2>8. count < SequenceModulus /\ SequenceModulus \in Nat
      BY OtherHost, NeptunConstants, SequenceModulusIsPos DEF BaseInv, HistoryTypeOK
    <2>9. PICK s \in 0 .. count - 1 :
            message = [sequence_number |-> s % SequenceModulus, payload |-> <<s + 1>>]
      BY <2>4 DEF IsMessage
    <2>10. s \in Nat /\ s < count /\ s % SequenceModulus = s
      <3> HIDE DEF count
      <3>1. s \in Nat /\ s < count
        BY <2>7
      <3> QED BY <2>7, <2>8, <3>1, SmallRemainder
    <2>11. message.sequence_number = s /\ message.payload = <<s + 1>>
      BY <2>9, <2>10
    <2> HIDE DEF message, rest, count, size
    <2>12. /\ Len(got) <= count
           /\ \A m \in 1 .. Len(got) : got[m] = <<m>>
           /\ number = Len(got)
      <3>1. CASE IsNext(g, message)
        <4>1. s = size
          BY <1>6, <2>7, <2>11, <3>1 DEF IsNext
        <4>2. got = Append(delivered[h], <<size + 1>>) /\ number = (size + 1) % SequenceModulus
          BY <1>6, <2>7, <2>11, <3>1, <4>1 DEF got, number
        <4>3. size + 1 <= count /\ (size + 1) % SequenceModulus = size + 1
          <5>1. size + 1 \in Nat /\ size + 1 <= count /\ size + 1 < SequenceModulus
            BY <2>7, <2>8, <2>10, <4>1
          <5> QED BY <2>8, <5>1, SmallRemainder
        <4>4. <<size + 1>> \in Seq(Nat)
          BY <2>7
        <4>5. /\ Len(got) = size + 1 /\ got[size + 1] = <<size + 1>>
              /\ \A m \in 1 .. size : got[m] = delivered[h][m]
          <5> DEFINE last == <<size + 1>>
          <5>1. last \in Seq(Nat) /\ got = Append(delivered[h], last)
            BY <4>2, <4>4
          <5> HIDE DEF last
          <5>2. /\ Len(got) = size + 1 /\ got[size + 1] = last
                /\ \A m \in 1 .. size : got[m] = delivered[h][m]
            BY <2>7, <5>1 DEF size
          <5> QED BY <5>2 DEF last
        <4>6. \A m \in 1 .. size + 1 : m \in 1 .. size \/ m = size + 1
          BY <2>7
        <4> QED BY <2>7, <4>2, <4>3, <4>5, <4>6
      <3>2. CASE ~IsNext(g, message)
        BY <1>6, <2>7, <3>2 DEF got, number, size
      <3> QED BY <3>1, <3>2
    <2>13. Reading /\ tick.host = h => SegmentOf(tick.packet.reliable, count)
      BY DEF OrderInv, count
    <2>14. \A packet \in Underway(h) : SegmentOf(packet.reliable, count)
      BY DEF OrderInv, count
    <2>15. submitted'[Other(h)] = count
      BY <1>1 DEF count
    <2> QED BY <1>1, <1>2, <1>3, <1>6, <2>6, <2>12, <2>13, <2>14, <2>15 DEF OrderInv
  <1> QED BY <1>5, <1>6

\* What WritePacket does to the packets on their way and to what h expects.
LEMMA PacketWritten ==
    ASSUME BaseInv, NEW h \in Host, WritePacket(h)
    PROVE  \E packet \in SentPacket :
             /\ packet.header.id = m_next_outgoing_packet_id[h]
             /\ SegmentOf(packet.reliable, submitted[h])
             /\ \A i \in 1 .. Len(packet.unreliable.messages) :
                  packet.unreliable.messages[i] =
                    <<(usubmitted[h] - Len(m_pending_messages[h])) + i>>
             /\ Len(packet.unreliable.messages) <= Len(m_pending_messages[h])
             /\ Len(m_pending_messages[h]) <= usubmitted[h]
             /\ \/ packet.unreliable.messages = << >> /\ m_pending_messages' = m_pending_messages
                \/ m_pending_messages' = [m_pending_messages EXCEPT ![h] = << >>]
             /\ Underway(Other(h))' \subseteq Underway(Other(h)) \cup {packet}
             /\ Underway(h)' = Underway(h)
             /\ m_next_outgoing_packet_id' = [m_next_outgoing_packet_id EXCEPT
                    ![h] = (m_next_outgoing_packet_id[h] + 1) % IdModulus]
             /\ m_next_expected_packet_id' = m_next_expected_packet_id
             /\ m_next_expected_sequence_number' = m_next_expected_sequence_number
             /\ call' = call /\ call[h].op = "none" /\ tick.host = h /\ tick.stage = "write"
             /\ tick' = NotTicking /\ UNCHANGED historyVars
  <1>1. PICK a \in 0 .. Len(m_pending_acks[h]), r \in 0 .. Len(pending_messages[h]),
             u \in 0 .. Len(m_pending_messages[h]) :
             /\ PdmWrite(h, now, a)
             /\ StreamWrite(h, m_next_outgoing_packet_id[h], StreamRoom(h), r)
             /\ UnreliableWrite(h, StreamRoom(h) - ReliableBytes(h, r), u)
             /\ SendTo(Other(h), PacketToWrite(h, a, r, u))
             /\ PacketToWrite(h, a, r, u) \in SentPacket
             /\ \A i \in 1 .. Len(PacketToWrite(h, a, r, u).reliable) :
                  IsMessage(PacketToWrite(h, a, r, u).reliable[i], submitted[h])
             /\ Len(PacketToWrite(h, a, r, u).unreliable.messages) = u
             /\ \A i \in 1 .. u : PacketToWrite(h, a, r, u).unreliable.messages[i] =
                                    <<(usubmitted[h] - Len(m_pending_messages[h])) + i>>
             /\ Len(m_pending_messages[h]) <= usubmitted[h]
    BY Written
  <1> DEFINE packet == PacketToWrite(h, a, r, u)
  <1>2. packet.header.id = m_next_outgoing_packet_id[h]
    BY DEF PacketToWrite, HeaderToWrite
  <1> HIDE DEF packet
  <1>3. packet \in SentPacket /\ SendTo(Other(h), packet)
    BY <1>1 DEF packet
  <1>4. SegmentOf(packet.reliable, submitted[h])
    BY <1>1 DEF SegmentOf, packet
  <1>5. /\ Len(packet.unreliable.messages) = u /\ u <= Len(m_pending_messages[h])
        /\ \A i \in 1 .. Len(packet.unreliable.messages) :
             packet.unreliable.messages[i] =
               <<(usubmitted[h] - Len(m_pending_messages[h])) + i>>
        /\ packet.unreliable.messages \in Seq(Seq(Nat))
    <2>1. /\ Len(packet.unreliable.messages) = u
          /\ \A i \in 1 .. u : packet.unreliable.messages[i] =
                                 <<(usubmitted[h] - Len(m_pending_messages[h])) + i>>
      BY <1>1 DEF packet
    <2>2. u <= Len(m_pending_messages[h])
      BY TypesAt
    <2>3. packet.unreliable.messages \in Seq(Seq(Nat))
      BY <1>3, PacketFields
    <2> QED BY <2>1, <2>2, <2>3
  <1>6. \/ packet.unreliable.messages = << >> /\ m_pending_messages' = m_pending_messages
        \/ m_pending_messages' = [m_pending_messages EXCEPT ![h] = << >>]
    <2>1. \/ u = 0 /\ m_pending_messages' = m_pending_messages
          \/ m_pending_messages' = [m_pending_messages EXCEPT ![h] = << >>]
      BY <1>1 DEF UnreliableWrite, unreliableVars
    <2>2. u = 0 => packet.unreliable.messages = << >>
      BY <1>5
    <2> QED BY <2>1, <2>2
  <1>7. /\ Underway(Other(h))' \subseteq Underway(Other(h)) \cup {packet}
        /\ Underway(h)' = Underway(h)
    BY <1>3, OtherHost, UnderwaySent
  <1>8. /\ m_next_outgoing_packet_id' = [m_next_outgoing_packet_id EXCEPT
             ![h] = (m_next_outgoing_packet_id[h] + 1) % IdModulus]
        /\ m_next_expected_packet_id' = m_next_expected_packet_id
    BY <1>1 DEF PdmWrite
  <1>9. m_next_expected_sequence_number' = m_next_expected_sequence_number /\ call' = call
    BY <1>1 DEF StreamWrite
  <1>10. /\ call[h].op = "none" /\ tick.host = h /\ tick.stage = "write"
         /\ tick' = NotTicking /\ UNCHANGED historyVars
    BY DEF WritePacket, InStage
  <1> QED BY <1>1, <1>2, <1>3, <1>4, <1>5, <1>6, <1>7, <1>8, <1>9, <1>10

LEMMA OrderWrite ==
    ASSUME BaseInv, NEW h \in Host, OrderInv(h), NEW g \in Host, WritePacket(g)
    PROVE  OrderInv(h)'
  <1>1. PICK packet \in SentPacket :
          /\ SegmentOf(packet.reliable, submitted[g])
          /\ Underway(Other(g))' \subseteq Underway(Other(g)) \cup {packet}
          /\ Underway(g)' = Underway(g)
          /\ m_next_expected_sequence_number' = m_next_expected_sequence_number
          /\ call' = call /\ tick' = NotTicking /\ UNCHANGED historyVars
    BY PacketWritten
  <1>2. submitted' = submitted /\ delivered' = delivered /\ submitted[Other(h)] \in Nat
    BY <1>1, OtherHost, TypesAt DEF historyVars
  <1>3. ~Reading'
    BY <1>1 DEF Reading, NotTicking
  <1>4. \A p \in Underway(h)' : p \in Underway(h) \/ SegmentOf(p.reliable, submitted[Other(h)])
    <2>1. CASE h = g
      BY <1>1, <2>1
    <2>2. CASE h # g
      <3>1. h = Other(g) /\ g = Other(h)
        BY <2>2, OtherHost
      <3> QED BY <1>1, <3>1
    <2> QED BY <2>1, <2>2
  <1>5. submitted'[Other(h)] \in Nat /\ submitted[Other(h)] <= submitted'[Other(h)]
    BY <1>2
  <1>6. call'[h].op = "read" => SegmentOf(call'[h].messages, submitted[Other(h)])
    BY <1>1 DEF OrderInv
  <1> QED BY <1>1, <1>2, <1>3, <1>4, <1>5, <1>6, OrderFrame

LEMMA OrderInit ==
    ASSUME Init, NEW h \in Host
    PROVE  OrderInv(h)
  <1>1. /\ network[h] = << >> /\ delivered[h] = << >> /\ submitted[Other(h)] = 0
        /\ call[h] = NoCall /\ m_next_expected_sequence_number[h] = 0 /\ tick = NotTicking
    BY OtherHost, Owners DEF Init, StreamInit
  <1>2. Len(<< >>) = 0
    OBVIOUS
  <1>3. \A packet \in Underway(h) : FALSE
    BY <1>1, <1>2 DEF Underway
  <1>4. ~Reading /\ call[h].op = "none"
    BY <1>1 DEF Reading, NotTicking, NoCall
  <1> QED BY <1>1, <1>2, <1>3, <1>4 DEF OrderInv

LEMMA OrderStep ==
    ASSUME MaxReliable < SequenceModulus, NotRefused,
           BaseInv, \A h \in Host : OrderInv(h), [Next]_vars
    PROVE  \A h \in Host : OrderInv(h)'
  BY Steps, OrderQuiet, OrderSend, OrderReadPacket, OrderReadSegments, OrderReadMessage,
     OrderWrite

-----------------------------------------------------------------------------
(* The ids of packets do not wrap around.                                    *)

IdsInv(h) ==
    /\ m_next_outgoing_packet_id[h] <= MaxPackets[h]
    /\ tick.stage # "none" /\ tick.host = h => m_next_outgoing_packet_id[h] < MaxPackets[h]
    /\ \A packet \in Underway(h) : packet.header.id < m_next_outgoing_packet_id[Other(h)]
    /\ m_next_expected_packet_id[h] <= m_next_outgoing_packet_id[Other(h)]

LEMMA NumbersOfPackets ==
    ASSUME BaseInv, NEW h \in Host
    PROVE  /\ IdModulus \in Nat /\ MaxPackets[h] \in Nat /\ MaxPackets[h] < IdModulus
           /\ m_next_outgoing_packet_id[h] \in Nat /\ m_next_expected_packet_id[h] \in Nat
           /\ \A packet \in Underway(h) : packet.header.id \in Nat
  <1>1. IdModulus \in Nat /\ MaxPackets[h] \in 0 .. IdModulus - 1
    BY PacketConstants, NeptunConstants
  <1>2. m_next_outgoing_packet_id[h] \in Nat /\ m_next_expected_packet_id[h] \in Nat
    BY TypesAt, IdsAreNumbers
  <1>3. \A packet \in Underway(h) : packet.header.id \in Nat
    BY UnderwayTypes, PacketFields, IdsAreNumbers
  <1> QED BY <1>1, <1>2, <1>3

LEMMA IdsFrame ==
    ASSUME BaseInv, NEW h \in Host, IdsInv(h),
           m_next_outgoing_packet_id' = m_next_outgoing_packet_id,
           m_next_expected_packet_id'[h] = m_next_expected_packet_id[h],
           Underway(h)' \subseteq Underway(h),
           tick'.stage # "none" /\ tick'.host = h =>
               m_next_outgoing_packet_id[h] < MaxPackets[h]
    PROVE  IdsInv(h)'
  BY DEF IdsInv

LEMMA IdsQuiet ==
    ASSUME BaseInv, NEW h \in Host, IdsInv(h), Quiet
    PROVE  IdsInv(h)'
  BY IdsFrame DEF Quiet, IdsInv

LEMMA IdsUnmoved ==
    ASSUME BaseInv, NEW h \in Host, IdsInv(h), NEW g \in Host,
           SendReliable(g) \/ SendUnreliable(g) \/ ReadReliableMessage(g) \/ ReadSegments(g)
    PROVE  IdsInv(h)'
  <1>1. UNCHANGED <<m_next_outgoing_packet_id, m_next_expected_packet_id, network>>
    BY DEF SendReliable, SendUnreliable, ReadReliableMessage, ReadSegments, pdmVars
  <1>2. \/ tick' = tick
        \/ tick.host = g /\ tick.stage = "segments" /\ tick'.host = g
    BY SegmentsTaken DEF SendReliable, SendUnreliable, ReadReliableMessage
  <1>3. tick'.stage # "none" /\ tick'.host = h => m_next_outgoing_packet_id[h] < MaxPackets[h]
    BY <1>2 DEF IdsInv
  <1>4. Underway(h)' \subseteq Underway(h)
    BY <1>1 DEF Underway
  <1> QED BY <1>1, <1>3, <1>4, IdsFrame

LEMMA IdsReadPacket ==
    ASSUME BaseInv, NEW h \in Host, IdsInv(h), NEW g \in Host,
           NEW i \in 1 .. Len(network[g]), ReadPacket(g, i)
    PROVE  IdsInv(h)'
  <1>1. PICK packet \in Underway(g) :
          /\ \A f \in Host : Underway(f)' \subseteq Underway(f)
          /\ tick.host = g /\ tick.stage = "old" /\ tick'.host = g
          /\ m_next_outgoing_packet_id' = m_next_outgoing_packet_id
          /\ \/ m_next_expected_packet_id' =
                  [m_next_expected_packet_id EXCEPT ![g] = (packet.header.id + 1) % IdModulus]
             \/ m_next_expected_packet_id' = m_next_expected_packet_id
    BY PacketRead
  <1>2. tick'.stage # "none" /\ tick'.host = h => m_next_outgoing_packet_id[h] < MaxPackets[h]
    BY <1>1 DEF IdsInv
  <1>3. CASE m_next_expected_packet_id'[h] = m_next_expected_packet_id[h]
    BY <1>1, <1>2, <1>3, IdsFrame
  <1>4. CASE m_next_expected_packet_id'[h] # m_next_expected_packet_id[h]
    <2>1. h = g /\ m_next_expected_packet_id'[h] = (packet.header.id + 1) % IdModulus
      BY <1>1, <1>4 DEF BaseInv, PdmTypeOK
    <2> DEFINE o == Other(h)
               id == packet.header.id
               next == m_next_outgoing_packet_id[o]
    <2>2. id < next
      BY <2>1 DEF IdsInv
    <2>3. next \in Nat /\ id \in Nat /\ IdModulus \in Nat /\ next < IdModulus
      BY <2>1, OtherHost, NumbersOfPackets, TypesAt DEF PacketId
    <2> HIDE DEF id, next
    <2>4. id + 1 \in Nat /\ id + 1 < IdModulus /\ id + 1 <= next
      BY <2>2, <2>3
    <2>5. (id + 1) % IdModulus = id + 1
      BY <2>3, <2>4, SmallRemainder
    <2>6. m_next_expected_packet_id'[h] <= m_next_outgoing_packet_id'[o]
      BY <1>1, <2>1, <2>4, <2>5 DEF id, next
    <2> QED BY <1>1, <1>2, <2>6 DEF IdsInv
  <1> QED BY <1>3, <1>4

LEMMA IdsWrite ==
    ASSUME BaseInv, NEW h \in Host, \A f \in Host : IdsInv(f), NEW g \in Host, WritePacket(g)
    PROVE  IdsInv(h)'
  <1> DEFINE next == m_next_outgoing_packet_id[g]
  <1>1. PICK packet \in SentPacket :
          /\ packet.header.id = next
          /\ Underway(Other(g))' \subseteq Underway(Other(g)) \cup {packet}
          /\ Underway(g)' = Underway(g)
          /\ m_next_outgoing_packet_id' =
               [m_next_outgoing_packet_id EXCEPT ![g] = (next + 1) % IdModulus]
          /\ m_next_expected_packet_id' = m_next_expected_packet_id
          /\ tick.host = g /\ tick.stage = "write" /\ tick' = NotTicking
    BY PacketWritten
  <1>2. next < MaxPackets[g]
    BY <1>1 DEF IdsInv
  <1>3. /\ next \in Nat /\ MaxPackets[g] \in Nat /\ IdModulus \in Nat /\ MaxPackets[g] < IdModulus
    BY NumbersOfPackets
  <1>4. next + 1 \in Nat /\ next + 1 < IdModulus /\ next + 1 <= MaxPackets[g]
    <2> HIDE DEF next
    <2> QED BY <1>2, <1>3
  <1>5. (next + 1) % IdModulus = next + 1
    BY <1>3, <1>4, SmallRemainder
  <1>6. /\ m_next_outgoing_packet_id'[g] = next + 1
        /\ m_next_outgoing_packet_id'[Other(g)] = m_next_outgoing_packet_id[Other(g)]
    BY <1>1, <1>5, OtherHost DEF BaseInv, PdmTypeOK
  <1>7. tick'.stage = "none"
    BY <1>1 DEF NotTicking
  <1>8. CASE h = g
    BY <1>1, <1>4, <1>6, <1>7, <1>8 DEF IdsInv
  <1>9. CASE h # g
    <2>1. h = Other(g) /\ g = Other(h)
      BY <1>9, OtherHost
    <2>2. m_next_expected_packet_id[h] \in Nat /\ \A p \in Underway(h) : p.header.id \in Nat
      BY NumbersOfPackets
    <2>3. /\ m_next_expected_packet_id[h] <= next
          /\ \A p \in Underway(h) : p.header.id < next
          /\ m_next_outgoing_packet_id[h] <= MaxPackets[h]
      BY <2>1 DEF IdsInv
    <2>4. \A p \in Underway(h)' : p \in Underway(h) \/ p.header.id = next
      BY <1>1, <2>1
    <2> HIDE DEF next
    <2>5. /\ m_next_expected_packet_id[h] <= next + 1
          /\ \A p \in Underway(h)' : p.header.id < next + 1
      BY <1>3, <2>2, <2>3, <2>4
    <2> QED BY <1>1, <1>6, <1>7, <2>1, <2>3, <2>5 DEF IdsInv
  <1> QED BY <1>8, <1>9

LEMMA IdsInit ==
    ASSUME Init, NEW h \in Host
    PROVE  IdsInv(h)
  <1>1. /\ network[h] = << >> /\ m_next_outgoing_packet_id[h] = 0
        /\ m_next_outgoing_packet_id[Other(h)] = 0
        /\ m_next_expected_packet_id[h] = 0 /\ tick = NotTicking
    BY OtherHost DEF Init, PdmInit
  <1>2. Len(<< >>) = 0
    OBVIOUS
  <1>3. \A packet \in Underway(h) : FALSE
    BY <1>1, <1>2 DEF Underway
  <1>4. tick.stage = "none"
    BY <1>1 DEF NotTicking
  <1>5. MaxPackets[h] \in 0 .. IdModulus - 1 /\ IdModulus \in Nat
    BY NeptunConstants, PacketConstants
  <1>6. 0 <= MaxPackets[h] /\ 0 <= 0
    BY <1>5
  <1> QED BY <1>1, <1>3, <1>4, <1>6 DEF IdsInv

LEMMA IdsStep ==
    ASSUME BaseInv, \A h \in Host : IdsInv(h), [Next]_vars
    PROVE  \A h \in Host : IdsInv(h)'
  BY Steps, IdsQuiet, IdsUnmoved, IdsReadPacket, IdsWrite

LEMMA IdsHold == Spec => [](BaseInv /\ \A h \in Host : IdsInv(h))
  <1> DEFINE Ids == \A h \in Host : IdsInv(h)
  <1>1. Init => Ids
    BY IdsInit
  <1>2. BaseInv /\ Ids /\ [Next]_vars => Ids'
    BY IdsStep
  <1> HIDE DEF Ids
  <1>3. Spec => [](BaseInv /\ Ids)
    BY <1>1, <1>2, BaseHolds, PTL DEF Spec
  <1> QED BY <1>3 DEF Ids

-----------------------------------------------------------------------------
(* The unreliable messages arrive whole and in order.                        *)

\* Every message is one of the first count messages, and their numbers ascend.
Whole(messages, count) ==
    /\ \A i \in 1 .. Len(messages) :
         messages[i][1] \in 1 .. count /\ messages[i] = <<messages[i][1]>>
    /\ \A i, j \in 1 .. Len(messages) : i < j => messages[i][1] < messages[j][1]

\* All messages of the first sequence have smaller numbers than those of the second.
Before(first, second) ==
    \A i \in 1 .. Len(first), j \in 1 .. Len(second) : first[i][1] < second[j][1]

\* How many unreliable messages have left h.
Left(h) == usubmitted[h] - Len(m_pending_messages[h])

\* Newer packets carry newer messages, and h has delivered only messages that are
\* older than those in the packets it may still accept.
UOrderInv(h) ==
    /\ \A packet \in Underway(h) : Whole(packet.unreliable.messages, Left(Other(h)))
    /\ \A p, q \in Underway(h) :
         p.header.id < q.header.id => Before(p.unreliable.messages, q.unreliable.messages)
    /\ Whole(udelivered[h], Left(Other(h)))
    /\ \A packet \in Underway(h) :
         packet.header.id >= m_next_expected_packet_id[h] =>
            Before(udelivered[h], packet.unreliable.messages)
    /\ Reading /\ tick.host = h =>
         /\ Whole(tick.packet.unreliable.messages, Left(Other(h)))
         /\ Before(udelivered[h], tick.packet.unreliable.messages)
         /\ \A packet \in Underway(h) :
              packet.header.id >= m_next_expected_packet_id[h] =>
                 Before(tick.packet.unreliable.messages, packet.unreliable.messages)

LEMMA WholeGrows ==
    ASSUME NEW count \in Nat, NEW more \in Nat, count <= more, NEW messages,
           Whole(messages, count)
    PROVE  Whole(messages, more)
  <1>1. \A m \in 1 .. count : m \in 1 .. more
    OBVIOUS
  <1> QED BY <1>1 DEF Whole

LEMMA LeftIsNumber ==
    ASSUME BaseInv, NEW h \in Host
    PROVE  Left(h) \in Nat
  <1>1. usubmitted[h] \in Nat /\ Len(m_pending_messages[h]) \in Nat
    BY TypesAt
  <1>2. Len(m_pending_messages[h]) <= usubmitted[h]
    BY DEF BaseInv, SpansInv, SpansLaid
  <1> QED BY <1>1, <1>2 DEF Left

\* Messages that are newer than all that have left before.
LEMMA NewMessages ==
    ASSUME NEW count \in Nat, NEW more \in Nat, NEW messages \in Seq(Seq(Nat)),
           count + Len(messages) <= more,
           \A i \in 1 .. Len(messages) : messages[i] = <<count + i>>
    PROVE  /\ Whole(messages, more)
           /\ \A old : Whole(old, count) => Before(old, messages)
  <1> DEFINE n == Len(messages)
  <1>1. n \in Nat
    OBVIOUS
  <1>2. \A i \in 1 .. n : messages[i] = <<count + i>> /\ messages[i][1] = count + i
    OBVIOUS
  <1> HIDE DEF n
  <1>3. \A i \in 1 .. n : count + i \in 1 .. more /\ count + i > count
    BY <1>1 DEF n
  <1>4. ASSUME NEW i \in 1 .. n
        PROVE  messages[i][1] \in 1 .. more /\ messages[i] = <<messages[i][1]>>
    BY <1>2, <1>3
  <1>5. ASSUME NEW i \in 1 .. n, NEW j \in 1 .. n, i < j
        PROVE  messages[i][1] < messages[j][1]
    BY <1>1, <1>2, <1>5
  <1>6. Whole(messages, more)
    BY <1>4, <1>5 DEF Whole, n
  <1>7. ASSUME NEW old, Whole(old, count), NEW i \in 1 .. Len(old), NEW j \in 1 .. n
        PROVE  old[i][1] < messages[j][1]
    <2>1. old[i][1] \in 1 .. count
      BY <1>7 DEF Whole
    <2>2. messages[j][1] = count + j /\ count + j > count /\ count + j \in Nat
      BY <1>1, <1>2, <1>3
    <2> QED BY ONLY <2>1, <2>2, count \in Nat, j \in Nat
  <1> QED BY <1>6, <1>7 DEF Before, n

\* Messages behind others, and the first of some messages.
LEMMA WholeConcat ==
    ASSUME NEW count \in Nat, NEW old \in Seq(Seq(Nat)), NEW new \in Seq(Seq(Nat)),
           Whole(old, count), Whole(new, count), Before(old, new)
    PROVE  Whole(old \o new, count)
  <1> DEFINE all == old \o new
             n == Len(old)
             m == Len(new)
  <1>1. /\ n \in Nat /\ m \in Nat /\ Len(all) = n + m
        /\ \A i \in 1 .. n : all[i] = old[i]
        /\ \A i \in 1 .. m : all[n + i] = new[i]
    BY ConcatIndices
  <1>2. /\ \A i \in 1 .. n : old[i][1] \in 1 .. count /\ old[i] = <<old[i][1]>>
        /\ \A i, j \in 1 .. n : i < j => old[i][1] < old[j][1]
        /\ \A i \in 1 .. m : new[i][1] \in 1 .. count /\ new[i] = <<new[i][1]>>
        /\ \A i, j \in 1 .. m : i < j => new[i][1] < new[j][1]
        /\ \A i \in 1 .. n, j \in 1 .. m : old[i][1] < new[j][1]
    BY DEF Whole, Before
  <1> HIDE DEF all, n, m
  <1>3. ASSUME NEW i \in 1 .. n + m
        PROVE  \/ i \in 1 .. n /\ all[i] = old[i]
               \/ i - n \in 1 .. m /\ all[i] = new[i - n]
    <2>1. CASE i <= n
      BY <1>1, <2>1
    <2>2. CASE ~(i <= n)
      <3>1. i - n \in 1 .. m /\ n + (i - n) = i
        BY <1>1, <2>2
      <3> QED BY <1>1, <3>1
    <2> QED BY <2>1, <2>2
  <1>4. ASSUME NEW i \in 1 .. n + m
        PROVE  all[i][1] \in 1 .. count /\ all[i] = <<all[i][1]>>
    BY <1>2, <1>3
  <1>5. ASSUME NEW i \in 1 .. n + m, NEW j \in 1 .. n + m, i < j
        PROVE  all[i][1] < all[j][1]
    <2>1. CASE j \in 1 .. n /\ all[j] = old[j]
      <3>1. i \in 1 .. n
        BY <1>1, <1>5, <2>1
      <3>2. all[i] = old[i]
        BY <1>1, <3>1
      <3> QED BY <1>2, <1>5, <2>1, <3>1, <3>2
    <2>2. CASE j - n \in 1 .. m /\ all[j] = new[j - n]
      <3>1. CASE i \in 1 .. n /\ all[i] = old[i]
        BY <1>2, <2>2, <3>1
      <3>2. CASE i - n \in 1 .. m /\ all[i] = new[i - n]
        <4>1. i - n < j - n
          BY <1>1, <1>5
        <4> QED BY <1>2, <2>2, <3>2, <4>1
      <3> QED BY <1>3, <3>1, <3>2
    <2> QED BY <1>3, <2>1, <2>2
  <1> QED BY <1>1, <1>4, <1>5 DEF Whole, all

LEMMA BeforeConcat ==
    ASSUME NEW old \in Seq(Seq(Nat)), NEW new \in Seq(Seq(Nat)), NEW later,
           Before(old, later), Before(new, later)
    PROVE  Before(old \o new, later)
  <1> DEFINE all == old \o new
             n == Len(old)
             m == Len(new)
  <1>1. /\ n \in Nat /\ m \in Nat /\ Len(all) = n + m
        /\ \A i \in 1 .. n : all[i] = old[i]
        /\ \A i \in 1 .. m : all[n + i] = new[i]
    BY ConcatIndices
  <1>2. /\ \A i \in 1 .. n, j \in 1 .. Len(later) : old[i][1] < later[j][1]
        /\ \A i \in 1 .. m, j \in 1 .. Len(later) : new[i][1] < later[j][1]
    BY DEF Before
  <1> HIDE DEF all, n, m
  <1>3. ASSUME NEW i \in 1 .. n + m, NEW j \in 1 .. Len(later)
        PROVE  all[i][1] < later[j][1]
    <2>1. CASE i <= n
      <3>1. i \in 1 .. n
        BY <1>1, <2>1
      <3>2. all[i] = old[i]
        BY <1>1, <3>1
      <3> QED BY <1>2, <3>1, <3>2
    <2>2. CASE ~(i <= n)
      <3>1. i - n \in 1 .. m /\ n + (i - n) = i
        BY <1>1, <2>2
      <3>2. all[i] = new[i - n]
        BY <1>1, <3>1
      <3> QED BY <1>2, <3>1, <3>2
    <2> QED BY <2>1, <2>2
  <1> QED BY <1>1, <1>3 DEF Before, all

LEMMA FirstMessages ==
    ASSUME NEW segment \in USegment, segment.message_count \in 0 .. Len(segment.messages),
           NEW count \in Nat, Whole(segment.messages, count)
    PROVE  /\ Whole(UnreliableRead(segment), count)
           /\ \A other : /\ Before(other, segment.messages) => Before(other, UnreliableRead(segment))
                         /\ Before(segment.messages, other) => Before(UnreliableRead(segment), other)
  <1> DEFINE all == segment.messages
             some == UnreliableRead(segment)
             n == segment.message_count
  <1>1. /\ Len(some) = n /\ n \in Nat /\ n <= Len(all) /\ Len(all) \in Nat
        /\ \A i \in 1 .. n : some[i] = all[i]
    <2>1. /\ Len(some) = n
          /\ \A i \in 1 .. n : some[i] = all[i]
      BY UnreliableReadProperties
    <2>2. all \in Seq(Seq(Nat)) /\ n \in 0 .. Len(all)
      BY DEF USegment
    <2> HIDE DEF all, some, n
    <2> QED BY <2>1, <2>2
  <1>2. Whole(all, count)
    OBVIOUS
  <1> HIDE DEF all, some, n
  <1>3. \A i \in 1 .. n : i \in 1 .. Len(all)
    BY <1>1
  <1>4. Whole(some, count)
    BY <1>1, <1>2, <1>3 DEF Whole
  <1>5. \A other : /\ Before(other, all) => Before(other, some)
                   /\ Before(all, other) => Before(some, other)
    BY <1>1, <1>3 DEF Before
  <1> QED BY <1>4, <1>5 DEF all, some

\* A step that hands no unreliable message to the application of h and reads no
\* packet there.
LEMMA UOrderFrame ==
    ASSUME BaseInv, NEW h \in Host, UOrderInv(h),
           Left(Other(h))' \in Nat, Left(Other(h)) <= Left(Other(h))',
           Underway(h)' \subseteq Underway(h),
           udelivered'[h] = udelivered[h],
           m_next_expected_packet_id'[h] = m_next_expected_packet_id[h],
           Reading' /\ tick'.host = h => Reading /\ tick.host = h /\ tick'.packet = tick.packet
    PROVE  UOrderInv(h)'
  <1> DEFINE count == Left(Other(h))
             more == Left(Other(h))'
  <1>1. count \in Nat /\ more \in Nat /\ count <= more
    BY OtherHost, LeftIsNumber
  <1> HIDE DEF count, more
  <1>2. \A messages : Whole(messages, count) => Whole(messages, more)
    BY <1>1, WholeGrows
  <1>3. \A packet \in Underway(h)' : Whole(packet.unreliable.messages, more)
    BY <1>2 DEF UOrderInv, count
  <1>4. \A p, q \in Underway(h)' :
          p.header.id < q.header.id => Before(p.unreliable.messages, q.unreliable.messages)
    BY DEF UOrderInv
  <1>5. Whole(udelivered'[h], more)
    BY <1>2 DEF UOrderInv, count
  <1>6. \A packet \in Underway(h)' :
         packet.header.id >= m_next_expected_packet_id'[h] =>
            Before(udelivered'[h], packet.unreliable.messages)
    BY DEF UOrderInv
  <1>7. Reading' /\ tick'.host = h =>
         /\ Whole(tick'.packet.unreliable.messages, more)
         /\ Before(udelivered'[h], tick'.packet.unreliable.messages)
         /\ \A packet \in Underway(h)' :
              packet.header.id >= m_next_expected_packet_id'[h] =>
                 Before(tick'.packet.unreliable.messages, packet.unreliable.messages)
    BY <1>2 DEF UOrderInv, count
  <1> QED BY <1>3, <1>4, <1>5, <1>6, <1>7 DEF UOrderInv, more

LEMMA UOrderQuiet ==
    ASSUME BaseInv, NEW h \in Host, UOrderInv(h), Quiet
    PROVE  UOrderInv(h)'
  <1>1. Left(Other(h))' = Left(Other(h)) /\ Left(Other(h)) \in Nat
    BY OtherHost, LeftIsNumber DEF Quiet, Left, historyVars
  <1>2. Left(Other(h))' \in Nat /\ Left(Other(h)) <= Left(Other(h))'
    BY <1>1
  <1> QED BY <1>2, UOrderFrame DEF Quiet, historyVars

LEMMA UOrderSend ==
    ASSUME BaseInv, NEW h \in Host, UOrderInv(h), NEW g \in Host,
           SendReliable(g) \/ SendUnreliable(g) \/ ReadReliableMessage(g)
    PROVE  UOrderInv(h)'
  <1> DEFINE o == Other(h)
  <1>1. UNCHANGED <<m_next_expected_packet_id, network, tick, udelivered>>
    BY DEF SendReliable, SendUnreliable, ReadReliableMessage, pdmVars
  <1>2. Left(o) \in Nat /\ o \in Host
    BY OtherHost, LeftIsNumber
  <1> HIDE DEF o
  <1>3. Left(o)' = Left(o)
    <2>1. CASE SendReliable(g) \/ ReadReliableMessage(g)
      BY <2>1 DEF SendReliable, ReadReliableMessage, unreliableVars, Left
    <2>2. CASE SendUnreliable(g)
      <3> DEFINE span == [begin |-> m_unreliable_buffer[g].m_end,
                          end |-> m_unreliable_buffer[g].m_end + 1]
                 more == Append(m_pending_messages[g], span)
      <3>1. /\ usubmitted' = [usubmitted EXCEPT ![g] = usubmitted[g] + 1]
            /\ m_pending_messages' = [m_pending_messages EXCEPT ![g] = more]
        BY <2>2 DEF SendUnreliable, UnreliableSend
      <3>2. Len(more) = Len(m_pending_messages[g]) + 1
        BY TypesAt
      <3>3. usubmitted[g] \in Nat /\ Len(m_pending_messages[g]) \in Nat
        BY TypesAt
      <3> HIDE DEF more
      <3>4. o = g => usubmitted'[o] = usubmitted[o] + 1 /\ m_pending_messages'[o] = more
        BY <3>1 DEF BaseInv, HistoryTypeOK, SpansTypeOK
      <3>5. o # g => usubmitted'[o] = usubmitted[o] /\ m_pending_messages'[o] = m_pending_messages[o]
        BY <1>2, <3>1 DEF BaseInv, HistoryTypeOK, SpansTypeOK
      <3>6. CASE o = g
        BY <3>2, <3>3, <3>4, <3>6 DEF Left
      <3>7. CASE o # g
        BY <3>5, <3>7 DEF Left
      <3> QED BY <3>6, <3>7
    <2> QED BY <2>1, <2>2
  <1>4. Left(o)' \in Nat /\ Left(o) <= Left(o)'
    BY <1>2, <1>3
  <1>5. Underway(h)' = Underway(h) /\ Reading' = Reading
    BY <1>1 DEF Underway, Reading
  <1> QED BY <1>1, <1>4, <1>5, UOrderFrame DEF o

LEMMA UOrderReadPacket ==
    ASSUME BaseInv, NEW h \in Host, IdsInv(h), UOrderInv(h), NEW g \in Host,
           NEW i \in 1 .. Len(network[g]), ReadPacket(g, i)
    PROVE  UOrderInv(h)'
  <1> DEFINE count == Left(Other(h))
  <1>1. PICK packet \in Underway(g) :
          /\ \A f \in Host : Underway(f)' \subseteq Underway(f)
          /\ UNCHANGED <<m_next_outgoing_packet_id, unreliableVars, historyVars>>
          /\ tick.host = g /\ tick.stage = "old" /\ tick'.host = g
          /\ \/ /\ Accepts(g, packet.header)
                /\ m_next_expected_packet_id' =
                     [m_next_expected_packet_id EXCEPT ![g] = (packet.header.id + 1) % IdModulus]
                /\ tick'.stage = "acks" /\ tick'.packet = packet
             \/ /\ m_next_expected_packet_id' = m_next_expected_packet_id
                /\ tick'.stage = "write"
    BY PacketRead
  <1>2. count \in Nat /\ Left(Other(h))' = count /\ udelivered' = udelivered
    BY <1>1, OtherHost, LeftIsNumber DEF unreliableVars, historyVars, Left
  <1>3. Left(Other(h))' \in Nat /\ Left(Other(h)) <= Left(Other(h))'
    BY <1>2
  <1>4. Underway(h)' \subseteq Underway(h)
    BY <1>1
  <1>5. CASE h # g \/ tick'.stage = "write"
    <2>1. ~(Reading' /\ tick'.host = h)
      BY <1>1, <1>5 DEF Reading
    <2>2. m_next_expected_packet_id'[h] = m_next_expected_packet_id[h]
      BY <1>1, <1>5 DEF BaseInv, PdmTypeOK
    <2> QED BY <1>2, <1>3, <1>4, <2>1, <2>2, UOrderFrame
  <1>6. CASE h = g /\ tick'.stage # "write"
    <2> DEFINE id == packet.header.id
               expected == m_next_expected_packet_id[h]
               next == m_next_outgoing_packet_id[Other(h)]
    <2>1. /\ packet \in Underway(h) /\ tick'.packet = packet /\ id >= expected
          /\ m_next_expected_packet_id'[h] = (id + 1) % IdModulus
      BY <1>1, <1>6 DEF Accepts, BaseInv, PdmTypeOK
    <2>2. id < next
      BY <2>1 DEF IdsInv
    <2>3. next \in Nat /\ id \in Nat /\ IdModulus \in Nat /\ next < IdModulus /\ expected \in Nat
      BY <2>1, OtherHost, NumbersOfPackets, TypesAt DEF PacketId
    <2>4. \A p \in Underway(h) : p.header.id \in Nat
      BY NumbersOfPackets
    <2> HIDE DEF id, next, expected
    <2>5. id + 1 \in Nat /\ id + 1 < IdModulus
      BY <2>2, <2>3
    <2>6. m_next_expected_packet_id'[h] = id + 1
      BY <2>1, <2>3, <2>5, SmallRemainder
    <2>7. \A p \in Underway(h) :
            p.header.id >= id + 1 => p.header.id >= expected /\ id < p.header.id
      BY <2>1, <2>3, <2>4
    <2>8. /\ \A p \in Underway(h) : Whole(p.unreliable.messages, count)
          /\ \A p, q \in Underway(h) :
               p.header.id < q.header.id => Before(p.unreliable.messages, q.unreliable.messages)
          /\ Whole(udelivered[h], count)
          /\ \A p \in Underway(h) :
               p.header.id >= expected => Before(udelivered[h], p.unreliable.messages)
      BY DEF UOrderInv, expected
    <2> HIDE DEF count
    <2>9. \A p \in Underway(h)' :
            p.header.id >= m_next_expected_packet_id'[h] =>
              /\ Before(udelivered[h], p.unreliable.messages)
              /\ Before(packet.unreliable.messages, p.unreliable.messages)
      BY <1>4, <2>1, <2>6, <2>7, <2>8 DEF id
    <2>10. /\ Whole(packet.unreliable.messages, count)
           /\ Before(udelivered[h], packet.unreliable.messages)
      BY <2>1, <2>8 DEF id
    <2> QED BY <1>2, <1>4, <2>1, <2>8, <2>9, <2>10 DEF UOrderInv
  <1> QED BY <1>5, <1>6

LEMMA UOrderReadSegments ==
    ASSUME NotRefused, BaseInv, NEW h \in Host, UOrderInv(h), NEW g \in Host, ReadSegments(g)
    PROVE  UOrderInv(h)'
  <1> DEFINE count == Left(Other(h))
  <1>1. /\ tick.host = g /\ tick.stage = "segments" /\ tick.packet \in SentPacket
        /\ tick'.stage = "write"
        /\ \A f \in Host \ {g} : udelivered'[f] = udelivered[f]
        /\ udelivered'[g] = udelivered[g] \o UnreliableRead(tick.packet.unreliable)
        /\ UNCHANGED <<pdmVars, unreliableVars, network, usubmitted>>
    BY SegmentsTaken, SegmentsOfPacket
  <1>2. count \in Nat /\ Left(Other(h))' = count
    BY <1>1, OtherHost, LeftIsNumber DEF unreliableVars, Left
  <1>3. Left(Other(h))' \in Nat /\ Left(Other(h)) <= Left(Other(h))'
    BY <1>2
  <1>4. /\ Underway(h)' = Underway(h) /\ ~Reading' /\ Reading
        /\ m_next_expected_packet_id' = m_next_expected_packet_id
    BY <1>1 DEF Underway, Reading, pdmVars
  <1>5. CASE h # g
    BY <1>1, <1>3, <1>4, <1>5, UOrderFrame
  <1>6. CASE h = g
    <2> DEFINE segment == tick.packet.unreliable
               got == UnreliableRead(segment)
               old == udelivered[h]
    <2>1. /\ segment \in USegment /\ segment.message_count \in 0 .. Len(segment.messages)
      BY <1>1, PacketFields
    <2>2. /\ \A p \in Underway(h) : Whole(p.unreliable.messages, count)
          /\ \A p, q \in Underway(h) :
               p.header.id < q.header.id => Before(p.unreliable.messages, q.unreliable.messages)
          /\ Whole(old, count)
          /\ \A p \in Underway(h) : p.header.id >= m_next_expected_packet_id[h] =>
               /\ Before(old, p.unreliable.messages)
               /\ Before(segment.messages, p.unreliable.messages)
          /\ Whole(segment.messages, count) /\ Before(old, segment.messages)
      BY <1>1, <1>4, <1>6 DEF UOrderInv
    <2>3. old \in Seq(Seq(Nat)) /\ got \in Seq(Seq(Nat))
      BY <2>1, TypesAt, UnreliableReadProperties
    <2> HIDE DEF segment, count, old
    <2>4. /\ Whole(got, count) /\ Before(old, got)
          /\ \A other : Before(segment.messages, other) => Before(got, other)
      BY <1>2, <2>1, <2>2, FirstMessages
    <2> HIDE DEF got
    <2>5. Whole(old \o got, count)
      BY <1>2, <2>2, <2>3, <2>4, WholeConcat
    <2>6. \A p \in Underway(h) : p.header.id >= m_next_expected_packet_id[h] =>
            Before(old \o got, p.unreliable.messages)
      BY <2>2, <2>3, <2>4, BeforeConcat
    <2>7. udelivered'[h] = old \o got
      BY <1>1, <1>6 DEF old, got, segment
    <2> QED BY <1>2, <1>4, <2>2, <2>5, <2>6, <2>7 DEF UOrderInv
  <1> QED BY <1>5, <1>6

LEMMA UOrderWrite ==
    ASSUME BaseInv, NEW h \in Host, IdsInv(h), UOrderInv(h), NEW g \in Host, WritePacket(g)
    PROVE  UOrderInv(h)'
  <1> DEFINE pending == m_pending_messages[g]
             count == Left(g)
             next == m_next_outgoing_packet_id[g]
  <1>1. PICK packet \in SentPacket :
          /\ packet.header.id = next
          /\ \A i \in 1 .. Len(packet.unreliable.messages) :
               packet.unreliable.messages[i] = <<count + i>>
          /\ Len(packet.unreliable.messages) <= Len(pending)
          /\ Len(pending) <= usubmitted[g]
          /\ \/ packet.unreliable.messages = << >> /\ m_pending_messages' = m_pending_messages
             \/ m_pending_messages' = [m_pending_messages EXCEPT ![g] = << >>]
          /\ Underway(Other(g))' \subseteq Underway(Other(g)) \cup {packet}
          /\ Underway(g)' = Underway(g)
          /\ m_next_expected_packet_id' = m_next_expected_packet_id
          /\ tick' = NotTicking /\ UNCHANGED historyVars
    BY PacketWritten DEF Left
  <1> DEFINE new == packet.unreliable.messages
             more == Left(g)'
  <1>2. usubmitted' = usubmitted /\ udelivered' = udelivered /\ ~Reading'
    BY <1>1 DEF historyVars, Reading, NotTicking
  <1>3. new \in Seq(Seq(Nat)) /\ Len(new) \in Nat
    BY PacketFields
  <1>4. count \in Nat /\ more \in Nat /\ count + Len(new) <= more
    <2>1. usubmitted[g] \in Nat /\ Len(pending) \in Nat
      BY TypesAt
    <2>2. \/ new = << >> /\ m_pending_messages'[g] = pending
          \/ m_pending_messages'[g] = << >>
      BY <1>1 DEF BaseInv, SpansTypeOK
    <2>3. Len(<< >>) = 0
      OBVIOUS
    <2>4. /\ count = usubmitted[g] - Len(pending)
          /\ more = usubmitted[g] - Len(m_pending_messages'[g])
      BY <1>2 DEF Left
    <2>5. Len(new) <= Len(pending) /\ Len(pending) <= usubmitted[g]
      BY <1>1
    <2> HIDE DEF count, more, new, pending
    <2>6. CASE new = << >> /\ m_pending_messages'[g] = pending
      <3>1. Len(new) = 0 /\ Len(m_pending_messages'[g]) = Len(pending)
        BY <2>3, <2>6
      <3> QED BY <2>1, <2>4, <2>5, <3>1
    <2>7. CASE m_pending_messages'[g] = << >>
      <3>1. Len(m_pending_messages'[g]) = 0
        BY <2>3, <2>7
      <3> QED BY <1>3, <2>1, <2>4, <2>5, <3>1
    <2> QED BY <2>2, <2>6, <2>7
  <1>5. CASE h = g
    <2> DEFINE o == Other(h)
    <2>1. o \in Host /\ o # g /\ Left(o) \in Nat
      BY <1>5, OtherHost, LeftIsNumber
    <2>2. m_pending_messages'[o] = m_pending_messages[o]
      BY <1>1, <2>1 DEF BaseInv, SpansTypeOK
    <2>3. Left(o)' = Left(o)
      BY <1>2, <2>2 DEF Left
    <2>4. Left(o)' \in Nat /\ Left(o) <= Left(o)'
      BY <2>1, <2>3
    <2> QED BY <1>1, <1>2, <1>5, <2>4, UOrderFrame
  <1>6. CASE h # g
    <2>1. h = Other(g) /\ g = Other(h)
      BY <1>6, OtherHost
    <2>2. /\ \A p \in Underway(h) : Whole(p.unreliable.messages, count)
          /\ \A p, q \in Underway(h) :
               p.header.id < q.header.id => Before(p.unreliable.messages, q.unreliable.messages)
          /\ Whole(udelivered[h], count)
          /\ \A p \in Underway(h) :
               p.header.id >= m_next_expected_packet_id[h] =>
                  Before(udelivered[h], p.unreliable.messages)
      BY <2>1 DEF UOrderInv
    <2>3. \A p \in Underway(h) : p.header.id < next /\ p.header.id \in Nat
      BY <2>1, NumbersOfPackets DEF IdsInv
    <2>4. next \in Nat
      BY NumbersOfPackets
    <2>5. \A p \in Underway(h)' : p \in Underway(h) \/ p = packet
      BY <1>1, <2>1
    <2>6. packet.header.id = next /\ \A i \in 1 .. Len(new) : new[i] = <<count + i>>
      BY <1>1
    <2>61. m_next_expected_packet_id' = m_next_expected_packet_id
      BY <1>1
    <2> HIDE DEF count, more, next
    <2>7. Whole(new, more) /\ \A old : Whole(old, count) => Before(old, new)
      <3> HIDE DEF new
      <3> QED BY <1>3, <1>4, <2>6, NewMessages
    <2>8. \A messages : Whole(messages, count) => Whole(messages, more)
      <3>1. count <= more
        <4> HIDE DEF new
        <4> QED BY <1>3, <1>4
      <3> QED BY <1>4, <3>1, WholeGrows
    <2>9. \A p \in Underway(h)' : Whole(p.unreliable.messages, more)
      BY <2>2, <2>5, <2>7, <2>8
    <2>10. ASSUME NEW p \in Underway(h)', NEW q \in Underway(h)', p.header.id < q.header.id
           PROVE  Before(p.unreliable.messages, q.unreliable.messages)
      <3>1. CASE q = packet
        <4>1. p # packet
          BY <2>4, <2>6, <2>10, <3>1
        <4> QED BY <2>2, <2>5, <2>7, <3>1, <4>1
      <3>2. CASE q # packet
        <4>1. q \in Underway(h)
          BY <2>5, <3>2
        <4>2. p # packet
          BY <2>3, <2>4, <2>6, <2>10, <4>1
        <4> QED BY <2>2, <2>5, <2>10, <4>1, <4>2
      <3> QED BY <3>1, <3>2
    <2>11. Whole(udelivered'[h], more)
      BY <1>2, <2>2, <2>8
    <2>12. \A p \in Underway(h)' :
             p.header.id >= m_next_expected_packet_id'[h] =>
               Before(udelivered'[h], p.unreliable.messages)
      BY <1>2, <2>2, <2>5, <2>61, <2>7
    <2>13. Left(Other(h))' = more
      BY <2>1 DEF more
    <2> QED BY <1>2, <2>9, <2>10, <2>11, <2>12, <2>13 DEF UOrderInv
  <1> QED BY <1>5, <1>6

LEMMA UOrderInit ==
    ASSUME Init, NEW h \in Host
    PROVE  UOrderInv(h)
  <1>1. /\ network[h] = << >> /\ udelivered[h] = << >> /\ tick = NotTicking
    BY DEF Init
  <1>2. Len(<< >>) = 0
    OBVIOUS
  <1>3. \A packet \in Underway(h) : FALSE
    BY <1>1, <1>2 DEF Underway
  <1>4. ~Reading
    BY <1>1 DEF Reading, NotTicking
  <1>5. Whole(udelivered[h], Left(Other(h)))
    BY <1>1, <1>2 DEF Whole
  <1> QED BY <1>3, <1>4, <1>5 DEF UOrderInv

LEMMA UOrderStep ==
    ASSUME NotRefused, BaseInv, \A h \in Host : IdsInv(h), \A h \in Host : UOrderInv(h),
           [Next]_vars
    PROVE  \A h \in Host : UOrderInv(h)'
  BY Steps, UOrderQuiet, UOrderSend, UOrderReadPacket, UOrderReadSegments, UOrderWrite

LEMMA UOrderShows ==
    ASSUME BaseInv, \A h \in Host : UOrderInv(h)
    PROVE  UnreliableInOrder
  <1> SUFFICES ASSUME NEW h \in Host
               PROVE  /\ \A i \in 1 .. Len(udelivered[h]) :
                           udelivered[h][i] \in {<<m>> : m \in 1 .. usubmitted[Other(h)]}
                      /\ \A i, j \in 1 .. Len(udelivered[h]) :
                           i < j => udelivered[h][i][1] < udelivered[h][j][1]
    BY DEF UnreliableInOrder
  <1> DEFINE o == Other(h)
             got == udelivered[h]
  <1>1. Whole(got, Left(o))
    BY DEF UOrderInv
  <1>2. o \in Host /\ Left(o) \in Nat
    BY OtherHost, LeftIsNumber
  <1>3. usubmitted[o] \in Nat /\ Len(m_pending_messages[o]) \in Nat
    BY <1>2, TypesAt
  <1>4. Left(o) <= usubmitted[o]
    BY <1>2, <1>3 DEF Left
  <1> HIDE DEF o, got
  <1>5. Whole(got, usubmitted[o])
    BY <1>1, <1>2, <1>3, <1>4, WholeGrows
  <1> QED BY <1>5 DEF Whole, o, got

-----------------------------------------------------------------------------
(* The fates of packets reach the reliable stream in order.                  *)

\* The ids of the packets or statuses of a queue.
Ids(queue) == {queue[i].id : i \in 1 .. Len(queue)}

\* The statuses that are still to be handed on at h, and the packet whose messages
\* its reliable stream pops.
Told(h) == IF tick.host = h THEN tick.statuses ELSE << >>
Acking(h) == IF call[h].op = "ack" THEN {call[h].id} ELSE {}

\* The acknowledged packet is older than those of the statuses, these are older than
\* the packets in flight, and all are in order.
Awaiting(packets, statuses, acked, next) ==
    /\ \A i \in 1 .. Len(packets) : packets[i].id < next
    /\ \A i, j \in 1 .. Len(packets) : i < j => packets[i].id < packets[j].id
    /\ \A i \in 1 .. Len(statuses) : statuses[i].id < next
    /\ \A i, j \in 1 .. Len(statuses) : i < j => statuses[i].id < statuses[j].id
    /\ \A i \in 1 .. Len(statuses), j \in 1 .. Len(packets) : statuses[i].id < packets[j].id
    /\ \A id \in acked : /\ \A i \in 1 .. Len(statuses) : id < statuses[i].id
                         /\ \A i \in 1 .. Len(packets) : id < packets[i].id

\* The messages in flight are in the order of their packets.
Queued(flight, next) ==
    /\ \A i \in 1 .. Len(flight) : flight[i].packet_id < next
    /\ \A i, j \in 1 .. Len(flight) : i < j => flight[i].packet_id <= flight[j].packet_id

\* The fate of every packet with messages in flight is still to come.
Carried(flight, ids) == \A i \in 1 .. Len(flight) : flight[i].packet_id \in ids

FateInv(h) ==
    /\ Awaiting(m_in_flight_packets[h], Told(h), Acking(h), m_next_outgoing_packet_id[h])
    /\ Queued(in_flight_messages[h], m_next_outgoing_packet_id[h])
    /\ m_hangs[h] => tick.stage = "none" \/ tick.host # h
    /\ ~m_hangs[h] =>
         Carried(in_flight_messages[h], Acking(h) \cup Ids(Told(h)) \cup Ids(m_in_flight_packets[h]))

\* A network that keeps the order: the packets on their way to h are newer than all
\* it has read, and in order.
Newer(queue, first) ==
    /\ \A i \in 1 .. Len(queue) : queue[i].header.id >= first
    /\ \A i, j \in 1 .. Len(queue) : i < j => queue[i].header.id < queue[j].header.id

NetOrdered(h) == Newer(network[h], m_next_expected_packet_id[h])

\* The fates of the first n packets in flight become known.
LEMMA FatesKnown ==
    ASSUME NEW packets \in Seq(InFlightPacket), NEW next \in Nat,
           Awaiting(packets, << >>, {}, next), NEW n \in 0 .. Len(packets),
           NEW statuses \in Seq(DeliveryStatus), Len(statuses) = n,
           \A i \in 1 .. n : statuses[i].id = packets[i].id
    PROVE  /\ Awaiting(Popped(packets, n), statuses, {}, next)
           /\ Ids(packets) \subseteq Ids(statuses) \cup Ids(Popped(packets, n))
  <1> DEFINE m == Len(packets)
             rest == Popped(packets, n)
  <1>1. /\ m \in Nat /\ n \in Nat /\ n <= m /\ Len(rest) = m - n
        /\ \A i \in 1 .. m - n : rest[i] = packets[n + i]
    BY PoppedProperties
  <1>2. /\ \A i \in 1 .. m : packets[i].id < next
        /\ \A i, j \in 1 .. m : i < j => packets[i].id < packets[j].id
    BY DEF Awaiting
  <1> HIDE DEF m, rest
  <1>3. /\ \A i \in 1 .. n : i \in 1 .. m
        /\ \A i \in 1 .. m - n : n + i \in 1 .. m
        /\ \A i \in 1 .. n, j \in 1 .. m - n : i < n + j
        /\ \A i, j \in 1 .. m - n : i < j => n + i < n + j
    BY <1>1
  <1>4. /\ \A i \in 1 .. m - n : rest[i].id < next
        /\ \A i, j \in 1 .. m - n : i < j => rest[i].id < rest[j].id
    BY <1>1, <1>2, <1>3
  <1>5. /\ \A i \in 1 .. n : statuses[i].id < next
        /\ \A i, j \in 1 .. n : i < j => statuses[i].id < statuses[j].id
    BY <1>2, <1>3
  <1>6. \A i \in 1 .. n, j \in 1 .. m - n : statuses[i].id < rest[j].id
    BY <1>1, <1>2, <1>3
  <1>7. Awaiting(rest, statuses, {}, next)
    BY <1>1, <1>4, <1>5, <1>6 DEF Awaiting
  <1>8. ASSUME NEW i \in 1 .. m
        PROVE  packets[i].id \in Ids(statuses) \cup Ids(rest)
    <2>1. CASE i <= n
      <3>1. i \in 1 .. Len(statuses) /\ statuses[i].id = packets[i].id
        BY <1>1, <2>1
      <3>2. statuses[i].id \in Ids(statuses)
        BY <3>1 DEF Ids
      <3> QED BY <3>1, <3>2
    <2>2. CASE ~(i <= n)
      <3>1. i - n \in 1 .. m - n /\ n + (i - n) = i
        BY <1>1, <2>2
      <3>2. i - n \in 1 .. Len(rest) /\ rest[i - n] = packets[i]
        BY <1>1, <3>1
      <3>3. rest[i - n].id \in Ids(rest)
        BY <3>2 DEF Ids
      <3> QED BY <3>2, <3>3
    <2> QED BY <2>1, <2>2
  <1>9. Ids(packets) \subseteq Ids(statuses) \cup Ids(rest)
    BY <1>8 DEF Ids, m
  <1> QED BY <1>7, <1>9 DEF rest

\* The next status is handed on; the stream may begin to pop the packet's messages.
LEMMA FateTaken ==
    ASSUME NEW packets \in Seq(InFlightPacket), NEW next \in Nat,
           NEW statuses \in Seq(DeliveryStatus), statuses # << >>,
           Awaiting(packets, statuses, {}, next)
    PROVE  /\ Awaiting(packets, Tail(statuses), {}, next)
           /\ Awaiting(packets, Tail(statuses), {Head(statuses).id}, next)
           /\ Ids(statuses) \subseteq {Head(statuses).id} \cup Ids(Tail(statuses))
  <1> DEFINE m == Len(statuses)
             rest == Tail(statuses)
             first == Head(statuses)
  <1>1. /\ m \in Nat /\ m > 0 /\ Len(rest) = m - 1
        /\ \A i \in 1 .. m - 1 : rest[i] = statuses[i + 1]
        /\ first = statuses[1]
    BY TailProperties
  <1>2. /\ \A i \in 1 .. Len(packets) : packets[i].id < next
        /\ \A i, j \in 1 .. Len(packets) : i < j => packets[i].id < packets[j].id
        /\ \A i \in 1 .. m : statuses[i].id < next
        /\ \A i, j \in 1 .. m : i < j => statuses[i].id < statuses[j].id
        /\ \A i \in 1 .. m, j \in 1 .. Len(packets) : statuses[i].id < packets[j].id
    BY DEF Awaiting
  <1> HIDE DEF m, rest, first
  <1>3. /\ 1 \in 1 .. m
        /\ \A i \in 1 .. m - 1 : i + 1 \in 1 .. m /\ 1 < i + 1
        /\ \A i, j \in 1 .. m - 1 : i < j => i + 1 < j + 1
    BY <1>1
  <1>4. /\ \A i \in 1 .. m - 1 : rest[i].id < next
        /\ \A i, j \in 1 .. m - 1 : i < j => rest[i].id < rest[j].id
        /\ \A i \in 1 .. m - 1, j \in 1 .. Len(packets) : rest[i].id < packets[j].id
    BY <1>1, <1>2, <1>3
  <1>5. /\ \A i \in 1 .. m - 1 : first.id < rest[i].id
        /\ \A i \in 1 .. Len(packets) : first.id < packets[i].id
    BY <1>1, <1>2, <1>3
  <1>6. Awaiting(packets, rest, {}, next) /\ Awaiting(packets, rest, {first.id}, next)
    BY <1>1, <1>2, <1>4, <1>5 DEF Awaiting
  <1>7. ASSUME NEW i \in 1 .. m PROVE statuses[i].id \in {first.id} \cup Ids(rest)
    <2>1. CASE i = 1
      BY <1>1, <2>1
    <2>2. CASE i # 1
      <3>1. i - 1 \in 1 .. m - 1 /\ (i - 1) + 1 = i
        BY <1>1, <2>2
      <3>2. i - 1 \in 1 .. Len(rest) /\ rest[i - 1] = statuses[i]
        BY <1>1, <3>1
      <3>3. rest[i - 1].id \in Ids(rest)
        BY <3>2 DEF Ids
      <3> QED BY <3>2, <3>3
    <2> QED BY <2>1, <2>2
  <1>8. Ids(statuses) \subseteq {first.id} \cup Ids(rest)
    BY <1>7 DEF Ids, m
  <1> QED BY <1>6, <1>8 DEF rest, first

\* The first message in flight is popped.
LEMMA QueuePopped ==
    ASSUME NEW flight \in Seq(InFlightMessage), flight # << >>, NEW next, NEW ids,
           Queued(flight, next)
    PROVE  /\ Queued(Tail(flight), next)
           /\ Carried(flight, ids) => Carried(Tail(flight), ids)
  <1> DEFINE m == Len(flight)
             rest == Tail(flight)
  <1>1. /\ m \in Nat /\ m > 0 /\ Len(rest) = m - 1
        /\ \A i \in 1 .. m - 1 : rest[i] = flight[i + 1]
    BY TailProperties
  <1>2. /\ \A i \in 1 .. m : flight[i].packet_id < next
        /\ \A i, j \in 1 .. m : i < j => flight[i].packet_id <= flight[j].packet_id
    BY DEF Queued
  <1> HIDE DEF m, rest
  <1>3. /\ \A i \in 1 .. m - 1 : i + 1 \in 1 .. m
        /\ \A i, j \in 1 .. m - 1 : i < j => i + 1 < j + 1
    BY <1>1
  <1>4. Queued(rest, next)
    BY <1>1, <1>2, <1>3 DEF Queued
  <1>5. Carried(flight, ids) => Carried(rest, ids)
    BY <1>1, <1>3 DEF Carried, m
  <1> QED BY <1>4, <1>5 DEF rest

\* No message of the acknowledged packet is left.
LEMMA AckEnds ==
    ASSUME NEW flight \in Seq(InFlightMessage), NEW packets \in Seq(InFlightPacket),
           NEW statuses \in Seq(DeliveryStatus), NEW id \in Nat, NEW next,
           Queued(flight, next), Awaiting(packets, statuses, {id}, next),
           Carried(flight, {id} \cup Ids(statuses) \cup Ids(packets)),
           flight = << >> \/ Head(flight).packet_id # id
    PROVE  Carried(flight, Ids(statuses) \cup Ids(packets))
  <1>1. ASSUME NEW other \in Ids(statuses) \cup Ids(packets) PROVE id < other
    BY DEF Ids, Awaiting
  <1>2. ASSUME NEW i \in 1 .. Len(flight) PROVE flight[i].packet_id # id
    <2>1. Len(flight) \in Nat /\ flight # << >>
      BY <1>2
    <2>2. Head(flight) = flight[1] /\ 1 \in 1 .. Len(flight)
      BY <2>1
    <2>3. flight[1].packet_id # id /\ flight[1].packet_id \in {id} \cup Ids(statuses) \cup Ids(packets)
      BY <2>1, <2>2 DEF Carried
    <2>4. id < flight[1].packet_id
      BY <1>1, <2>3
    <2>5. i = 1 \/ flight[1].packet_id <= flight[i].packet_id
      BY <2>1, <2>2 DEF Queued
    <2>6. flight[1].packet_id \in Nat /\ flight[i].packet_id \in Nat
      <3>1. \A k \in 1 .. Len(flight) : flight[k] \in InFlightMessage
        OBVIOUS
      <3> QED BY <1>2, <2>2, <3>1, IdsAreNumbers DEF InFlightMessage
    <2> QED BY <2>4, <2>5, <2>6
  <1> QED BY <1>2 DEF Carried

\* The next packet and its messages go into flight.
LEMMA FatesWritten ==
    ASSUME NEW packets \in Seq(InFlightPacket), NEW next \in Nat,
           Awaiting(packets, << >>, {}, next), NEW packet \in InFlightPacket, packet.id = next
    PROVE  /\ Awaiting(Append(packets, packet), << >>, {}, next + 1)
           /\ Ids(packets) \cup {next} \subseteq Ids(Append(packets, packet))
  <1> DEFINE m == Len(packets)
             all == Append(packets, packet)
  <1>1. /\ m \in Nat /\ Len(all) = m + 1 /\ all[m + 1] = packet
        /\ \A i \in 1 .. m : all[i] = packets[i]
    OBVIOUS
  <1>2. \A i \in 1 .. m : packets[i].id \in Nat
    <2>1. \A i \in 1 .. m : packets[i] \in InFlightPacket
      OBVIOUS
    <2> QED BY <2>1, IdsAreNumbers DEF InFlightPacket
  <1>3. /\ \A i \in 1 .. m : packets[i].id < next
        /\ \A i, j \in 1 .. m : i < j => packets[i].id < packets[j].id
    BY DEF Awaiting
  <1> HIDE DEF m, all
  <1>4. \A i \in 1 .. m + 1 : \/ i \in 1 .. m /\ all[i] = packets[i]
                              \/ i = m + 1 /\ all[i] = packet
    BY <1>1
  <1>5. \A i \in 1 .. m + 1 : all[i].id < next + 1
    BY <1>2, <1>3, <1>4
  <1>6. ASSUME NEW i \in 1 .. m + 1, NEW j \in 1 .. m + 1, i < j
        PROVE  all[i].id < all[j].id
    <2>1. i \in 1 .. m
      BY <1>1, <1>6
    <2>2. all[i] = packets[i]
      BY <1>1, <2>1
    <2> QED BY <1>3, <1>4, <1>6, <2>1, <2>2
  <1>7. Len(<< >>) = 0
    OBVIOUS
  <1>8. Awaiting(all, << >>, {}, next + 1)
    BY <1>1, <1>5, <1>6, <1>7 DEF Awaiting
  <1>9. /\ \A i \in 1 .. m : i \in 1 .. Len(all) /\ packets[i].id = all[i].id
        /\ m + 1 \in 1 .. Len(all) /\ all[m + 1].id = next
    BY <1>1
  <1>10. Ids(packets) \cup {next} \subseteq Ids(all)
    BY <1>9 DEF Ids, m
  <1> QED BY <1>8, <1>10 DEF all

LEMMA QueueWritten ==
    ASSUME NEW flight \in Seq(InFlightMessage), NEW next \in PacketId, Queued(flight, next),
           NEW new \in Seq(InFlightMessage),
           \A i \in 1 .. Len(new) : new[i].packet_id = next
    PROVE  /\ Queued(flight \o new, next + 1)
           /\ \A ids : Carried(flight, ids) => Carried(flight \o new, ids \cup {next})
  <1> DEFINE n == Len(flight)
             m == Len(new)
             all == flight \o new
  <1>1. /\ n \in Nat /\ m \in Nat /\ Len(all) = n + m
        /\ \A i \in 1 .. n : all[i] = flight[i]
        /\ \A i \in 1 .. m : all[n + i] = new[i]
    BY ConcatIndices
  <1>2. next \in Nat /\ \A i \in 1 .. n : flight[i].packet_id \in Nat
    <2>1. \A i \in 1 .. n : flight[i] \in InFlightMessage
      OBVIOUS
    <2> QED BY <2>1, IdsAreNumbers DEF InFlightMessage
  <1>3. /\ \A i \in 1 .. n : flight[i].packet_id < next
        /\ \A i, j \in 1 .. n : i < j => flight[i].packet_id <= flight[j].packet_id
    BY DEF Queued
  <1>31. \A i \in 1 .. m : new[i].packet_id = next
    OBVIOUS
  <1> HIDE DEF n, m, all
  <1>4. ASSUME NEW i \in 1 .. n + m
        PROVE  \/ i \in 1 .. n /\ all[i] = flight[i]
               \/ ~(i <= n) /\ all[i].packet_id = next
    <2>1. CASE i <= n
      BY <1>1, <2>1
    <2>2. CASE ~(i <= n)
      <3>1. i - n \in 1 .. m /\ n + (i - n) = i
        BY <1>1, <2>2
      <3>2. all[i] = new[i - n]
        BY <1>1, <3>1
      <3> QED BY <1>31, <2>2, <3>1, <3>2
    <2> QED BY <2>1, <2>2
  <1>5. \A i \in 1 .. n + m : all[i].packet_id < next + 1
    BY <1>2, <1>3, <1>4
  <1>6. ASSUME NEW i \in 1 .. n + m, NEW j \in 1 .. n + m, i < j
        PROVE  all[i].packet_id <= all[j].packet_id
    <2>1. CASE j \in 1 .. n /\ all[j] = flight[j]
      <3>1. i \in 1 .. n
        BY <1>1, <1>6, <2>1
      <3>2. all[i] = flight[i]
        BY <1>1, <3>1
      <3> QED BY <1>3, <1>6, <2>1, <3>1, <3>2
    <2>2. CASE all[j].packet_id = next
      BY <1>2, <1>3, <1>4, <2>2
    <2> QED BY <1>4, <2>1, <2>2
  <1>7. Queued(all, next + 1)
    BY <1>1, <1>5, <1>6 DEF Queued
  <1>8. \A ids : Carried(flight, ids) => Carried(all, ids \cup {next})
    BY <1>1, <1>4 DEF Carried, n
  <1> QED BY <1>7, <1>8 DEF all

LEMMA NewerRemoved ==
    ASSUME NEW queue \in Seq(SentPacket), NEW first \in Nat, Newer(queue, first),
           NEW i \in 1 .. Len(queue)
    PROVE  /\ Newer(RemoveAt(queue, i), first)
           /\ i = 1 => Newer(RemoveAt(queue, i), queue[1].header.id + 1)
  <1> DEFINE n == Len(queue)
             less == RemoveAt(queue, i)
  <1>1. n \in Nat /\ i \in 1 .. n /\ Len(less) = n - 1
        /\ (\A k \in 1 .. i - 1 : less[k] = queue[k])
        /\ (\A k \in i .. n - 1 : less[k] = queue[k + 1])
    BY RemovedProperties
  <1>2. /\ \A k \in 1 .. n : queue[k].header.id >= first
        /\ \A k, j \in 1 .. n : k < j => queue[k].header.id < queue[j].header.id
    BY DEF Newer
  <1>3. \A k \in 1 .. n : queue[k].header.id \in Nat
    <2>1. \A k \in 1 .. n : queue[k] \in SentPacket
      OBVIOUS
    <2> QED BY <2>1, PacketFields, IdsAreNumbers
  <1> HIDE DEF n, less
  <1>4. ASSUME NEW k \in 1 .. n - 1
        PROVE  \/ k < i /\ k \in 1 .. n /\ less[k] = queue[k]
               \/ ~(k < i) /\ k + 1 \in 1 .. n /\ less[k] = queue[k + 1]
    <2>1. CASE k < i
      BY <1>1, <2>1
    <2>2. CASE ~(k < i)
      BY <1>1, <2>2
    <2> QED BY <2>1, <2>2
  <1>5. \A k \in 1 .. n - 1 : less[k].header.id >= first
    BY <1>2, <1>4
  <1>6. ASSUME NEW k \in 1 .. n - 1, NEW j \in 1 .. n - 1, k < j
        PROVE  less[k].header.id < less[j].header.id
    <2>1. CASE j < i
      <3>1. k < i
        BY <1>1, <1>6, <2>1
      <3>2. k \in 1 .. n /\ j \in 1 .. n /\ less[k] = queue[k] /\ less[j] = queue[j]
        BY <1>4, <2>1, <3>1
      <3> QED BY <1>2, <1>6, <3>2
    <2>2. CASE ~(j < i)
      <3>1. j + 1 \in 1 .. n /\ less[j] = queue[j + 1]
        BY <1>4, <2>2
      <3>2. CASE k < i
        <4>1. k \in 1 .. n /\ less[k] = queue[k] /\ k < j + 1
          BY <1>1, <1>4, <1>6, <3>2
        <4> QED BY <1>2, <3>1, <4>1
      <3>3. CASE ~(k < i)
        <4>1. k + 1 \in 1 .. n /\ less[k] = queue[k + 1] /\ k + 1 < j + 1
          BY <1>1, <1>4, <1>6, <3>3
        <4> QED BY <1>2, <3>1, <4>1
      <3> QED BY <3>2, <3>3
    <2> QED BY <2>1, <2>2
  <1>7. Newer(less, first)
    BY <1>1, <1>5, <1>6 DEF Newer
  <1>8. ASSUME i = 1 PROVE Newer(less, queue[1].header.id + 1)
    <2>1. ASSUME NEW k \in 1 .. n - 1 PROVE less[k].header.id >= queue[1].header.id + 1
      <3>1. k + 1 \in 1 .. n /\ 1 \in 1 .. n /\ 1 < k + 1 /\ less[k] = queue[k + 1]
        BY <1>1, <1>4, <1>8
      <3>2. queue[1].header.id < queue[k + 1].header.id
        BY <1>2, <3>1
      <3> QED BY <1>3, <3>1, <3>2
    <2> QED BY <1>1, <1>6, <2>1 DEF Newer
  <1> QED BY <1>7, <1>8 DEF less

LEMMA NewerSent ==
    ASSUME NEW queue \in Seq(SentPacket), NEW first \in Nat, Newer(queue, first),
           NEW packet \in SentPacket, packet.header.id >= first,
           \A i \in 1 .. Len(queue) : queue[i].header.id < packet.header.id
    PROVE  Newer(Append(queue, packet), first)
  <1> DEFINE n == Len(queue)
             all == Append(queue, packet)
  <1>1. /\ n \in Nat /\ Len(all) = n + 1 /\ all[n + 1] = packet
        /\ \A i \in 1 .. n : all[i] = queue[i]
    OBVIOUS
  <1>2. /\ \A k \in 1 .. n : queue[k].header.id >= first /\ queue[k].header.id < packet.header.id
        /\ \A k, j \in 1 .. n : k < j => queue[k].header.id < queue[j].header.id
    BY DEF Newer
  <1> HIDE DEF n, all
  <1>3. \A i \in 1 .. n + 1 : \/ i \in 1 .. n /\ all[i] = queue[i]
                              \/ i = n + 1 /\ all[i] = packet
    BY <1>1
  <1>4. \A i \in 1 .. n + 1 : all[i].header.id >= first
    BY <1>2, <1>3
  <1>5. ASSUME NEW i \in 1 .. n + 1, NEW j \in 1 .. n + 1, i < j
        PROVE  all[i].header.id < all[j].header.id
    <2>1. i \in 1 .. n
      BY <1>1, <1>5
    <2>2. all[i] = queue[i]
      BY <1>1, <2>1
    <2> QED BY <1>2, <1>3, <1>5, <2>1, <2>2
  <1> QED BY <1>1, <1>4, <1>5 DEF Newer, all

LEMMA NetLose ==
    ASSUME BaseInv, NEW h \in Host, NetOrdered(h), NEW g \in Host,
           NEW i \in 1 .. Len(network[g]), Lose(g, i)
    PROVE  NetOrdered(h)'
  <1>1. /\ network' = [network EXCEPT ![g] = RemoveAt(network[g], i)]
        /\ m_next_expected_packet_id' = m_next_expected_packet_id
    BY DEF Lose, pdmVars
  <1>2. network'[g] = RemoveAt(network[g], i) /\ \A f \in Host \ {g} : network'[f] = network[f]
    BY <1>1 DEF BaseInv, NetTypeOK
  <1>3. network[h] \in Seq(SentPacket) /\ m_next_expected_packet_id[h] \in Nat
    BY TypesAt, NumbersOfPackets
  <1>4. CASE h = g
    <2>1. Newer(RemoveAt(network[h], i), m_next_expected_packet_id[h])
      BY <1>3, <1>4, NewerRemoved DEF NetOrdered
    <2> QED BY <1>1, <1>2, <1>4, <2>1 DEF NetOrdered
  <1>5. CASE h # g
    BY <1>1, <1>2, <1>5 DEF NetOrdered
  <1> QED BY <1>4, <1>5

LEMMA NetRead ==
    ASSUME ~Unordered, BaseInv, NEW h \in Host, IdsInv(h), NetOrdered(h), NEW g \in Host,
           NEW i \in 1 .. Len(network[g]), ReadPacket(g, i)
    PROVE  NetOrdered(h)'
  <1>1. PICK packet \in Underway(g) :
          /\ packet = network[g][i]
          /\ \/ /\ m_next_expected_packet_id' =
                     [m_next_expected_packet_id EXCEPT ![g] = (packet.header.id + 1) % IdModulus]
             \/ m_next_expected_packet_id' = m_next_expected_packet_id
    BY PacketRead
  <1>2. i = 1 /\ network' = [network EXCEPT ![g] = RemoveAt(network[g], i)]
    BY DEF ReadPacket
  <1>3. network'[g] = RemoveAt(network[g], i) /\ \A f \in Host \ {g} : network'[f] = network[f]
    BY <1>2 DEF BaseInv, NetTypeOK
  <1>4. network[h] \in Seq(SentPacket) /\ m_next_expected_packet_id[h] \in Nat
    BY TypesAt, NumbersOfPackets
  <1>5. CASE h = g
    <2> DEFINE id == packet.header.id
               next == m_next_outgoing_packet_id[Other(h)]
    <2>1. /\ Newer(RemoveAt(network[h], 1), m_next_expected_packet_id[h])
          /\ Newer(RemoveAt(network[h], 1), network[h][1].header.id + 1)
      BY <1>2, <1>4, <1>5, NewerRemoved DEF NetOrdered
    <2>2. id < next
      BY <1>5 DEF IdsInv
    <2>3. next \in Nat /\ id \in Nat /\ IdModulus \in Nat /\ next < IdModulus
      BY <1>5, OtherHost, NumbersOfPackets, TypesAt DEF PacketId
    <2>4. network[h][1].header.id = id
      BY <1>1, <1>2, <1>5
    <2>5. m_next_expected_packet_id'[h] \in {m_next_expected_packet_id[h], (id + 1) % IdModulus}
      BY <1>1, <1>5 DEF BaseInv, PdmTypeOK
    <2> HIDE DEF id, next
    <2>6. id + 1 \in Nat /\ id + 1 < IdModulus
      BY <2>2, <2>3
    <2>7. (id + 1) % IdModulus = id + 1
      BY <2>3, <2>6, SmallRemainder
    <2>8. network'[h] = RemoveAt(network[h], 1)
      BY <1>2, <1>3, <1>5
    <2> QED BY <2>1, <2>4, <2>5, <2>7, <2>8 DEF NetOrdered
  <1>6. CASE h # g
    <2>1. m_next_expected_packet_id'[h] = m_next_expected_packet_id[h]
      BY <1>1, <1>6 DEF BaseInv, PdmTypeOK
    <2> QED BY <1>3, <1>6, <2>1 DEF NetOrdered
  <1> QED BY <1>5, <1>6

LEMMA NetWrite ==
    ASSUME BaseInv, NEW h \in Host, IdsInv(h), NetOrdered(h), NEW g \in Host, WritePacket(g)
    PROVE  NetOrdered(h)'
  <1> DEFINE o == Other(g)
             next == m_next_outgoing_packet_id[g]
  <1>1. PICK a, r, u :
          /\ PdmWrite(g, now, a)
          /\ SendTo(o, PacketToWrite(g, a, r, u))
          /\ PacketToWrite(g, a, r, u) \in SentPacket
    BY Written
  <1> DEFINE packet == PacketToWrite(g, a, r, u)
             more == Append(network[o], packet)
  <1>2. packet.header.id = next
    BY DEF PacketToWrite, HeaderToWrite
  <1>3. /\ packet \in SentPacket /\ m_next_expected_packet_id' = m_next_expected_packet_id
        /\ network' = [network EXCEPT ![o] = more] \/ network' = network
    BY <1>1 DEF PdmWrite, SendTo
  <1> HIDE DEF packet, more
  <1>4. o \in Host /\ o # g /\ (h = o => g = Other(h))
    BY OtherHost
  <1>5. /\ h # o => network'[h] = network[h]
        /\ h = o => network'[h] = network[h] \/ network'[h] = more
    BY <1>3, <1>4 DEF BaseInv, NetTypeOK
  <1>6. CASE network'[h] = network[h]
    BY <1>3, <1>6 DEF NetOrdered
  <1>7. CASE h = o /\ network'[h] = more
    <2>1. /\ \A p \in Underway(h) : p.header.id < next
          /\ m_next_expected_packet_id[h] <= next
      BY <1>4, <1>7 DEF IdsInv
    <2>2. network[h] \in Seq(SentPacket) /\ m_next_expected_packet_id[h] \in Nat /\ next \in Nat
      BY TypesAt, NumbersOfPackets
    <2>3. \A i \in 1 .. Len(network[h]) : network[h][i].header.id < next
      BY <2>1 DEF Underway
    <2>4. next >= m_next_expected_packet_id[h]
      BY <2>1, <2>2
    <2>5. Newer(network[h], m_next_expected_packet_id[h])
      BY DEF NetOrdered
    <2> HIDE DEF next
    <2>6. Newer(Append(network[h], packet), m_next_expected_packet_id[h])
      BY <1>2, <1>3, <2>2, <2>3, <2>4, <2>5, NewerSent
    <2> QED BY <1>3, <1>7, <2>6 DEF NetOrdered, more
  <1> QED BY <1>5, <1>6, <1>7

LEMMA NetStep ==
    ASSUME ~Unordered, BaseInv, \A h \in Host : IdsInv(h), \A h \in Host : NetOrdered(h),
           [Next]_vars
    PROVE  \A h \in Host : NetOrdered(h)'
  <1>1. \/ UNCHANGED <<network, m_next_expected_packet_id>>
        \/ \E h \in Host : \/ \E i \in 1 .. Len(network[h]) : Lose(h, i) \/ ReadPacket(h, i)
                           \/ WritePacket(h)
    <2>1. ASSUME NEW h \in Host,
                 \/ TickBegin(h) \/ ProcessStatus(h) \/ PopAckedMessage(h) \/ Hang(h)
                 \/ ReadNothing(h) \/ ReadFails(h) \/ ReadHandshake(h) \/ IgnoreSegments(h)
                 \/ HoldPacket(h) \/ NoPeerToWriteTo(h) \/ ReadSegments(h)
                 \/ ReadReliableMessage(h)
          PROVE  UNCHANGED <<network, m_next_expected_packet_id>>
      BY <2>1 DEF TickBegin, ProcessStatus, PopAckedMessage, Hang, ReadNothing, ReadFails,
         ReadHandshake, IgnoreSegments, HoldPacket, NoPeerToWriteTo, ReadSegments,
         ReadReliableMessage, DropOldPackets, pdmVars
    <2>2. ASSUME \/ Elapse \/ UNCHANGED vars \/ \E h \in Initiators : Connect(h)
                 \/ \E h \in Senders : SendReliable(h) \/ SendUnreliable(h)
          PROVE  UNCHANGED <<network, m_next_expected_packet_id>>
      BY <2>2 DEF Elapse, vars, Connect, SendReliable, SendUnreliable, pdmVars
    <2> QED BY <2>1, <2>2 DEF Next, Tick
  <1>2. CASE UNCHANGED <<network, m_next_expected_packet_id>>
    BY <1>2 DEF NetOrdered
  <1> QED BY <1>1, <1>2, NetLose, NetRead, NetWrite

LEMMA NetInit ==
    ASSUME Init, NEW h \in Host
    PROVE  NetOrdered(h)
  <1>1. network[h] = << >> /\ Len(<< >>) = 0
    BY DEF Init
  <1> QED BY <1>1 DEF NetOrdered, Newer

\* A step that leaves alone what the invariant speaks of at host g.
LEMMA FateFrame ==
    ASSUME BaseInv, NEW g \in Host, FateInv(g),
           m_in_flight_packets'[g] = m_in_flight_packets[g],
           m_next_outgoing_packet_id'[g] = m_next_outgoing_packet_id[g],
           in_flight_messages'[g] = in_flight_messages[g],
           m_hangs'[g] = m_hangs[g],
           Told(g)' = Told(g), Acking(g)' = Acking(g),
           tick'.stage # "none" /\ tick'.host = g => tick.stage # "none" /\ tick.host = g
    PROVE  FateInv(g)'
  BY DEF FateInv

\* A step of the tick of the other host.
LEMMA FateElsewhere ==
    ASSUME BaseInv, NEW h \in Host, NEW g \in Host, g # h, FateInv(g),
           m_in_flight_packets'[g] = m_in_flight_packets[g],
           m_next_outgoing_packet_id'[g] = m_next_outgoing_packet_id[g],
           in_flight_messages'[g] = in_flight_messages[g],
           m_hangs'[g] = m_hangs[g], call'[g] = call[g],
           tick = NotTicking \/ tick.host = h, tick' = NotTicking \/ tick'.host = h
    PROVE  FateInv(g)'
  <1>1. NotTicking.statuses = << >> /\ NotTicking.stage = "none"
    BY DEF NotTicking
  <1>2. Told(g) = << >> /\ Told(g)' = << >>
    BY <1>1 DEF Told
  <1>3. Acking(g)' = Acking(g)
    BY DEF Acking
  <1>4. ~(tick'.stage # "none" /\ tick'.host = g)
    BY <1>1
  <1> QED BY <1>2, <1>3, <1>4, FateFrame

LEMMA ToldNothing ==
    ASSUME NEW h \in Host, tick.statuses = << >> \/ tick = NotTicking
    PROVE  Told(h) = << >>
  BY DEF Told, NotTicking

LEMMA ToldType ==
    ASSUME BaseInv, NEW h \in Host
    PROVE  /\ Told(h) \in Seq(DeliveryStatus)
           /\ tick.host = h => Told(h) = tick.statuses
           /\ call[h].op = "ack" => Acking(h) = {call[h].id}
           /\ call[h].op # "ack" => Acking(h) = {}
  <1>1. tick.statuses \in Seq(DeliveryStatus)
    <2>1. tick \in TickState
      BY DEF BaseInv, TickInv
    <2> QED BY ONLY <2>1, TickFields
  <1>2. << >> \in Seq(DeliveryStatus)
    OBVIOUS
  <1> QED BY <1>1, <1>2 DEF Told, Acking

\* Steps that hand nothing on and touch no packet or message in flight.
LEMMA FateQuiet ==
    ASSUME BaseInv, NEW g \in Host, FateInv(g), NEW h \in Host,
           \/ ReadNothing(h) \/ ReadFails(h) \/ ReadHandshake(h) \/ IgnoreSegments(h)
           \/ ReadSegments(h) \/ ReadReliableMessage(h) \/ HoldPacket(h) \/ NoPeerToWriteTo(h)
    PROVE  FateInv(g)'
  <1>1. UNCHANGED <<m_in_flight_packets, m_next_outgoing_packet_id, in_flight_messages, m_hangs>>
    <2>1. CASE \/ ReadNothing(h) \/ ReadFails(h) \/ IgnoreSegments(h)
               \/ HoldPacket(h) \/ NoPeerToWriteTo(h)
      BY <2>1 DEF ReadNothing, ReadFails, IgnoreSegments, HoldPacket, NoPeerToWriteTo,
         pdmVars, cmVars, streamVars
    <2>2. CASE ReadHandshake(h)
      BY <2>2 DEF ReadHandshake, CmReadLetsConnect, pdmVars, cmVars, streamVars
    <2>3. CASE ReadSegments(h) \/ ReadReliableMessage(h)
      BY <2>3 DEF ReadSegments, ReadReliableMessage, StreamRead, ReadMessage, pdmVars, cmVars
    <2> QED BY <2>1, <2>2, <2>3
  <1>2. tick \in TickState
    BY DEF BaseInv, TickInv
  <1>3. /\ tick.host = h
        /\ tick.stage # "none" /\ tick.statuses = << >>
    <2>1. CASE ReadNothing(h) \/ ReadFails(h) \/ ReadHandshake(h)
      BY <2>1 DEF ReadNothing, ReadFails, ReadHandshake, InStage, StatusesDone
    <2>2. CASE ReadReliableMessage(h)
      BY <2>2 DEF ReadReliableMessage, ReadMessage, BaseInv, TickInv
    <2>3. CASE IgnoreSegments(h) \/ ReadSegments(h) \/ HoldPacket(h) \/ NoPeerToWriteTo(h)
      <3>1. tick.host = h /\ tick.stage \in {"segments", "write"}
        BY <2>3 DEF IgnoreSegments, ReadSegments, HoldPacket, NoPeerToWriteTo, InStage
      <3> QED BY <3>1 DEF BaseInv, TickInv
    <2> QED BY <2>1, <2>2, <2>3
  <1>4. \/ tick' = tick \/ tick' = NotTicking
        \/ tick' = Staged(tick, "write") \/ tick' = Staged(tick, "segments")
        \/ tick' = Moved(tick, "write", NoPacket)
    BY Zenon DEF ReadNothing, ReadFails, ReadHandshake, IgnoreSegments, ReadSegments,
       ReadReliableMessage, HoldPacket, NoPeerToWriteTo, Goto, Staged, Moved
  <1>5. \/ tick' = NotTicking
        \/ tick'.host = tick.host /\ tick'.statuses = tick.statuses
    BY ONLY <1>2, <1>4, TickUpdates
  <1>6. Told(g)' = << >> /\ Told(g) = << >>
    <2>1. tick'.statuses = << >>
      BY <1>3, <1>5 DEF NotTicking
    <2> QED BY <1>3, <2>1 DEF Told
  <1>7. call'[g].op = "ack" \/ call[g].op = "ack" => call'[g] = call[g]
    <2>1. CASE UNCHANGED call
      BY <2>1
    <2>2. CASE ReadSegments(h)
      <3>1. call[h].op = "none"
        BY <2>2 DEF ReadSegments
      <3> QED BY <2>2, <3>1, SegmentsTaken
    <2>3. CASE ReadReliableMessage(h)
      <3> DEFINE new == IF Tail(call[h].messages) = << >> THEN NoCall
                        ELSE ReadCall(call[h].id, Tail(call[h].messages))
      <3>1. call[h].op = "read" /\ call' = [call EXCEPT ![h] = new]
        BY <2>3 DEF ReadReliableMessage, ReadMessage
      <3>2. new.op # "ack"
        BY DEF NoCall, ReadCall
      <3> HIDE DEF new
      <3>3. call'[h] = new /\ \A f \in Host \ {h} : call'[f] = call[f]
        BY <3>1 DEF BaseInv, StreamTypeOK
      <3> QED BY <3>1, <3>2, <3>3
    <2> QED BY <2>1, <2>2, <2>3 DEF ReadNothing, ReadFails, ReadHandshake, IgnoreSegments,
                HoldPacket, NoPeerToWriteTo, streamVars
  <1>8. Acking(g)' = Acking(g)
    BY <1>7 DEF Acking
  <1>9. tick'.stage # "none" /\ tick'.host = g => tick.stage # "none" /\ tick.host = g
    BY <1>3, <1>5 DEF NotTicking
  <1> QED BY <1>1, <1>6, <1>8, <1>9, FateFrame

LEMMA FateSend ==
    ASSUME BaseInv, NEW g \in Host, FateInv(g), NEW h \in Host, SendReliable(h)
    PROVE  FateInv(g)'
  <1> DEFINE flight == in_flight_messages[h]
             moved == FlippedInFlight(h)
  <1>1. /\ in_flight_messages' = [in_flight_messages EXCEPT ![h] = moved]
        /\ UNCHANGED <<m_in_flight_packets, m_next_outgoing_packet_id, m_hangs, tick, call>>
    BY DEF SendReliable, StreamSend, pdmVars, cmVars
  <1>2. flight \in Seq(InFlightMessage) /\ Len(flight) \in Nat
    BY TypesAt
  <1>3. Len(moved) = Len(flight) /\ \A i \in 1 .. Len(flight) : moved[i].packet_id = flight[i].packet_id
    <2>1. moved = FlightMoved(flight, m_buffer[h].m_begin)
      BY DEF FlippedInFlight, FlightMoved
    <2>2. \A i \in 1 .. Len(flight) : flight[i] \in InFlightMessage
      BY <1>2
    <2> HIDE DEF flight, moved
    <2>3. Len(moved) = Len(flight)
      BY <1>2, <2>1 DEF FlightMoved
    <2>4. ASSUME NEW i \in 1 .. Len(flight) PROVE moved[i].packet_id = flight[i].packet_id
      <3> DEFINE record == flight[i]
                 offset == m_buffer[h].m_begin
      <3>1. record \in InFlightMessage
        BY <2>2
      <3>2. moved[i] = [record EXCEPT !.message = Shifted(record.message, offset)]
        BY <2>1 DEF FlightMoved
      <3> HIDE DEF record, offset
      <3>3. moved[i].packet_id = record.packet_id
        BY <3>1, <3>2 DEF InFlightMessage
      <3> QED BY <3>3 DEF record
    <2> QED BY <2>3, <2>4
  <1> HIDE DEF flight, moved
  <1>4. in_flight_messages'[h] = moved /\ \A f \in Host \ {h} : in_flight_messages'[f] = in_flight_messages[f]
    BY <1>1 DEF BaseInv, StreamTypeOK
  <1>5. Told(g)' = Told(g) /\ Acking(g)' = Acking(g)
    BY <1>1 DEF Told, Acking
  <1>6. CASE g # h
    BY <1>1, <1>4, <1>5, <1>6, FateFrame
  <1>7. CASE g = h
    <2>1. /\ \A next : Queued(flight, next) => Queued(moved, next)
          /\ \A ids : Carried(flight, ids) => Carried(moved, ids)
      BY <1>3 DEF Queued, Carried
    <2> QED BY <1>1, <1>4, <1>5, <1>7, <2>1 DEF FateInv, flight
  <1> QED BY <1>6, <1>7

\* The first n packets in flight are popped and their statuses are to be handed on.
LEMMA FatePops ==
    ASSUME BaseInv, NEW h \in Host, FateInv(h), ~m_hangs[h],
           NEW n \in 0 .. Len(m_in_flight_packets[h]),
           NEW statuses \in Seq(DeliveryStatus), Len(statuses) = n,
           \A i \in 1 .. n : statuses[i].id = m_in_flight_packets[h][i].id,
           m_in_flight_packets'[h] = Popped(m_in_flight_packets[h], n),
           UNCHANGED <<m_next_outgoing_packet_id, in_flight_messages, m_hangs, call>>,
           Told(h) = << >>, call[h].op = "none", tick'.host = h, tick'.statuses = statuses
    PROVE  FateInv(h)'
  <1> DEFINE packets == m_in_flight_packets[h]
             next == m_next_outgoing_packet_id[h]
             rest == Popped(packets, n)
  <1>1. Acking(h) = {} /\ Acking(h)' = {} /\ Told(h)' = statuses
    BY DEF Acking, Told
  <1>2. Awaiting(packets, << >>, {}, next) /\ Queued(in_flight_messages[h], next)
        /\ Carried(in_flight_messages[h], {} \cup Ids(<< >>) \cup Ids(packets))
    BY <1>1 DEF FateInv
  <1>3. packets \in Seq(InFlightPacket) /\ next \in Nat
    BY TypesAt, NumbersOfPackets
  <1>4. Ids(<< >>) = {}
    BY DEF Ids
  <1> HIDE DEF packets, next
  <1>5. Awaiting(rest, statuses, {}, next) /\ Ids(packets) \subseteq Ids(statuses) \cup Ids(rest)
    BY <1>2, <1>3, FatesKnown DEF packets
  <1> HIDE DEF rest
  <1>6. Carried(in_flight_messages[h], {} \cup Ids(statuses) \cup Ids(rest))
    BY <1>2, <1>4, <1>5 DEF Carried
  <1> QED BY <1>1, <1>2, <1>5, <1>6 DEF FateInv, rest, packets, next

LEMMA FateTickBegin ==
    ASSUME BaseInv, NEW g \in Host, FateInv(g), NEW h \in Host, TickBegin(h)
    PROVE  FateInv(g)'
  <1>1. PICK n \in 0 .. Len(m_in_flight_packets[h]) :
          /\ DropOldPackets(h, now, n)
          /\ tick' = [host |-> h, stage |-> "old", statuses |-> DropStatuses(h, n),
                      packet |-> NoPacket]
    BY DEF TickBegin
  <1>2. /\ tick = NotTicking /\ ~m_hangs[h]
        /\ UNCHANGED <<in_flight_messages, m_hangs, call>>
    BY DEF TickBegin, cmVars, streamVars
  <1>3. /\ m_in_flight_packets' =
             [m_in_flight_packets EXCEPT ![h] = Popped(m_in_flight_packets[h], n)]
        /\ m_next_outgoing_packet_id' = m_next_outgoing_packet_id
    BY <1>1 DEF DropOldPackets
  <1>4. /\ m_in_flight_packets'[h] = Popped(m_in_flight_packets[h], n)
        /\ \A f \in Host \ {h} : m_in_flight_packets'[f] = m_in_flight_packets[f]
    BY <1>3 DEF BaseInv, PdmTypeOK
  <1>5. tick'.host = h /\ tick'.statuses = DropStatuses(h, n)
    BY <1>1
  <1>6. CASE g # h
    BY <1>2, <1>3, <1>4, <1>5, <1>6, FateElsewhere
  <1>7. CASE g = h
    <2>1. /\ DropStatuses(h, n) \in Seq(DeliveryStatus) /\ Len(DropStatuses(h, n)) = n
          /\ \A i \in 1 .. n : DropStatuses(h, n)[i].id = m_in_flight_packets[h][i].id
      BY Statuses
    <2>2. Told(h) = << >>
      BY <1>2, ToldNothing
    <2>3. call[h].op = "none"
      <3>1. tick.stage = "none"
        BY <1>2 DEF NotTicking
      <3>2. call[h].op \in {"none", "ack", "read"}
        BY TypesAt DEF Call
      <3> QED BY <3>1, <3>2 DEF BaseInv, TickInv
    <2> QED BY <1>2, <1>3, <1>4, <1>5, <1>7, <2>1, <2>2, <2>3, FatePops
  <1> QED BY <1>6, <1>7

LEMMA FateReadPacket ==
    ASSUME ~Unordered, BaseInv, NEW g \in Host, FateInv(g), NEW h \in Host, NetOrdered(h),
           NEW i \in 1 .. Len(network[h]), ReadPacket(h, i)
    PROVE  FateInv(g)'
  <1>1. PICK n \in 0 .. Len(m_in_flight_packets[h]), packet \in Underway(h) :
             /\ packet = network[h][i]
             /\ tick.host = h /\ tick.stage = "old" /\ tick.statuses = << >>
             /\ call[h].op = "none"
             /\ m_in_flight_packets' =
                  [m_in_flight_packets EXCEPT ![h] = Popped(m_in_flight_packets[h], n)]
             /\ UNCHANGED <<m_next_outgoing_packet_id, cmVars, streamVars>>
             /\ tick'.host = h
             /\ Accepts(h, packet.header) => tick'.statuses = ReadStatuses(h, packet.header, n)
    BY PacketRead
  <1>2. UNCHANGED <<in_flight_messages, m_hangs, call, m_next_outgoing_packet_id>>
    BY <1>1 DEF cmVars, streamVars
  <1>3. /\ m_in_flight_packets'[h] = Popped(m_in_flight_packets[h], n)
        /\ \A f \in Host \ {h} : m_in_flight_packets'[f] = m_in_flight_packets[f]
    BY <1>1 DEF BaseInv, PdmTypeOK
  <1>4. CASE g # h
    BY <1>1, <1>2, <1>3, <1>4, FateElsewhere
  <1>5. CASE g = h
    <2>1. Accepts(h, packet.header)
      BY <1>1 DEF NetOrdered, Newer, Accepts
    <2>2. LET statuses == ReadStatuses(h, packet.header, n) IN
          /\ statuses \in Seq(DeliveryStatus) /\ Len(statuses) = n
          /\ \A k \in 1 .. n : statuses[k].id = m_in_flight_packets[h][k].id
          /\ tick'.statuses = statuses
      BY <1>1, <2>1, Statuses
    <2>3. Told(h) = << >> /\ ~m_hangs[h]
      BY <1>1, <1>5, ToldNothing DEF FateInv
    <2> QED BY <1>1, <1>2, <1>3, <1>5, <2>2, <2>3, FatePops
  <1> QED BY <1>4, <1>5

\* Steps that touch neither a packet nor a message in flight, between ticks.
LEMMA FateUnmoved ==
    ASSUME BaseInv, NEW g \in Host, FateInv(g),
           \/ Elapse \/ UNCHANGED vars
           \/ \E h \in Host : \/ Connect(h) \/ SendUnreliable(h)
                              \/ \E i \in 1 .. Len(network[h]) : Lose(h, i)
    PROVE  FateInv(g)'
  <1>1. /\ UNCHANGED <<m_in_flight_packets, m_next_outgoing_packet_id, in_flight_messages>>
        /\ UNCHANGED <<m_hangs, call, tick>>
    <2>1. CASE Elapse \/ UNCHANGED vars
      BY <2>1 DEF Elapse, vars, pdmVars, cmVars, streamVars
    <2>2. ASSUME NEW h \in Host,
                 \/ Connect(h) \/ SendUnreliable(h)
                 \/ \E i \in 1 .. Len(network[h]) : Lose(h, i)
          PROVE  /\ UNCHANGED <<m_in_flight_packets, m_next_outgoing_packet_id, in_flight_messages>>
                 /\ UNCHANGED <<m_hangs, call, tick>>
      BY <2>2 DEF Connect, CmConnect, SendUnreliable, Lose, pdmVars, cmVars, streamVars
    <2> QED BY <2>1, <2>2
  <1>2. Told(g)' = Told(g) /\ Acking(g)' = Acking(g)
    BY <1>1 DEF Told, Acking
  <1> QED BY <1>1, <1>2, FateFrame

\* The fate of the oldest packet is handed on: an acknowledged packet's messages are
\* popped next, and after a dropped one nothing is in flight.
LEMMA FateProcessStatus ==
    ASSUME BaseInv, NEW g \in Host, FateInv(g), NEW h \in Host, ProcessStatus(h)
    PROVE  FateInv(g)'
  <1> DEFINE statuses == tick.statuses
             id == Head(statuses).id
             packets == m_in_flight_packets[h]
             flight == in_flight_messages[h]
             next == m_next_outgoing_packet_id[h]
  <1>1. /\ tick.host = h /\ statuses # << >> /\ call[h].op = "none"
        /\ tick' = [tick EXCEPT !.statuses = Tail(statuses)]
        /\ UNCHANGED <<m_in_flight_packets, m_next_outgoing_packet_id>>
    BY DEF ProcessStatus, pdmVars
  <1>2. m_hangs' = m_hangs
    BY DEF ProcessStatus, CmIgnore, CmAck, CmDrop, cmVars
  <1>3. \/ call' = [call EXCEPT ![h] = AckCall(id)] /\ in_flight_messages' = in_flight_messages
        \/ call' = call /\ in_flight_messages' = [in_flight_messages EXCEPT ![h] = << >>]
    BY DEF ProcessStatus, StreamAck, StreamDrop
  <1>4. tick \in TickState
    BY DEF BaseInv, TickInv
  <1>5. statuses \in Seq(DeliveryStatus)
    BY ONLY <1>4, TickFields
  <1>6. tick'.host = h /\ tick'.statuses = Tail(statuses)
    <2>1. tick' = [host |-> tick.host, stage |-> tick.stage, statuses |-> Tail(statuses),
                   packet |-> tick.packet]
      <3>1. tick' = Handed(tick, Tail(statuses))
        BY ONLY <1>1, Zenon DEF Handed
      <3> QED BY ONLY <1>4, <3>1, TickUpdates
    <2> QED BY <1>1, <2>1
  <1>7. tick.stage # "none"
    BY <1>1 DEF BaseInv, TickInv
  <1>8. /\ \A f \in Host \ {h} : /\ call'[f] = call[f]
                                 /\ in_flight_messages'[f] = in_flight_messages[f]
        /\ \/ call'[h] = AckCall(id) /\ in_flight_messages'[h] = flight
           \/ call'[h] = call[h] /\ in_flight_messages'[h] = << >>
    BY <1>3 DEF BaseInv, StreamTypeOK
  <1>9. CASE g # h
    BY <1>1, <1>2, <1>6, <1>8, <1>9, FateElsewhere
  <1>10. CASE g = h
    <2>1. Told(h) = statuses /\ Told(h)' = Tail(statuses) /\ Acking(h) = {} /\ ~m_hangs[h]
      BY <1>1, <1>6, <1>7, <1>10 DEF Told, Acking, FateInv
    <2>2. /\ Awaiting(packets, statuses, {}, next) /\ Queued(flight, next)
          /\ Carried(flight, {} \cup Ids(statuses) \cup Ids(packets))
      BY <1>10, <2>1 DEF FateInv
    <2>3. packets \in Seq(InFlightPacket) /\ next \in Nat
      BY TypesAt, NumbersOfPackets
    <2>4. /\ Awaiting(packets, Tail(statuses), {}, next)
          /\ Awaiting(packets, Tail(statuses), {id}, next)
          /\ Ids(statuses) \subseteq {id} \cup Ids(Tail(statuses))
      BY <1>1, <1>5, <2>2, <2>3, FateTaken
    <2>5. CASE call'[h] = AckCall(id) /\ in_flight_messages'[h] = flight
      <3>1. Acking(h)' = {id}
        BY <2>5 DEF Acking, AckCall
      <3>2. Carried(flight, {id} \cup Ids(Tail(statuses)) \cup Ids(packets))
        BY <2>2, <2>4 DEF Carried
      <3> HIDE DEF statuses, id, flight
      <3> QED BY <1>1, <1>2, <1>10, <2>1, <2>2, <2>4, <2>5, <3>1, <3>2 DEF FateInv
    <2>6. CASE call'[h] = call[h] /\ in_flight_messages'[h] = << >>
      <3>1. Acking(h)' = {}
        BY <1>1, <2>6 DEF Acking
      <3>2. Queued(<< >>, next) /\ \A ids : Carried(<< >>, ids)
        <4>1. Len(<< >>) = 0
          OBVIOUS
        <4> QED BY <4>1 DEF Queued, Carried
      <3> HIDE DEF statuses
      <3> QED BY <1>1, <1>2, <1>10, <2>1, <2>4, <2>6, <3>1, <3>2 DEF FateInv
    <2> QED BY <1>8, <2>5, <2>6
  <1> QED BY <1>9, <1>10

\* The stream pops a message of the acknowledged packet, or is done with it.
LEMMA FatePopAcked ==
    ASSUME BaseInv, NEW g \in Host, FateInv(g), NEW h \in Host, PopAckedMessage(h)
    PROVE  FateInv(g)'
  <1> DEFINE statuses == tick.statuses
             id == call[h].id
             packets == m_in_flight_packets[h]
             flight == in_flight_messages[h]
             next == m_next_outgoing_packet_id[h]
  <1>1. /\ tick.host = h /\ call[h].op = "ack"
        /\ UNCHANGED <<m_in_flight_packets, m_next_outgoing_packet_id, m_hangs, tick>>
        /\ \/ /\ flight # << >>
              /\ in_flight_messages' = [in_flight_messages EXCEPT ![h] = Tail(flight)]
              /\ call' = call
           \/ /\ flight = << >> \/ Head(flight).packet_id # id
              /\ call' = [call EXCEPT ![h] = NoCall]
              /\ in_flight_messages' = in_flight_messages
    BY DEF PopAckedMessage, PopAcked, CarriedBy, pdmVars, cmVars
  <1>2. /\ \A f \in Host \ {h} : /\ call'[f] = call[f]
                                 /\ in_flight_messages'[f] = in_flight_messages[f]
        /\ \/ /\ flight # << >> /\ in_flight_messages'[h] = Tail(flight) /\ call' = call
           \/ /\ flight = << >> \/ Head(flight).packet_id # id
              /\ in_flight_messages'[h] = flight
              /\ call'[h] = NoCall
    BY <1>1 DEF BaseInv, StreamTypeOK
  <1>3. CASE g # h
    BY <1>1, <1>2, <1>3, FateElsewhere
  <1>4. CASE g = h
    <2>1. tick.stage # "none"
      BY <1>1 DEF BaseInv, TickInv
    <2>2. /\ Told(h) = statuses /\ Told(h)' = statuses /\ Acking(h) = {id} /\ ~m_hangs[h]
      BY <1>1, <1>4, <2>1 DEF Told, Acking, FateInv
    <2>3. statuses \in Seq(DeliveryStatus)
      BY <1>1, <2>2, ToldType
    <2>4. /\ packets \in Seq(InFlightPacket) /\ next \in Nat
          /\ flight \in Seq(InFlightMessage) /\ id \in Nat
      <3>1. call[h] \in Call
        BY TypesAt
      <3> QED BY <3>1, TypesAt, NumbersOfPackets, IdsAreNumbers DEF Call
    <2>5. /\ Awaiting(packets, statuses, {id}, next) /\ Queued(flight, next)
          /\ Carried(flight, {id} \cup Ids(statuses) \cup Ids(packets))
      BY <1>4, <2>2 DEF FateInv
    <2>6. CASE flight # << >> /\ in_flight_messages'[h] = Tail(flight) /\ call' = call
      <3>1. /\ Queued(Tail(flight), next)
            /\ Carried(Tail(flight), {id} \cup Ids(statuses) \cup Ids(packets))
        BY <2>4, <2>5, <2>6, QueuePopped
      <3>2. Acking(h)' = {id}
        BY <2>2, <2>6 DEF Acking
      <3> HIDE DEF statuses, id, flight
      <3> QED BY <1>1, <1>4, <2>2, <2>5, <2>6, <3>1, <3>2 DEF FateInv
    <2>7. CASE /\ flight = << >> \/ Head(flight).packet_id # id
               /\ in_flight_messages'[h] = flight
               /\ call'[h] = NoCall
      <3>1. Carried(flight, Ids(statuses) \cup Ids(packets))
        BY <2>3, <2>4, <2>5, <2>7, AckEnds
      <3>2. Acking(h)' = {}
        BY <2>7 DEF Acking, NoCall
      <3>3. Awaiting(packets, statuses, {}, next)
        BY <2>5 DEF Awaiting
      <3>4. Carried(flight, {} \cup Ids(statuses) \cup Ids(packets))
        BY <3>1
      <3> HIDE DEF statuses, id, flight
      <3> QED BY <1>1, <1>4, <2>2, <2>5, <2>7, <3>2, <3>3, <3>4 DEF FateInv
    <2> QED BY <1>2, <2>6, <2>7
  <1> QED BY <1>3, <1>4

LEMMA FateHang ==
    ASSUME BaseInv, NEW g \in Host, FateInv(g), NEW h \in Host, Hang(h)
    PROVE  FateInv(g)'
  <1>1. /\ tick.host = h /\ call[h].op = "none" /\ tick' = NotTicking
        /\ m_hangs' = [m_hangs EXCEPT ![h] = TRUE]
        /\ UNCHANGED <<m_in_flight_packets, m_next_outgoing_packet_id, in_flight_messages, call>>
    BY DEF Hang, CmAckAfterUnderflow, pdmVars, streamVars
  <1>2. m_hangs'[h] = TRUE /\ \A f \in Host \ {h} : m_hangs'[f] = m_hangs[f]
    <2>1. m_hangs \in [Host -> BOOLEAN]
      BY DEF BaseInv, CmTypeOK
    <2> QED BY ONLY <1>1, <2>1, h \in Host, Zenon
  <1>3. CASE g # h
    BY <1>1, <1>2, <1>3, FateElsewhere
  <1>4. CASE g = h
    <2>1. Told(h)' = << >> /\ Acking(h)' = {} /\ Acking(h) = {} /\ tick'.stage = "none"
      BY <1>1 DEF Told, Acking, NotTicking
    <2>2. Awaiting(m_in_flight_packets[h], << >>, {}, m_next_outgoing_packet_id[h])
      <3>1. Len(<< >>) = 0
        OBVIOUS
      <3> QED BY <1>4, <2>1, <3>1 DEF FateInv, Awaiting
    <2> QED BY <1>1, <1>2, <1>4, <2>1, <2>2 DEF FateInv
  <1> QED BY <1>3, <1>4

\* The next packet and the messages in it go into flight.
LEMMA FateWrite ==
    ASSUME BaseInv, NEW g \in Host, FateInv(g), NEW h \in Host, IdsInv(h), WritePacket(h)
    PROVE  FateInv(g)'
  <1> DEFINE packets == m_in_flight_packets[h]
             flight == in_flight_messages[h]
             pending == pending_messages[h]
             next == m_next_outgoing_packet_id[h]
             packet == [id |-> next, time_dispatched |-> now]
  <1>1. PICK r \in 0 .. Len(pending) :
          in_flight_messages' = [in_flight_messages EXCEPT
            ![h] = flight \o [i \in 1 .. r |-> [packet_id |-> next, message |-> pending[i]]]]
    BY DEF WritePacket, StreamWrite
  <1> DEFINE new == [i \in 1 .. r |-> [packet_id |-> next, message |-> pending[i]]]
  <1>2. /\ m_in_flight_packets' = [m_in_flight_packets EXCEPT ![h] = Append(packets, packet)]
        /\ m_next_outgoing_packet_id' =
             [m_next_outgoing_packet_id EXCEPT ![h] = (next + 1) % IdModulus]
        /\ m_hangs' = m_hangs /\ call' = call
        /\ tick.host = h /\ tick.stage = "write" /\ call[h].op = "none" /\ tick' = NotTicking
    BY DEF WritePacket, PdmWrite, CmWrite, StreamWrite, InStage
  <1>3. /\ \A f \in Host \ {h} :
             /\ m_in_flight_packets'[f] = m_in_flight_packets[f]
             /\ m_next_outgoing_packet_id'[f] = m_next_outgoing_packet_id[f]
             /\ in_flight_messages'[f] = in_flight_messages[f]
        /\ m_in_flight_packets'[h] = Append(packets, packet)
        /\ m_next_outgoing_packet_id'[h] = (next + 1) % IdModulus
        /\ in_flight_messages'[h] = flight \o new
    BY <1>1, <1>2 DEF BaseInv, PdmTypeOK, StreamTypeOK
  <1>4. CASE g # h
    BY <1>2, <1>3, <1>4, FateElsewhere
  <1>5. CASE g = h
    <2>1. next \in PacketId /\ next \in Nat /\ (next + 1) % IdModulus = next + 1
      <3>1. next < MaxPackets[h]
        BY <1>2 DEF IdsInv
      <3>2. next \in Nat /\ MaxPackets[h] \in Nat /\ IdModulus \in Nat /\ MaxPackets[h] < IdModulus
        BY NumbersOfPackets
      <3>3. next \in PacketId
        BY TypesAt
      <3> HIDE DEF next
      <3>4. next + 1 \in Nat /\ next + 1 < IdModulus
        BY <3>1, <3>2
      <3> QED BY <3>2, <3>3, <3>4, SmallRemainder
    <2>2. /\ packets \in Seq(InFlightPacket) /\ flight \in Seq(InFlightMessage)
          /\ pending \in Seq(Message)
      BY TypesAt
    <2>3. packet \in InFlightPacket /\ packet.id = next
      <3>1. now \in Nat
        BY DEF BaseInv, NetTypeOK
      <3> QED BY <2>1, <3>1 DEF InFlightPacket
    <2>4. /\ new \in Seq(InFlightMessage) /\ Len(new) = r
          /\ \A i \in 1 .. r : new[i].packet_id = next
      <3>1. r \in Nat /\ \A i \in 1 .. r : pending[i] \in Message
        BY <2>2
      <3> HIDE DEF pending, next
      <3>2. \A i \in 1 .. r : [packet_id |-> next, message |-> pending[i]] \in InFlightMessage
        BY <2>1, <3>1 DEF InFlightMessage
      <3>3. new \in Seq(InFlightMessage)
        BY <3>1, <3>2, IsSequence
      <3> QED BY <3>1, <3>3
    <2>5. tick.statuses = << >> /\ ~m_hangs[h]
      <3>1. tick.statuses = << >>
        BY <1>2 DEF BaseInv, TickInv
      <3> QED BY <1>2, <1>5, <3>1 DEF FateInv
    <2>6. Told(h) = << >> /\ Told(h)' = << >> /\ Acking(h) = {} /\ Acking(h)' = {}
      BY <1>2, <2>5 DEF Told, Acking, NotTicking
    <2>7. /\ Awaiting(packets, << >>, {}, next) /\ Queued(flight, next)
          /\ Carried(flight, {} \cup Ids(<< >>) \cup Ids(packets))
      BY <1>5, <2>5, <2>6 DEF FateInv
    <2> HIDE DEF packets, flight, new, next, packet
    <2>8. /\ Awaiting(Append(packets, packet), << >>, {}, next + 1)
          /\ Ids(packets) \cup {next} \subseteq Ids(Append(packets, packet))
      BY <2>1, <2>2, <2>3, <2>7, FatesWritten
    <2>9. /\ Queued(flight \o new, next + 1)
          /\ Carried(flight \o new, ({} \cup Ids(<< >>) \cup Ids(packets)) \cup {next})
      BY <2>1, <2>2, <2>4, <2>7, QueueWritten
    <2>10. Carried(flight \o new, {} \cup Ids(<< >>) \cup Ids(Append(packets, packet)))
      BY <2>8, <2>9 DEF Carried
    <2>11. /\ m_in_flight_packets'[h] = Append(packets, packet)
           /\ m_next_outgoing_packet_id'[h] = next + 1
           /\ in_flight_messages'[h] = flight \o new
           /\ m_hangs'[h] = m_hangs[h]
      BY <1>2, <1>3, <2>1
    <2> QED BY <1>5, <2>5, <2>6, <2>8, <2>9, <2>10, <2>11 DEF FateInv
  <1> QED BY <1>4, <1>5

LEMMA FateInit ==
    ASSUME Init, NEW h \in Host
    PROVE  FateInv(h)
  <1>1. /\ m_in_flight_packets[h] = << >> /\ in_flight_messages[h] = << >>
        /\ call[h] = NoCall /\ tick = NotTicking
    BY Owners DEF Init, PdmInit, StreamInit
  <1>2. Told(h) = << >> /\ Acking(h) = {} /\ tick.stage = "none" /\ Len(<< >>) = 0
    BY <1>1 DEF Told, Acking, NotTicking, NoCall
  <1> QED BY <1>1, <1>2 DEF FateInv, Awaiting, Queued, Carried

LEMMA FateStep ==
    ASSUME ~Unordered, BaseInv, \A h \in Host : IdsInv(h) /\ NetOrdered(h) /\ FateInv(h),
           [Next]_vars
    PROVE  \A h \in Host : FateInv(h)'
  <1> SUFFICES ASSUME NEW g \in Host PROVE FateInv(g)'
    OBVIOUS
  <1>1. Initiators \subseteq Host /\ Senders \subseteq Host
    BY NeptunConstants
  <1>2. CASE \/ Elapse \/ UNCHANGED vars
             \/ \E h \in Host : \/ Connect(h) \/ SendUnreliable(h)
                                \/ \E i \in 1 .. Len(network[h]) : Lose(h, i)
    BY <1>2, FateUnmoved
  <1>3. CASE \E h \in Host : SendReliable(h)
    BY <1>3, FateSend
  <1>4. ASSUME NEW h \in Host, Tick(h) PROVE FateInv(g)'
    BY <1>4, FateTickBegin, FateProcessStatus, FatePopAcked, FateHang, FateQuiet,
       FateReadPacket, FateWrite DEF Tick
  <1> QED BY <1>1, <1>2, <1>3, <1>4 DEF Next

\* The first message in flight belongs to the acknowledged packet, or to one whose
\* fate is not yet handed on, and then no older fate is handed on next.
LEMMA FateShows ==
    ASSUME BaseInv, \A h \in Host : FateInv(h)
    PROVE  StatusAssertionsHold
  <1> SUFFICES ASSUME NEW h \in Host, in_flight_messages[h] # << >>
               PROVE  LET front == Head(in_flight_messages[h]).packet_id IN
                      IF call[h].op = "ack" THEN front >= call[h].id
                      ELSE tick.host = h /\ tick.statuses # << >> => front >= Head(tick.statuses).id
    BY DEF StatusAssertionsHold
  <1> DEFINE front == Head(in_flight_messages[h]).packet_id
             packets == m_in_flight_packets[h]
             flight == in_flight_messages[h]
             next == m_next_outgoing_packet_id[h]
  <1>1. flight \in Seq(InFlightMessage) /\ packets \in Seq(InFlightPacket) /\ next \in Nat
    BY TypesAt, NumbersOfPackets
  <1>2. 1 \in 1 .. Len(flight) /\ flight[1].packet_id = front /\ front \in PacketId /\ front \in Nat
    <2>1. 1 \in 1 .. Len(flight) /\ Head(flight) = flight[1] /\ flight[1] \in InFlightMessage
      BY <1>1
    <2> QED BY <2>1, IdsAreNumbers DEF InFlightMessage
  <1>3. CASE call[h].op = "ack"
    <2>1. tick.host = h /\ tick.stage # "none"
      BY <1>3 DEF BaseInv, TickInv
    <2>2. ~m_hangs[h] /\ Acking(h) = {call[h].id}
      BY <1>3, <2>1 DEF FateInv, Acking
    <2>3. front \in {call[h].id} \cup Ids(Told(h)) \cup Ids(packets)
      BY <1>2, <2>2 DEF FateInv, Carried
    <2>4. \A other \in Ids(Told(h)) \cup Ids(packets) : call[h].id < other
      BY <2>2 DEF FateInv, Awaiting, Ids
    <2> HIDE DEF front
    <2>5. front >= call[h].id
      <3>1. call[h].id \in Nat
        <4>1. call[h] \in Call
          BY TypesAt
        <4> QED BY <4>1, IdsAreNumbers DEF Call
      <3> QED BY <1>2, <2>3, <2>4, <3>1
    <2> QED BY <1>3, <2>5 DEF front
  <1>4. CASE call[h].op # "ack"
    <2> SUFFICES ASSUME tick.host = h, tick.statuses # << >>
                 PROVE  front >= Head(tick.statuses).id
      BY <1>4
    <2> DEFINE statuses == tick.statuses
    <2>1. tick.stage # "none"
      BY DEF BaseInv, TickInv
    <2>2. ~m_hangs[h] /\ Acking(h) = {} /\ Told(h) = statuses
      BY <1>4, <2>1 DEF FateInv, Acking, Told
    <2>3. statuses \in Seq(DeliveryStatus)
      BY <2>2, ToldType
    <2>4. /\ Head(statuses) = statuses[1] /\ 1 \in 1 .. Len(statuses)
          /\ statuses[1] \in DeliveryStatus
      BY <2>3
    <2>5. statuses[1].id \in Nat
      BY <2>4, IdsAreNumbers DEF DeliveryStatus
    <2>6. front \in Ids(statuses) \cup Ids(packets)
      BY <1>2, <2>2 DEF FateInv, Carried
    <2> HIDE DEF front
    <2>7. ASSUME NEW other \in Ids(statuses) \cup Ids(packets), other \in Nat
          PROVE  other >= statuses[1].id
      <3>1. Awaiting(packets, statuses, {}, next)
        BY <2>2 DEF FateInv
      <3>2. CASE other \in Ids(packets)
        BY <2>4, <2>5, <2>7, <3>1, <3>2 DEF Awaiting, Ids
      <3>3. CASE other \in Ids(statuses)
        <4>1. PICK i \in 1 .. Len(statuses) : other = statuses[i].id
          BY <3>3 DEF Ids
        <4>2. i = 1 \/ 1 < i
          OBVIOUS
        <4>3. 1 < i => statuses[1].id < statuses[i].id
          BY <2>4, <3>1 DEF Awaiting
        <4> QED BY <2>5, <2>7, <4>1, <4>2, <4>3
      <3> QED BY <2>7, <3>2, <3>3
    <2> QED BY <1>2, <2>4, <2>6, <2>7
  <1> QED BY <1>3, <1>4

\* StatusAssertionsHold when tick drives the stream: over a network that keeps the
\* order of packets, whatever it loses or delays and whichever sends and receives
\* fail, the fate of a packet reaches the stream before that of every later one,
\* so that neither assertion of on_packet_delivery_status fails.
THEOREM TickKeepsStatusAssertions ==
    ASSUME ~Unordered
    PROVE  Spec => []StatusAssertionsHold
  <1> DEFINE Numbered == \A h \in Host : IdsInv(h)
             Ordered == \A h \in Host : NetOrdered(h)
             Fates == \A h \in Host : FateInv(h)
  <1>1. Init => Ordered /\ Fates
    BY NetInit, FateInit
  <1>2. BaseInv /\ Numbered /\ Ordered /\ [Next]_vars => Ordered'
    BY NetStep
  <1>3. BaseInv /\ Numbered /\ Ordered /\ Fates /\ [Next]_vars => Fates'
    BY FateStep
  <1>4. BaseInv /\ Fates => StatusAssertionsHold
    BY FateShows
  <1>5. Spec => [](BaseInv /\ Numbered)
    BY IdsHold
  <1> HIDE DEF Numbered, Ordered, Fates
  <1> QED BY <1>1, <1>2, <1>3, <1>4, <1>5, PTL DEF Spec

-----------------------------------------------------------------------------
(* The handshake: a host that takes itself for connected is right.           *)

\* No request is refused: whatever stands in the place of the last byte of
\* max_read_packet_size, the limit that the peer reads is large enough.
RequestsAreValid ==
    \A h \in Host : \A size \in Decodings(<<"LetsConnect", MaxReadPacketSize[h]>>) :
        Validates(size)

\* The packets of h with a LetsConnect whose fate h waits for.
LetsConnectIds(h) ==
    {m_in_flight_lets_connect[h][i] : i \in 1 .. Len(m_in_flight_lets_connect[h])}

\* Host h is about to hand a LetsConnect to its connection manager.
InHand(h) == tick.host = h /\ tick.stage = "acks" /\ tick.packet.handshake # << >>

\* Host h has the limits of its peer, or has them in hand; a host that hangs
\* acknowledges nothing any more.
Knows(h) == IsPeerConnected(h) \/ m_hangs[h] \/ InHand(h)

\* What host h believes of itself.
SelfInv(h) ==
    /\ ~is_fail[h]
    /\ m_underflow[h] > 0 => m_self_is_connected[h]
    /\ m_self_is_connected[h] => IsPeerConnected(Other(h))
    /\ m_hangs[h] => tick.stage = "none" \/ tick.host # h
    /\ \A id \in LetsConnectIds(h) : id < m_next_outgoing_packet_id[h]

\* A packet on its way to h has a LetsConnect if its sender thinks so, and it
\* acknowledges a LetsConnect of h only if its sender has the limits of h.
NoteInv(h) ==
    /\ \A packet \in Underway(h) :
         /\ packet.handshake # <<"Reject">>
         /\ packet.header.id \in LetsConnectIds(Other(h)) => packet.handshake # << >>
         /\ \A id \in PacketId : StatusOf(id, packet.header) = ACK =>
              /\ id < m_next_outgoing_packet_id[h]
              /\ id \in LetsConnectIds(h) => IsPeerConnected(Other(h))
    /\ Reading /\ tick.host = h => tick.packet.handshake # <<"Reject">>

\* Host h acknowledges a LetsConnect only when it knows its peer.
PendingInv(h) ==
    \A i \in 1 .. Len(m_pending_acks[h]) :
        /\ m_pending_acks[h][i] < m_next_outgoing_packet_id[Other(h)]
        /\ m_pending_acks[h][i] \in LetsConnectIds(Other(h)) => Knows(h)

\* So does the status that h is about to be told.
ToldInv(h) ==
    \A i \in 1 .. Len(Told(h)) :
        Told(h)[i].status = ACK /\ Told(h)[i].id \in LetsConnectIds(h)
            => IsPeerConnected(Other(h))

HandshakeInv(h) == SelfInv(h) /\ NoteInv(h) /\ PendingInv(h) /\ ToldInv(h)

\* A step that sends and accepts no packet keeps the invariant if nothing is
\* forgotten.
LEMMA HandshakeFrame ==
    ASSUME BaseInv, NEW h \in Host, HandshakeInv(h),
           \A g \in Host : /\ LetsConnectIds(g)' \subseteq LetsConnectIds(g)
                           /\ IsPeerConnected(g) => IsPeerConnected(g)'
                           /\ Underway(g)' \subseteq Underway(g),
           UNCHANGED <<m_next_outgoing_packet_id, m_pending_acks>>,
           ~is_fail'[h],
           m_underflow'[h] > 0 => m_self_is_connected'[h],
           m_self_is_connected'[h] => IsPeerConnected(Other(h))',
           m_hangs'[h] => tick'.stage = "none" \/ tick'.host # h,
           Reading' /\ tick'.host = h => tick'.packet.handshake # <<"Reject">>,
           Knows(h) => Knows(h)',
           ToldInv(h)'
    PROVE  HandshakeInv(h)'
  <1>1. Other(h) \in Host
    BY OtherHost
  <1>2. SelfInv(h)'
    BY DEF HandshakeInv, SelfInv
  <1>3. NoteInv(h)'
    BY <1>1 DEF HandshakeInv, NoteInv
  <1>4. PendingInv(h)'
    BY <1>1 DEF HandshakeInv, PendingInv
  <1> QED BY <1>2, <1>3, <1>4 DEF HandshakeInv

\* Nothing of the handshake changes, and a tick only goes on or ends.
LEMMA HandshakeUnmoved ==
    ASSUME BaseInv, NEW h \in Host, HandshakeInv(h),
           UNCHANGED <<m_in_flight_lets_connect, m_underflow, is_fail, m_self_is_connected,
                       m_peer_bandwidth_limit, m_hangs, m_next_outgoing_packet_id,
                       m_pending_acks>>,
           \A g \in Host : Underway(g)' \subseteq Underway(g),
           \/ tick' = tick
           \/ /\ ~InHand(h)
              /\ tick'.stage \in {"none", "write", "old"}
              /\ tick'.stage # "none" /\ tick'.host = h => ~m_hangs[h]
              /\ ToldInv(h)'
    PROVE  HandshakeInv(h)'
  <1>1. \A g \in Host : /\ LetsConnectIds(g)' = LetsConnectIds(g)
                        /\ IsPeerConnected(g)' = IsPeerConnected(g)
    BY DEF LetsConnectIds, IsPeerConnected
  <1>2. SelfInv(h) /\ NoteInv(h) /\ ToldInv(h) /\ Other(h) \in Host
    BY OtherHost DEF HandshakeInv
  <1>3. /\ ~is_fail'[h]
        /\ m_underflow'[h] > 0 => m_self_is_connected'[h]
        /\ m_self_is_connected'[h] => IsPeerConnected(Other(h))'
    BY <1>1, <1>2 DEF SelfInv
  <1>4. m_hangs'[h] => tick'.stage = "none" \/ tick'.host # h
    BY <1>2 DEF SelfInv
  <1>5. Reading' /\ tick'.host = h => tick'.packet.handshake # <<"Reject">>
    BY <1>2 DEF NoteInv, Reading
  <1>6. Knows(h) => Knows(h)'
    BY <1>1 DEF Knows, InHand
  <1>7. ToldInv(h)'
    BY <1>1, <1>2 DEF ToldInv, Told
  <1> QED BY <1>1, <1>3, <1>4, <1>5, <1>6, <1>7, HandshakeFrame

LEMMA HandshakeQuiet ==
    ASSUME BaseInv, NEW g \in Host, HandshakeInv(g),
           \/ Elapse \/ UNCHANGED vars
           \/ \E h \in Host : \/ Connect(h) \/ SendReliable(h) \/ SendUnreliable(h)
                              \/ PopAckedMessage(h) \/ ReadReliableMessage(h)
                              \/ \E i \in 1 .. Len(network[h]) : Lose(h, i)
    PROVE  HandshakeInv(g)'
  <1>1. /\ UNCHANGED <<m_in_flight_lets_connect, m_underflow, is_fail, m_self_is_connected,
                       m_peer_bandwidth_limit, m_hangs, m_next_outgoing_packet_id,
                       m_pending_acks>>
        /\ tick' = tick
    <2>1. CASE Elapse \/ UNCHANGED vars
      BY <2>1 DEF Elapse, vars, pdmVars, cmVars
    <2>2. ASSUME NEW h \in Host,
                 \/ Connect(h) \/ SendReliable(h) \/ SendUnreliable(h)
                 \/ PopAckedMessage(h) \/ ReadReliableMessage(h)
                 \/ \E i \in 1 .. Len(network[h]) : Lose(h, i)
          PROVE  /\ UNCHANGED <<m_in_flight_lets_connect, m_underflow, is_fail,
                                m_self_is_connected, m_peer_bandwidth_limit, m_hangs,
                                m_next_outgoing_packet_id, m_pending_acks>>
                 /\ tick' = tick
      BY <2>2 DEF Connect, CmConnect, SendReliable, SendUnreliable, PopAckedMessage,
         ReadReliableMessage, Lose, pdmVars, cmVars
    <2> QED BY <2>1, <2>2
  <1>2. \A f \in Host : Underway(f)' \subseteq Underway(f)
    <2>1. CASE network' = network
      BY <2>1 DEF Underway
    <2>2. ASSUME NEW h \in Host, NEW i \in 1 .. Len(network[h]), Lose(h, i)
          PROVE  \A f \in Host : Underway(f)' \subseteq Underway(f)
      BY <2>2, UnderwayRemoved DEF Lose
    <2> QED BY <2>1, <2>2 DEF Elapse, vars, Connect, SendReliable, SendUnreliable,
                PopAckedMessage, ReadReliableMessage
  <1> QED BY <1>1, <1>2, HandshakeUnmoved

\* tick goes on without looking at a handshake, or returns.
LEMMA HandshakeStage ==
    ASSUME BaseInv, NEW g \in Host, HandshakeInv(g), NEW h \in Host,
           \/ ReadNothing(h) \/ ReadFails(h) \/ IgnoreSegments(h) \/ ReadSegments(h)
           \/ HoldPacket(h) \/ NoPeerToWriteTo(h)
    PROVE  HandshakeInv(g)'
  <1>1. UNCHANGED <<m_in_flight_lets_connect, m_underflow, is_fail, m_self_is_connected,
                    m_peer_bandwidth_limit, m_hangs, m_next_outgoing_packet_id, m_pending_acks,
                    network>>
    BY DEF ReadNothing, ReadFails, IgnoreSegments, ReadSegments, HoldPacket, NoPeerToWriteTo,
       pdmVars, cmVars
  <1>2. tick.host = h /\ tick.stage \in {"old", "segments", "write"}
    BY DEF ReadNothing, ReadFails, IgnoreSegments, ReadSegments, HoldPacket, NoPeerToWriteTo,
       InStage
  <1>3. tick.statuses = << >> /\ tick \in TickState
    <2>1. CASE ReadNothing(h) \/ ReadFails(h)
      BY <2>1 DEF ReadNothing, ReadFails, StatusesDone, BaseInv, TickInv
    <2>2. CASE tick.stage \in {"segments", "write"}
      BY <2>2 DEF BaseInv, TickInv
    <2> QED BY <2>1, <2>2 DEF IgnoreSegments, ReadSegments, HoldPacket, NoPeerToWriteTo, InStage
  <1>4. \/ tick' = NotTicking
        \/ tick' = Staged(tick, "write") \/ tick' = Moved(tick, "write", NoPacket)
    BY Zenon DEF ReadNothing, ReadFails, IgnoreSegments, ReadSegments, HoldPacket,
       NoPeerToWriteTo, Goto, Staged, Moved
  <1>5. /\ tick'.statuses = << >>
        /\ tick'.stage = "none" \/ (tick'.stage = "write" /\ tick'.host = h)
    <2>1. NotTicking.statuses = << >> /\ NotTicking.stage = "none"
      BY DEF NotTicking
    <2> QED BY <1>2, <1>3, <1>4, <2>1, TickUpdates
  <1>6. ToldInv(g)'
    BY <1>5 DEF ToldInv, Told
  <1>7. ~InHand(g)
    BY <1>2 DEF InHand
  <1>8. tick'.stage # "none" /\ tick'.host = g => ~m_hangs[g]
    BY <1>2, <1>5 DEF HandshakeInv, SelfInv
  <1>9. \A f \in Host : Underway(f)' \subseteq Underway(f)
    BY <1>1 DEF Underway
  <1> QED BY <1>1, <1>5, <1>6, <1>7, <1>8, <1>9, HandshakeUnmoved

LEMMA HandshakeTickBegin ==
    ASSUME BaseInv, NEW g \in Host, HandshakeInv(g), NEW h \in Host, TickBegin(h)
    PROVE  HandshakeInv(g)'
  <1>1. PICK n \in 0 .. Len(m_in_flight_packets[h]) :
          /\ DropOldPackets(h, now, n)
          /\ tick' = [host |-> h, stage |-> "old", statuses |-> DropStatuses(h, n),
                      packet |-> NoPacket]
    BY DEF TickBegin
  <1>2. /\ tick = NotTicking /\ ~m_hangs[h]
        /\ UNCHANGED <<m_in_flight_lets_connect, m_underflow, is_fail, m_self_is_connected,
                       m_peer_bandwidth_limit, m_hangs, m_next_outgoing_packet_id,
                       m_pending_acks, network>>
    BY <1>1 DEF TickBegin, cmVars, DropOldPackets
  <1>3. tick'.stage = "old" /\ tick'.host = h /\ tick'.statuses = DropStatuses(h, n)
    BY <1>1
  <1>4. ToldInv(g)'
    <2>1. \A i \in 1 .. Len(DropStatuses(h, n)) : DropStatuses(h, n)[i].status # ACK
      BY DEF DropStatuses, ACK, DROP
    <2> QED BY <1>3, <2>1 DEF ToldInv, Told
  <1>5. ~InHand(g)
    BY <1>2 DEF InHand, NotTicking
  <1>6. \A f \in Host : Underway(f)' \subseteq Underway(f)
    BY <1>2 DEF Underway
  <1> QED BY <1>2, <1>3, <1>4, <1>5, <1>6, HandshakeUnmoved

\* What a status does to the connection manager of h: nothing, or it takes the
\* LetsConnect for received, or it gives up on that packet.
StatusEffect(h, id, status) ==
    /\ UNCHANGED <<is_fail, m_is_initiator, m_peer_bandwidth_limit, m_hangs>>
    /\ \A g \in Host \ {h} :
         /\ m_in_flight_lets_connect'[g] = m_in_flight_lets_connect[g]
         /\ m_underflow'[g] = m_underflow[g]
         /\ m_self_is_connected'[g] = m_self_is_connected[g]
         /\ m_num_lets_connect_to_send'[g] = m_num_lets_connect_to_send[g]
    /\ \/ UNCHANGED cmVars /\ ~IsFront(h, id)
       \/ /\ status = ACK /\ IsFront(h, id)
          /\ m_self_is_connected'[h] = TRUE
          /\ m_in_flight_lets_connect'[h] = << >>
          /\ m_underflow'[h] = 1
       \/ /\ status = DROP /\ m_self_is_connected'[h] = m_self_is_connected[h]
          /\ m_num_lets_connect_to_send'[h] = Resent(h)
          /\ \/ /\ IsFront(h, id) /\ m_underflow'[h] = m_underflow[h]
                /\ m_in_flight_lets_connect'[h] = Tail(m_in_flight_lets_connect[h])
             \/ /\ m_underflow[h] > 0 /\ m_underflow'[h] > 0
                /\ m_in_flight_lets_connect'[h] = m_in_flight_lets_connect[h]

LEMMA StatusHandled ==
    ASSUME BaseInv, NEW h \in Host, NEW id, NEW status,
           \/ CmIgnore(h, id)
           \/ status = ACK /\ CmAck(h, id)
           \/ status = DROP /\ CmDrop(h, id)
    PROVE  StatusEffect(h, id, status)
  <1> USE DEF StatusEffect
  <1>1. /\ m_in_flight_lets_connect \in [Host -> Seq(PacketId)]
        /\ m_underflow \in [Host -> Nat]
        /\ m_num_lets_connect_to_send \in [Host -> Nat]
        /\ m_self_is_connected \in [Host -> BOOLEAN]
    BY DEF BaseInv, CmTypeOK
  <1>2. CASE CmIgnore(h, id)
    BY <1>2 DEF CmIgnore, cmVars
  <1>3. CASE status = ACK /\ CmAck(h, id)
    <2>1. m_self_is_connected'[h] = TRUE
          /\ \A g \in Host \ {h} : m_self_is_connected'[g] = m_self_is_connected[g]
      <3>1. m_self_is_connected' = [m_self_is_connected EXCEPT ![h] = TRUE]
        BY <1>3 DEF CmAck
      <3> QED BY ONLY <1>1, <3>1, h \in Host, Zenon
    <2> QED BY <1>1, <1>3, <2>1 DEF CmAck
  <1>4. CASE status = DROP /\ CmDrop(h, id)
    <2> DEFINE rest == Tail(m_in_flight_lets_connect[h])
               more == Resent(h)
    <2>1. /\ m_num_lets_connect_to_send' = [m_num_lets_connect_to_send EXCEPT ![h] = more]
          /\ UNCHANGED <<is_fail, m_is_initiator, m_self_is_connected, m_peer_bandwidth_limit,
                         m_hangs>>
          /\ \/ /\ IsFront(h, id) /\ m_underflow' = m_underflow
                /\ m_in_flight_lets_connect' = [m_in_flight_lets_connect EXCEPT ![h] = rest]
             \/ /\ m_underflow[h] > 0 /\ m_in_flight_lets_connect' = m_in_flight_lets_connect
                /\ m_underflow' = [m_underflow EXCEPT ![h] = m_underflow[h] + 1]
      BY <1>4 DEF CmDrop
    <2> HIDE DEF rest, more
    <2>2. /\ m_num_lets_connect_to_send'[h] = more
          /\ \A g \in Host \ {h} :
               m_num_lets_connect_to_send'[g] = m_num_lets_connect_to_send[g]
      BY ONLY <1>1, <2>1, h \in Host
    <2>3. CASE IsFront(h, id) /\ m_underflow' = m_underflow
               /\ m_in_flight_lets_connect' = [m_in_flight_lets_connect EXCEPT ![h] = rest]
      <3>1. /\ m_in_flight_lets_connect'[h] = rest
            /\ \A g \in Host \ {h} : m_in_flight_lets_connect'[g] = m_in_flight_lets_connect[g]
        BY <1>1, <2>3
      <3> QED BY <1>4, <2>1, <2>2, <2>3, <3>1 DEF rest, more
    <2>4. CASE m_underflow[h] > 0 /\ m_in_flight_lets_connect' = m_in_flight_lets_connect
               /\ m_underflow' = [m_underflow EXCEPT ![h] = m_underflow[h] + 1]
      <3>1. /\ m_underflow'[h] > 0
            /\ \A g \in Host \ {h} : m_underflow'[g] = m_underflow[g]
        BY <1>1, <2>4
      <3> QED BY <1>4, <2>1, <2>2, <2>4, <3>1 DEF more
    <2> QED BY <2>1, <2>3, <2>4
  <1> QED BY <1>2, <1>3, <1>4

\* What ProcessStatus does, as far as the handshake is concerned.
LEMMA StatusStep ==
    ASSUME BaseInv, NEW h \in Host, ProcessStatus(h)
    PROVE  \E id, status :
             /\ StatusEffect(h, id, status)
             /\ tick.host = h /\ tick.stage \in {"old", "acks"} /\ call[h].op = "none"
             /\ tick.statuses \in Seq(DeliveryStatus) /\ tick.statuses # << >>
             /\ id = tick.statuses[1].id /\ status = tick.statuses[1].status
             /\ tick'.host = h /\ tick'.stage = tick.stage /\ tick'.packet = tick.packet
             /\ tick'.statuses = Tail(tick.statuses)
             /\ UNCHANGED <<pdmVars, network, has_peer>>
  <1> DEFINE first == Head(tick.statuses)
  <1>1. PICK id, status : id = first.id /\ status = first.status
    OBVIOUS
  <1>2. /\ tick.host = h /\ tick.statuses # << >> /\ call[h].op = "none"
        /\ \/ CmIgnore(h, id)
           \/ status = ACK /\ CmAck(h, id)
           \/ status = DROP /\ CmDrop(h, id)
        /\ tick' = [tick EXCEPT !.statuses = Tail(tick.statuses)]
        /\ UNCHANGED <<pdmVars, network, has_peer>>
    BY <1>1, Zenon DEF ProcessStatus, CmIgnore, CmAck, CmDrop, IsFront
  <1>3. tick \in TickState /\ tick.stage \in {"old", "acks"}
    BY <1>2 DEF BaseInv, TickInv
  <1>4. /\ tick'.host = h /\ tick'.stage = tick.stage /\ tick'.packet = tick.packet
        /\ tick'.statuses = Tail(tick.statuses)
    <2>1. tick' = Handed(tick, Tail(tick.statuses))
      BY ONLY <1>2, Zenon DEF Handed
    <2> QED BY ONLY <1>2, <1>3, <2>1, TickUpdates
  <1>5. tick.statuses \in Seq(DeliveryStatus)
    BY ONLY <1>3, TickFields
  <1>6. first = tick.statuses[1]
    BY <1>2, <1>5
  <1> HIDE DEF first
  <1>7. StatusEffect(h, id, status)
    BY <1>2, StatusHandled
  <1> QED BY <1>1, <1>2, <1>3, <1>4, <1>5, <1>6, <1>7

\* A status only takes packets out of the queue.
LEMMA StatusShrinks ==
    ASSUME BaseInv, NEW h \in Host, NEW id, NEW status, StatusEffect(h, id, status)
    PROVE  /\ \A f \in Host : LetsConnectIds(f)' \subseteq LetsConnectIds(f)
           /\ IsFront(h, id) => id \in LetsConnectIds(h)
  <1> DEFINE queue == m_in_flight_lets_connect[h]
  <1>1. queue \in Seq(PacketId)
    BY TypesAt
  <1>2. IsFront(h, id) => /\ id \in LetsConnectIds(h)
                          /\ \A i \in 1 .. Len(Tail(queue)) : Tail(queue)[i] \in LetsConnectIds(h)
    <2>1. queue # << >> =>
            /\ 1 \in 1 .. Len(queue) /\ Head(queue) = queue[1]
            /\ \A i \in 1 .. Len(Tail(queue)) : i + 1 \in 1 .. Len(queue) /\ Tail(queue)[i] = queue[i + 1]
      BY <1>1
    <2> QED BY <2>1 DEF IsFront, LetsConnectIds
  <1>3. \A f \in Host : LetsConnectIds(f)' \subseteq LetsConnectIds(f)
    <2>1. LetsConnectIds(h)' \subseteq LetsConnectIds(h)
      <3>1. CASE m_in_flight_lets_connect'[h] = m_in_flight_lets_connect[h]
        BY <3>1 DEF LetsConnectIds
      <3>2. CASE m_in_flight_lets_connect'[h] = << >>
        <4>1. Len(<< >>) = 0
          OBVIOUS
        <4> QED BY <3>2, <4>1 DEF LetsConnectIds
      <3>3. CASE IsFront(h, id) /\ m_in_flight_lets_connect'[h] = Tail(queue)
        BY <1>2, <3>3 DEF LetsConnectIds
      <3> QED BY <3>1, <3>2, <3>3 DEF StatusEffect, cmVars
    <2>2. ASSUME NEW f \in Host, f # h
          PROVE  LetsConnectIds(f)' = LetsConnectIds(f)
      <3>1. m_in_flight_lets_connect'[f] = m_in_flight_lets_connect[f]
        BY <2>2 DEF StatusEffect
      <3> QED BY <3>1 DEF LetsConnectIds
    <2> QED BY <2>1, <2>2
  <1> QED BY <1>2, <1>3

LEMMA HandshakeProcessStatus ==
    ASSUME BaseInv, NEW g \in Host, HandshakeInv(g), NEW h \in Host, ProcessStatus(h)
    PROVE  HandshakeInv(g)'
  <1>1. PICK id, status :
          /\ StatusEffect(h, id, status)
          /\ tick.host = h
          /\ tick.statuses \in Seq(DeliveryStatus) /\ tick.statuses # << >>
          /\ id = tick.statuses[1].id /\ status = tick.statuses[1].status
          /\ tick'.host = h /\ tick'.stage = tick.stage /\ tick'.packet = tick.packet
          /\ tick'.statuses = Tail(tick.statuses)
          /\ UNCHANGED <<pdmVars, network>>
    BY StatusStep
  <1>2. UNCHANGED <<m_next_outgoing_packet_id, m_pending_acks>>
    BY <1>1 DEF pdmVars
  <1>3. /\ 1 \in 1 .. Len(tick.statuses)
        /\ \A i \in 1 .. Len(Tail(tick.statuses)) :
             i + 1 \in 1 .. Len(tick.statuses) /\ Tail(tick.statuses)[i] = tick.statuses[i + 1]
    BY <1>1
  <1>4. /\ UNCHANGED <<is_fail, m_is_initiator, m_peer_bandwidth_limit, m_hangs>>
        /\ \A f \in Host \ {h} :
             /\ m_in_flight_lets_connect'[f] = m_in_flight_lets_connect[f]
             /\ m_underflow'[f] = m_underflow[f]
             /\ m_self_is_connected'[f] = m_self_is_connected[f]
             /\ m_num_lets_connect_to_send'[f] = m_num_lets_connect_to_send[f]
        /\ \/ UNCHANGED cmVars /\ ~IsFront(h, id)
           \/ /\ status = ACK /\ IsFront(h, id)
              /\ m_self_is_connected'[h] = TRUE
              /\ m_in_flight_lets_connect'[h] = << >>
              /\ m_underflow'[h] = 1
           \/ /\ status = DROP /\ m_self_is_connected'[h] = m_self_is_connected[h]
              /\ m_num_lets_connect_to_send'[h] = Resent(h)
              /\ \/ /\ IsFront(h, id) /\ m_underflow'[h] = m_underflow[h]
                    /\ m_in_flight_lets_connect'[h] = Tail(m_in_flight_lets_connect[h])
                 \/ /\ m_underflow[h] > 0 /\ m_underflow'[h] > 0
                    /\ m_in_flight_lets_connect'[h] = m_in_flight_lets_connect[h]
    BY <1>1, Zenon DEF StatusEffect
  <1>5. /\ \A f \in Host : LetsConnectIds(f)' \subseteq LetsConnectIds(f)
        /\ IsFront(h, id) => id \in LetsConnectIds(h)
    BY <1>1, StatusShrinks
  <1>6. SelfInv(g) /\ NoteInv(g) /\ ToldInv(g)
    BY DEF HandshakeInv
  <1>7. \A f \in Host : IsPeerConnected(f)' = IsPeerConnected(f)
    BY <1>4 DEF IsPeerConnected
  <1>8. /\ ~is_fail'[g]
        /\ m_underflow'[g] > 0 => m_self_is_connected'[g]
        /\ m_self_is_connected'[g] => IsPeerConnected(Other(g))'
    <2>1. ~is_fail'[g]
      BY <1>4, <1>6 DEF SelfInv
    <2>2. CASE g # h \/ UNCHANGED cmVars
      <3>1. m_underflow'[g] = m_underflow[g] /\ m_self_is_connected'[g] = m_self_is_connected[g]
        BY <1>4, <2>2 DEF cmVars
      <3> QED BY <1>6, <1>7, <2>1, <3>1, OtherHost DEF SelfInv
    <2>3. CASE g = h /\ status = ACK /\ IsFront(h, id) /\ m_self_is_connected'[h] = TRUE
      <3>1. Told(h) = tick.statuses
        BY <1>1 DEF Told
      <3>2. IsPeerConnected(Other(h))
        BY <1>3, <1>5, <1>6, <2>3, <3>1, <1>1 DEF ToldInv
      <3> QED BY <1>7, <2>1, <2>3, <3>2, OtherHost
    <2>4. CASE g = h /\ m_self_is_connected'[h] = m_self_is_connected[h]
               /\ (m_underflow'[h] = m_underflow[h] \/ m_underflow[h] > 0)
      BY <1>6, <1>7, <2>1, <2>4, OtherHost DEF SelfInv
    <2> QED BY <1>4, <2>2, <2>3, <2>4
  <1>9. m_hangs'[g] => tick'.stage = "none" \/ tick'.host # g
    BY <1>1, <1>4, <1>6 DEF SelfInv
  <1>10. Reading' /\ tick'.host = g => tick'.packet.handshake # <<"Reject">>
    BY <1>1, <1>6 DEF NoteInv, Reading
  <1>11. Knows(g) => Knows(g)'
    BY <1>1, <1>4, <1>7 DEF Knows, InHand
  <1>12. ToldInv(g)'
    <2>1. CASE g # h
      <3>1. Told(g)' = << >> /\ Len(<< >>) = 0
        BY <1>1, <2>1 DEF Told
      <3> QED BY <3>1 DEF ToldInv
    <2>2. CASE g = h
      <3>1. Told(h) = tick.statuses /\ Told(h)' = Tail(tick.statuses)
        BY <1>1 DEF Told
      <3>2. ASSUME NEW i \in 1 .. Len(Tail(tick.statuses)), Tail(tick.statuses)[i].status = ACK,
                   Tail(tick.statuses)[i].id \in LetsConnectIds(h)'
            PROVE  IsPeerConnected(Other(h))'
        BY <1>3, <1>5, <1>6, <1>7, <2>2, <3>1, <3>2, OtherHost DEF ToldInv
      <3> QED BY <2>2, <3>1, <3>2 DEF ToldInv
    <2> QED BY <2>1, <2>2
  <1>13. \A f \in Host : Underway(f)' \subseteq Underway(f)
    BY <1>1 DEF Underway
  <1>14. \A f \in Host : /\ LetsConnectIds(f)' \subseteq LetsConnectIds(f)
                         /\ IsPeerConnected(f) => IsPeerConnected(f)'
                         /\ Underway(f)' \subseteq Underway(f)
    BY <1>5, <1>7, <1>13
  <1> QED BY <1>2, <1>8, <1>9, <1>10, <1>11, <1>12, <1>14, HandshakeFrame

LEMMA HandshakeHang ==
    ASSUME BaseInv, NEW g \in Host, HandshakeInv(g), NEW h \in Host, Hang(h)
    PROVE  HandshakeInv(g)'
  <1>1. /\ tick.host = h /\ tick' = NotTicking /\ m_underflow[h] > 0
        /\ m_self_is_connected' = [m_self_is_connected EXCEPT ![h] = TRUE]
        /\ m_hangs' = [m_hangs EXCEPT ![h] = TRUE]
        /\ UNCHANGED <<m_in_flight_lets_connect, m_underflow, is_fail, m_peer_bandwidth_limit,
                       m_next_outgoing_packet_id, m_pending_acks, network>>
    BY DEF Hang, CmAckAfterUnderflow, pdmVars
  <1>2. /\ m_self_is_connected'[h] = TRUE /\ m_hangs'[h] = TRUE
        /\ \A f \in Host \ {h} : m_hangs'[f] = m_hangs[f]
                                 /\ m_self_is_connected'[f] = m_self_is_connected[f]
    <2>1. m_hangs \in [Host -> BOOLEAN] /\ m_self_is_connected \in [Host -> BOOLEAN]
      BY DEF BaseInv, CmTypeOK
    <2> QED BY ONLY <1>1, <2>1, h \in Host, Zenon
  <1>3. tick'.stage = "none" /\ tick'.statuses = << >>
    BY <1>1 DEF NotTicking
  <1>4. \A f \in Host : /\ LetsConnectIds(f)' = LetsConnectIds(f)
                        /\ IsPeerConnected(f)' = IsPeerConnected(f)
                        /\ Underway(f)' = Underway(f)
    BY <1>1 DEF LetsConnectIds, IsPeerConnected, Underway
  <1>5. SelfInv(g)
    BY DEF HandshakeInv
  <1>6. /\ ~is_fail'[g]
        /\ m_underflow'[g] > 0 => m_self_is_connected'[g]
        /\ m_self_is_connected'[g] => IsPeerConnected(Other(g))'
    <2>1. CASE g = h
      BY <1>1, <1>2, <1>4, <1>5, <2>1, OtherHost DEF SelfInv
    <2>2. CASE g # h
      BY <1>1, <1>2, <1>4, <1>5, <2>2, OtherHost DEF SelfInv
    <2> QED BY <2>1, <2>2
  <1>7. Knows(g) => Knows(g)'
    BY <1>1, <1>2, <1>4 DEF Knows, InHand
  <1>8. ToldInv(g)'
    BY <1>3 DEF ToldInv, Told
  <1>9. ~Reading'
    BY <1>3 DEF Reading
  <1> QED BY <1>1, <1>3, <1>4, <1>6, <1>7, <1>8, <1>9, HandshakeFrame

\* What a handshake in a packet may be.
LEMMA HandshakeCases ==
    ASSUME NEW message \in Handshake, message # << >>, message # <<"Reject">>
    PROVE  \E f \in Host : message = <<"LetsConnect", MaxReadPacketSize[f]>>
  BY DEF Handshake

\* A valid request or answer makes the peer known.
LEMMA RequestRead ==
    ASSUME RequestsAreValid, BaseInv, NEW h \in Host, ReadHandshake(h),
           tick.packet.handshake # <<"Reject">>
    PROVE  /\ tick.host = h /\ tick.stage = "acks" /\ tick.statuses = << >>
           /\ tick.packet \in SentPacket
           /\ tick' = [host |-> h, stage |-> "segments", statuses |-> << >>,
                       packet |-> tick.packet]
           /\ \/ tick.packet.handshake = << >> /\ UNCHANGED cmVars
              \/ /\ tick.packet.handshake # << >>
                 /\ IsPeerConnected(h)'
                 /\ ~is_fail'[h]
                 /\ m_num_lets_connect_to_send'[h] =
                      IF m_is_initiator[h] THEN m_num_lets_connect_to_send[h]
                      ELSE NumRedundantPackets + 1
                 /\ \A g \in Host \ {h} :
                      /\ is_fail'[g] = is_fail[g]
                      /\ m_peer_bandwidth_limit'[g] = m_peer_bandwidth_limit[g]
                      /\ m_num_lets_connect_to_send'[g] = m_num_lets_connect_to_send[g]
                 /\ UNCHANGED <<m_in_flight_lets_connect, m_underflow, m_is_initiator,
                                m_self_is_connected, m_hangs>>
           /\ UNCHANGED <<pdmVars, streamVars, unreliableVars, now, network, has_peer,
                          historyVars>>
  <1>1. /\ tick.host = h /\ tick.stage = "acks" /\ tick.statuses = << >>
        /\ tick' = [tick EXCEPT !.stage = "segments"]
        /\ UNCHANGED <<pdmVars, streamVars, unreliableVars, now, network, has_peer, historyVars>>
    BY DEF ReadHandshake, InStage, StatusesDone, Goto
  <1>2. tick \in TickState /\ tick.packet \in SentPacket
    BY <1>1 DEF BaseInv, TickInv
  <1>3. tick' = [host |-> h, stage |-> "segments", statuses |-> << >>, packet |-> tick.packet]
    <2>1. tick' = Staged(tick, "segments")
      BY ONLY <1>1, Zenon DEF Staged
    <2> QED BY <1>1, <1>2, <2>1, TickUpdates
  <1>4. ASSUME NEW size \in Decodings(tick.packet.handshake), tick.packet.handshake # << >>,
               CmReadLetsConnect(h, size)
        PROVE  /\ IsPeerConnected(h)'
               /\ ~is_fail'[h]
               /\ m_num_lets_connect_to_send'[h] =
                    IF m_is_initiator[h] THEN m_num_lets_connect_to_send[h]
                    ELSE NumRedundantPackets + 1
               /\ \A g \in Host \ {h} :
                    /\ is_fail'[g] = is_fail[g]
                    /\ m_peer_bandwidth_limit'[g] = m_peer_bandwidth_limit[g]
                    /\ m_num_lets_connect_to_send'[g] = m_num_lets_connect_to_send[g]
               /\ UNCHANGED <<m_in_flight_lets_connect, m_underflow, m_is_initiator,
                              m_self_is_connected, m_hangs>>
    <2>1. PICK f \in Host : tick.packet.handshake = <<"LetsConnect", MaxReadPacketSize[f]>>
      BY <1>2, <1>4, PacketFields, HandshakeCases
    <2>2. Validates(size)
      BY <1>4, <2>1 DEF RequestsAreValid
    <2>3. /\ is_fail' = [is_fail EXCEPT ![h] = FALSE]
          /\ m_num_lets_connect_to_send' = [m_num_lets_connect_to_send EXCEPT
               ![h] = IF m_is_initiator[h] THEN m_num_lets_connect_to_send[h]
                      ELSE NumRedundantPackets + 1]
          /\ m_peer_bandwidth_limit' = [m_peer_bandwidth_limit EXCEPT ![h] = size]
          /\ UNCHANGED <<m_in_flight_lets_connect, m_underflow, m_is_initiator,
                         m_self_is_connected, m_hangs>>
      BY <1>4, <2>2 DEF CmReadLetsConnect
    <2>4. is_fail'[h] = FALSE /\ \A g \in Host \ {h} : is_fail'[g] = is_fail[g]
      <3>1. is_fail \in [Host -> BOOLEAN]
        BY DEF BaseInv, CmTypeOK
      <3> QED BY ONLY <2>3, <3>1, h \in Host, Zenon
    <2>5. m_peer_bandwidth_limit'[h] = size
          /\ \A g \in Host \ {h} : m_peer_bandwidth_limit'[g] = m_peer_bandwidth_limit[g]
      <3>1. m_peer_bandwidth_limit \in [Host -> Limit]
        BY DEF BaseInv, CmTypeOK
      <3> QED BY ONLY <2>3, <3>1, h \in Host, Zenon
    <2>6. size \in PacketSize /\ size # NoLimit
      <3>1. size \in PacketSize
        BY <1>2, <1>4, PacketFields, LimitDecoded
      <3>2. \A s \in PacketSize : s # NoLimit
        BY ONLY SMTT(30) DEF PacketSize, NoLimit
      <3> QED BY ONLY <3>1, <3>2, Zenon
    <2>7. /\ m_num_lets_connect_to_send'[h] =
               IF m_is_initiator[h] THEN m_num_lets_connect_to_send[h]
               ELSE NumRedundantPackets + 1
          /\ \A g \in Host \ {h} :
               m_num_lets_connect_to_send'[g] = m_num_lets_connect_to_send[g]
      <3> DEFINE new == IF m_is_initiator[h] THEN m_num_lets_connect_to_send[h]
                        ELSE NumRedundantPackets + 1
      <3>1. m_num_lets_connect_to_send \in [Host -> Nat]
        BY DEF BaseInv, CmTypeOK
      <3>2. m_num_lets_connect_to_send' = [m_num_lets_connect_to_send EXCEPT ![h] = new]
        BY ONLY <2>3
      <3> HIDE DEF new
      <3>3. /\ m_num_lets_connect_to_send'[h] = new
            /\ \A g \in Host \ {h} :
                 m_num_lets_connect_to_send'[g] = m_num_lets_connect_to_send[g]
        BY ONLY <3>1, <3>2, h \in Host
      <3> QED BY <3>3 DEF new
    <2> QED BY <2>3, <2>4, <2>5, <2>6, <2>7 DEF IsPeerConnected
  <1>5. \/ tick.packet.handshake = << >> /\ UNCHANGED cmVars
        \/ /\ tick.packet.handshake # << >>
           /\ \E size \in Decodings(tick.packet.handshake) : CmReadLetsConnect(h, size)
    BY DEF ReadHandshake
  <1> QED BY <1>1, <1>2, <1>3, <1>4, <1>5

LEMMA HandshakeReadHandshake ==
    ASSUME RequestsAreValid, BaseInv, NEW g \in Host, HandshakeInv(g),
           NEW h \in Host, HandshakeInv(h), ReadHandshake(h)
    PROVE  HandshakeInv(g)'
  <1>1. tick.host = h /\ tick.stage = "acks"
    BY DEF ReadHandshake, InStage
  <1>2. tick.packet.handshake # <<"Reject">>
    BY <1>1 DEF HandshakeInv, NoteInv, Reading
  <1>3. /\ tick' = [host |-> h, stage |-> "segments", statuses |-> << >>,
                    packet |-> tick.packet]
        /\ \/ tick.packet.handshake = << >> /\ UNCHANGED cmVars
           \/ /\ tick.packet.handshake # << >> /\ IsPeerConnected(h)' /\ ~is_fail'[h]
              /\ \A f \in Host \ {h} :
                   /\ is_fail'[f] = is_fail[f]
                   /\ m_peer_bandwidth_limit'[f] = m_peer_bandwidth_limit[f]
              /\ UNCHANGED <<m_in_flight_lets_connect, m_underflow, m_self_is_connected, m_hangs>>
        /\ UNCHANGED <<m_next_outgoing_packet_id, m_pending_acks, network>>
    BY <1>2, RequestRead DEF pdmVars
  <1>4. tick'.host = h /\ tick'.stage = "segments" /\ tick'.statuses = << >>
        /\ tick'.packet = tick.packet
    BY <1>3
  <1>5. \A f \in Host : IsPeerConnected(f) => IsPeerConnected(f)'
    BY <1>3 DEF IsPeerConnected, cmVars
  <1>6. UNCHANGED <<m_in_flight_lets_connect, m_underflow, m_self_is_connected, m_hangs>>
    BY <1>3 DEF cmVars
  <1>7. \A f \in Host : LetsConnectIds(f)' = LetsConnectIds(f) /\ Underway(f)' = Underway(f)
    BY <1>3, <1>6 DEF LetsConnectIds, Underway
  <1>8. SelfInv(g)
    BY DEF HandshakeInv
  <1>9. ~is_fail'[g]
    BY <1>3, <1>8 DEF SelfInv, cmVars
  <1>10. /\ m_underflow'[g] > 0 => m_self_is_connected'[g]
         /\ m_self_is_connected'[g] => IsPeerConnected(Other(g))'
    BY <1>5, <1>6, <1>8, OtherHost DEF SelfInv
  <1>11. m_hangs'[g] => tick'.stage = "none" \/ tick'.host # g
    BY <1>1, <1>4, <1>6, <1>8 DEF SelfInv
  <1>12. tick'.packet.handshake # <<"Reject">>
    BY <1>2, <1>4
  <1>13. Knows(g) => Knows(g)'
    BY <1>1, <1>3, <1>5, <1>6 DEF Knows, InHand
  <1>14. ToldInv(g)'
    BY <1>4 DEF ToldInv, Told
  <1> QED BY <1>3, <1>5, <1>7, <1>9, <1>10, <1>11, <1>12, <1>13, <1>14, HandshakeFrame

LEMMA HandshakeReadPacket ==
    ASSUME BaseInv, NEW g \in Host, HandshakeInv(g),
           NEW h \in Host, HandshakeInv(h), IdsInv(h),
           NEW i \in 1 .. Len(network[h]), ReadPacket(h, i)
    PROVE  HandshakeInv(g)'
  <1>1. PICK n \in 0 .. Len(m_in_flight_packets[h]), packet \in Underway(h) :
          /\ packet = network[h][i] /\ packet \in SentPacket
          /\ tick.host = h /\ tick.stage = "old"
          /\ \A f \in Host : Underway(f)' \subseteq Underway(f)
          /\ UNCHANGED <<m_next_outgoing_packet_id, cmVars>>
          /\ tick'.host = h
          /\ \/ /\ Accepts(h, packet.header)
                /\ tick'.stage = "acks" /\ tick'.packet = packet
                /\ tick'.statuses = ReadStatuses(h, packet.header, n)
             \/ /\ ~Accepts(h, packet.header)
                /\ tick'.stage = "write"
                /\ tick'.statuses = << >>
    BY PacketRead
  <1>2. \/ /\ Accepts(h, packet.header)
           /\ m_pending_acks' = [m_pending_acks EXCEPT ![h] = Append(@, packet.header.id)]
        \/ /\ ~Accepts(h, packet.header)
           /\ m_pending_acks' = m_pending_acks
    BY <1>1 DEF ReadPacket, ProcessRead, ProcessPacketHeader
  <1>3. /\ packet.header \in PacketHeader /\ packet.header.id \in PacketId
        /\ packet.header.id < m_next_outgoing_packet_id[Other(h)]
    BY <1>1, PacketFields DEF IdsInv
  <1>4. \A f \in Host : /\ LetsConnectIds(f)' = LetsConnectIds(f)
                        /\ IsPeerConnected(f)' = IsPeerConnected(f)
                        /\ m_hangs'[f] = m_hangs[f]
    BY <1>1 DEF LetsConnectIds, IsPeerConnected, cmVars
  <1>5. Other(g) \in Host /\ Other(h) \in Host
    BY OtherHost
  <1>6. SelfInv(g)'
    BY <1>1, <1>4, <1>5 DEF HandshakeInv, SelfInv, cmVars
  <1>7. NoteInv(h) /\ NoteInv(g) /\ PendingInv(g)
    BY DEF HandshakeInv
  <1>8. NoteInv(g)'
    <2>1. Reading' /\ tick'.host = g => tick'.packet.handshake # <<"Reject">>
      BY <1>1, <1>7 DEF Reading, NoteInv
    <2> QED BY <1>1, <1>4, <1>5, <1>7, <2>1 DEF NoteInv
  <1>9. Knows(g) => Knows(g)'
    BY <1>1, <1>4 DEF Knows, InHand
  <1>10. m_pending_acks \in [Host -> Seq(PacketId)]
    BY DEF BaseInv, PdmTypeOK
  <1>11. PendingInv(g)'
    <2>1. CASE m_pending_acks'[g] = m_pending_acks[g]
      BY <1>1, <1>4, <1>5, <1>7, <1>9, <2>1 DEF PendingInv
    <2>2. CASE g = h /\ Accepts(h, packet.header)
               /\ m_pending_acks' = [m_pending_acks EXCEPT ![h] = Append(@, packet.header.id)]
      <3>1. m_pending_acks'[h] = Append(m_pending_acks[h], packet.header.id)
        BY <1>10, <2>2
      <3>2. \A j \in 1 .. Len(m_pending_acks'[h]) :
              \/ j \in 1 .. Len(m_pending_acks[h]) /\ m_pending_acks'[h][j] = m_pending_acks[h][j]
              \/ m_pending_acks'[h][j] = packet.header.id
        BY <1>3, <1>10, <3>1
      <3>3. packet.header.id \in LetsConnectIds(Other(h)) => Knows(h)'
        BY <1>1, <1>7, <2>2 DEF NoteInv, Knows, InHand
      <3> QED BY <1>1, <1>3, <1>4, <1>5, <1>7, <1>9, <2>2, <3>2, <3>3 DEF PendingInv
    <2>3. g # h => m_pending_acks'[g] = m_pending_acks[g]
      BY <1>2, <1>10
    <2> QED BY <1>2, <2>1, <2>2, <2>3
  <1>12. ToldInv(g)'
    <2>1. CASE g # h \/ tick'.statuses = << >>
      <3>1. Told(g)' = << >> /\ Len(<< >>) = 0
        BY <1>1, <2>1 DEF Told
      <3> QED BY <3>1 DEF ToldInv
    <2>2. CASE g = h /\ tick'.statuses = ReadStatuses(h, packet.header, n)
      <3>1. Told(h)' = ReadStatuses(h, packet.header, n)
        BY <1>1, <2>2 DEF Told
      <3>2. m_in_flight_packets[h] \in Seq(InFlightPacket)
        BY TypesAt
      <3>3. /\ n \in Nat /\ n <= Len(m_in_flight_packets[h])
            /\ Len(ReadStatuses(h, packet.header, n)) = n
        BY <3>2 DEF ReadStatuses
      <3>4. ASSUME NEW j \in 1 .. Len(ReadStatuses(h, packet.header, n)),
                   ReadStatuses(h, packet.header, n)[j].status = ACK,
                   ReadStatuses(h, packet.header, n)[j].id \in LetsConnectIds(h)
            PROVE  IsPeerConnected(Other(h))
        <4> DEFINE id == m_in_flight_packets[h][j].id
        <4>0. j \in 1 .. n /\ j \in 1 .. Len(m_in_flight_packets[h])
          BY <3>2, <3>3
        <4>1. /\ ReadStatuses(h, packet.header, n)[j].id = id
              /\ ReadStatuses(h, packet.header, n)[j].status = StatusOf(id, packet.header)
          BY <4>0, Zenon DEF ReadStatuses
        <4>2. id \in PacketId
          <5> DEFINE entry == m_in_flight_packets[h][j]
          <5>1. entry \in InFlightPacket
            BY <3>2, <4>0
          <5> HIDE DEF entry
          <5>2. entry.id \in PacketId
            BY <5>1 DEF InFlightPacket
          <5> QED BY <5>2 DEF entry
        <4> HIDE DEF id
        <4> QED BY <1>1, <1>7, <3>4, <4>1, <4>2 DEF NoteInv
      <3> QED BY <1>4, <1>5, <2>2, <3>1, <3>4 DEF ToldInv
    <2> QED BY <1>1, <2>1, <2>2
  <1> QED BY <1>6, <1>8, <1>11, <1>12 DEF HandshakeInv

LEMMA DifferenceOfIds ==
    ASSUME NEW m \in Nat, NEW x \in 0 .. m - 1, NEW y \in 0 .. m - 1, NEW z \in 0 .. m - 1,
           z >= y, z - y = (x - y) % m
    PROVE  z = x
  <1>1. CASE x >= y
    <2>1. (x - y) % m = x - y
      BY <1>1, SmallRemainder
    <2> QED BY <2>1
  <1>2. CASE x < y
    <2>1. (x - y) % m = (x - y) + m
      BY <1>2
    <2> QED BY <2>1
  <1> QED BY <1>1, <1>2

\* A header acknowledges only the packets that write popped from the queue.
LEMMA AckedIsPending ==
    ASSUME BaseInv, NEW h \in Host, NEW n \in 0 .. Len(m_pending_acks[h]),
           NEW id \in PacketId, StatusOf(id, HeaderToWrite(h, n)) = ACK
    PROVE  \E i \in 1 .. n : id = m_pending_acks[h][i]
  <1> DEFINE acks == m_pending_acks[h]
             first == HeaderToWrite(h, n).ack_sequence_number
  <1>1. acks \in Seq(PacketId) /\ Len(acks) \in Nat
    BY TypesAt
  <1>2. id >= first /\ id - first \in HeaderToWrite(h, n).ack_bitmask
    BY DEF StatusOf, ACK, DROP
  <1>3. PICK i \in 1 .. n : id - first = AckOffset(h, i)
    BY <1>2 DEF HeaderToWrite
  <1>4. i \in 1 .. Len(acks) /\ 1 \in 1 .. Len(acks)
    BY <1>1, <1>3
  <1>5. acks # << >> /\ acks[i] \in PacketId /\ acks[1] \in PacketId
    BY <1>1, <1>4
  <1>6. first = acks[1]
    BY <1>5 DEF HeaderToWrite
  <1>7. id - acks[1] = (acks[i] - acks[1]) % IdModulus /\ id >= acks[1]
    BY <1>2, <1>3, <1>6 DEF AckOffset
  <1> HIDE DEF acks
  <1>8. id = acks[i]
    BY <1>5, <1>7, DifferenceOfIds, PacketConstants DEF PacketId
  <1> QED BY <1>8 DEF acks

\* What a written packet says of the handshake, and what its writer remembers.
LEMMA HandshakeWritten ==
    ASSUME BaseInv, NEW h \in Host, IdsInv(h), SelfInv(h), WritePacket(h)
    PROVE  \E packet \in SentPacket, a \in 0 .. Len(m_pending_acks[h]) :
             LET next == m_next_outgoing_packet_id[h] IN
             /\ packet.header = HeaderToWrite(h, a) /\ packet.header.id = next
             /\ AcksFit(h, a)
             /\ packet.handshake = HandshakeToWrite(h)
             /\ packet.handshake # <<"Reject">>
             /\ packet.handshake = << >> <=> m_num_lets_connect_to_send[h] = 0
             /\ SendTo(Other(h), packet)
             /\ Underway(Other(h))' \subseteq Underway(Other(h)) \cup {packet}
             /\ Underway(h)' = Underway(h)
             /\ next \in Nat /\ m_next_outgoing_packet_id'[h] = next + 1
             /\ m_next_outgoing_packet_id'[Other(h)] = m_next_outgoing_packet_id[Other(h)]
             /\ m_pending_acks'[h] = Popped(m_pending_acks[h], a)
             /\ m_pending_acks'[Other(h)] = m_pending_acks[Other(h)]
             /\ CmWrite(h, next)
             /\ LetsConnectIds(Other(h))' = LetsConnectIds(Other(h))
             /\ LetsConnectIds(h)' \subseteq LetsConnectIds(h) \cup {next}
             /\ packet.handshake = << >> => LetsConnectIds(h)' = LetsConnectIds(h)
             /\ m_underflow'[h] > 0 => m_underflow[h] > 0
             /\ m_underflow'[Other(h)] = m_underflow[Other(h)]
             /\ UNCHANGED <<is_fail, m_is_initiator, m_self_is_connected,
                            m_peer_bandwidth_limit, m_hangs>>
             /\ tick.host = h /\ tick.stage = "write" /\ tick' = NotTicking
  <1> DEFINE next == m_next_outgoing_packet_id[h]
             queue == m_in_flight_lets_connect[h]
  <1>1. PICK a \in 0 .. Len(m_pending_acks[h]), r \in 0 .. Len(pending_messages[h]),
             u \in 0 .. Len(m_pending_messages[h]) :
             /\ PdmWrite(h, now, a) /\ AcksFit(h, a)
             /\ CmWrite(h, next)
             /\ SendTo(Other(h), PacketToWrite(h, a, r, u))
             /\ PacketToWrite(h, a, r, u) \in SentPacket
    BY Written
  <1> DEFINE packet == PacketToWrite(h, a, r, u)
  <1>2. /\ packet.header = HeaderToWrite(h, a) /\ packet.header.id = next
        /\ packet.handshake = HandshakeToWrite(h)
    BY DEF PacketToWrite, HeaderToWrite
  <1> HIDE DEF packet
  <1>3. packet \in SentPacket /\ SendTo(Other(h), packet)
    BY <1>1 DEF packet
  <1>4. /\ Underway(Other(h))' \subseteq Underway(Other(h)) \cup {packet}
        /\ Underway(h)' = Underway(h)
    BY <1>3, OtherHost, UnderwaySent
  <1>5. /\ packet.handshake # <<"Reject">>
        /\ packet.handshake = << >> <=> m_num_lets_connect_to_send[h] = 0
    BY <1>2 DEF HandshakeToWrite, SelfInv
  <1>6. /\ m_next_outgoing_packet_id' =
             [m_next_outgoing_packet_id EXCEPT ![h] = (next + 1) % IdModulus]
        /\ m_pending_acks' = [m_pending_acks EXCEPT ![h] = Popped(m_pending_acks[h], a)]
    BY <1>1 DEF PdmWrite
  <1>7. /\ tick.host = h /\ tick.stage = "write" /\ tick' = NotTicking
    BY DEF WritePacket, InStage
  <1>8. next < MaxPackets[h]
    BY <1>7 DEF IdsInv
  <1>9. next \in Nat /\ MaxPackets[h] \in Nat /\ IdModulus \in Nat /\ MaxPackets[h] < IdModulus
    BY NumbersOfPackets
  <1>10. (next + 1) % IdModulus = next + 1
    <2> HIDE DEF next
    <2> QED BY <1>8, <1>9, SmallRemainder
  <1>11. /\ m_next_outgoing_packet_id'[h] = next + 1
         /\ m_next_outgoing_packet_id'[Other(h)] = m_next_outgoing_packet_id[Other(h)]
    BY <1>6, <1>10, OtherHost DEF BaseInv, PdmTypeOK
  <1>12. /\ m_pending_acks'[h] = Popped(m_pending_acks[h], a)
         /\ m_pending_acks'[Other(h)] = m_pending_acks[Other(h)]
    <2>1. m_pending_acks \in [Host -> Seq(PacketId)] /\ Other(h) \in Host /\ Other(h) # h
      BY OtherHost DEF BaseInv, PdmTypeOK
    <2> DEFINE rest == Popped(m_pending_acks[h], a)
    <2>2. m_pending_acks' = [m_pending_acks EXCEPT ![h] = rest]
      BY <1>6
    <2> HIDE DEF rest
    <2>3. m_pending_acks'[h] = rest /\ m_pending_acks'[Other(h)] = m_pending_acks[Other(h)]
      BY ONLY <2>1, <2>2, h \in Host
    <2> QED BY <2>3 DEF rest
  <1>13. UNCHANGED <<is_fail, m_is_initiator, m_self_is_connected, m_peer_bandwidth_limit,
                     m_hangs>>
    BY <1>1 DEF CmWrite
  <1>14. /\ m_in_flight_lets_connect \in [Host -> Seq(PacketId)] /\ queue \in Seq(PacketId)
         /\ m_underflow \in [Host -> Nat] /\ next \in PacketId
         /\ Other(h) \in Host /\ Other(h) # h
    BY OtherHost, TypesAt DEF BaseInv, CmTypeOK
  <1>15. /\ m_in_flight_lets_connect'[Other(h)] = m_in_flight_lets_connect[Other(h)]
         /\ m_underflow'[Other(h)] = m_underflow[Other(h)]
         /\ m_underflow'[h] > 0 => m_underflow[h] > 0
         /\ \/ m_in_flight_lets_connect'[h] = queue
            \/ /\ m_num_lets_connect_to_send[h] > 0
               /\ m_in_flight_lets_connect'[h] = Append(queue, next)
    <2> DEFINE more == Append(queue, next)
    <2>1. /\ \/ m_in_flight_lets_connect' = m_in_flight_lets_connect
             \/ /\ m_num_lets_connect_to_send[h] > 0
                /\ m_in_flight_lets_connect' = [m_in_flight_lets_connect EXCEPT ![h] = more]
          /\ \/ m_underflow' = m_underflow
             \/ /\ m_underflow[h] > 0
                /\ m_underflow' = [m_underflow EXCEPT ![h] = m_underflow[h] - 1]
      BY <1>1 DEF CmWrite
    <2> HIDE DEF more
    <2>2. /\ m_underflow'[Other(h)] = m_underflow[Other(h)]
          /\ m_underflow'[h] > 0 => m_underflow[h] > 0
      BY <1>14, <2>1
    <2>3. /\ m_in_flight_lets_connect'[Other(h)] = m_in_flight_lets_connect[Other(h)]
          /\ \/ m_in_flight_lets_connect'[h] = queue
             \/ m_num_lets_connect_to_send[h] > 0 /\ m_in_flight_lets_connect'[h] = more
      BY <1>14, <2>1
    <2> QED BY <2>2, <2>3 DEF more
  <1>16. LetsConnectIds(Other(h))' = LetsConnectIds(Other(h))
    <2>1. Other(h)' = Other(h)
      BY DEF Other
    <2> QED BY <1>15, <2>1 DEF LetsConnectIds
  <1>17. /\ LetsConnectIds(h)' \subseteq LetsConnectIds(h) \cup {next}
         /\ packet.handshake = << >> => LetsConnectIds(h)' = LetsConnectIds(h)
    <2>1. CASE m_in_flight_lets_connect'[h] = queue
      BY <2>1 DEF LetsConnectIds
    <2>2. CASE m_num_lets_connect_to_send[h] > 0
               /\ m_in_flight_lets_connect'[h] = Append(queue, next)
      <3> HIDE DEF next
      <3>1. \A i \in 1 .. Len(Append(queue, next)) :
              \/ i \in 1 .. Len(queue) /\ Append(queue, next)[i] = queue[i]
              \/ Append(queue, next)[i] = next
        BY <1>14
      <3>2. packet.handshake # << >>
        BY <1>5, <2>2, TypesAt
      <3> QED BY <2>2, <3>1, <3>2 DEF LetsConnectIds
    <2> QED BY <1>15, <2>1, <2>2
  <1> QED BY <1>1, <1>2, <1>3, <1>4, <1>5, <1>7, <1>9, <1>11, <1>12, <1>13, <1>15, <1>16, <1>17

LEMMA HandshakeWrite ==
    ASSUME BaseInv, \A f \in Host : IdsInv(f) /\ HandshakeInv(f), NEW h \in Host,
           NEW g \in Host, WritePacket(g)
    PROVE  HandshakeInv(h)'
  <1> DEFINE next == m_next_outgoing_packet_id[g]
             o == Other(g)
  <1>1. SelfInv(g) /\ IdsInv(g) /\ NoteInv(g) /\ PendingInv(g)
    BY DEF HandshakeInv
  <1>2. PICK packet \in SentPacket, a \in 0 .. Len(m_pending_acks[g]) :
          /\ packet.header = HeaderToWrite(g, a) /\ packet.header.id = next
          /\ packet.handshake # <<"Reject">>
          /\ Underway(o)' \subseteq Underway(o) \cup {packet}
          /\ Underway(g)' = Underway(g)
          /\ next \in Nat /\ m_next_outgoing_packet_id'[g] = next + 1
          /\ m_next_outgoing_packet_id'[o] = m_next_outgoing_packet_id[o]
          /\ m_pending_acks'[g] = Popped(m_pending_acks[g], a)
          /\ m_pending_acks'[o] = m_pending_acks[o]
          /\ LetsConnectIds(o)' = LetsConnectIds(o)
          /\ LetsConnectIds(g)' \subseteq LetsConnectIds(g) \cup {next}
          /\ packet.handshake = << >> => LetsConnectIds(g)' = LetsConnectIds(g)
          /\ m_underflow'[g] > 0 => m_underflow[g] > 0
          /\ m_underflow'[o] = m_underflow[o]
          /\ UNCHANGED <<is_fail, m_self_is_connected, m_peer_bandwidth_limit, m_hangs>>
          /\ tick.host = g /\ tick.stage = "write" /\ tick' = NotTicking
    BY <1>1, HandshakeWritten
  <1>3. o \in Host /\ o # g /\ Other(o) = g /\ h \in {g, o}
    BY OtherHost
  <1>4. \A f \in Host : IsPeerConnected(f)' = IsPeerConnected(f) /\ m_hangs'[f] = m_hangs[f]
    BY <1>2 DEF IsPeerConnected
  <1>5. tick'.stage = "none" /\ tick'.statuses = << >> /\ ~Reading'
    BY <1>2 DEF NotTicking, Reading
  <1>6. \A f \in Host : Knows(f) => IsPeerConnected(f)' \/ m_hangs'[f]
    BY <1>2, <1>4 DEF Knows, InHand
  <1>7. Knows(g) => IsPeerConnected(g)
    BY <1>1, <1>2 DEF Knows, InHand, SelfInv
  <1>8. ToldInv(h)'
    <2>1. Told(h)' = << >> /\ Len(<< >>) = 0
      BY <1>5 DEF Told
    <2> QED BY <2>1 DEF ToldInv
  <1>9. \A id \in LetsConnectIds(g) : id < next
    BY <1>1 DEF SelfInv
  <1>10. \A id \in LetsConnectIds(g) : id \in Nat
    <2>1. m_in_flight_lets_connect[g] \in Seq(PacketId)
      BY TypesAt
    <2> QED BY <2>1, IdsAreNumbers DEF LetsConnectIds
  <1> HIDE DEF next, o
  <1>11. \A id \in Nat : id < next /\ id \in LetsConnectIds(g)' => id \in LetsConnectIds(g)
    BY <1>2
  <1>12. CASE h = g
    <2>1. SelfInv(g)'
      <3>1. \A id \in LetsConnectIds(g)' : id < m_next_outgoing_packet_id'[g]
        BY <1>2, <1>9, <1>10
      <3>2. Other(g)' = Other(g) /\ Other(g) \in Host
        BY <1>3 DEF o, Other
      <3> QED BY <1>1, <1>2, <1>4, <1>5, <3>1, <3>2 DEF SelfInv
    <2>2. NoteInv(g)'
      <3>1. ASSUME NEW p \in Underway(g), NEW id \in PacketId, StatusOf(id, p.header) = ACK
            PROVE  /\ id < m_next_outgoing_packet_id'[g]
                   /\ id \in LetsConnectIds(g)' => IsPeerConnected(o)'
        <4>1. id < next /\ (id \in LetsConnectIds(g) => IsPeerConnected(o))
          BY <1>1, <3>1 DEF NoteInv, next, o
        <4>2. id \in Nat
          BY IdsAreNumbers
        <4> QED BY <1>2, <1>3, <1>4, <1>11, <4>1, <4>2
      <3>2. \A p \in Underway(g) :
              /\ p.handshake # <<"Reject">>
              /\ p.header.id \in LetsConnectIds(o) => p.handshake # << >>
        BY <1>1 DEF NoteInv, o
      <3> QED BY <1>2, <1>5, <3>1, <3>2 DEF NoteInv, o
    <2>3. PendingInv(g)'
      <3>1. ASSUME NEW i \in 1 .. Len(m_pending_acks'[g])
            PROVE  \E j \in 1 .. Len(m_pending_acks[g]) : m_pending_acks'[g][i] = m_pending_acks[g][j]
        <4>1. m_pending_acks[g] \in Seq(PacketId) /\ Len(m_pending_acks[g]) \in Nat
          BY TypesAt
        <4>2. m_pending_acks'[g] = SubSeq(m_pending_acks[g], a + 1, Len(m_pending_acks[g]))
          BY <1>2 DEF Popped
        <4>3. a + i \in 1 .. Len(m_pending_acks[g]) /\ m_pending_acks'[g][i] = m_pending_acks[g][a + i]
          BY <4>1, <4>2
        <4> QED BY <4>3
      <3>2. \A j \in 1 .. Len(m_pending_acks[g]) :
              /\ m_pending_acks[g][j] < m_next_outgoing_packet_id[o]
              /\ m_pending_acks[g][j] \in LetsConnectIds(o) => IsPeerConnected(g)
        BY <1>1, <1>7 DEF PendingInv, o
      <3>3. IsPeerConnected(g) => Knows(g)'
        BY <1>4 DEF Knows
      <3> QED BY <1>2, <3>1, <3>2, <3>3 DEF PendingInv, o
    <2> QED BY <1>8, <1>12, <2>1, <2>2, <2>3 DEF HandshakeInv
  <1>13. CASE h = o
    <2>1. SelfInv(o) /\ NoteInv(o) /\ PendingInv(o) /\ IdsInv(o)
      BY <1>3 DEF HandshakeInv
    <2>2. SelfInv(o)'
      <3>1. Other(o)' = Other(o)
        BY DEF Other
      <3> QED BY <1>2, <1>3, <1>4, <1>5, <2>1, <3>1 DEF SelfInv
    <2>3. NoteInv(o)'
      <3>1. ASSUME NEW p \in Underway(o)
            PROVE  /\ p.handshake # <<"Reject">>
                   /\ p.header.id \in LetsConnectIds(g)' => p.handshake # << >>
                   /\ \A id \in PacketId : StatusOf(id, p.header) = ACK =>
                        /\ id < m_next_outgoing_packet_id'[o]
                        /\ id \in LetsConnectIds(o)' => IsPeerConnected(g)'
        <4>1. p.header.id < next /\ p.header.id \in Nat
          BY <1>3, <2>1, NumbersOfPackets DEF IdsInv, next
        <4> QED BY <1>2, <1>3, <1>4, <1>11, <2>1, <4>1 DEF NoteInv
      <3>2. packet.header.id \in LetsConnectIds(g)' => packet.handshake # << >>
        BY <1>2, <1>9
      <3>3. ASSUME NEW id \in PacketId, StatusOf(id, packet.header) = ACK
            PROVE  /\ id < m_next_outgoing_packet_id'[o]
                   /\ id \in LetsConnectIds(o)' => IsPeerConnected(g)'
        <4>1. PICK i \in 1 .. a : id = m_pending_acks[g][i]
          BY <1>2, <3>3, AckedIsPending
        <4>2. i \in 1 .. Len(m_pending_acks[g])
          BY TypesAt
        <4> QED BY <1>1, <1>2, <1>3, <1>4, <1>7, <4>1, <4>2 DEF PendingInv, o
      <3> QED BY <1>2, <1>3, <1>5, <3>1, <3>2, <3>3 DEF NoteInv
    <2>4. PendingInv(o)'
      <3>1. ASSUME NEW i \in 1 .. Len(m_pending_acks[o])
            PROVE  /\ m_pending_acks[o][i] < m_next_outgoing_packet_id'[g]
                   /\ m_pending_acks[o][i] \in LetsConnectIds(g)' => Knows(o)'
        <4>1. m_pending_acks[o][i] \in Nat
          <5>1. m_pending_acks[o] \in Seq(PacketId)
            BY <1>3, TypesAt
          <5> QED BY <5>1, IdsAreNumbers
        <4>2. /\ m_pending_acks[o][i] < next
              /\ m_pending_acks[o][i] \in LetsConnectIds(g) => Knows(o)
          BY <1>3, <2>1 DEF PendingInv, next
        <4>3. Knows(o) => Knows(o)'
          BY <1>3, <1>6 DEF Knows
        <4> QED BY <1>2, <1>11, <4>1, <4>2, <4>3
      <3> QED BY <1>2, <1>3, <3>1 DEF PendingInv
    <2> QED BY <1>8, <1>13, <2>2, <2>3, <2>4 DEF HandshakeInv
  <1> QED BY <1>3, <1>12, <1>13

LEMMA HandshakeInit ==
    ASSUME Init, NEW h \in Host
    PROVE  HandshakeInv(h)
  <1>1. /\ network[h] = << >> /\ tick = NotTicking /\ m_pending_acks[h] = << >>
        /\ m_in_flight_lets_connect[h] = << >>
        /\ m_underflow[h] = 0 /\ is_fail[h] = FALSE /\ m_self_is_connected[h] = FALSE
        /\ m_hangs[h] = FALSE
    BY Owners DEF Init, PdmInit, CmInit
  <1>2. Len(<< >>) = 0
    OBVIOUS
  <1>3. /\ \A packet \in Underway(h) : FALSE
        /\ \A id \in LetsConnectIds(h) : FALSE
    BY <1>1, <1>2 DEF Underway, LetsConnectIds
  <1>4. tick.stage = "none" /\ Told(h) = << >> /\ ~Reading
    BY <1>1 DEF NotTicking, Told, Reading
  <1>5. SelfInv(h)
    BY <1>1, <1>3, <1>4 DEF SelfInv
  <1>6. NoteInv(h) /\ PendingInv(h) /\ ToldInv(h)
    BY <1>1, <1>2, <1>3, <1>4 DEF NoteInv, PendingInv, ToldInv
  <1> QED BY <1>5, <1>6 DEF HandshakeInv

LEMMA HandshakeStep ==
    ASSUME RequestsAreValid, BaseInv, \A h \in Host : IdsInv(h) /\ HandshakeInv(h), [Next]_vars
    PROVE  \A h \in Host : HandshakeInv(h)'
  <1> SUFFICES ASSUME NEW g \in Host PROVE HandshakeInv(g)'
    OBVIOUS
  <1>1. Initiators \subseteq Host /\ Senders \subseteq Host
    BY NeptunConstants
  <1>2. CASE \/ Elapse \/ UNCHANGED vars
             \/ \E h \in Host : \/ Connect(h) \/ SendReliable(h) \/ SendUnreliable(h)
                                \/ \E i \in 1 .. Len(network[h]) : Lose(h, i)
    BY <1>2, HandshakeQuiet
  <1>3. ASSUME NEW h \in Host, Tick(h) PROVE HandshakeInv(g)'
    BY <1>3, HandshakeQuiet, HandshakeStage, HandshakeTickBegin, HandshakeProcessStatus,
       HandshakeHang, HandshakeReadPacket, HandshakeReadHandshake, HandshakeWrite DEF Tick
  <1> QED BY <1>1, <1>2, <1>3 DEF Next

LEMMA HandshakeHolds ==
    ASSUME RequestsAreValid
    PROVE  Spec => [](BaseInv /\ (\A h \in Host : IdsInv(h)) /\ \A h \in Host : HandshakeInv(h))
  <1> DEFINE Numbered == \A h \in Host : IdsInv(h)
             Known == \A h \in Host : HandshakeInv(h)
  <1>1. Init => Known
    BY HandshakeInit
  <1>2. BaseInv /\ Numbered /\ Known /\ [Next]_vars => Known'
    BY HandshakeStep
  <1>3. Spec => [](BaseInv /\ Numbered)
    BY IdsHold
  <1> HIDE DEF Numbered, Known
  <1>4. Spec => [](BaseInv /\ Numbered /\ Known)
    BY <1>1, <1>2, <1>3, PTL DEF Spec
  <1> QED BY <1>4 DEF Numbered, Known

\* SelfConnectedIsKnown, over any network and whichever hosts ask for a connection:
\* if no request is refused, the ACK that makes a host take itself for connected
\* comes from a host that has read its limits.  A refused request is acknowledged
\* like any other, so that the premise is needed.
THEOREM ConnectedHostsAreKnown ==
    ASSUME RequestsAreValid
    PROVE  Spec => []SelfConnectedIsKnown
  <1> DEFINE Numbered == \A h \in Host : IdsInv(h)
             Known == \A h \in Host : HandshakeInv(h)
  <1>1. Known => SelfConnectedIsKnown
    BY DEF HandshakeInv, SelfInv, SelfConnectedIsKnown
  <1>2. Spec => [](BaseInv /\ Numbered /\ Known)
    BY HandshakeHolds
  <1> HIDE DEF Numbered, Known
  <1> QED BY <1>1, <1>2, PTL

-----------------------------------------------------------------------------
(* The messages of both streams arrive in order.  Behind a Reject a host      *)
(* would read what its buffer holds for segments of the peer, so that both    *)
(* theorems need that no request is refused.                                  *)

LEMMA NoRejectIsRead ==
    ASSUME BaseInv, \A h \in Host : HandshakeInv(h)
    PROVE  NotRefused
  <1> SUFFICES ASSUME Reading PROVE tick.packet.handshake # <<"Reject">>
    BY DEF NotRefused
  <1>1. tick.host \in Host
    BY DEF Reading, BaseInv, TickInv
  <1> QED BY <1>1 DEF HandshakeInv, NoteInv

\* DeliveredInOrder for any number of messages that the sequence numbers can tell
\* apart, over a network that loses, reorders and duplicates, if no request is
\* refused: tick hands the reliable messages to the application once, in order and
\* unchanged.
THEOREM ReliableMessagesInOrder ==
    ASSUME MaxReliable < SequenceModulus, RequestsAreValid
    PROVE  Spec => []DeliveredInOrder
  <1> DEFINE Numbered == \A h \in Host : IdsInv(h)
             Known == \A h \in Host : HandshakeInv(h)
             Ordered == \A h \in Host : OrderInv(h)
  <1>1. Init => Ordered
    BY OrderInit
  <1>2. BaseInv /\ Known /\ Ordered /\ [Next]_vars => Ordered'
    BY OrderStep, NoRejectIsRead
  <1>3. Ordered => DeliveredInOrder
    BY DEF OrderInv, DeliveredInOrder
  <1>4. Spec => [](BaseInv /\ Numbered /\ Known)
    BY HandshakeHolds
  <1> HIDE DEF Numbered, Known, Ordered
  <1> QED BY <1>1, <1>2, <1>3, <1>4, PTL DEF Spec

\* UnreliableInOrder for every number of packets, over a network that loses,
\* reorders and duplicates them, if no request is refused: the delivery manager
\* accepts packets in ascending order of id, so tick hands out each unreliable
\* message at most once and in order.
THEOREM UnreliableMessagesInOrder ==
    ASSUME RequestsAreValid
    PROVE  Spec => []UnreliableInOrder
  <1> DEFINE Numbered == \A h \in Host : IdsInv(h)
             Known == \A h \in Host : HandshakeInv(h)
             Ordered == \A h \in Host : UOrderInv(h)
  <1>1. Init => Ordered
    BY UOrderInit
  <1>2. BaseInv /\ Numbered /\ Known /\ Ordered /\ [Next]_vars => Ordered'
    BY UOrderStep, NoRejectIsRead
  <1>3. BaseInv /\ Ordered => UnreliableInOrder
    BY UOrderShows
  <1>4. Spec => [](BaseInv /\ Numbered /\ Known)
    BY HandshakeHolds
  <1> HIDE DEF Numbered, Known, Ordered
  <1> QED BY <1>1, <1>2, <1>3, <1>4, PTL DEF Spec

-----------------------------------------------------------------------------
(* The handshake does not get stuck: every LetsConnect in flight has a fate.  *)

\* The packets of h whose fate is known or still to be known.
Expected(h) == Ids(Told(h)) \cup Ids(m_in_flight_packets[h])

\* The queue of the connection manager of h is in order, h will be told the fate of
\* each of its packets, and once it was popped while empty it stays empty.
WaitInv(h) ==
    /\ m_underflow[h] > 0 => m_in_flight_lets_connect[h] = << >>
    /\ m_hangs[h] => m_self_is_connected[h]
    /\ \A i, j \in 1 .. Len(m_in_flight_lets_connect[h]) :
         i < j => m_in_flight_lets_connect[h][i] < m_in_flight_lets_connect[h][j]
    /\ ~m_hangs[h] => LetsConnectIds(h) \subseteq Expected(h)

LEMMA WaitFrame ==
    ASSUME NEW g \in Host, WaitInv(g),
           m_in_flight_lets_connect'[g] = m_in_flight_lets_connect[g],
           m_underflow'[g] = m_underflow[g], m_hangs'[g] = m_hangs[g],
           m_self_is_connected'[g] = m_self_is_connected[g],
           ~m_hangs[g] => Expected(g) \subseteq Expected(g)'
    PROVE  WaitInv(g)'
  <1>1. LetsConnectIds(g)' = LetsConnectIds(g)
    BY DEF LetsConnectIds
  <1> QED BY <1>1 DEF WaitInv

\* A step of the tick of the other host.
LEMMA WaitElsewhere ==
    ASSUME NEW h \in Host, NEW g \in Host, g # h, WaitInv(g),
           m_in_flight_packets'[g] = m_in_flight_packets[g],
           m_in_flight_lets_connect'[g] = m_in_flight_lets_connect[g],
           m_underflow'[g] = m_underflow[g], m_hangs'[g] = m_hangs[g],
           m_self_is_connected'[g] = m_self_is_connected[g],
           tick = NotTicking \/ tick.host = h
    PROVE  WaitInv(g)'
  <1>1. Told(g) = << >> /\ Len(<< >>) = 0
    BY DEF Told, NotTicking
  <1>2. Ids(Told(g)) = {}
    BY <1>1 DEF Ids
  <1>3. Expected(g) \subseteq Expected(g)'
    BY <1>2 DEF Expected
  <1> QED BY <1>3, WaitFrame

LEMMA WaitQuiet ==
    ASSUME BaseInv, NEW g \in Host, WaitInv(g),
           \/ Elapse \/ UNCHANGED vars
           \/ \E h \in Host : \/ Connect(h) \/ SendReliable(h) \/ SendUnreliable(h)
                              \/ PopAckedMessage(h) \/ ReadReliableMessage(h)
                              \/ \E i \in 1 .. Len(network[h]) : Lose(h, i)
    PROVE  WaitInv(g)'
  <1>1. /\ UNCHANGED <<m_in_flight_lets_connect, m_underflow, m_self_is_connected, m_hangs,
                       m_in_flight_packets>>
        /\ tick' = tick
    <2>1. CASE Elapse \/ UNCHANGED vars
      BY <2>1 DEF Elapse, vars, pdmVars, cmVars
    <2>2. ASSUME NEW h \in Host,
                 \/ Connect(h) \/ SendReliable(h) \/ SendUnreliable(h)
                 \/ PopAckedMessage(h) \/ ReadReliableMessage(h)
                 \/ \E i \in 1 .. Len(network[h]) : Lose(h, i)
          PROVE  /\ UNCHANGED <<m_in_flight_lets_connect, m_underflow, m_self_is_connected,
                                m_hangs, m_in_flight_packets>>
                 /\ tick' = tick
      BY <2>2 DEF Connect, CmConnect, SendReliable, SendUnreliable, PopAckedMessage,
         ReadReliableMessage, Lose, pdmVars, cmVars
    <2> QED BY <2>1, <2>2
  <1>2. Expected(g)' = Expected(g)
    BY <1>1 DEF Expected, Told
  <1> QED BY <1>1, <1>2, WaitFrame

\* No status is left and no packet leaves the queue of packets in flight.
LEMMA WaitStage ==
    ASSUME BaseInv, NEW g \in Host, WaitInv(g), NEW h \in Host,
           \/ ReadNothing(h) \/ ReadFails(h) \/ ReadHandshake(h) \/ IgnoreSegments(h)
           \/ ReadSegments(h) \/ HoldPacket(h) \/ NoPeerToWriteTo(h)
    PROVE  WaitInv(g)'
  <1>1. UNCHANGED <<m_in_flight_lets_connect, m_underflow, m_self_is_connected, m_hangs,
                    m_in_flight_packets>>
    <2>1. CASE ReadHandshake(h)
      BY <2>1 DEF ReadHandshake, CmReadLetsConnect, pdmVars, cmVars
    <2> QED BY <2>1 DEF ReadNothing, ReadFails, IgnoreSegments, ReadSegments, HoldPacket,
                NoPeerToWriteTo, pdmVars, cmVars
  <1>2. tick.statuses = << >>
    <2>1. CASE ReadNothing(h) \/ ReadFails(h) \/ ReadHandshake(h)
      BY <2>1 DEF ReadNothing, ReadFails, ReadHandshake, StatusesDone
    <2>2. CASE IgnoreSegments(h) \/ ReadSegments(h) \/ HoldPacket(h) \/ NoPeerToWriteTo(h)
      <3>1. tick.stage \in {"segments", "write"}
        BY <2>2 DEF IgnoreSegments, ReadSegments, HoldPacket, NoPeerToWriteTo, InStage
      <3> QED BY <3>1 DEF BaseInv, TickInv
    <2> QED BY <2>1, <2>2
  <1>3. Told(g) = << >> /\ Len(<< >>) = 0
    BY <1>2 DEF Told
  <1>4. Expected(g) \subseteq Expected(g)'
    BY <1>1, <1>3 DEF Expected, Ids
  <1> QED BY <1>1, <1>4, WaitFrame

\* The first n packets in flight are popped and their statuses are to be handed on.
LEMMA WaitPops ==
    ASSUME BaseInv, NEW h \in Host, FateInv(h), WaitInv(h),
           NEW n \in 0 .. Len(m_in_flight_packets[h]),
           NEW statuses \in Seq(DeliveryStatus), Len(statuses) = n,
           \A i \in 1 .. n : statuses[i].id = m_in_flight_packets[h][i].id,
           m_in_flight_packets'[h] = Popped(m_in_flight_packets[h], n),
           UNCHANGED <<m_in_flight_lets_connect, m_underflow, m_self_is_connected, m_hangs>>,
           Told(h) = << >>, call[h].op = "none", tick'.host = h, tick'.statuses = statuses
    PROVE  WaitInv(h)'
  <1> DEFINE packets == m_in_flight_packets[h]
             next == m_next_outgoing_packet_id[h]
             rest == Popped(packets, n)
  <1>1. Acking(h) = {} /\ Told(h)' = statuses
    BY DEF Acking, Told
  <1>2. Awaiting(packets, << >>, {}, next)
    BY <1>1 DEF FateInv
  <1>3. packets \in Seq(InFlightPacket) /\ next \in Nat
    BY TypesAt, NumbersOfPackets
  <1>4. Ids(<< >>) = {}
    BY DEF Ids
  <1> HIDE DEF packets, next
  <1>5. Ids(packets) \subseteq Ids(statuses) \cup Ids(rest)
    BY <1>2, <1>3, FatesKnown DEF packets
  <1>6. Expected(h) = Ids(packets)
    BY <1>4 DEF Expected, packets
  <1>7. Expected(h)' = Ids(statuses) \cup Ids(rest)
    BY <1>1 DEF Expected, rest, packets
  <1> QED BY <1>5, <1>6, <1>7, WaitFrame

LEMMA WaitTickBegin ==
    ASSUME BaseInv, NEW g \in Host, FateInv(g), WaitInv(g), NEW h \in Host, TickBegin(h)
    PROVE  WaitInv(g)'
  <1>1. PICK n \in 0 .. Len(m_in_flight_packets[h]) :
          /\ DropOldPackets(h, now, n)
          /\ tick' = [host |-> h, stage |-> "old", statuses |-> DropStatuses(h, n),
                      packet |-> NoPacket]
    BY DEF TickBegin
  <1>2. /\ tick = NotTicking
        /\ UNCHANGED <<m_in_flight_lets_connect, m_underflow, m_self_is_connected, m_hangs>>
    BY DEF TickBegin, cmVars
  <1>3. m_in_flight_packets' =
          [m_in_flight_packets EXCEPT ![h] = Popped(m_in_flight_packets[h], n)]
    BY <1>1 DEF DropOldPackets
  <1>4. /\ m_in_flight_packets'[h] = Popped(m_in_flight_packets[h], n)
        /\ \A f \in Host \ {h} : m_in_flight_packets'[f] = m_in_flight_packets[f]
    BY <1>3 DEF BaseInv, PdmTypeOK
  <1>5. CASE g # h
    BY <1>2, <1>4, <1>5, WaitElsewhere
  <1>6. CASE g = h
    <2>1. /\ DropStatuses(h, n) \in Seq(DeliveryStatus) /\ Len(DropStatuses(h, n)) = n
          /\ \A i \in 1 .. n : DropStatuses(h, n)[i].id = m_in_flight_packets[h][i].id
      BY Statuses
    <2>2. Told(h) = << >>
      BY <1>2, ToldNothing
    <2>3. call[h].op = "none"
      <3>1. tick.stage = "none"
        BY <1>2 DEF NotTicking
      <3>2. call[h].op \in {"none", "ack", "read"}
        BY TypesAt DEF Call
      <3> QED BY <3>1, <3>2 DEF BaseInv, TickInv
    <2>4. tick'.host = h /\ tick'.statuses = DropStatuses(h, n)
      BY <1>1
    <2> QED BY <1>2, <1>4, <1>6, <2>1, <2>2, <2>3, <2>4, WaitPops
  <1> QED BY <1>5, <1>6

LEMMA WaitReadPacket ==
    ASSUME ~Unordered, BaseInv, NEW g \in Host, FateInv(g), WaitInv(g),
           NEW h \in Host, NetOrdered(h), NEW i \in 1 .. Len(network[h]), ReadPacket(h, i)
    PROVE  WaitInv(g)'
  <1>1. PICK n \in 0 .. Len(m_in_flight_packets[h]), packet \in Underway(h) :
             /\ packet = network[h][i]
             /\ tick.host = h /\ tick.stage = "old" /\ tick.statuses = << >>
             /\ call[h].op = "none"
             /\ m_in_flight_packets' =
                  [m_in_flight_packets EXCEPT ![h] = Popped(m_in_flight_packets[h], n)]
             /\ UNCHANGED cmVars
             /\ tick'.host = h
             /\ Accepts(h, packet.header) => tick'.statuses = ReadStatuses(h, packet.header, n)
    BY PacketRead
  <1>2. UNCHANGED <<m_in_flight_lets_connect, m_underflow, m_self_is_connected, m_hangs>>
    BY <1>1 DEF cmVars
  <1>3. /\ m_in_flight_packets'[h] = Popped(m_in_flight_packets[h], n)
        /\ \A f \in Host \ {h} : m_in_flight_packets'[f] = m_in_flight_packets[f]
    BY <1>1 DEF BaseInv, PdmTypeOK
  <1>4. CASE g # h
    BY <1>1, <1>2, <1>3, <1>4, WaitElsewhere
  <1>5. CASE g = h
    <2>1. Accepts(h, packet.header)
      BY <1>1 DEF NetOrdered, Newer, Accepts
    <2>2. LET statuses == ReadStatuses(h, packet.header, n) IN
          /\ statuses \in Seq(DeliveryStatus) /\ Len(statuses) = n
          /\ \A k \in 1 .. n : statuses[k].id = m_in_flight_packets[h][k].id
          /\ tick'.statuses = statuses
      BY <1>1, <2>1, Statuses
    <2>3. Told(h) = << >>
      BY <1>1, ToldNothing
    <2> QED BY <1>1, <1>2, <1>3, <1>5, <2>2, <2>3, WaitPops
  <1> QED BY <1>4, <1>5

\* A packet whose fate is handed on is the first of the queue or not in it: the
\* fates come in the order of the packets.
LEMMA WaitProcessStatus ==
    ASSUME BaseInv, NEW g \in Host, FateInv(g), WaitInv(g), NEW h \in Host, ProcessStatus(h)
    PROVE  WaitInv(g)'
  <1> DEFINE queue == m_in_flight_lets_connect[h]
             statuses == tick.statuses
             packets == m_in_flight_packets[h]
             next == m_next_outgoing_packet_id[h]
  <1>1. PICK id, status :
          /\ StatusEffect(h, id, status)
          /\ tick.host = h /\ tick.stage \in {"old", "acks"} /\ call[h].op = "none"
          /\ statuses \in Seq(DeliveryStatus) /\ statuses # << >>
          /\ id = statuses[1].id
          /\ tick'.host = h /\ tick'.statuses = Tail(statuses)
          /\ UNCHANGED pdmVars
    BY StatusStep
  <1>2. m_in_flight_packets' = m_in_flight_packets /\ m_hangs' = m_hangs
    BY <1>1 DEF pdmVars, StatusEffect
  <1>3. CASE g # h
    <2>1. /\ m_in_flight_lets_connect'[g] = m_in_flight_lets_connect[g]
          /\ m_underflow'[g] = m_underflow[g]
          /\ m_self_is_connected'[g] = m_self_is_connected[g]
      BY <1>1, <1>3 DEF StatusEffect
    <2> QED BY <1>1, <1>2, <1>3, <2>1, WaitElsewhere
  <1>4. CASE g = h
    <2>1. Told(h) = statuses /\ Told(h)' = Tail(statuses) /\ Acking(h) = {} /\ ~m_hangs[h]
      BY <1>1, <1>4 DEF Told, Acking, FateInv
    <2>2. Awaiting(packets, statuses, {}, next)
      BY <1>4, <2>1 DEF FateInv
    <2>3. /\ packets \in Seq(InFlightPacket) /\ next \in Nat /\ queue \in Seq(PacketId)
          /\ m_underflow[h] \in Nat
      BY TypesAt, NumbersOfPackets
    <2>4. Head(statuses).id = id
      BY <1>1
    <2>5. /\ Awaiting(packets, Tail(statuses), {id}, next)
          /\ Ids(statuses) \subseteq {id} \cup Ids(Tail(statuses))
      BY <1>1, <2>2, <2>3, <2>4, FateTaken
    <2>6. \A other \in Ids(Tail(statuses)) \cup Ids(packets) : id < other
      BY <2>5 DEF Awaiting, Ids
    <2>7. \A other \in Expected(h) : other = id \/ (other \in Expected(h)' /\ id < other)
      BY <1>2, <2>1, <2>5, <2>6 DEF Expected
    <2>8. /\ \A k \in 1 .. Len(queue) : queue[k] \in Expected(h)
          /\ \A j, k \in 1 .. Len(queue) : j < k => queue[j] < queue[k]
          /\ m_underflow[h] > 0 => queue = << >>
      BY <1>4, <2>1 DEF WaitInv, LetsConnectIds
    <2>9. id \in Nat /\ \A k \in 1 .. Len(queue) : queue[k] \in Nat
      <3>1. statuses[1] \in DeliveryStatus
        BY <1>1
      <3>2. id \in PacketId
        BY <1>1, <3>1 DEF DeliveryStatus
      <3> QED BY <2>3, <3>2, IdsAreNumbers
    <2> HIDE DEF queue
    <2>10. CASE m_in_flight_lets_connect'[h] = << >>
      <3>1. Len(<< >>) = 0
        OBVIOUS
      <3>2. LetsConnectIds(h)' = {}
        BY <2>10, <3>1 DEF LetsConnectIds
      <3> QED BY <1>2, <1>4, <2>1, <2>10, <3>1, <3>2 DEF WaitInv
    <2>11. CASE /\ UNCHANGED cmVars /\ ~IsFront(h, id) /\ queue # << >>
      <3>1. m_in_flight_lets_connect'[h] = queue /\ m_underflow'[h] = m_underflow[h]
        BY <2>11 DEF cmVars, queue
      <3>2. 1 \in 1 .. Len(queue) /\ Head(queue) = queue[1]
        BY <2>3, <2>11 DEF queue
      <3>3. m_underflow[h] = 0
        BY <2>3, <2>8, <2>11
      <3>4. queue[1] # id
        BY <2>11, <3>2, <3>3 DEF IsFront, queue
      <3>5. id < queue[1]
        BY <2>7, <2>8, <3>2, <3>4
      <3>6. ASSUME NEW k \in 1 .. Len(queue) PROVE queue[k] \in Expected(h)'
        <4>1. k = 1 \/ 1 < k
          OBVIOUS
        <4>2. id < queue[k]
          BY <2>8, <2>9, <3>2, <3>5, <4>1
        <4>3. queue[k] # id
          BY <2>9, <4>2
        <4> QED BY <2>7, <2>8, <4>3
      <3>7. LetsConnectIds(h)' \subseteq Expected(h)'
        BY <3>1, <3>6 DEF LetsConnectIds
      <3> QED BY <1>2, <1>4, <2>1, <2>8, <3>1, <3>7 DEF WaitInv
    <2>12. CASE /\ IsFront(h, id) /\ m_underflow'[h] = m_underflow[h]
                /\ m_in_flight_lets_connect'[h] = Tail(queue)
      <3>1. /\ queue # << >> /\ Head(queue) = id /\ m_underflow[h] = 0
        BY <2>12 DEF IsFront, queue
      <3>2. /\ 1 \in 1 .. Len(queue) /\ queue[1] = id
            /\ Len(Tail(queue)) = Len(queue) - 1 /\ Len(queue) \in Nat
            /\ \A k \in 1 .. Len(Tail(queue)) :
                 Tail(queue)[k] = queue[k + 1] /\ k + 1 \in 1 .. Len(queue) /\ 1 < k + 1
        BY <2>3, <3>1 DEF queue
      <3>3. ASSUME NEW k \in 1 .. Len(Tail(queue)) PROVE Tail(queue)[k] \in Expected(h)'
        <4>1. id < queue[k + 1]
          BY <2>8, <3>2
        <4>2. queue[k + 1] # id
          BY <2>9, <3>2, <4>1
        <4> QED BY <2>7, <2>8, <3>2, <4>2
      <3>4. LetsConnectIds(h)' \subseteq Expected(h)'
        BY <2>12, <3>3 DEF LetsConnectIds
      <3>5. \A j, k \in 1 .. Len(Tail(queue)) : j < k => Tail(queue)[j] < Tail(queue)[k]
        <4>1. \A j, k \in 1 .. Len(Tail(queue)) : j < k => j + 1 < k + 1
          BY <3>2
        <4> QED BY <2>8, <3>2, <4>1
      <3> QED BY <1>2, <1>4, <2>1, <2>12, <3>1, <3>4, <3>5 DEF WaitInv
    <2>13. \/ m_in_flight_lets_connect'[h] = << >>
           \/ UNCHANGED cmVars /\ ~IsFront(h, id) /\ queue # << >>
           \/ /\ IsFront(h, id) /\ m_underflow'[h] = m_underflow[h]
              /\ m_in_flight_lets_connect'[h] = Tail(queue)
      <3>1. UNCHANGED cmVars => m_in_flight_lets_connect'[h] = queue
        BY DEF cmVars, queue
      <3> QED BY <1>1, <2>8, <3>1, Zenon DEF StatusEffect, queue
    <2> QED BY <2>10, <2>11, <2>12, <2>13
  <1> QED BY <1>3, <1>4

LEMMA WaitHang ==
    ASSUME BaseInv, NEW g \in Host, WaitInv(g), NEW h \in Host, Hang(h)
    PROVE  WaitInv(g)'
  <1>1. /\ tick.host = h
        /\ m_self_is_connected' = [m_self_is_connected EXCEPT ![h] = TRUE]
        /\ m_hangs' = [m_hangs EXCEPT ![h] = TRUE]
        /\ UNCHANGED <<m_in_flight_lets_connect, m_underflow, m_in_flight_packets>>
    BY DEF Hang, CmAckAfterUnderflow, pdmVars
  <1>2. /\ m_self_is_connected'[h] = TRUE /\ m_hangs'[h] = TRUE
        /\ \A f \in Host \ {h} : m_hangs'[f] = m_hangs[f]
                                 /\ m_self_is_connected'[f] = m_self_is_connected[f]
    <2>1. m_hangs \in [Host -> BOOLEAN] /\ m_self_is_connected \in [Host -> BOOLEAN]
      BY DEF BaseInv, CmTypeOK
    <2> QED BY ONLY <1>1, <2>1, h \in Host, Zenon
  <1>3. CASE g # h
    BY <1>1, <1>2, <1>3, WaitElsewhere
  <1>4. CASE g = h
    BY <1>1, <1>2, <1>4 DEF WaitInv
  <1> QED BY <1>3, <1>4

\* The packet that carries a new LetsConnect goes into flight.
LEMMA WaitWrite ==
    ASSUME BaseInv, NEW g \in Host, WaitInv(g), NEW h \in Host, SelfInv(h), FateInv(h),
           IdsInv(h), WritePacket(h)
    PROVE  WaitInv(g)'
  <1> DEFINE queue == m_in_flight_lets_connect[h]
             packets == m_in_flight_packets[h]
             next == m_next_outgoing_packet_id[h]
             packet == [id |-> next, time_dispatched |-> now]
  <1>1. /\ m_in_flight_packets' = [m_in_flight_packets EXCEPT ![h] = Append(packets, packet)]
        /\ tick.host = h /\ tick.stage = "write" /\ tick' = NotTicking
        /\ CmWrite(h, next)
        /\ UNCHANGED <<m_self_is_connected, m_hangs>>
    BY DEF WritePacket, PdmWrite, CmWrite, InStage
  <1>2. /\ \A f \in Host \ {h} : m_in_flight_packets'[f] = m_in_flight_packets[f]
        /\ m_in_flight_packets'[h] = Append(packets, packet)
    BY <1>1 DEF BaseInv, PdmTypeOK
  <1>3. /\ m_in_flight_lets_connect \in [Host -> Seq(PacketId)] /\ queue \in Seq(PacketId)
        /\ m_underflow \in [Host -> Nat] /\ next \in PacketId
        /\ packets \in Seq(InFlightPacket) /\ now \in Nat
    BY TypesAt DEF BaseInv, CmTypeOK, NetTypeOK
  <1>4. /\ \A f \in Host \ {h} :
             /\ m_in_flight_lets_connect'[f] = m_in_flight_lets_connect[f]
             /\ m_underflow'[f] = m_underflow[f]
        /\ \/ /\ m_in_flight_lets_connect'[h] = queue
              /\ m_underflow'[h] > 0 => m_underflow[h] > 0
           \/ /\ m_underflow'[h] = 0
              /\ m_in_flight_lets_connect'[h] = Append(queue, next)
    <2> DEFINE more == Append(queue, next)
    <2>1. \/ UNCHANGED <<m_in_flight_lets_connect, m_underflow>>
          \/ /\ m_underflow[h] = 0
             /\ m_in_flight_lets_connect' = [m_in_flight_lets_connect EXCEPT ![h] = more]
             /\ m_underflow' = m_underflow
          \/ /\ m_underflow[h] > 0
             /\ m_underflow' = [m_underflow EXCEPT ![h] = m_underflow[h] - 1]
             /\ m_in_flight_lets_connect' = m_in_flight_lets_connect
      BY <1>1 DEF CmWrite
    <2> HIDE DEF more
    <2>2. /\ \A f \in Host \ {h} :
               /\ m_in_flight_lets_connect'[f] = m_in_flight_lets_connect[f]
               /\ m_underflow'[f] = m_underflow[f]
          /\ \/ /\ m_in_flight_lets_connect'[h] = queue
                /\ m_underflow'[h] > 0 => m_underflow[h] > 0
             \/ m_underflow'[h] = 0 /\ m_in_flight_lets_connect'[h] = more
      BY <1>3, <2>1
    <2> QED BY <2>2 DEF more
  <1>5. CASE g # h
    BY <1>1, <1>2, <1>4, <1>5, WaitElsewhere
  <1>6. CASE g = h
    <2>1. tick.statuses = << >>
      BY <1>1 DEF BaseInv, TickInv
    <2>2. Told(h) = << >> /\ Told(h)' = << >> /\ Ids(<< >>) = {}
      BY <1>1, <2>1 DEF Told, NotTicking, Ids
    <2>3. packet \in InFlightPacket /\ packet.id = next
      BY <1>3 DEF InFlightPacket
    <2>4. Expected(h) \cup {next} \subseteq Expected(h)'
      <3> HIDE DEF packets, packet, next
      <3>1. /\ Len(Append(packets, packet)) = Len(packets) + 1 /\ Len(packets) \in Nat
            /\ Append(packets, packet)[Len(packets) + 1] = packet
            /\ \A i \in 1 .. Len(packets) : Append(packets, packet)[i] = packets[i]
        BY <1>3, <2>3
      <3>2. Ids(packets) \cup {next} \subseteq Ids(Append(packets, packet))
        <4>1. \A i \in 1 .. Len(packets) + 1 : Append(packets, packet)[i].id \in Ids(Append(packets, packet))
          BY <3>1 DEF Ids
        <4>2. Len(packets) + 1 \in 1 .. Len(packets) + 1
              /\ \A i \in 1 .. Len(packets) : i \in 1 .. Len(packets) + 1
          BY <3>1
        <4> QED BY <2>3, <3>1, <4>1, <4>2 DEF Ids
      <3>3. Expected(h) = Ids(packets)
        BY <2>2 DEF Expected, packets
      <3>4. Expected(h)' = Ids(Append(packets, packet))
        BY <1>2, <2>2 DEF Expected
      <3> QED BY <3>2, <3>3, <3>4
    <2>5. CASE m_in_flight_lets_connect'[h] = queue /\ (m_underflow'[h] > 0 => m_underflow[h] > 0)
      <3>1. LetsConnectIds(h)' = LetsConnectIds(h)
        BY <2>5 DEF LetsConnectIds
      <3> QED BY <1>1, <1>6, <2>4, <2>5, <3>1 DEF WaitInv
    <2>6. CASE m_underflow'[h] = 0 /\ m_in_flight_lets_connect'[h] = Append(queue, next)
      <3>1. /\ \A i \in 1 .. Len(queue) : queue[i] \in Nat /\ queue[i] < next
            /\ \A i, j \in 1 .. Len(queue) : i < j => queue[i] < queue[j]
            /\ ~m_hangs[h] => \A i \in 1 .. Len(queue) : queue[i] \in Expected(h)
        BY <1>3, <1>6, IdsAreNumbers DEF SelfInv, WaitInv, LetsConnectIds
      <3> HIDE DEF queue, next
      <3>2. /\ Len(Append(queue, next)) = Len(queue) + 1 /\ Len(queue) \in Nat
            /\ Append(queue, next)[Len(queue) + 1] = next
            /\ \A i \in 1 .. Len(queue) : Append(queue, next)[i] = queue[i]
        BY <1>3 DEF queue
      <3>3. \A i \in 1 .. Len(queue) + 1 : i \in 1 .. Len(queue) \/ i = Len(queue) + 1
        BY <3>2
      <3>4. \A i, j \in 1 .. Len(queue) + 1 : i < j => i \in 1 .. Len(queue)
        BY <3>2
      <3>5. \A i, j \in 1 .. Len(queue) + 1 :
              i < j => Append(queue, next)[i] < Append(queue, next)[j]
        BY <3>1, <3>2, <3>3, <3>4
      <3>6. ~m_hangs[h] => LetsConnectIds(h)' \subseteq Expected(h)'
        BY <2>4, <2>6, <3>1, <3>2, <3>3 DEF LetsConnectIds
      <3>7. ~(m_underflow'[h] > 0)
        BY <2>6
      <3> QED BY <1>1, <1>6, <2>6, <3>2, <3>5, <3>6, <3>7 DEF WaitInv
    <2> QED BY <1>4, <2>5, <2>6
  <1> QED BY <1>5, <1>6

LEMMA WaitInit ==
    ASSUME Init, NEW h \in Host
    PROVE  WaitInv(h)
  <1>1. m_in_flight_lets_connect[h] = << >> /\ m_hangs[h] = FALSE /\ Len(<< >>) = 0
    BY Owners DEF Init, CmInit
  <1> QED BY <1>1 DEF WaitInv, LetsConnectIds

LEMMA WaitStep ==
    ASSUME ~Unordered, BaseInv, [Next]_vars,
           \A h \in Host : IdsInv(h) /\ NetOrdered(h) /\ FateInv(h) /\ SelfInv(h) /\ WaitInv(h)
    PROVE  \A h \in Host : WaitInv(h)'
  <1> SUFFICES ASSUME NEW g \in Host PROVE WaitInv(g)'
    OBVIOUS
  <1>1. Initiators \subseteq Host /\ Senders \subseteq Host
    BY NeptunConstants
  <1>2. CASE \/ Elapse \/ UNCHANGED vars
             \/ \E h \in Host : \/ Connect(h) \/ SendReliable(h) \/ SendUnreliable(h)
                                \/ \E i \in 1 .. Len(network[h]) : Lose(h, i)
    BY <1>2, WaitQuiet
  <1>3. ASSUME NEW h \in Host, Tick(h) PROVE WaitInv(g)'
    BY <1>3, WaitQuiet, WaitStage, WaitTickBegin, WaitProcessStatus, WaitHang, WaitReadPacket,
       WaitWrite DEF Tick
  <1> QED BY <1>1, <1>2, <1>3 DEF Next

-----------------------------------------------------------------------------
(* Only one host asks for a connection.                                      *)

\* Host r answers: until it has read a request it sends no LetsConnect, and the
\* other host cannot have one.
AnswerInv(r) ==
    /\ ~m_is_initiator[r]
    /\ ~IsPeerConnected(r) =>
         /\ m_num_lets_connect_to_send[r] = 0
         /\ m_in_flight_lets_connect[r] = << >>
         /\ ~IsPeerConnected(Other(r))
         /\ \A packet \in Underway(Other(r)) : packet.handshake = << >>
         /\ ~InHand(Other(r))

LEMMA AnswerFrame ==
    ASSUME NEW r \in Host, AnswerInv(r), ~m_is_initiator'[r],
           IsPeerConnected(r) => IsPeerConnected(r)',
           m_num_lets_connect_to_send'[r] = m_num_lets_connect_to_send[r],
           m_in_flight_lets_connect'[r] = m_in_flight_lets_connect[r],
           IsPeerConnected(Other(r))' = IsPeerConnected(Other(r)),
           Underway(Other(r))' \subseteq Underway(Other(r)),
           InHand(Other(r))' => InHand(Other(r))
    PROVE  AnswerInv(r)'
  <1>1. Other(r)' = Other(r)
    BY DEF Other
  <1> QED BY <1>1 DEF AnswerInv

LEMMA AnswerQuiet ==
    ASSUME BaseInv, NEW r \in Host, r \notin Initiators, AnswerInv(r),
           \/ Elapse \/ UNCHANGED vars
           \/ \E h \in Initiators : Connect(h)
           \/ \E h \in Host : \/ SendReliable(h) \/ SendUnreliable(h)
                              \/ PopAckedMessage(h) \/ ReadReliableMessage(h)
                              \/ \E i \in 1 .. Len(network[h]) : Lose(h, i)
    PROVE  AnswerInv(r)'
  <1>1. /\ UNCHANGED <<m_in_flight_lets_connect, m_peer_bandwidth_limit>>
        /\ tick' = tick
        /\ m_num_lets_connect_to_send'[r] = m_num_lets_connect_to_send[r]
        /\ m_is_initiator'[r] = m_is_initiator[r]
    <2>1. CASE Elapse \/ UNCHANGED vars
      BY <2>1 DEF Elapse, vars, cmVars
    <2>2. CASE \E h \in Initiators : Connect(h)
      <3>1. PICK h \in Initiators : Connect(h)
        BY <2>2
      <3>2. /\ m_num_lets_connect_to_send \in [Host -> Nat] /\ m_is_initiator \in [Host -> BOOLEAN]
            /\ h # r
        BY <3>1 DEF BaseInv, CmTypeOK
      <3>3. /\ m_num_lets_connect_to_send' =
                 [m_num_lets_connect_to_send EXCEPT ![h] = NumRedundantPackets + 1]
            /\ m_is_initiator' = [m_is_initiator EXCEPT ![h] = TRUE]
            /\ UNCHANGED <<m_in_flight_lets_connect, m_peer_bandwidth_limit, tick>>
        BY <3>1 DEF Connect, CmConnect
      <3>4. m_is_initiator'[r] = m_is_initiator[r]
        BY ONLY <3>2, <3>3, r \in Host, Zenon
      <3> QED BY <3>2, <3>3, <3>4
    <2>3. ASSUME NEW h \in Host,
                 \/ SendReliable(h) \/ SendUnreliable(h)
                 \/ PopAckedMessage(h) \/ ReadReliableMessage(h)
                 \/ \E i \in 1 .. Len(network[h]) : Lose(h, i)
          PROVE  UNCHANGED cmVars /\ tick' = tick
      BY <2>3 DEF SendReliable, SendUnreliable, PopAckedMessage, ReadReliableMessage, Lose
    <2> QED BY <2>1, <2>2, <2>3 DEF cmVars
  <1>2. \A f \in Host : Underway(f)' \subseteq Underway(f)
    <2>1. CASE network' = network
      BY <2>1 DEF Underway
    <2>2. ASSUME NEW h \in Host, NEW i \in 1 .. Len(network[h]), Lose(h, i)
          PROVE  \A f \in Host : Underway(f)' \subseteq Underway(f)
      BY <2>2, UnderwayRemoved DEF Lose
    <2> QED BY <2>1, <2>2 DEF Elapse, vars, Connect, SendReliable, SendUnreliable,
                PopAckedMessage, ReadReliableMessage
  <1>3. \A f \in Host : IsPeerConnected(f)' = IsPeerConnected(f) /\ InHand(f)' = InHand(f)
    BY <1>1 DEF IsPeerConnected, InHand
  <1>4. ~m_is_initiator'[r]
    BY <1>1 DEF AnswerInv
  <1>5. Other(r) \in Host
    BY OtherHost
  <1> QED BY <1>1, <1>2, <1>3, <1>4, <1>5, AnswerFrame

\* tick moves on or ends without taking a packet.
LEMMA AnswerStage ==
    ASSUME BaseInv, NEW r \in Host, AnswerInv(r), NEW h \in Host,
           \/ TickBegin(h) \/ Hang(h) \/ ReadNothing(h) \/ ReadFails(h) \/ IgnoreSegments(h)
           \/ ReadSegments(h) \/ HoldPacket(h) \/ NoPeerToWriteTo(h)
    PROVE  AnswerInv(r)'
  <1>1. UNCHANGED <<m_in_flight_lets_connect, m_peer_bandwidth_limit, m_is_initiator,
                    m_num_lets_connect_to_send, network>>
    BY DEF TickBegin, Hang, CmAckAfterUnderflow, ReadNothing, ReadFails, IgnoreSegments,
       ReadSegments, HoldPacket, NoPeerToWriteTo, cmVars
  <1>2. tick \in TickState
    BY DEF BaseInv, TickInv
  <1>3. tick'.stage # "acks"
    <2>1. CASE TickBegin(h)
      BY <2>1 DEF TickBegin
    <2>2. CASE Hang(h) \/ ReadFails(h) \/ HoldPacket(h) \/ NoPeerToWriteTo(h)
      BY <2>2 DEF Hang, ReadFails, HoldPacket, NoPeerToWriteTo, NotTicking
    <2>3. CASE ReadNothing(h) \/ IgnoreSegments(h) \/ ReadSegments(h)
      <3>1. tick' = Staged(tick, "write") \/ tick' = Moved(tick, "write", NoPacket)
        BY <2>3, Zenon DEF ReadNothing, IgnoreSegments, ReadSegments, Goto, Staged, Moved
      <3> QED BY <1>2, <3>1, TickUpdates
    <2> QED BY <2>1, <2>2, <2>3
  <1>4. /\ \A f \in Host : IsPeerConnected(f)' = IsPeerConnected(f) /\ Underway(f)' = Underway(f)
        /\ Other(r) \in Host
    BY <1>1, OtherHost DEF IsPeerConnected, Underway
  <1>5. ~InHand(Other(r))'
    BY <1>3 DEF InHand
  <1>6. ~m_is_initiator'[r]
    BY <1>1 DEF AnswerInv
  <1> QED BY <1>1, <1>4, <1>5, <1>6, AnswerFrame

LEMMA AnswerProcessStatus ==
    ASSUME BaseInv, NEW r \in Host, AnswerInv(r), SelfInv(r), NEW h \in Host, ProcessStatus(h)
    PROVE  AnswerInv(r)'
  <1>1. PICK id, status :
          /\ StatusEffect(h, id, status)
          /\ tick.host = h
          /\ tick'.host = h /\ tick'.stage = tick.stage /\ tick'.packet = tick.packet
          /\ UNCHANGED network
    BY StatusStep
  <1>2. UNCHANGED <<m_is_initiator, m_peer_bandwidth_limit>>
    BY <1>1 DEF StatusEffect
  <1>3. /\ \A f \in Host : /\ IsPeerConnected(f)' = IsPeerConnected(f)
                           /\ Underway(f)' = Underway(f)
                           /\ InHand(f)' = InHand(f)
        /\ Other(r) \in Host /\ ~m_is_initiator'[r]
    BY <1>1, <1>2, OtherHost DEF IsPeerConnected, Underway, InHand, AnswerInv
  <1>4. CASE IsPeerConnected(r)
    BY <1>3, <1>4 DEF AnswerInv
  <1>5. CASE ~IsPeerConnected(r)
    <2>1. /\ m_in_flight_lets_connect[r] = << >> /\ ~(m_underflow[r] > 0)
      BY <1>5 DEF AnswerInv, SelfInv
    <2>2. ~IsFront(r, id)
      BY <2>1 DEF IsFront
    <2>3. /\ m_num_lets_connect_to_send'[r] = m_num_lets_connect_to_send[r]
          /\ m_in_flight_lets_connect'[r] = m_in_flight_lets_connect[r]
      BY <1>1, <2>1, <2>2 DEF StatusEffect, cmVars
    <2> QED BY <1>3, <2>3, AnswerFrame
  <1> QED BY <1>4, <1>5

LEMMA AnswerReadPacket ==
    ASSUME BaseInv, NEW r \in Host, AnswerInv(r), NEW h \in Host,
           NEW i \in 1 .. Len(network[h]), ReadPacket(h, i)
    PROVE  AnswerInv(r)'
  <1>1. PICK packet \in Underway(h) :
          /\ \A f \in Host : Underway(f)' \subseteq Underway(f)
          /\ UNCHANGED cmVars
          /\ tick'.host = h
          /\ tick'.stage = "acks" => tick'.packet = packet
    BY PacketRead
  <1>2. UNCHANGED <<m_in_flight_lets_connect, m_peer_bandwidth_limit, m_is_initiator,
                    m_num_lets_connect_to_send>>
    BY <1>1 DEF cmVars
  <1>3. /\ \A f \in Host : IsPeerConnected(f)' = IsPeerConnected(f)
        /\ Other(r) \in Host /\ Other(r)' = Other(r) /\ ~m_is_initiator'[r]
    BY <1>2, OtherHost DEF IsPeerConnected, Other, AnswerInv
  <1>4. ~IsPeerConnected(r) => ~InHand(Other(r))'
    BY <1>1, <1>3 DEF AnswerInv, InHand
  <1> QED BY <1>1, <1>2, <1>3, <1>4 DEF AnswerInv

LEMMA AnswerReadHandshake ==
    ASSUME RequestsAreValid, BaseInv, NEW r \in Host, AnswerInv(r),
           NEW h \in Host, NoteInv(h), ReadHandshake(h)
    PROVE  AnswerInv(r)'
  <1>1. tick.host = h /\ tick.stage = "acks"
    BY DEF ReadHandshake, InStage
  <1>2. tick.packet.handshake # <<"Reject">>
    BY <1>1 DEF NoteInv, Reading
  <1>3. /\ tick' = [host |-> h, stage |-> "segments", statuses |-> << >>,
                    packet |-> tick.packet]
        /\ \/ tick.packet.handshake = << >> /\ UNCHANGED cmVars
           \/ /\ tick.packet.handshake # << >> /\ IsPeerConnected(h)'
              /\ \A g \in Host \ {h} :
                   /\ m_peer_bandwidth_limit'[g] = m_peer_bandwidth_limit[g]
                   /\ m_num_lets_connect_to_send'[g] = m_num_lets_connect_to_send[g]
              /\ UNCHANGED <<m_in_flight_lets_connect, m_is_initiator>>
        /\ UNCHANGED network
    BY <1>2, RequestRead
  <1>4. /\ m_is_initiator' = m_is_initiator
        /\ m_in_flight_lets_connect' = m_in_flight_lets_connect
        /\ \A f \in Host : Underway(f)' = Underway(f) /\ ~InHand(f)'
        /\ Other(r) \in Host /\ Other(r) # r /\ Other(r)' = Other(r) /\ ~m_is_initiator'[r]
        /\ h \in {r, Other(r)}
    BY <1>3, OtherHost DEF cmVars, Underway, InHand, Other, AnswerInv
  <1>5. CASE tick.packet.handshake = << >> /\ UNCHANGED cmVars
    <2>1. /\ \A f \in Host : IsPeerConnected(f)' = IsPeerConnected(f)
          /\ m_num_lets_connect_to_send' = m_num_lets_connect_to_send
      BY <1>5 DEF IsPeerConnected, cmVars
    <2> QED BY <1>4, <2>1, AnswerFrame
  <1>6. CASE tick.packet.handshake # << >> /\ h = r /\ IsPeerConnected(h)'
    BY <1>4, <1>6 DEF AnswerInv
  <1>7. CASE tick.packet.handshake # << >> /\ h = Other(r)
             /\ m_peer_bandwidth_limit'[r] = m_peer_bandwidth_limit[r]
    <2>1. IsPeerConnected(r)
      BY <1>1, <1>7 DEF AnswerInv, InHand
    <2>2. IsPeerConnected(r)'
      BY <1>7, <2>1 DEF IsPeerConnected
    <2> QED BY <1>4, <2>2 DEF AnswerInv
  <1> QED BY <1>3, <1>4, <1>5, <1>6, <1>7

LEMMA AnswerWrite ==
    ASSUME BaseInv, NEW r \in Host, AnswerInv(r),
           NEW h \in Host, SelfInv(h), IdsInv(h), WritePacket(h)
    PROVE  AnswerInv(r)'
  <1>1. PICK packet \in SentPacket :
          /\ packet.handshake = << >> <=> m_num_lets_connect_to_send[h] = 0
          /\ Underway(Other(h))' \subseteq Underway(Other(h)) \cup {packet}
          /\ Underway(h)' = Underway(h)
          /\ CmWrite(h, m_next_outgoing_packet_id[h])
          /\ UNCHANGED <<m_is_initiator, m_peer_bandwidth_limit>>
          /\ tick' = NotTicking
    BY HandshakeWritten
  <1>2. /\ \A f \in Host : IsPeerConnected(f)' = IsPeerConnected(f) /\ ~InHand(f)'
        /\ Other(r) \in Host /\ Other(r) # r /\ Other(r)' = Other(r) /\ ~m_is_initiator'[r]
        /\ h \in {r, Other(r)} /\ Other(Other(r)) = r
    BY <1>1, OtherHost DEF IsPeerConnected, InHand, NotTicking, Other, AnswerInv
  <1>3. CASE IsPeerConnected(r)
    BY <1>2, <1>3 DEF AnswerInv
  <1>4. CASE ~IsPeerConnected(r)
    <2>1. /\ m_num_lets_connect_to_send[r] = 0 /\ m_in_flight_lets_connect[r] = << >>
          /\ ~IsPeerConnected(Other(r))
          /\ \A p \in Underway(Other(r)) : p.handshake = << >>
      BY <1>4 DEF AnswerInv
    <2>2. /\ m_num_lets_connect_to_send'[r] = m_num_lets_connect_to_send[r]
          /\ m_in_flight_lets_connect'[r] = m_in_flight_lets_connect[r]
      <3>1. CASE h = r
        BY <1>1, <2>1, <3>1 DEF CmWrite
      <3>2. CASE h # r
        BY <1>1, <3>2 DEF CmWrite, BaseInv, CmTypeOK
      <3> QED BY <3>1, <3>2
    <2>3. \A p \in Underway(Other(r))' : p.handshake = << >>
      BY <1>1, <1>2, <2>1
    <2> QED BY <1>2, <2>1, <2>2, <2>3 DEF AnswerInv
  <1> QED BY <1>3, <1>4

LEMMA AnswerInit ==
    ASSUME Init, NEW r \in Host
    PROVE  AnswerInv(r)
  <1>1. /\ m_is_initiator[r] = FALSE /\ m_num_lets_connect_to_send[r] = 0
        /\ m_in_flight_lets_connect[r] = << >> /\ m_peer_bandwidth_limit[Other(r)] = NoLimit
        /\ network[Other(r)] = << >> /\ tick = NotTicking
    BY Owners, OtherHost DEF Init, CmInit
  <1>2. Len(<< >>) = 0
    OBVIOUS
  <1>3. /\ \A packet \in Underway(Other(r)) : FALSE
        /\ ~IsPeerConnected(Other(r)) /\ ~InHand(Other(r))
    BY <1>1, <1>2 DEF Underway, IsPeerConnected, InHand, NotTicking
  <1> QED BY <1>1, <1>3 DEF AnswerInv

LEMMA AnswerStep ==
    ASSUME RequestsAreValid, BaseInv, \A h \in Host : IdsInv(h) /\ HandshakeInv(h),
           NEW r \in Host, r \notin Initiators, AnswerInv(r), [Next]_vars
    PROVE  AnswerInv(r)'
  <1>1. \A h \in Host : SelfInv(h) /\ NoteInv(h) /\ IdsInv(h)
    BY DEF HandshakeInv
  <1>2. Senders \subseteq Host
    BY NeptunConstants
  <1>3. CASE \/ Elapse \/ UNCHANGED vars
             \/ \E h \in Initiators : Connect(h)
             \/ \E h \in Host : \/ SendReliable(h) \/ SendUnreliable(h)
                                \/ \E i \in 1 .. Len(network[h]) : Lose(h, i)
    BY <1>3, AnswerQuiet
  <1>4. ASSUME NEW h \in Host, Tick(h) PROVE AnswerInv(r)'
    BY <1>1, <1>4, AnswerQuiet, AnswerStage, AnswerProcessStatus, AnswerReadPacket,
       AnswerReadHandshake, AnswerWrite DEF Tick
  <1> QED BY <1>2, <1>3, <1>4 DEF Next

-----------------------------------------------------------------------------
(* The host that asks, as long as it has no answer.                          *)

\* It still sends requests or waits for the fate of one; it takes itself for
\* connected only between the ACK and the LetsConnect of the same packet.
AskInv(o) ==
    /\ m_is_initiator[o] /\ ~m_self_is_connected[o] =>
         m_num_lets_connect_to_send[o] > 0 \/ m_in_flight_lets_connect[o] # << >>
    /\ m_self_is_connected[o] => InHand(o) /\ tick.statuses = << >>

\* A packet on its way to it acknowledges one packet at most, and a request only
\* along with a LetsConnect.
ReplyInv(o) ==
    \A packet \in Underway(o) :
        /\ packet.header.ack_bitmask \subseteq {0}
        /\ \A id \in LetsConnectIds(o) :
             StatusOf(id, packet.header) = ACK => packet.handshake # << >>

\* So the ACK of a request is the last status of its packet.
LastInv(o) ==
    \A i \in 1 .. Len(Told(o)) :
        Told(o)[i].status = ACK /\ Told(o)[i].id \in LetsConnectIds(o) =>
            i = Len(Told(o)) /\ InHand(o)

\* The other host acknowledges every packet in the tick that reads it, and a request
\* together with its answer.
ReadInv(o) ==
    LET r == Other(o) IN
    m_pending_acks[r] # << >> =>
        /\ tick.host = r /\ tick.stage \in {"acks", "segments", "write"} /\ has_peer[r]
        /\ Len(m_pending_acks[r]) = 1
        /\ m_pending_acks[r][1] \in LetsConnectIds(o) =>
             \/ InHand(r)
             \/ tick.stage \in {"segments", "write"} /\ m_num_lets_connect_to_send[r] > 0

Alone(o) == AskInv(o) /\ ReplyInv(o) /\ LastInv(o) /\ ReadInv(o)

\* Nothing is told, and no packet is sent or accepted.
LEMMA AloneFrame ==
    ASSUME NEW o \in Host, Alone(o), AskInv(o)', ReadInv(o)',
           \/ tick' = tick
           \/ tick'.statuses = << >>,
           LetsConnectIds(o)' = LetsConnectIds(o),
           Underway(o)' \subseteq Underway(o)
    PROVE  Alone(o)'
  <1>1. ReplyInv(o)'
    BY DEF Alone, ReplyInv
  <1>2. LastInv(o)'
    <2>1. CASE tick' = tick
      BY <2>1 DEF Alone, LastInv, Told, InHand
    <2>2. CASE tick'.statuses = << >>
      <3>1. Told(o)' = << >> /\ Len(<< >>) = 0
        BY <2>2 DEF Told
      <3> QED BY <3>1 DEF LastInv
    <2> QED BY <2>1, <2>2
  <1> QED BY <1>1, <1>2 DEF Alone

LEMMA AloneQuiet ==
    ASSUME BaseInv, NEW o \in Host, Other(o) \notin Initiators, Alone(o),
           \/ Elapse \/ UNCHANGED vars
           \/ \E h \in Initiators : Connect(h)
           \/ \E h \in Host : \/ SendReliable(h) \/ SendUnreliable(h)
                              \/ PopAckedMessage(h) \/ ReadReliableMessage(h)
                              \/ \E i \in 1 .. Len(network[h]) : Lose(h, i)
    PROVE  Alone(o)'
  <1>1. CASE \E h \in Initiators : Connect(h)
    <2>1. Initiators \subseteq Host
      BY NeptunConstants
    <2>2. Connect(o)
      BY <1>1, <2>1, OtherHost
    <2>3. /\ tick = NotTicking /\ tick' = tick
          /\ m_num_lets_connect_to_send' =
               [m_num_lets_connect_to_send EXCEPT ![o] = NumRedundantPackets + 1]
          /\ UNCHANGED <<m_in_flight_lets_connect, m_self_is_connected, m_pending_acks, network>>
      BY <2>2 DEF Connect, CmConnect, pdmVars
    <2>4. m_num_lets_connect_to_send \in [Host -> Nat]
      BY DEF BaseInv, CmTypeOK
    <2>5. m_num_lets_connect_to_send'[o] > 0
      BY <2>3, <2>4, ConnectionConstants
    <2>6. tick.stage = "none"
      BY <2>3 DEF NotTicking
    <2>7. ~InHand(o) /\ ~m_self_is_connected[o] /\ m_pending_acks[Other(o)] = << >>
      BY <2>6 DEF Alone, AskInv, ReadInv, InHand
    <2>8. AskInv(o)' /\ ReadInv(o)'
      <3>1. Other(o)' = Other(o)
        BY DEF Other
      <3> QED BY <2>3, <2>5, <2>7, <3>1 DEF AskInv, ReadInv
    <2>9. LetsConnectIds(o)' = LetsConnectIds(o) /\ Underway(o)' = Underway(o)
      BY <2>3 DEF LetsConnectIds, Underway
    <2> QED BY <2>3, <2>8, <2>9, AloneFrame
  <1>2. CASE \/ Elapse \/ UNCHANGED vars
             \/ \E h \in Host : \/ SendReliable(h) \/ SendUnreliable(h)
                                \/ PopAckedMessage(h) \/ ReadReliableMessage(h)
                                \/ \E i \in 1 .. Len(network[h]) : Lose(h, i)
    <2>1. UNCHANGED <<cmVars, pdmVars, tick, has_peer>>
      BY <1>2 DEF Elapse, vars, SendReliable, SendUnreliable, PopAckedMessage,
         ReadReliableMessage, Lose
    <2>2. Underway(o)' \subseteq Underway(o)
      <3>1. CASE network' = network
        BY <3>1 DEF Underway
      <3>2. ASSUME NEW h \in Host, NEW i \in 1 .. Len(network[h]), Lose(h, i)
            PROVE  Underway(o)' \subseteq Underway(o)
        BY <3>2, UnderwayRemoved DEF Lose
      <3> QED BY <1>2, <3>1, <3>2 DEF Elapse, vars, SendReliable, SendUnreliable,
                  PopAckedMessage, ReadReliableMessage
    <2>3. /\ UNCHANGED <<m_is_initiator, m_self_is_connected, m_num_lets_connect_to_send,
                         m_in_flight_lets_connect, m_pending_acks, tick, has_peer>>
          /\ Other(o)' = Other(o)
      BY <2>1 DEF cmVars, pdmVars, Other
    <2>4. LetsConnectIds(o)' = LetsConnectIds(o)
          /\ InHand(o)' = InHand(o) /\ InHand(Other(o))' = InHand(Other(o))
      BY <2>3 DEF LetsConnectIds, InHand
    <2>5. AskInv(o)' /\ ReadInv(o)'
      BY <2>3, <2>4 DEF Alone, AskInv, ReadInv
    <2> QED BY <2>2, <2>3, <2>4, <2>5, AloneFrame
  <1> QED BY <1>1, <1>2

\* The tick goes on or ends, with nothing told.
LEMMA AloneStage ==
    ASSUME BaseInv, NEW o \in Host, Alone(o), ~IsPeerConnected(o), SelfInv(Other(o)),
           NEW h \in Host,
           \/ ReadNothing(h) \/ ReadFails(h) \/ IgnoreSegments(h) \/ ReadSegments(h)
           \/ HoldPacket(h) \/ NoPeerToWriteTo(h)
    PROVE  Alone(o)'
  <1> DEFINE r == Other(o)
  <1>1. UNCHANGED <<m_in_flight_lets_connect, m_num_lets_connect_to_send, m_is_initiator,
                    m_self_is_connected, m_pending_acks, network, has_peer>>
    BY DEF ReadNothing, ReadFails, IgnoreSegments, ReadSegments, HoldPacket, NoPeerToWriteTo,
       cmVars, pdmVars
  <1>2. tick \in TickState /\ tick.host = h /\ tick.stage \in {"old", "segments", "write"}
    BY DEF BaseInv, TickInv, ReadNothing, ReadFails, IgnoreSegments, ReadSegments, HoldPacket,
       NoPeerToWriteTo, InStage
  <1>3. tick.statuses = << >>
    BY <1>2 DEF BaseInv, TickInv, ReadNothing, ReadFails, IgnoreSegments, ReadSegments,
       HoldPacket, NoPeerToWriteTo, StatusesDone, InStage
  <1>4. /\ tick'.statuses = << >>
        /\ \/ tick'.host = tick.host /\ tick'.stage = "write" /\ tick.stage \in {"old", "segments"}
           \/ tick.stage \in {"old", "write"} /\ tick' = NotTicking
    <2>1. CASE ReadFails(h) \/ HoldPacket(h) \/ NoPeerToWriteTo(h)
      BY <2>1 DEF ReadFails, HoldPacket, NoPeerToWriteTo, InStage, NotTicking
    <2>2. CASE ReadNothing(h) \/ IgnoreSegments(h) \/ ReadSegments(h)
      <3>1. tick' = Staged(tick, "write") \/ tick' = Moved(tick, "write", NoPacket)
        BY <2>2, Zenon DEF ReadNothing, IgnoreSegments, ReadSegments, Goto, Staged, Moved
      <3>2. tick.stage \in {"old", "segments"}
        BY <2>2 DEF ReadNothing, IgnoreSegments, ReadSegments, InStage
      <3> QED BY <1>2, <1>3, <3>1, <3>2, TickUpdates
    <2> QED BY <2>1, <2>2
  <1>5. ~InHand(o) /\ ~InHand(r) /\ ~m_self_is_connected[o]
    BY <1>2 DEF Alone, AskInv, InHand
  <1>6. AskInv(o)'
    BY <1>1, <1>5 DEF Alone, AskInv
  <1>7. /\ LetsConnectIds(o)' = LetsConnectIds(o) /\ Underway(o)' = Underway(o)
        /\ Other(o)' = Other(o) /\ r \in Host /\ Other(r) = o
    BY <1>1, OtherHost DEF LetsConnectIds, Underway, Other
  <1>8. m_pending_acks[r] # << >> => tick'.host = r /\ tick'.stage = "write"
    <2>1. SUFFICES ASSUME m_pending_acks[r] # << >> PROVE tick'.host = r /\ tick'.stage = "write"
      OBVIOUS
    <2>2. h = r /\ tick.stage \in {"segments", "write"} /\ has_peer[r]
      BY <1>2, <2>1 DEF Alone, ReadInv
    <2>3. ~HoldPacket(h)
      BY <1>7, <2>2 DEF HoldPacket, IsFullyConnected, SelfInv
    <2>4. ~NoPeerToWriteTo(h)
      BY <2>2 DEF NoPeerToWriteTo
    <2>5. IgnoreSegments(h) \/ ReadSegments(h)
      BY <2>2, <2>3, <2>4 DEF ReadNothing, ReadFails, InStage
    <2>6. tick.stage = "segments"
      BY <2>5 DEF IgnoreSegments, ReadSegments, InStage
    <2> QED BY <1>2, <1>4, <2>2, <2>6
  <1>9. ReadInv(o)'
    BY <1>1, <1>5, <1>7, <1>8 DEF Alone, ReadInv
  <1> QED BY <1>4, <1>6, <1>7, <1>9, AloneFrame

LEMMA AloneTickBegin ==
    ASSUME BaseInv, NEW o \in Host, Alone(o), NEW h \in Host, TickBegin(h)
    PROVE  Alone(o)'
  <1> DEFINE r == Other(o)
  <1>1. PICK n \in 0 .. Len(m_in_flight_packets[h]) :
          tick' = [host |-> h, stage |-> "old", statuses |-> DropStatuses(h, n),
                   packet |-> NoPacket]
    BY DEF TickBegin
  <1>2. /\ tick.stage = "none"
        /\ UNCHANGED <<m_in_flight_lets_connect, m_num_lets_connect_to_send, m_is_initiator,
                       m_self_is_connected, m_pending_acks, network>>
    BY DEF TickBegin, DropOldPackets, NotTicking, cmVars
  <1>3. /\ LetsConnectIds(o)' = LetsConnectIds(o) /\ Underway(o)' = Underway(o)
        /\ Other(o)' = Other(o)
    BY <1>2 DEF LetsConnectIds, Underway, Other
  <1>4. ~InHand(o) /\ ~m_self_is_connected[o] /\ m_pending_acks[r] = << >>
    BY <1>2 DEF Alone, AskInv, ReadInv, InHand
  <1>5. AskInv(o)' /\ ReadInv(o)'
    BY <1>2, <1>3, <1>4 DEF Alone, AskInv, ReadInv
  <1>6. LastInv(o)'
    <2>1. /\ Len(DropStatuses(h, n)) = n
          /\ \A i \in 1 .. n : DropStatuses(h, n)[i].status = DROP
      BY Statuses
    <2>2. Told(o)' = DropStatuses(h, n) \/ Told(o)' = << >>
      BY <1>1 DEF Told
    <2>3. \A i \in 1 .. Len(Told(o)') : Told(o)'[i].status = DROP
      BY <2>1, <2>2
    <2>4. DROP # ACK
      BY DEF DROP, ACK
    <2> QED BY <2>3, <2>4 DEF LastInv
  <1>7. ReplyInv(o)'
    BY <1>3 DEF Alone, ReplyInv
  <1> QED BY <1>5, <1>6, <1>7 DEF Alone

\* No host has come so far that it can hang.
LEMMA AloneHang ==
    ASSUME BaseInv, NEW o \in Host, Alone(o), ~IsPeerConnected(o),
           \A f \in Host : SelfInv(f), NEW h \in Host, Hang(h)
    PROVE  FALSE
  <1>1. m_underflow[h] > 0 /\ tick.statuses # << >>
    BY DEF Hang, CmAckAfterUnderflow
  <1>2. m_self_is_connected[h]
    BY <1>1 DEF SelfInv
  <1>3. h # o
    BY <1>1, <1>2 DEF Alone, AskInv
  <1>4. Other(h) = o
    BY <1>3, OtherHost
  <1> QED BY <1>2, <1>4 DEF SelfInv

LEMMA TailEmpty ==
    ASSUME NEW S, NEW queue \in Seq(S), Len(queue) = 1
    PROVE  Tail(queue) = << >>
  <1>1. Tail(queue) \in Seq(S) /\ Len(Tail(queue)) = 0
    OBVIOUS
  <1> QED BY <1>1, EmptySeq

LEMMA AloneProcessStatus ==
    ASSUME BaseInv, NEW o \in Host, Alone(o), ~IsPeerConnected(o), SelfInv(o),
           NEW h \in Host, ProcessStatus(h)
    PROVE  Alone(o)'
  <1> DEFINE r == Other(o)
             statuses == tick.statuses
  <1>1. PICK id, status :
          /\ StatusEffect(h, id, status)
          /\ tick.host = h /\ tick.stage \in {"old", "acks"}
          /\ statuses \in Seq(DeliveryStatus) /\ statuses # << >>
          /\ id = statuses[1].id /\ status = statuses[1].status
          /\ tick'.host = h /\ tick'.stage = tick.stage /\ tick'.packet = tick.packet
          /\ tick'.statuses = Tail(statuses)
          /\ UNCHANGED <<pdmVars, network, has_peer>>
    BY StatusStep
  <1>2. /\ LetsConnectIds(o)' \subseteq LetsConnectIds(o)
        /\ IsFront(h, id) => id \in LetsConnectIds(h)
    BY <1>1, StatusShrinks
  <1>3. /\ 1 \in 1 .. Len(statuses) /\ Len(statuses) \in Nat
        /\ Len(Tail(statuses)) = Len(statuses) - 1
        /\ \A i \in 1 .. Len(Tail(statuses)) :
             i + 1 \in 1 .. Len(statuses) /\ Tail(statuses)[i] = statuses[i + 1]
    BY <1>1
  <1>4. /\ UNCHANGED <<m_is_initiator, m_pending_acks, network, has_peer>>
        /\ Other(o)' = Other(o) /\ Underway(o)' = Underway(o)
        /\ InHand(o)' = InHand(o) /\ InHand(r)' = InHand(r)
        /\ r \in Host /\ r # o /\ h \in {o, r}
    BY <1>1, OtherHost DEF StatusEffect, pdmVars, Other, Underway, InHand
  <1>5. ReplyInv(o)'
    BY <1>2, <1>4 DEF Alone, ReplyInv
  <1>6. ReadInv(o)'
    BY <1>1, <1>2, <1>4 DEF Alone, ReadInv
  <1>7. LastInv(o)'
    <2>1. CASE h # o
      <3>1. Told(o)' = << >> /\ Len(<< >>) = 0
        BY <1>1, <2>1 DEF Told
      <3> QED BY <3>1 DEF LastInv
    <2>2. CASE h = o
      <3>1. Told(o) = statuses /\ Told(o)' = Tail(statuses)
        BY <1>1, <2>2 DEF Told
      <3>2. ASSUME NEW i \in 1 .. Len(Tail(statuses)), Tail(statuses)[i].status = ACK,
                   Tail(statuses)[i].id \in LetsConnectIds(o)'
            PROVE  i = Len(Tail(statuses)) /\ InHand(o)'
        <4>1. i + 1 = Len(statuses) /\ InHand(o)
          BY <1>2, <1>3, <3>1, <3>2 DEF Alone, LastInv
        <4> QED BY <1>3, <1>4, <4>1
      <3> QED BY <3>1, <3>2 DEF LastInv
    <2> QED BY <2>1, <2>2
  <1>8. AskInv(o)'
    <2>1. CASE h # o
      <3>1. /\ m_in_flight_lets_connect'[o] = m_in_flight_lets_connect[o]
            /\ m_self_is_connected'[o] = m_self_is_connected[o]
            /\ m_num_lets_connect_to_send'[o] = m_num_lets_connect_to_send[o]
        BY <1>1, <2>1 DEF StatusEffect
      <3>2. ~m_self_is_connected[o]
        BY <1>1, <2>1 DEF Alone, AskInv, InHand
      <3> QED BY <1>4, <3>1, <3>2 DEF Alone, AskInv
    <2>2. CASE h = o
      <3>1. ~m_self_is_connected[o] /\ ~(m_underflow[o] > 0)
        BY <1>1 DEF Alone, AskInv, SelfInv
      <3>2. CASE UNCHANGED cmVars
        <4>1. UNCHANGED <<m_in_flight_lets_connect, m_self_is_connected,
                          m_num_lets_connect_to_send>>
          BY <3>2 DEF cmVars
        <4> QED BY <1>4, <3>1, <4>1 DEF Alone, AskInv
      <3>3. CASE status = ACK /\ IsFront(o, id) /\ m_self_is_connected'[o] = TRUE
        <4>1. Told(o) = statuses
          BY <1>1, <2>2 DEF Told
        <4>2. Len(statuses) = 1 /\ InHand(o)
          BY <1>1, <1>2, <1>3, <2>2, <3>3, <4>1 DEF Alone, LastInv
        <4>3. Tail(statuses) = << >>
          BY <1>1, <4>2, TailEmpty
        <4> QED BY <1>1, <1>4, <3>3, <4>2, <4>3 DEF AskInv
      <3>4. CASE /\ m_self_is_connected'[o] = m_self_is_connected[o]
                 /\ m_num_lets_connect_to_send'[o] = Resent(o)
        <4>1. m_num_lets_connect_to_send'[o] > 0
          BY <3>4, TypesAt DEF Resent
        <4> QED BY <3>1, <3>4, <4>1 DEF AskInv
      <3> QED BY <1>1, <2>2, <3>1, <3>2, <3>3, <3>4 DEF StatusEffect
    <2> QED BY <2>1, <2>2
  <1> QED BY <1>5, <1>6, <1>7, <1>8 DEF Alone

\* The only packet that a header acknowledges is the newest of which it tells the fate.
LEMMA OnlyAcked ==
    ASSUME NEW header \in PacketHeader, header.ack_bitmask \subseteq {0},
           NEW id \in PacketId, StatusOf(id, header) = ACK
    PROVE  /\ header.ack_bitmask # {}
           /\ \A highest \in PacketId : IsHighestAcked(highest, header) => highest = id
  <1>1. id >= header.ack_sequence_number /\ id - header.ack_sequence_number \in header.ack_bitmask
    BY DEF StatusOf, ACK, DROP
  <1>2. header.ack_sequence_number \in PacketId
    BY DEF PacketHeader
  <1>3. id \in Nat /\ header.ack_sequence_number \in Nat
    BY <1>2, IdsAreNumbers
  <1>4. id = header.ack_sequence_number
    BY <1>1, <1>3
  <1>5. ASSUME NEW highest \in PacketId, IsHighestAcked(highest, header)
        PROVE  highest = id
    <2>1. PICK msb \in header.ack_bitmask :
            highest = (header.ack_sequence_number + msb) % IdModulus
      BY <1>5 DEF IsHighestAcked
    <2>2. header.ack_sequence_number + msb = id
      BY <1>3, <1>4
    <2> QED BY <2>1, <2>2, IdsAreNumbers
  <1> QED BY <1>1, <1>5

LEMMA AloneReadPacket ==
    ASSUME ~Unordered, BaseInv, NEW o \in Host, Alone(o), FateInv(o), NoteInv(Other(o)),
           NEW h \in Host, NetOrdered(h), NEW i \in 1 .. Len(network[h]), ReadPacket(h, i)
    PROVE  Alone(o)'
  <1> DEFINE r == Other(o)
  <1>1. PICK n \in 0 .. Len(m_in_flight_packets[h]), packet \in Underway(h) :
          /\ packet = network[h][i] /\ packet \in SentPacket
          /\ AcksResolve(h, packet.header, n)
          /\ tick.host = h /\ tick.stage = "old" /\ tick.statuses = << >>
          /\ call[h].op = "none"
          /\ \A f \in Host : Underway(f)' \subseteq Underway(f)
          /\ UNCHANGED cmVars
          /\ tick'.host = h
          /\ Accepts(h, packet.header) =>
               /\ tick'.stage = "acks" /\ tick'.packet = packet
               /\ tick'.statuses = ReadStatuses(h, packet.header, n)
    BY PacketRead
  <1>2. Accepts(h, packet.header)
    BY <1>1 DEF NetOrdered, Newer, Accepts
  <1>3. /\ m_pending_acks' = [m_pending_acks EXCEPT ![h] = Append(@, packet.header.id)]
        /\ has_peer' = [has_peer EXCEPT ![h] = TRUE]
    BY <1>1, <1>2 DEF ReadPacket, ProcessRead, ProcessPacketHeader
  <1>4. /\ UNCHANGED <<m_in_flight_lets_connect, m_num_lets_connect_to_send, m_is_initiator,
                       m_self_is_connected>>
        /\ LetsConnectIds(o)' = LetsConnectIds(o) /\ Other(o)' = Other(o)
        /\ r \in Host /\ r # o /\ h \in {o, r} /\ Other(r) = o
    BY <1>1, OtherHost DEF cmVars, LetsConnectIds, Other
  <1>5. ~InHand(o) /\ ~m_self_is_connected[o] /\ m_pending_acks[r] = << >>
    BY <1>1 DEF Alone, AskInv, ReadInv, InHand
  <1>6. AskInv(o)' /\ ReplyInv(o)'
    BY <1>1, <1>4, <1>5 DEF Alone, AskInv, ReplyInv
  <1>7. CASE h = r
    <2>1. m_pending_acks \in [Host -> Seq(PacketId)] /\ has_peer \in [Host -> BOOLEAN]
      BY DEF BaseInv, PdmTypeOK, NetTypeOK
    <2>2. m_pending_acks'[r] = Append(<< >>, packet.header.id)
      BY <1>3, <1>4, <1>5, <1>7, <2>1
    <2>3. Len(m_pending_acks'[r]) = 1 /\ m_pending_acks'[r][1] = packet.header.id
      BY <2>2
    <2>4. has_peer'[r]
      BY <1>3, <1>4, <1>7, <2>1, Zenon
    <2>5. packet.header.id \in LetsConnectIds(o) => packet.handshake # << >>
      BY <1>1, <1>4, <1>7 DEF NoteInv
    <2>6. ReadInv(o)'
      BY <1>1, <1>2, <1>4, <1>7, <2>3, <2>4, <2>5 DEF ReadInv, InHand
    <2>7. Told(o)' = << >> /\ Len(<< >>) = 0
      BY <1>1, <1>4, <1>7 DEF Told
    <2>8. LastInv(o)'
      BY <2>7 DEF LastInv
    <2> QED BY <1>6, <2>6, <2>8 DEF Alone
  <1>8. CASE h = o
    <2> DEFINE statuses == ReadStatuses(o, packet.header, n)
    <2>1. m_pending_acks'[r] = << >>
      BY <1>3, <1>4, <1>5, <1>8 DEF BaseInv, PdmTypeOK
    <2>2. ReadInv(o)'
      BY <1>4, <2>1 DEF ReadInv
    <2>3. /\ packet.header \in PacketHeader
          /\ packet.header.ack_bitmask \subseteq {0}
          /\ \A id \in LetsConnectIds(o) :
               StatusOf(id, packet.header) = ACK => packet.handshake # << >>
      BY <1>1, <1>8, PacketFields DEF Alone, ReplyInv
    <2>4. /\ n \in Nat /\ n <= Len(m_in_flight_packets[o]) /\ Len(m_in_flight_packets[o]) \in Nat
          /\ m_in_flight_packets[o] \in Seq(InFlightPacket)
      BY <1>8, TypesAt
    <2>5. \A k \in 1 .. n : m_in_flight_packets[o][k].id \in PacketId
      <3>1. \A k \in 1 .. n : m_in_flight_packets[o][k] \in InFlightPacket
        BY <2>4
      <3> QED BY <3>1 DEF InFlightPacket
    <2>6. \A k, m \in 1 .. n : k < m => m_in_flight_packets[o][k].id < m_in_flight_packets[o][m].id
      BY <2>4, SMTT(30) DEF FateInv, Awaiting
    <2>7. /\ Len(statuses) = n
          /\ \A k \in 1 .. n : /\ statuses[k].id = m_in_flight_packets[o][k].id
                               /\ statuses[k].status = StatusOf(m_in_flight_packets[o][k].id, packet.header)
      BY <1>8, Statuses
    <2>8. ASSUME NEW k \in 1 .. n, statuses[k].status = ACK, statuses[k].id \in LetsConnectIds(o)
          PROVE  k = n /\ packet.handshake # << >>
      <3>1. PICK id \in PacketId : id = m_in_flight_packets[o][k].id
        BY <2>5
      <3>2. StatusOf(id, packet.header) = ACK /\ id \in LetsConnectIds(o)
        BY <2>7, <2>8, <3>1
      <3>3. /\ packet.header.ack_bitmask # {}
            /\ \A highest \in PacketId : IsHighestAcked(highest, packet.header) => highest = id
        BY <2>3, <3>2, OnlyAcked
      <3>4. \A m \in 1 .. n : m_in_flight_packets[o][m].id <= id
        BY <1>1, <1>8, <3>3 DEF AcksResolve
      <3>5. n \in 1 .. n /\ (k = n \/ k < n)
        BY <2>4
      <3>6. ~(k < n)
        <4>1. \A m \in 1 .. n : m_in_flight_packets[o][m].id \in Nat
          BY <2>5, IdsAreNumbers
        <4> QED BY <2>6, <3>1, <3>4, <3>5, <4>1
      <3> QED BY <2>3, <3>2, <3>5, <3>6
    <2>9. LastInv(o)'
      <3>1. Told(o)' = statuses
        BY <1>1, <1>2, <1>8 DEF Told
      <3>2. packet.handshake # << >> => InHand(o)'
        BY <1>1, <1>2, <1>8 DEF InHand
      <3> QED BY <1>4, <2>7, <2>8, <3>1, <3>2 DEF LastInv
    <2> QED BY <1>6, <2>2, <2>9 DEF Alone
  <1> QED BY <1>4, <1>7, <1>8

LEMMA AloneReadHandshake ==
    ASSUME RequestsAreValid, BaseInv, NEW o \in Host, Alone(o), ~IsPeerConnected(o)',
           ~m_is_initiator[Other(o)], NEW h \in Host, NoteInv(h), ReadHandshake(h)
    PROVE  Alone(o)'
  <1> DEFINE r == Other(o)
  <1>1. tick.host = h /\ tick.stage = "acks"
    BY DEF ReadHandshake, InStage
  <1>2. tick.packet.handshake # <<"Reject">>
    BY <1>1 DEF NoteInv, Reading
  <1>3. /\ tick' = [host |-> h, stage |-> "segments", statuses |-> << >>,
                    packet |-> tick.packet]
        /\ \/ tick.packet.handshake = << >> /\ UNCHANGED cmVars
           \/ /\ tick.packet.handshake # << >> /\ IsPeerConnected(h)'
              /\ m_num_lets_connect_to_send'[h] =
                   IF m_is_initiator[h] THEN m_num_lets_connect_to_send[h]
                   ELSE NumRedundantPackets + 1
              /\ \A g \in Host \ {h} :
                   m_num_lets_connect_to_send'[g] = m_num_lets_connect_to_send[g]
              /\ UNCHANGED <<m_in_flight_lets_connect, m_is_initiator, m_self_is_connected>>
        /\ UNCHANGED <<pdmVars, network, has_peer>>
    BY <1>2, RequestRead
  <1>4. /\ UNCHANGED <<m_in_flight_lets_connect, m_is_initiator, m_self_is_connected,
                       m_pending_acks, network, has_peer>>
        /\ LetsConnectIds(o)' = LetsConnectIds(o) /\ Underway(o)' = Underway(o)
        /\ Other(o)' = Other(o) /\ r \in Host /\ r # o /\ h \in {o, r}
    BY <1>3, OtherHost DEF cmVars, pdmVars, LetsConnectIds, Underway, Other
  <1>5. h = o => tick.packet.handshake = << >>
    BY <1>3
  <1>6. ~InHand(o) /\ ~m_self_is_connected[o]
    BY <1>1, <1>5 DEF Alone, AskInv, InHand
  <1>7. m_num_lets_connect_to_send'[o] = m_num_lets_connect_to_send[o]
    BY <1>3, <1>4, <1>5 DEF cmVars
  <1>8. AskInv(o)'
    BY <1>4, <1>6, <1>7 DEF Alone, AskInv
  <1>9. ReadInv(o)'
    <2>1. InHand(r) => m_num_lets_connect_to_send'[r] > 0
      BY <1>1, <1>3, ConnectionConstants DEF InHand
    <2>2. m_pending_acks[r] # << >> => tick.host = r
      BY DEF Alone, ReadInv
    <2> QED BY <1>1, <1>3, <1>4, <2>1, <2>2 DEF Alone, ReadInv
  <1>10. tick'.statuses = << >>
    BY <1>3
  <1> QED BY <1>4, <1>8, <1>9, <1>10, AloneFrame

LEMMA AtMostOne ==
    ASSUME NEW l \in {0, 1}, NEW n \in 0 .. l
    PROVE  /\ n = l \/ (n + 1 = 1 /\ n < l /\ l = 1)
           /\ \A i \in 1 .. n : i = 1 /\ l = 1
  <1>1. CASE l = 0
    BY <1>1
  <1>2. CASE l = 1
    BY <1>2
  <1> QED BY <1>1, <1>2

\* A single ack fits in every header.
LEMMA OneAckFits ==
    ASSUME BaseInv, NEW h \in Host, Len(m_pending_acks[h]) \in {0, 1}, NEW n, AcksFit(h, n)
    PROVE  /\ Popped(m_pending_acks[h], n) = << >>
           /\ HeaderToWrite(h, n).ack_bitmask \subseteq {0}
  <1> DEFINE acks == m_pending_acks[h]
  <1>1. acks \in Seq(PacketId) /\ Len(acks) \in {0, 1} /\ n \in 0 .. Len(acks)
    BY TypesAt DEF AcksFit
  <1>2. Len(acks) = 1 => AckOffset(h, 1) = 0
    <2>1. Len(acks) = 1 => acks[1] \in PacketId
      BY <1>1
    <2>2. IdModulus \in Nat \ {0}
      BY PacketConstants
    <2>3. \A x \in PacketId : (x - x) % IdModulus = 0
      BY <2>2, IdsAreNumbers
    <2> QED BY <2>1, <2>3 DEF AckOffset
  <1>3. n = Len(acks)
    <2>1. AckWindow \in Nat /\ AckWindow > 0
      BY PacketConstants
    <2>2. n < Len(acks) => AckOffset(h, n + 1) >= AckWindow
      BY DEF AcksFit
    <2>3. n = Len(acks) \/ (n + 1 = 1 /\ n < Len(acks) /\ Len(acks) = 1)
      BY <1>1, AtMostOne
    <2> QED BY <1>2, <2>1, <2>2, <2>3
  <1>4. HeaderToWrite(h, n).ack_bitmask = {AckOffset(h, i) : i \in 1 .. n}
    BY DEF HeaderToWrite
  <1>5. \A i \in 1 .. n : i = 1 /\ Len(acks) = 1
    BY <1>1, AtMostOne
  <1>6. Popped(acks, n) = << >>
    <2> HIDE DEF acks
    <2>1. SubSeq(acks, Len(acks) + 1, Len(acks)) = << >>
      BY <1>1
    <2> QED BY <1>3, <2>1 DEF Popped
  <1> QED BY <1>2, <1>4, <1>5, <1>6

LEMMA AloneWrite ==
    ASSUME BaseInv, NEW o \in Host, Alone(o), NoteInv(o),
           NEW h \in Host, SelfInv(h), IdsInv(h), WritePacket(h)
    PROVE  Alone(o)'
  <1> DEFINE r == Other(o)
             next == m_next_outgoing_packet_id[h]
  <1>1. PICK packet \in SentPacket, a \in 0 .. Len(m_pending_acks[h]) :
          /\ packet.header = HeaderToWrite(h, a)
          /\ AcksFit(h, a)
          /\ packet.handshake = << >> <=> m_num_lets_connect_to_send[h] = 0
          /\ Underway(Other(h))' \subseteq Underway(Other(h)) \cup {packet}
          /\ Underway(h)' = Underway(h)
          /\ m_pending_acks'[h] = Popped(m_pending_acks[h], a)
          /\ m_pending_acks'[Other(h)] = m_pending_acks[Other(h)]
          /\ CmWrite(h, next)
          /\ LetsConnectIds(Other(h))' = LetsConnectIds(Other(h))
          /\ LetsConnectIds(h)' \subseteq LetsConnectIds(h) \cup {next}
          /\ UNCHANGED <<m_is_initiator, m_self_is_connected>>
          /\ tick.host = h /\ tick.stage = "write" /\ tick' = NotTicking
    BY HandshakeWritten
  <1>2. r \in Host /\ r # o /\ h \in {o, r} /\ Other(r) = o /\ Other(o)' = Other(o)
    BY OtherHost DEF Other
  <1>3. ~InHand(o) /\ ~m_self_is_connected[o] /\ ~InHand(r)
    BY <1>1 DEF Alone, AskInv, InHand
  <1>4. LastInv(o)'
    <2>1. Told(o)' = << >> /\ Len(<< >>) = 0
      BY <1>1 DEF Told, NotTicking
    <2> QED BY <2>1 DEF LastInv
  <1>5. /\ m_in_flight_lets_connect \in [Host -> Seq(PacketId)]
        /\ m_num_lets_connect_to_send \in [Host -> Nat] /\ next \in PacketId
    BY TypesAt DEF BaseInv, CmTypeOK
  <1>6. \A id \in LetsConnectIds(o) : id \in PacketId
    BY <1>5 DEF LetsConnectIds
  <1>7. CASE h = r
    <2>1. /\ m_in_flight_lets_connect'[o] = m_in_flight_lets_connect[o]
          /\ m_num_lets_connect_to_send'[o] = m_num_lets_connect_to_send[o]
      BY <1>1, <1>2, <1>5, <1>7 DEF CmWrite
    <2>2. AskInv(o)'
      BY <1>1, <1>3, <2>1 DEF Alone, AskInv
    <2>3. Len(m_pending_acks[r]) \in {0, 1}
      <3>1. m_pending_acks[r] = << >> => Len(m_pending_acks[r]) = 0
        OBVIOUS
      <3>2. m_pending_acks[r] # << >> => Len(m_pending_acks[r]) = 1
        BY DEF Alone, ReadInv
      <3> QED BY <3>1, <3>2
    <2>4. m_pending_acks'[r] = << >> /\ packet.header.ack_bitmask \subseteq {0}
      BY <1>1, <1>7, <2>3, OneAckFits
    <2>5. ReadInv(o)'
      BY <1>2, <2>4 DEF ReadInv
    <2>6. ASSUME NEW id \in LetsConnectIds(o), StatusOf(id, packet.header) = ACK
          PROVE  packet.handshake # << >>
      <3>1. id \in PacketId
        BY <1>6
      <3>2. PICK i \in 1 .. a : id = m_pending_acks[h][i]
        BY <1>1, <2>6, <3>1, AckedIsPending
      <3>3. i = 1 /\ Len(m_pending_acks[r]) = 1
        <4>1. Len(m_pending_acks[h]) \in {0, 1} /\ a \in 0 .. Len(m_pending_acks[h])
          BY <1>7, <2>3
        <4> QED BY <1>7, <4>1, AtMostOne
      <3>4. m_pending_acks[r] # << >>
        <4>1. m_pending_acks[r] = << >> => Len(m_pending_acks[r]) = 0
          OBVIOUS
        <4> QED BY <3>3, <4>1
      <3>5. m_num_lets_connect_to_send[r] > 0
        BY <1>3, <1>7, <2>6, <3>2, <3>3, <3>4 DEF Alone, ReadInv
      <3> QED BY <1>1, <1>7, <3>5
    <2>7. ReplyInv(o)'
      BY <1>1, <1>2, <1>7, <2>4, <2>6 DEF Alone, ReplyInv
    <2> QED BY <1>4, <2>2, <2>5, <2>7 DEF Alone
  <1>8. CASE h = o
    <2>1. m_pending_acks[r] = << >>
      BY <1>1, <1>2, <1>8 DEF Alone, ReadInv
    <2>2. ReadInv(o)'
      BY <1>1, <1>2, <1>8, <2>1 DEF ReadInv
    <2>3. ReplyInv(o)'
      <3>1. ASSUME NEW p \in Underway(o), NEW id \in LetsConnectIds(o)',
                   StatusOf(id, p.header) = ACK
            PROVE  p.handshake # << >>
        <4>1. id \in PacketId
          BY <1>1, <1>5, <1>8, <1>6
        <4>2. id < next /\ id \in Nat /\ next \in Nat
          BY <1>5, <1>8, <3>1, <4>1, IdsAreNumbers DEF NoteInv
        <4>3. id \in LetsConnectIds(o)
          BY <1>1, <1>8, <4>2
        <4> QED BY <3>1, <4>3 DEF Alone, ReplyInv
      <3> QED BY <1>1, <1>8, <3>1 DEF Alone, ReplyInv
    <2>4. AskInv(o)'
      <3>1. ~(m_underflow[o] > 0)
        BY <1>3, <1>8 DEF SelfInv
      <3>2. CASE UNCHANGED <<m_num_lets_connect_to_send, m_in_flight_lets_connect>>
        BY <1>1, <1>3, <3>2 DEF Alone, AskInv
      <3>3. CASE m_in_flight_lets_connect' =
                   [m_in_flight_lets_connect EXCEPT ![o] = Append(@, next)]
        <4>1. /\ m_in_flight_lets_connect'[o] = Append(m_in_flight_lets_connect[o], next)
              /\ m_in_flight_lets_connect[o] \in Seq(PacketId)
          BY <1>5, <3>3
        <4>2. Len(m_in_flight_lets_connect'[o]) # 0 /\ Len(<< >>) = 0
          BY <1>5, <4>1
        <4>3. m_in_flight_lets_connect'[o] # << >>
          BY <4>2
        <4> QED BY <1>1, <1>3, <4>3 DEF AskInv
      <3> QED BY <1>1, <1>8, <3>1, <3>2, <3>3 DEF CmWrite
    <2> QED BY <1>4, <2>2, <2>3, <2>4 DEF Alone
  <1> QED BY <1>2, <1>7, <1>8

LEMMA AloneInit ==
    ASSUME Init, NEW o \in Host
    PROVE  Alone(o)
  <1>1. /\ m_is_initiator[o] = FALSE /\ m_self_is_connected[o] = FALSE
        /\ network[o] = << >> /\ tick = NotTicking /\ m_pending_acks[Other(o)] = << >>
    BY Owners, OtherHost DEF Init, CmInit, PdmInit
  <1>2. Told(o) = << >> /\ Len(<< >>) = 0
    BY <1>1, ToldNothing
  <1> QED BY <1>1, <1>2 DEF Alone, AskInv, ReplyInv, LastInv, ReadInv, Underway

\* A host never forgets the limits of its peer.
LEMMA PeerStaysKnown ==
    ASSUME RequestsAreValid, BaseInv, \A h \in Host : HandshakeInv(h), [Next]_vars,
           NEW g \in Host, IsPeerConnected(g)
    PROVE  IsPeerConnected(g)'
  <1>1. CASE m_peer_bandwidth_limit' = m_peer_bandwidth_limit
    BY <1>1 DEF IsPeerConnected
  <1>2. ASSUME NEW h \in Host, ReadHandshake(h) PROVE IsPeerConnected(g)'
    <2>1. tick.packet.handshake # <<"Reject">>
      BY <1>2 DEF HandshakeInv, NoteInv, Reading, ReadHandshake, InStage
    <2>2. \/ UNCHANGED cmVars
          \/ /\ IsPeerConnected(h)'
             /\ \A f \in Host \ {h} : m_peer_bandwidth_limit'[f] = m_peer_bandwidth_limit[f]
      BY <1>2, <2>1, RequestRead
    <2> QED BY <2>2 DEF IsPeerConnected, cmVars
  <1>3. CASE \/ Elapse \/ UNCHANGED vars
             \/ \E h \in Host : \/ Connect(h) \/ SendReliable(h) \/ SendUnreliable(h)
                                \/ \E i \in 1 .. Len(network[h]) : Lose(h, i)
    BY <1>1, <1>3 DEF Elapse, vars, cmVars, Connect, CmConnect, SendReliable, SendUnreliable, Lose
  <1>4. ASSUME NEW h \in Host, Tick(h) PROVE IsPeerConnected(g)'
    <2>1. CASE ProcessStatus(h)
      BY <1>1, <2>1 DEF ProcessStatus, CmIgnore, CmAck, CmDrop, cmVars
    <2>2. CASE WritePacket(h)
      BY <1>1, <2>2 DEF WritePacket, CmWrite
    <2>3. CASE Hang(h)
      BY <1>1, <2>3 DEF Hang, CmAckAfterUnderflow
    <2> QED BY <1>1, <1>2, <1>4, <2>1, <2>2, <2>3 DEF Tick, TickBegin, PopAckedMessage,
            ReadNothing, ReadFails, ReadPacket, IgnoreSegments, ReadSegments,
            ReadReliableMessage, HoldPacket, NoPeerToWriteTo, cmVars
  <1>5. Initiators \subseteq Host /\ Senders \subseteq Host
    BY NeptunConstants
  <1> QED BY <1>3, <1>4, <1>5 DEF Next

LEMMA AloneStep ==
    ASSUME ~Unordered, RequestsAreValid, BaseInv, [Next]_vars,
           \A h \in Host : IdsInv(h) /\ NetOrdered(h) /\ FateInv(h) /\ HandshakeInv(h),
           NEW o \in Host, Other(o) \notin Initiators, AnswerInv(Other(o)),
           ~IsPeerConnected(o) => Alone(o)
    PROVE  ~IsPeerConnected(o)' => Alone(o)'
  <1> SUFFICES ASSUME ~IsPeerConnected(o)' PROVE Alone(o)'
    OBVIOUS
  <1>1. ~IsPeerConnected(o) /\ Alone(o)
    BY PeerStaysKnown
  <1>2. \A h \in Host : SelfInv(h) /\ NoteInv(h) /\ IdsInv(h) /\ NetOrdered(h) /\ FateInv(h)
    BY DEF HandshakeInv
  <1>3. Other(o) \in Host /\ ~m_is_initiator[Other(o)] /\ Senders \subseteq Host
    BY OtherHost, NeptunConstants DEF AnswerInv
  <1>4. CASE \/ Elapse \/ UNCHANGED vars
             \/ \E h \in Initiators : Connect(h)
             \/ \E h \in Host : \/ SendReliable(h) \/ SendUnreliable(h)
                                \/ \E i \in 1 .. Len(network[h]) : Lose(h, i)
    BY <1>1, <1>4, AloneQuiet
  <1>5. ASSUME NEW h \in Host, Tick(h) PROVE Alone(o)'
    <2>1. CASE \/ ReadNothing(h) \/ ReadFails(h) \/ IgnoreSegments(h) \/ ReadSegments(h)
               \/ HoldPacket(h) \/ NoPeerToWriteTo(h)
      BY <1>1, <1>2, <1>3, <2>1, AloneStage
    <2>2. CASE TickBegin(h) \/ ProcessStatus(h) \/ Hang(h)
      BY <1>1, <1>2, <2>2, AloneTickBegin, AloneProcessStatus, AloneHang
    <2>3. CASE \E i \in 1 .. Len(network[h]) : ReadPacket(h, i)
      BY <1>1, <1>2, <1>3, <2>3, AloneReadPacket
    <2>4. CASE ReadHandshake(h) \/ WritePacket(h)
      BY <1>1, <1>2, <1>3, <2>4, AloneReadHandshake, AloneWrite
    <2>5. CASE PopAckedMessage(h) \/ ReadReliableMessage(h)
      BY <1>1, <2>5, AloneQuiet
    <2> QED BY <1>5, <2>1, <2>2, <2>3, <2>4, <2>5 DEF Tick
  <1> QED BY <1>3, <1>4, <1>5 DEF Next

\* HandshakeNotStuck, over a network that loses and delays packets but keeps their
\* order, if only one application calls connect and no request is refused.  The other
\* host answers in the packet that acknowledges the request, so the one that asked
\* cannot hear of the ACK without the answer.  If both call connect, neither answers,
\* and a LetsConnect that is lost is not sent again by a host that has its peer's.
THEOREM HandshakeGoesOn ==
    ASSUME ~Unordered, RequestsAreValid, Initiators # Host
    PROVE  Spec => []HandshakeNotStuck
  <1>1. PICK o \in Host : Other(o) \notin Initiators
    BY NeptunConstants, OtherHost
  <1> DEFINE r == Other(o)
             Numbered == \A h \in Host : IdsInv(h)
             Ordered == \A h \in Host : NetOrdered(h)
             Fates == \A h \in Host : FateInv(h)
             Known == \A h \in Host : HandshakeInv(h)
             Waits == \A h \in Host : WaitInv(h)
             Answers == AnswerInv(r)
             Asks == ~IsPeerConnected(o) => Alone(o)
  <1>2. r \in Host /\ r # o /\ Other(r) = o /\ \A h \in Host : h \in {o, r}
    BY OtherHost
  <1>3. Init => Ordered /\ Fates /\ Known /\ Waits /\ Answers /\ Asks
    BY <1>2, NetInit, FateInit, HandshakeInit, WaitInit, AnswerInit, AloneInit
  <1>4. BaseInv /\ Numbered /\ Ordered /\ [Next]_vars => Ordered'
    BY NetStep
  <1>5. BaseInv /\ Numbered /\ Ordered /\ Fates /\ [Next]_vars => Fates'
    BY FateStep
  <1>6. BaseInv /\ Numbered /\ Known /\ [Next]_vars => Known'
    BY HandshakeStep
  <1>7. BaseInv /\ Numbered /\ Ordered /\ Fates /\ Known /\ Waits /\ [Next]_vars => Waits'
    BY WaitStep DEF HandshakeInv
  <1>8. BaseInv /\ Numbered /\ Known /\ Answers /\ [Next]_vars => Answers'
    BY <1>1, <1>2, AnswerStep
  <1>9. BaseInv /\ Numbered /\ Ordered /\ Fates /\ Known /\ Answers /\ Asks /\ [Next]_vars => Asks'
    BY <1>1, AloneStep
  <1>10. BaseInv /\ Waits /\ Answers /\ Asks => HandshakeNotStuck
    <2> SUFFICES ASSUME BaseInv, Waits, Answers, Asks, NEW h \in Host, m_is_initiator[h]
                 PROVE  \/ \A f \in Host : IsPeerConnected(f)
                        \/ \E f \in Host : LetsConnectAlive(f)
                        \/ LetsConnectInHand
      BY DEF HandshakeNotStuck
    <2>1. m_is_initiator[o]
      BY <1>2 DEF AnswerInv
    <2>2. CASE IsPeerConnected(o)
      BY <1>2, <2>2 DEF AnswerInv
    <2>3. CASE ~IsPeerConnected(o) /\ m_self_is_connected[o]
      BY <2>3 DEF Alone, AskInv, InHand, LetsConnectInHand
    <2>4. CASE ~IsPeerConnected(o) /\ ~m_self_is_connected[o]
      <3> DEFINE queue == m_in_flight_lets_connect[o]
      <3>1. m_num_lets_connect_to_send[o] > 0 \/ queue # << >>
        BY <2>1, <2>4 DEF Alone, AskInv
      <3>2. queue # << >> => Head(queue) \in Expected(o)
        <4>1. queue \in Seq(PacketId)
          BY TypesAt
        <4>2. queue # << >> => 1 \in 1 .. Len(queue) /\ Head(queue) = queue[1]
          BY <4>1
        <4>3. LetsConnectIds(o) \subseteq Expected(o)
          BY <2>4 DEF WaitInv
        <4> QED BY <4>2, <4>3 DEF LetsConnectIds
      <3>3. Head(queue) \in Ids(Told(o)) =>
              tick.host = o /\ \E i \in 1 .. Len(tick.statuses) : tick.statuses[i].id = Head(queue)
        <4>1. Len(<< >>) = 0
          OBVIOUS
        <4> QED BY <4>1 DEF Ids, Told
      <3> QED BY <3>1, <3>2, <3>3 DEF LetsConnectAlive, Expected, Ids
    <2> QED BY <2>2, <2>3, <2>4
  <1>11. Spec => [](BaseInv /\ Numbered)
    BY IdsHold
  <1> HIDE DEF Numbered, Ordered, Fates, Known, Waits, Answers, Asks
  <1> QED BY <1>3, <1>4, <1>5, <1>6, <1>7, <1>8, <1>9, <1>10, <1>11, PTL DEF Spec
=============================================================================
