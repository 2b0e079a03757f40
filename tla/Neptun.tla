------------------------------- MODULE Neptun -------------------------------
(***************************************************************************)
(* Two Neptun objects joined by UDP (neptun/neptun.h): Neptun::tick drives  *)
(* the packet delivery manager, the connection manager and both streams.    *)
(*                                                                          *)
(* tick runs in steps: statuses of old packets, one packet read in stages,  *)
(* one packet written.  The hosts share nothing but the network, which      *)
(* delays packets for as long as it likes, so one host's tick may be taken  *)
(* as running while the other host waits.                                   *)
(***************************************************************************)
EXTENDS PacketDeliveryManager, ConnectionManager, ReliableStream, UnreliableStream

CONSTANTS
    A, B,               \* the two hosts
    Initiators,         \* the hosts whose application calls connect
    Senders,            \* the hosts whose application sends messages
    Unordered,          \* TRUE: the network also reorders and duplicates
    RateLimited,        \* TRUE: the hosts agreed on a packet rate
    PacketRoom,         \* bytes of a packet behind its header
    MaxReliable,        \* bound: reliable messages each application sends
    MaxUnreliable,      \* bound: unreliable messages each application sends
    MaxPackets,         \* bound: packets that a host sends, per host
    MaxTime             \* bound: the clock stops here

ASSUME NeptunConstants ==
    /\ A # B
    /\ Host = {A, B} /\ Managers = Host /\ Peers = Host /\ UPeers = Host
    /\ Initiators \subseteq Host /\ Senders \subseteq Host
    /\ {Unordered, RateLimited} \subseteq BOOLEAN
    /\ {PacketRoom, MaxReliable, MaxUnreliable, MaxTime} \subseteq Nat
    /\ MaxPackets \in [Host -> 0 .. IdModulus - 1]
    /\ PacketRoom > LetsConnectBytes

VARIABLES
    now,            \* the clock
    network,        \* packets on their way to a host
    has_peer,       \* the host has an entry for the other one in m_peers
    tick,           \* which host is in tick, and where
    m_network_buffer,   \* the segments in the buffer for reading and writing
    submitted,      \* how many reliable messages each application has sent
    delivered,      \* payloads of the reliable messages it has got
    usubmitted,     \* the same for unreliable messages
    udelivered

historyVars == <<submitted, delivered, usubmitted, udelivered>>
vars == <<pdmVars, cmVars, streamVars, unreliableVars, now, network, has_peer,
          tick, m_network_buffer, historyVars>>

Other(h) == IF h = A THEN B ELSE A

NoPacket == << >>
NotTicking == [host |-> "none", stage |-> "none", statuses |-> << >>, packet |-> NoPacket]

\* What the streams find in a packet, or in what is left of one in the buffer.
NoUnreliable == [message_count |-> 0, messages |-> << >>]
NoSegments == [reliable |-> << >>, unreliable |-> NoUnreliable]

\* Where a packet has its segments, in bytes behind its header: the handshake comes
\* first, and every message has one byte.
ReliableLength(messages) ==
    IF messages = << >> THEN 0 ELSE SegmentSize + Len(messages) * (MessageOverhead + 1)
UnreliableLength(segment) ==
    IF segment.messages = << >> THEN 0
    ELSE USegmentSize + Len(segment.messages) * (UMessageOverhead + 1)
ReliablePlace(packet) == HandshakeBytes(packet.handshake)
UnreliablePlace(packet) == ReliablePlace(packet) + ReliableLength(packet.reliable)
PacketEnd(packet) == UnreliablePlace(packet) + UnreliableLength(packet.unreliable)

\* m_network_buffer keeps what the host read or wrote there before, behind the end
\* of the packet that it reads or writes now.  Only what lies at LetsConnectBytes
\* or behind it is ever read as a left-over; of that, the model has the segments,
\* each at the place where it begins.  (Inside a segment there is no byte that a
\* stream takes for the type of a segment: payloads and limits that look like one
\* are left out.)
Place == LetsConnectBytes .. PacketRoom

\* The buffer when the bytes of packet, up to the place end, are in it.
Overwritten(buffer, packet, end) ==
    [at \in Place |->
        IF at >= end THEN buffer[at]
        ELSE [reliable |-> IF at = ReliablePlace(packet) THEN packet.reliable ELSE << >>,
              unreliable |-> IF at = UnreliablePlace(packet) THEN packet.unreliable
                             ELSE NoUnreliable]]

\* LetsConnect::write writes a byte more than it counts.
WrittenEnd(packet) ==
    IF PacketEnd(packet) = LetsConnectBytes /\ ReliablePlace(packet) = LetsConnectBytes
    THEN LetsConnectBytes + 1 ELSE PacketEnd(packet)

\* stage is what is done next: the statuses of drop_old_packets ("old"), those of
\* the packet that was read ("acks"), its reliable and unreliable segments
\* ("segments"), the packet to write ("write").
InStage(h, stage) == tick.host = h /\ tick.stage = stage
Goto(stage) == tick' = [tick EXCEPT !.stage = stage]

\* process_delivery_statuses has come to its end.
StatusesDone(h) == tick.statuses = << >> /\ call[h].op = "none"

Init ==
    /\ PdmInit /\ CmInit /\ StreamInit /\ UnreliableInit
    /\ now = 0
    /\ network = [h \in Host |-> << >>]
    /\ has_peer = [h \in Host |-> FALSE]
    /\ tick = NotTicking
    /\ m_network_buffer = [h \in Host |-> [at \in Place |-> NoSegments]]
    /\ submitted = [h \in Host |-> 0]
    /\ delivered = [h \in Host |-> << >>]
    /\ usubmitted = [h \in Host |-> 0]
    /\ udelivered = [h \in Host |-> << >>]

-----------------------------------------------------------------------------
(* The application and the environment, between ticks.                       *)

Connect(h) ==
    /\ tick = NotTicking
    /\ ~m_is_initiator[h]
    /\ CmConnect(h)
    /\ has_peer' = [has_peer EXCEPT ![h] = TRUE]
    /\ UNCHANGED <<pdmVars, streamVars, unreliableVars, now, network, tick,
                   historyVars, m_network_buffer>>

\* The application sends only if is_connected, which send_reliable_to and
\* send_unreliable_to assert.
SendReliable(h) ==
    /\ tick = NotTicking
    /\ IsPeerConnected(h)
    /\ submitted[h] < MaxReliable
    /\ StreamSend(h, 1, submitted[h] + 1)
    /\ submitted' = [submitted EXCEPT ![h] = @ + 1]
    /\ UNCHANGED <<pdmVars, cmVars, unreliableVars, now, network, has_peer, tick,
                   delivered, usubmitted, udelivered, m_network_buffer>>

SendUnreliable(h) ==
    /\ tick = NotTicking
    /\ IsPeerConnected(h)
    /\ usubmitted[h] < MaxUnreliable
    /\ UnreliableSend(h, 1, usubmitted[h] + 1)
    /\ usubmitted' = [usubmitted EXCEPT ![h] = @ + 1]
    /\ UNCHANGED <<pdmVars, cmVars, streamVars, now, network, has_peer, tick,
                   submitted, delivered, udelivered, m_network_buffer>>

Elapse ==
    /\ tick = NotTicking
    /\ now < MaxTime
    /\ now' = now + 1
    /\ UNCHANGED <<pdmVars, cmVars, streamVars, unreliableVars, network, has_peer,
                   tick, historyVars, m_network_buffer>>

\* An unordered network loses a packet by never having it read.
Lose(h, i) ==
    /\ tick = NotTicking
    /\ ~Unordered
    /\ network' = [network EXCEPT ![h] = RemoveAt(@, i)]
    /\ UNCHANGED <<pdmVars, cmVars, streamVars, unreliableVars, now, has_peer, tick,
                   historyVars, m_network_buffer>>

-----------------------------------------------------------------------------
(* tick: statuses.                                                           *)

TickBegin(h) ==
    /\ tick = NotTicking
    /\ ~m_hangs[h]
    /\ m_next_outgoing_packet_id[h] < MaxPackets[h]
    /\ has_peer[h] \/ network[h] # << >>
    /\ \E n \in 0 .. Len(m_in_flight_packets[h]) :
         /\ DropOldPackets(h, now, n)
         /\ tick' = [host |-> h, stage |-> "old", statuses |-> DropStatuses(h, n),
                     packet |-> NoPacket]
    /\ UNCHANGED <<cmVars, streamVars, unreliableVars, now, network, has_peer,
                   historyVars, m_network_buffer>>

\* The connection manager, then the reliable stream, is told the next status.
ProcessStatus(h) ==
    LET id == Head(tick.statuses).id
        status == Head(tick.statuses).status
    IN
    /\ tick.host = h
    /\ tick.statuses # << >> /\ call[h].op = "none"
    /\ \/ CmIgnore(h, id)
       \/ status = ACK /\ CmAck(h, id)
       \/ status = DROP /\ CmDrop(h, id)
    /\ \/ status = ACK /\ StreamAck(h, id)
       \/ status = DROP /\ StreamDrop(h, id)
    /\ tick' = [tick EXCEPT !.statuses = Tail(@)]
    /\ UNCHANGED <<pdmVars, unreliableVars, now, network, has_peer, historyVars,
                   m_network_buffer>>

PopAckedMessage(h) ==
    /\ tick.host = h
    /\ PopAcked(h)
    /\ UNCHANGED <<pdmVars, cmVars, unreliableVars, now, network, has_peer, tick,
                   historyVars, m_network_buffer>>

\* The connection manager does not return; the host never ticks again.
Hang(h) ==
    /\ tick.host = h
    /\ tick.statuses # << >> /\ call[h].op = "none"
    /\ Head(tick.statuses).status = ACK
    /\ CmAckAfterUnderflow(h)
    /\ tick' = NotTicking
    /\ UNCHANGED <<pdmVars, streamVars, unreliableVars, now, network, has_peer,
                   historyVars, m_network_buffer>>

-----------------------------------------------------------------------------
(* tick: read.                                                               *)

ReadNothing(h) ==
    /\ InStage(h, "old") /\ StatusesDone(h)
    /\ Goto("write")
    /\ UNCHANGED <<pdmVars, cmVars, streamVars, unreliableVars, now, network, has_peer,
                   historyVars, m_network_buffer>>

\* recvfrom fails, and its exception leaves tick before anything is written.  The
\* application goes on with the next tick.
ReadFails(h) ==
    /\ InStage(h, "old") /\ StatusesDone(h)
    /\ tick' = NotTicking
    /\ UNCHANGED <<pdmVars, cmVars, streamVars, unreliableVars, now, network, has_peer,
                   historyVars, m_network_buffer>>

\* Mutant: the statuses of an accepted packet are not handed on.
StatusesToProcess_None(h, header, n) == << >>

\* process_delivery_statuses is reached only if the packet is accepted: read
\* returns before it if read_count is 0.
StatusesToProcess(h, header, n) ==
    IF Accepts(h, header) THEN ReadStatuses(h, header, n) ELSE << >>

ReadPacket(h, i) ==
    LET packet == network[h][i] IN
    /\ InStage(h, "old") /\ StatusesDone(h)
    /\ Unordered \/ i = 1
    /\ network' = IF Unordered THEN network
                  ELSE [network EXCEPT ![h] = RemoveAt(@, i)]
    /\ has_peer' = [has_peer EXCEPT ![h] = TRUE]
    /\ \E n \in 0 .. Len(m_in_flight_packets[h]) :
         /\ ProcessRead(h, packet.header, n)
         /\ tick' = [tick EXCEPT
              !.stage = IF Accepts(h, packet.header) THEN "acks" ELSE "write",
              !.statuses = StatusesToProcess(h, packet.header, n),
              !.packet = IF Accepts(h, packet.header) THEN packet ELSE NoPacket]
    /\ m_network_buffer' = [m_network_buffer EXCEPT
         ![h] = Overwritten(@, packet, PacketEnd(packet))]
    /\ UNCHANGED <<cmVars, streamVars, unreliableVars, now, historyVars>>

\* The connection manager stage.
ReadHandshake(h) ==
    /\ InStage(h, "acks") /\ StatusesDone(h)
    /\ \/ tick.packet.handshake = << >> /\ UNCHANGED cmVars
       \/ /\ tick.packet.handshake # << >>
          /\ \E size \in Decodings(tick.packet.handshake) : CmReadLetsConnect(h, size)
    /\ Goto("segments")
    /\ UNCHANGED <<pdmVars, streamVars, unreliableVars, now, network, has_peer,
                   historyVars, m_network_buffer>>

\* The streams read their segments only if the connection is established.
ReadsSegments(h) == IsPeerConnected(h)

\* What the streams find behind the end of the packet: advance has wrapped its span
\* to one from LetsConnectBytes on that does not end with the packet.
LeftOvers(buffer) ==
    LET first == buffer[LetsConnectBytes]
        next == LetsConnectBytes + ReliableLength(first.reliable)
    IN [reliable |-> first.reliable,
        unreliable |-> IF next \in Place THEN buffer[next].unreliable ELSE NoUnreliable]

\* The connection manager has read LetsConnectBytes, also of a Reject, which has
\* only RejectBytes.  Behind a Reject the streams are then in the middle of a
\* segment, where they find nothing, or outside of the packet.
SegmentsRead(h) ==
    LET packet == tick.packet IN
    IF packet.handshake # <<"Reject">>
    THEN [reliable |-> packet.reliable, unreliable |-> packet.unreliable]
    ELSE IF PacketEnd(packet) >= LetsConnectBytes THEN NoSegments
    ELSE LeftOvers(m_network_buffer[h])

IgnoreSegments(h) ==
    /\ InStage(h, "segments") /\ call[h].op = "none"
    /\ ~ReadsSegments(h)
    /\ tick' = [tick EXCEPT !.stage = "write", !.packet = NoPacket]
    /\ UNCHANGED <<pdmVars, cmVars, streamVars, unreliableVars, now, network, has_peer,
                   historyVars, m_network_buffer>>

\* The reliable stream stage, up to the loop over its messages; the unreliable
\* stream stage, which shares no state with it, is taken in the same step.
ReadSegments(h) ==
    /\ InStage(h, "segments") /\ call[h].op = "none"
    /\ ReadsSegments(h)
    /\ StreamRead(h, tick.packet.header.id, SegmentsRead(h).reliable)
    /\ udelivered' = [udelivered EXCEPT ![h] = @ \o UnreliableRead(SegmentsRead(h).unreliable)]
    /\ tick' = [tick EXCEPT !.stage = "write", !.packet = NoPacket]
    /\ UNCHANGED <<pdmVars, cmVars, unreliableVars, now, network, has_peer, submitted,
                   delivered, usubmitted, m_network_buffer>>

ReadReliableMessage(h) ==
    /\ tick.host = h
    /\ ReadMessage(h)
    /\ delivered' = [delivered EXCEPT
         ![h] = IF IsNext(h, Head(call[h].messages))
                THEN Append(@, Head(call[h].messages).payload) ELSE @]
    /\ UNCHANGED <<pdmVars, cmVars, unreliableVars, now, network, has_peer, tick,
                   submitted, usubmitted, udelivered, m_network_buffer>>

-----------------------------------------------------------------------------
(* tick: write.                                                              *)

\* Bytes that the connection manager leaves to the streams.
StreamRoom(h) == PacketRoom - HandshakeBytes(HandshakeToWrite(h))

\* Bytes that the reliable stream's segment takes with n messages.
ReliableBytes(h, n) == IF n = 0 THEN 0 ELSE SegmentBytes(SubSeq(pending_messages[h], 1, n))

\* The packet leaves or, if sendto fails, does not; the exception then leaves tick
\* when every stage has already counted the packet as sent.
SendTo(h, packet) ==
    \/ network' = [network EXCEPT ![h] = Append(@, packet)]
    \/ UNCHANGED network

WritePacket(h) ==
    /\ InStage(h, "write") /\ call[h].op = "none"
    /\ has_peer[h]
    /\ \E a \in 0 .. Len(m_pending_acks[h]),
          r \in 0 .. Len(pending_messages[h]),
          u \in 0 .. Len(m_pending_messages[h]) :
         /\ PdmWrite(h, now, a)
         /\ CmWrite(h, m_next_outgoing_packet_id[h])
         /\ StreamWrite(h, m_next_outgoing_packet_id[h], StreamRoom(h), r)
         /\ UnreliableWrite(h, StreamRoom(h) - ReliableBytes(h, r), u)
         /\ LET packet == [header |-> HeaderToWrite(h, a), handshake |-> HandshakeToWrite(h),
                           reliable |-> SegmentToWrite(h, r),
                           unreliable |-> USegmentToWrite(h, u)]
            IN /\ SendTo(Other(h), packet)
               /\ m_network_buffer' = [m_network_buffer EXCEPT
                    ![h] = Overwritten(@, packet, WrittenEnd(packet))]
    /\ tick' = NotTicking
    /\ UNCHANGED <<now, has_peer, historyVars>>

\* The ticker holds the packet back; until both ends are connected it is not
\* asked.
HoldPacket(h) ==
    /\ InStage(h, "write") /\ call[h].op = "none"
    /\ RateLimited /\ IsFullyConnected(h)
    /\ tick' = NotTicking
    /\ UNCHANGED <<pdmVars, cmVars, streamVars, unreliableVars, now, network, has_peer,
                   historyVars, m_network_buffer>>

\* m_peers is empty.
NoPeerToWriteTo(h) ==
    /\ InStage(h, "write") /\ ~has_peer[h]
    /\ tick' = NotTicking
    /\ UNCHANGED <<pdmVars, cmVars, streamVars, unreliableVars, now, network, has_peer,
                   historyVars, m_network_buffer>>

Tick(h) ==
    \/ TickBegin(h)
    \/ ProcessStatus(h)
    \/ PopAckedMessage(h)
    \/ Hang(h)
    \/ ReadNothing(h)
    \/ ReadFails(h)
    \/ \E i \in 1 .. Len(network[h]) : ReadPacket(h, i)
    \/ ReadHandshake(h)
    \/ IgnoreSegments(h)
    \/ ReadSegments(h)
    \/ ReadReliableMessage(h)
    \/ WritePacket(h)
    \/ HoldPacket(h)
    \/ NoPeerToWriteTo(h)

Next ==
    \/ Elapse
    \/ \E h \in Initiators : Connect(h)
    \/ \E h \in Senders : SendReliable(h) \/ SendUnreliable(h)
    \/ \E h \in Host :
         \/ \E i \in 1 .. Len(network[h]) : Lose(h, i)
         \/ Tick(h)

Spec == Init /\ [][Next]_vars
-----------------------------------------------------------------------------
Limit == {NoLimit} \cup PacketSize
Handshake == {<< >>, <<"Reject">>} \cup {<<"LetsConnect", MaxReadPacketSize[h]>> : h \in Host}
Message == [begin : 0 .. Capacity, end : 0 .. Capacity,
            sequence_number : 0 .. SequenceModulus - 1]
SegmentMessage == [sequence_number : 0 .. SequenceModulus - 1, payload : Seq(Nat)]
USegment == [message_count : 0 .. CountModulus - 1, messages : Seq(Seq(Nat))]
Packet == [header : PacketHeader, handshake : Handshake, reliable : Seq(SegmentMessage),
           unreliable : USegment]
Segments == [reliable : Seq(SegmentMessage), unreliable : USegment]
Buffer == [m_begin : 0 .. Capacity, m_end : 0 .. Capacity,
           m_buffer : [1 .. Capacity -> Nat]]

\* Every member of the objects of a peer has its type.
TypeOK ==
    /\ PdmTypeOK
    /\ m_in_flight_lets_connect \in [Host -> Seq(PacketId)]
    /\ m_underflow \in [Host -> Nat]
    /\ m_num_lets_connect_to_send \in [Host -> Nat]
    /\ {is_fail, m_is_initiator, m_self_is_connected, m_hangs, has_peer}
         \subseteq [Host -> BOOLEAN]
    /\ m_peer_bandwidth_limit \in [Host -> Limit]
    /\ m_buffer \in [Host -> Buffer] /\ m_unreliable_buffer \in [Host -> Buffer]
    /\ in_flight_messages \in [Host -> Seq([packet_id : PacketId, message : Message])]
    /\ pending_messages \in [Host -> Seq(Message)]
    /\ m_next_outgoing_sequence_number \in [Host -> 0 .. SequenceModulus - 1]
    /\ m_next_expected_sequence_number \in [Host -> 0 .. SequenceModulus - 1]
    /\ m_pending_messages \in [Host -> Seq([begin : 0 .. Capacity, end : 0 .. Capacity])]
    /\ call \in [Host -> [op : {"none", "ack", "read"}, id : PacketId,
                          messages : Seq(SegmentMessage)]]
    /\ now \in 0 .. MaxTime
    /\ network \in [Host -> Seq(Packet)]
    /\ m_network_buffer \in [Host -> [Place -> Segments]]
    /\ tick.host \in Host \cup {"none"}
    /\ tick.stage \in {"none", "old", "acks", "segments", "write"}
    /\ tick.statuses \in Seq(DeliveryStatus)
    /\ tick.packet \in Packet \cup {NoPacket}
    /\ submitted \in [Host -> 0 .. MaxReliable] /\ usubmitted \in [Host -> 0 .. MaxUnreliable]
    /\ delivered \in [Host -> Seq(Seq(Nat))] /\ udelivered \in [Host -> Seq(Seq(Nat))]

\* The assertions of ReliableStream::on_packet_delivery_status
\* (reliable_stream.h:67 and :71): no status comes for a packet while messages of
\* an older one are in flight.  It takes every status of every older packet to
\* have reached the stream.
StatusAssertionsHold ==
    \A h \in Host :
        in_flight_messages[h] # << >> =>
            LET front == Head(in_flight_messages[h]).packet_id IN
            IF call[h].op = "ack" THEN front >= call[h].id
            ELSE tick.host = h /\ tick.statuses # << >> => front >= Head(tick.statuses).id

\* The reliable messages arrive once, in order and unchanged, whatever the
\* handshake, lost packets and spurious drops do to the packets they are in.
DeliveredInOrder ==
    \A h \in Host :
        /\ Len(delivered[h]) <= submitted[Other(h)]
        /\ \A m \in 1 .. Len(delivered[h]) : delivered[h][m] = <<m>>

\* The unreliable messages that arrive are whole, come at most once and in the
\* order they were sent, even if the network reorders or duplicates packets.
UnreliableInOrder ==
    \A h \in Host :
        /\ \A i \in 1 .. Len(udelivered[h]) :
             udelivered[h][i] \in {<<m>> : m \in 1 .. usubmitted[Other(h)]}
        /\ \A i, j \in 1 .. Len(udelivered[h]) :
             i < j => udelivered[h][i][1] < udelivered[h][j][1]

\* The reliable messages of h that were given up as delivered.
Consumed(h) == submitted[h] - Len(in_flight_messages[h]) - Len(pending_messages[h])

\* connection_manager.h:44 and :68: no stream message travels before the
\* handshake is complete.  If that were so, a message would be given up only
\* after the other application got it.
ConsumedWasDelivered == \A h \in Host : Consumed(h) <= Len(delivered[Other(h)])

\* A host that takes its own LetsConnect for received is right: the other end has
\* its limits.
SelfConnectedIsKnown ==
    \A h \in Host : m_self_is_connected[h] => IsPeerConnected(Other(h))

\* Host h is still to send a LetsConnect, or has one in flight and will be told
\* its fate.
LetsConnectAlive(h) ==
    \/ m_num_lets_connect_to_send[h] > 0
    \/ /\ m_in_flight_lets_connect[h] # << >>
       /\ \/ \E i \in 1 .. Len(m_in_flight_packets[h]) :
               m_in_flight_packets[h][i].id = Head(m_in_flight_lets_connect[h])
          \/ /\ tick.host = h
             /\ \E i \in 1 .. Len(tick.statuses) :
                  tick.statuses[i].id = Head(m_in_flight_lets_connect[h])

\* A LetsConnect is about to be handed to the connection manager.
LetsConnectInHand ==
    tick.stage = "acks" /\ tick.packet.handshake # << >>

\* connection_manager.h:84: once an application has called connect, the handshake
\* is either complete or some host still sends LetsConnect or waits for the fate
\* of one; losing packets never leaves the hosts waiting for each other.
HandshakeNotStuck ==
    (\E h \in Host : m_is_initiator[h]) =>
        \/ \A h \in Host : IsPeerConnected(h)
        \/ \E h \in Host : LetsConnectAlive(h)
        \/ LetsConnectInHand
=============================================================================
