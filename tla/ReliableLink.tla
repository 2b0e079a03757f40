---------------------------- MODULE ReliableLink ----------------------------
(***************************************************************************)
(* Two reliable streams over any packet delivery that keeps the contract of *)
(* DeliveryNotification: packets are lost, arrive late and are reported     *)
(* dropped although they arrived, but fates come once, in order, and an ACK *)
(* is true.  PacketLinkProofs proves that the packet delivery managers keep *)
(* this contract.                                                           *)
(*                                                                          *)
(* A contract step that reports several fates is taken as one step per      *)
(* fate, the way process_delivery_statuses hands them to the stream.        *)
(***************************************************************************)
EXTENDS DeliveryNotification, ReliableStream

CONSTANTS
    Senders,        \* the ends whose application sends messages
    PacketRoom,     \* bytes a packet has for the stream's segment
    MaxSize,        \* bound: bytes of a payload
    MaxMessages,    \* bound: messages each application sends
    MaxEmpty,       \* bound: packets without a message each end sends
    MaxLost         \* bound: packets of each end that are lost or given up

ASSUME ReliableLinkConstants ==
    /\ Peers = Ends
    /\ Senders \subseteq Ends
    /\ {PacketRoom, MaxSize, MaxMessages, MaxEmpty, MaxLost} \subseteq Nat

VARIABLES
    packets,        \* the segments in the packets each end has sent
    submitted,      \* sizes of the messages each application has sent
    delivered       \* payloads each application has got

vars == <<contractVars, streamVars, packets, submitted, delivered>>

Init ==
    /\ ContractInit
    /\ StreamInit
    /\ packets = [h \in Ends |-> << >>]
    /\ submitted = [h \in Ends |-> << >>]
    /\ delivered = [h \in Ends |-> << >>]

\* An operation of the stream runs to its end before the next one begins.
Idle(h) == call[h].op = "none"

Send(h, size) ==
    /\ Idle(h)
    /\ size = 0 \/ Len(submitted[h]) < MaxMessages
    /\ StreamSend(h, size, Len(submitted[h]) + 1)
    /\ submitted' = [submitted EXCEPT ![h] = IF size = 0 THEN @ ELSE Append(@, size)]
    /\ UNCHANGED <<contractVars, packets, delivered>>

\* The packets of h without a message.
Empty(h) == {k \in 1 .. sent[h] : packets[h][k] = << >>}

WritePacket(h) ==
    /\ Idle(h)
    /\ pending_messages[h] # << >> \/ Cardinality(Empty(h)) < MaxEmpty
    /\ SendPacket(h)
    /\ \E n \in 0 .. Len(pending_messages[h]) :
         /\ StreamWrite(h, sent[h] + 1, PacketRoom, n)
         /\ packets' = [packets EXCEPT ![h] = Append(@, SegmentToWrite(h, n))]
    /\ UNCHANGED <<submitted, delivered>>

\* The packets of h that were reported dropped, or that the other end never will
\* accept after packet k.  Each of them costs a retransmission.
Lost(h, k) ==
    {j \in 1 .. Len(reported[h]) : reported[h][j] = "DROP"}
      \cup (1 .. (k - 1) \ accepted[h])

LastAccepted(h) == IF accepted[h] = {} THEN 0 ELSE Max(accepted[h])

ReceivePacket(h, k) ==
    /\ Idle(h)
    /\ Cardinality(Lost(Other(h), k)) <= MaxLost
    /\ Accept(h, << >>, k)
    /\ StreamRead(h, k, packets[Other(h)][k])
    /\ UNCHANGED <<packets, submitted, delivered>>

ReceiveMessage(h) ==
    /\ ReadMessage(h)
    /\ delivered' = [delivered EXCEPT
         ![h] = IF IsNext(h, Head(call[h].messages))
                THEN Append(@, Head(call[h].messages).payload) ELSE @]
    /\ UNCHANGED <<contractVars, packets, submitted>>

\* The other end acknowledges a packet in a header that it writes after it has
\* read the packet to its end.
Acked(h) ==
    /\ Idle(h)
    /\ ~(call[Other(h)].op = "read" /\ call[Other(h)].id = Len(reported[h]) + 1)
    /\ Notify(h, <<"ACK">>)
    /\ StreamAck(h, Len(reported[h]) + 1)
    /\ UNCHANGED <<packets, submitted, delivered>>

PopAckedMessage(h) ==
    /\ PopAcked(h)
    /\ UNCHANGED <<contractVars, packets, submitted, delivered>>

Dropped(h) ==
    /\ Idle(h)
    /\ Cardinality(Lost(h, LastAccepted(h)) \cup {Len(reported[h]) + 1}) <= MaxLost
    /\ Notify(h, <<"DROP">>)
    /\ StreamDrop(h, Len(reported[h]) + 1)
    /\ UNCHANGED <<packets, submitted, delivered>>

Next ==
    \/ \E h \in Senders :
         \/ \E size \in 0 .. MaxSize : Send(h, size)
         \/ WritePacket(h)
         \/ Acked(h)
         \/ PopAckedMessage(h)
         \/ Dropped(h)
    \/ \E h \in Ends :
         \/ \E k \in 1 .. sent[Other(h)] : ReceivePacket(h, k)
         \/ ReceiveMessage(h)

Spec == Init /\ [][Next]_vars

\* tick writes a packet, reads one and reports the fates of packets each time it
\* runs (PacketLink!EveryFateReported: a fate always comes), and a loop of the
\* stream runs to its end.  Of the network it is assumed that it does not lose
\* packets for ever: what is still sent after MaxLost losses arrives.  The
\* application owes nothing.
FairSpec ==
    /\ Spec
    /\ \A h \in Senders :
         /\ WF_vars(pending_messages[h] # << >> /\ WritePacket(h))
         /\ WF_vars(Acked(h) \/ Dropped(h))
         /\ WF_vars(PopAckedMessage(h))
    /\ \A h \in Ends :
         /\ WF_vars(\E k \in 1 .. sent[Other(h)] : ReceivePacket(h, k))
         /\ WF_vars(ReceiveMessage(h))

-----------------------------------------------------------------------------
Message == [begin : Nat, end : Nat, sequence_number : 0 .. SequenceModulus - 1]
InFlightMessage == [packet_id : Nat, message : Message]
SegmentMessage == [sequence_number : 0 .. SequenceModulus - 1, payload : Seq(Nat)]
Call == [op : {"none", "ack", "read"}, id : Nat, messages : Seq(SegmentMessage)]
Buffer == [m_begin : 0 .. Capacity, m_end : 0 .. Capacity,
           m_buffer : [1 .. Capacity -> Nat]]

\* Every member has its type: in particular the indices of the buffer and the
\* ranges of the messages are never negative (BufferRange::operator-= asserts
\* it) nor beyond the capacity (FlipBuffer::advance asserts it).
TypeOK ==
    /\ sent \in [Ends -> Nat]
    /\ accepted \in [Ends -> SUBSET (Nat \ {0})]
    /\ reported \in [Ends -> Seq(Fate)]
    /\ m_buffer \in [Ends -> Buffer]
    /\ in_flight_messages \in [Ends -> Seq(InFlightMessage)]
    /\ pending_messages \in [Ends -> Seq(Message)]
    /\ m_next_outgoing_sequence_number \in [Ends -> 0 .. SequenceModulus - 1]
    /\ m_next_expected_sequence_number \in [Ends -> 0 .. SequenceModulus - 1]
    /\ call \in [Ends -> Call]
    /\ packets \in [Ends -> Seq(Seq(SegmentMessage))]
    /\ submitted \in [Ends -> Seq(Nat \ {0})]
    /\ delivered \in [Ends -> Seq(Seq(Nat))]

\* The assertions of on_packet_delivery_status (reliable_stream.h:67 and :71):
\* when the loop of an ACK ends, and when a DROP begins, no message is left in
\* flight of a packet whose fate was reported before.
StatusAssertionsHold ==
    \A h \in Senders :
        in_flight_messages[h] # << >> =>
            LET front == Head(in_flight_messages[h]).packet_id IN
            IF call[h].op = "ack" THEN front >= call[h].id
                                  ELSE front >= Len(reported[h]) + 1

\* All that waits for an ACK or to be sent, oldest first.
Outstanding(h) == MessagesInFlight(h) \o pending_messages[h]

\* The number of messages whose bytes have been given back.
Consumed(h) == Len(submitted[h]) - Len(Outstanding(h))

\* The outstanding messages lie one behind the other in [m_begin, m_end), with
\* consecutive numbers: no sequence of sends, flips, acks and drops makes two
\* messages share a byte, leaves a hole or changes their order.
BufferTiled ==
    \A h \in Senders :
        LET messages == Outstanding(h)
            limit(i) == IF i = 0 THEN m_buffer[h].m_begin ELSE messages[i].end
        IN
        /\ \A i \in 1 .. Len(messages) :
             /\ messages[i].begin = limit(i - 1)
             /\ messages[i].end > messages[i].begin
             /\ messages[i].sequence_number = (Consumed(h) + i - 1) % SequenceModulus
        /\ limit(Len(messages)) = m_buffer[h].m_end

\* The payload of message number m.
PayloadOf(h, m) == [i \in 1 .. submitted[h][m] |-> m]

\* A message keeps its bytes for as long as it may have to be sent again.
BytesIntact ==
    \A h \in Senders : \A i \in 1 .. Len(Outstanding(h)) :
        LET message == Outstanding(h)[i] IN
        BytesAt(m_buffer[h], message.begin, message.end) = PayloadOf(h, Consumed(h) + i)

\* The receiving application gets what the sending one sent: each message once,
\* in order, unchanged.
DeliveredInOrder ==
    \A h \in Senders :
        /\ Len(delivered[Other(h)]) <= Len(submitted[h])
        /\ \A m \in 1 .. Len(delivered[Other(h)]) :
             delivered[Other(h)][m] = PayloadOf(h, m)

\* The stream gives up a message only after the other application got it: a
\* message that was skipped by the reader is never taken for delivered.
ConsumedWasDelivered ==
    \A h \in Senders : Consumed(h) <= Len(delivered[Other(h)])

\* What the applications see of the two streams, as a channel.
Channel == INSTANCE ReliableChannel WITH
    Sources <- Senders,
    Payloads <- UNION {[1 .. size -> 1 .. MaxMessages] : size \in 1 .. MaxSize},
    offered <- [h \in Senders |->
                   [m \in 1 .. Len(submitted[h]) |-> PayloadOf(h, m)]],
    received <- [h \in Senders |-> delivered[Other(h)]],
    released <- [h \in Senders |-> Consumed(h)]

\* The streams are a reliable channel between the applications: every step that
\* delivers hands over the oldest message that was not delivered yet, a message is
\* given up one at a time and after that, and neither stops before all are through:
\* no loss, late arrival or false DROP makes the reader wait at a gap for ever.
ImplementsChannel == Channel!ChannelSpec
=============================================================================
