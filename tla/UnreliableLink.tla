--------------------------- MODULE UnreliableLink ---------------------------
(***************************************************************************)
(* Two unreliable streams over packets that are lost, and that are accepted *)
(* in increasing order and at most once (DeliveryNotification, which        *)
(* PacketLink is proved to implement).  The stream is never told the fate   *)
(* of a packet.                                                             *)
(***************************************************************************)
EXTENDS DeliveryNotification, UnreliableStream

CONSTANTS
    MinRoom, MaxRoom,   \* bytes that the other segments of a packet leave
    MaxSize,            \* bound: bytes of a payload
    MaxMessages,        \* bound: messages each application sends
    MaxPackets          \* bound: packets each end sends

ASSUME UnreliableLinkConstants ==
    /\ UPeers = Ends
    /\ {MinRoom, MaxRoom, MaxSize, MaxMessages, MaxPackets} \subseteq Nat

VARIABLES
    packets,        \* the segments in the packets each end has sent
    submitted,      \* sizes of the messages each application has sent
    delivered       \* payloads each application has got

vars == <<contractVars, unreliableVars, packets, submitted, delivered>>

Init ==
    /\ ContractInit
    /\ UnreliableInit
    /\ packets = [h \in Ends |-> << >>]
    /\ submitted = [h \in Ends |-> << >>]
    /\ delivered = [h \in Ends |-> << >>]

Send(h, size) ==
    /\ Len(submitted[h]) < MaxMessages
    /\ UnreliableSend(h, size, Len(submitted[h]) + 1)
    /\ submitted' = [submitted EXCEPT ![h] = Append(@, size)]
    /\ UNCHANGED <<contractVars, packets, delivered>>

\* Acks, handshake and reliable messages come first in a packet.
WritePacket(h, room) ==
    /\ sent[h] < MaxPackets
    /\ SendPacket(h)
    /\ \E n \in 0 .. Len(m_pending_messages[h]) :
         /\ UnreliableWrite(h, room, n)
         /\ packets' = [packets EXCEPT ![h] = Append(@, USegmentToWrite(h, n))]
    /\ UNCHANGED <<submitted, delivered>>

ReceivePacket(h, k) ==
    /\ Accept(h, << >>, k)
    /\ delivered' = [delivered EXCEPT ![h] = @ \o UnreliableRead(packets[Other(h)][k])]
    /\ UNCHANGED <<unreliableVars, packets, submitted>>

\* A stream that sends does not look at what it receives, so one direction
\* stands for both.
Next ==
    \/ \E size \in 1 .. MaxSize : Send(A, size)
    \/ \E room \in MinRoom .. MaxRoom : WritePacket(A, room)
    \/ \E k \in 1 .. sent[A] : ReceivePacket(B, k)

Spec == Init /\ [][Next]_vars

-----------------------------------------------------------------------------
Span == [begin : 0 .. Capacity, end : 0 .. Capacity]
Buffer == [m_begin : 0 .. Capacity, m_end : 0 .. Capacity,
           m_buffer : [1 .. Capacity -> Nat]]
Payload == Seq(Nat)

\* Every member has its type; in particular FlipBuffer::advance never passes the
\* capacity, which it asserts.
TypeOK ==
    /\ sent \in [Ends -> Nat]
    /\ accepted \in [Ends -> SUBSET (Nat \ {0})]
    /\ reported \in [Ends -> Seq(Fate)]
    /\ m_unreliable_buffer \in [Ends -> Buffer]
    /\ m_pending_messages \in [Ends -> Seq(Span)]
    /\ packets \in [Ends -> Seq([message_count : 0 .. CountModulus - 1,
                                 messages : Seq(Payload)])]
    /\ submitted \in [Ends -> Seq(Nat \ {0})]
    /\ delivered \in [Ends -> Seq(Payload)]

\* payload is message number m of end h.
IsMessage(h, m, payload) == payload = [i \in 1 .. submitted[h][m] |-> m]

\* The spans that write is going to read lie in the used part of the buffer and
\* still hold the bytes of the newest messages: a flip never moves bytes under a
\* span, although spans are not adjusted as the reliable stream adjusts its own.
SpansIntact ==
    LET pending == m_pending_messages[A]
        older == Len(submitted[A]) - Len(pending)
    IN
    /\ older >= 0
    /\ \A i \in 1 .. Len(pending) :
         /\ m_unreliable_buffer[A].m_begin <= pending[i].begin
         /\ pending[i].end <= m_unreliable_buffer[A].m_end
         /\ IsMessage(A, older + i, BytesAt(m_unreliable_buffer[A], pending[i].begin,
                                            pending[i].end))

\* The application gets some of the messages that the other sent, each whole and
\* at most once, in the order they were sent.
ReceivedInOrder ==
    \E number \in [1 .. Len(delivered[B]) -> 1 .. Len(submitted[A])] :
        /\ \A i \in 1 .. Len(delivered[B]) : IsMessage(A, number[i], delivered[B][i])
        /\ \A i, j \in 1 .. Len(delivered[B]) : i < j => number[i] < number[j]

\* unreliable_stream.h:84: what could not be sent is dropped.  With nothing
\* pending, the whole buffer is free for the messages to come.
DroppedFreesBuffer ==
    m_pending_messages[A] = << >> =>
        m_unreliable_buffer[A].m_begin = m_unreliable_buffer[A].m_end

\* What went into a packet that arrived reaches the application, all of it and
\* one message behind the other, as long as the packet holds fewer messages than
\* its u8 count can say.
WrittenIsDelivered ==
    \A k \in accepted[A] :
        LET messages == packets[A][k].messages IN
        Len(messages) < CountModulus =>
            \E before \in 0 .. Len(delivered[B]) - Len(messages) :
                \A i \in 1 .. Len(messages) : delivered[B][before + i] = messages[i]
=============================================================================
