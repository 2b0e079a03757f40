-------------------------- MODULE UnreliableStream --------------------------
(***************************************************************************)
(* The unreliable stream of one end of a connection                         *)
(* (neptun/unreliable_stream.h).  Messages wait in a flip buffer for the    *)
(* next packet; what does not fit in that packet is dropped; nothing is     *)
(* ever sent again.                                                         *)
(*                                                                          *)
(* As in ReliableStream the byte of message number m is m.  A span of the   *)
(* code, a pointer and a length, is the pair of positions it covers, which  *)
(* do not follow the bytes when the buffer flips.                           *)
(***************************************************************************)
EXTENDS FlipBuffer

CONSTANTS
    UPeers,             \* the owners of the streams
    CountModulus        \* Segment::message_count is a u8: 2^8 in the code

ASSUME CountModulusIsPos == CountModulus \in Nat \ {0}

USegmentSize == 2           \* Segment::kSerializedSize
UMessageOverhead == 2       \* UnreliableMessage::serialized_size(0)

VARIABLES
    m_unreliable_buffer,        \* UnreliableStream::m_buffer
    m_pending_messages          \* deque of spans [begin, end) of the buffer

unreliableVars == <<m_unreliable_buffer, m_pending_messages>>

UnreliableInit ==
    /\ m_unreliable_buffer = [p \in UPeers |-> NewBuffer]
    /\ m_pending_messages = [p \in UPeers |-> << >>]

USize(span) == span.end - span.begin

\* The callback writes size bytes into what is free, without a flip; an empty
\* payload changes nothing.
UnreliableSend(p, size, byte) ==
    LET buffer == m_unreliable_buffer[p] IN
    /\ size \in 1 .. Remaining(buffer)
    /\ m_pending_messages' = [m_pending_messages EXCEPT
         ![p] = Append(@, [begin |-> buffer.m_end, end |-> buffer.m_end + size])]
    /\ m_unreliable_buffer' = [m_unreliable_buffer EXCEPT
         ![p] = WriteAndAdvance(@, size, byte)]

-----------------------------------------------------------------------------
(* write.                                                                    *)

\* The bytes of the first n spans.
PayloadBytes(spans, n) ==
    LET total[i \in 0 .. n] == IF i = 0 THEN 0 ELSE total[i - 1] + USize(spans[i])
    IN  total[n]

\* total_size for the first n pending messages.
USegmentBytes(p, n) ==
    USegmentSize + n * UMessageOverhead + PayloadBytes(m_pending_messages[p], n)

\* The loop counts n messages: the next one does not fit in room bytes.
UMessagesFit(p, room, n) ==
    /\ n \in 0 .. Len(m_pending_messages[p])
    /\ \A i \in 1 .. n : USegmentBytes(p, i) <= room
    /\ n < Len(m_pending_messages[p]) => USegmentBytes(p, n + 1) > room

\* Mutant: the last message is not counted.
USegmentToWrite_OneLess(p, n) ==
    [message_count |-> (IF n > 0 THEN n - 1 ELSE 0) % CountModulus,
     messages |-> [i \in 1 .. n |->
                     BytesAt(m_unreliable_buffer[p], m_pending_messages[p][i].begin,
                             m_pending_messages[p][i].end)]]

\* The segment with the first n messages; the count is cut to a u8.
USegmentToWrite(p, n) ==
    [message_count |-> n % CountModulus,
     messages |-> [i \in 1 .. n |->
                     BytesAt(m_unreliable_buffer[p], m_pending_messages[p][i].begin,
                             m_pending_messages[p][i].end)]]

\* Mutant: what did not fit stays pending, at the place it had before the flip.
UnreliableWrite_KeepsRest(p, room, n) ==
    /\ UMessagesFit(p, room, n)
    /\ m_unreliable_buffer' = [m_unreliable_buffer EXCEPT ![p] =
         IF n = 0 THEN @
         ELSE Flip(Consume(@, PayloadBytes(m_pending_messages[p], n)))]
    /\ m_pending_messages' = [m_pending_messages EXCEPT ![p] = SubSeq(@, n + 1, Len(@))]

\* If not even the first message fits, nothing changes; otherwise n messages are
\* written and consumed, the buffer is flipped and the queue is cleared.
UnreliableWrite(p, room, n) ==
    /\ UMessagesFit(p, room, n)
    /\ \/ /\ n = 0
          /\ UNCHANGED unreliableVars
       \/ /\ n > 0
          /\ m_unreliable_buffer' = [m_unreliable_buffer EXCEPT
               ![p] = Flip(Consume(@, PayloadBytes(m_pending_messages[p], n)))]
          /\ m_pending_messages' = [m_pending_messages EXCEPT ![p] = << >>]

-----------------------------------------------------------------------------
(* read.                                                                     *)

\* The payloads that the callback gets: as many as the segment's header says.
UnreliableRead(segment) == SubSeq(segment.messages, 1, segment.message_count)
=============================================================================
