--------------------------- MODULE ReliableStream ---------------------------
(***************************************************************************)
(* The reliable stream of one end of a connection                           *)
(* (neptun/reliable_stream.h).  Messages wait in the flip buffer until the  *)
(* packet that carried them is acknowledged; when a packet is dropped,      *)
(* everything in flight goes back to the head of the pending queue; the     *)
(* reader takes messages strictly in sequence and skips all others.         *)
(*                                                                          *)
(* The byte of message number m (the m-th that the application sends) is m, *)
(* so that a payload tells whose bytes it holds.  The loops over the        *)
(* messages of an acknowledged packet and of a received segment are one     *)
(* step per message; the variable call says which loop a host is in.        *)
(***************************************************************************)
EXTENDS FlipBuffer, SequencesExt

CONSTANTS
    Peers,              \* the owners of the streams
    SequenceModulus     \* sequence numbers are u32: 2^32 in the code

ASSUME SequenceModulusIsPos == SequenceModulus \in Nat \ {0}

SegmentSize == 2            \* Segment::kSerializedSize
MessageOverhead == 6        \* ReliableMessage::serialized_size(0)

VARIABLES
    m_buffer,                           \* the flip buffers
    in_flight_messages,                 \* queue of [packet_id, message]
    pending_messages,                   \* deque of [begin, end, sequence_number]
    m_next_outgoing_sequence_number,
    m_next_expected_sequence_number,
    call                                \* the loop that a host is in

streamVars == <<m_buffer, in_flight_messages, pending_messages,
                m_next_outgoing_sequence_number, m_next_expected_sequence_number,
                call>>

\* The host is in no loop, pops the messages of acknowledged packet id, or reads
\* the messages that are left of the segment of packet id.
NoCall == [op |-> "none", id |-> 0, messages |-> << >>]
AckCall(id) == [op |-> "ack", id |-> id, messages |-> << >>]
ReadCall(id, messages) == [op |-> "read", id |-> id, messages |-> messages]

StreamInit ==
    /\ m_buffer = [p \in Peers |-> NewBuffer]
    /\ in_flight_messages = [p \in Peers |-> << >>]
    /\ pending_messages = [p \in Peers |-> << >>]
    /\ m_next_outgoing_sequence_number = [p \in Peers |-> 0]
    /\ m_next_expected_sequence_number = [p \in Peers |-> 0]
    /\ call = [p \in Peers |-> NoCall]

Size(message) == message.end - message.begin

-----------------------------------------------------------------------------
(* send.                                                                     *)

\* BufferRange::operator-=
Shifted(message, offset) ==
    [message EXCEPT !.begin = @ - offset, !.end = @ - offset]

\* maybe_flip: the buffer and the messages in flight and pending, moved to the
\* front.
\* Mutant: the messages in flight keep their old place.
FlippedInFlight_NotShifted(p) == in_flight_messages[p]

FlippedInFlight(p) ==
    [i \in 1 .. Len(in_flight_messages[p]) |->
        [in_flight_messages[p][i] EXCEPT !.message = Shifted(@, m_buffer[p].m_begin)]]

FlippedPending(p) ==
    [i \in 1 .. Len(pending_messages[p]) |->
        Shifted(pending_messages[p][i], m_buffer[p].m_begin)]

\* The callback gets what is free after the flip, writes size bytes there; an
\* empty payload means that it had no room or nothing to say.
StreamSend(p, size, byte) ==
    LET buffer == Flip(m_buffer[p]) IN
    /\ size \in 0 .. Remaining(buffer)
    /\ in_flight_messages' = [in_flight_messages EXCEPT ![p] = FlippedInFlight(p)]
    /\ \/ /\ size = 0
          /\ m_buffer' = [m_buffer EXCEPT ![p] = buffer]
          /\ pending_messages' = [pending_messages EXCEPT ![p] = FlippedPending(p)]
          /\ UNCHANGED m_next_outgoing_sequence_number
       \/ /\ size > 0
          /\ m_buffer' = [m_buffer EXCEPT ![p] = WriteAndAdvance(buffer, size, byte)]
          /\ pending_messages' = [pending_messages EXCEPT
               ![p] = Append(FlippedPending(p),
                        [begin |-> buffer.m_end, end |-> buffer.m_end + size,
                         sequence_number |-> m_next_outgoing_sequence_number[p]])]
          /\ m_next_outgoing_sequence_number' =
               [m_next_outgoing_sequence_number EXCEPT ![p] = (@ + 1) % SequenceModulus]
    /\ UNCHANGED <<m_next_expected_sequence_number, call>>

-----------------------------------------------------------------------------
(* write.                                                                    *)

\* The bytes of a segment with these messages.
SegmentBytes(messages) ==
    FoldLeft(LAMBDA total, message : total + MessageOverhead + Size(message),
             SegmentSize, messages)

\* The first n pending messages are the ones that fit in room bytes.
MessagesFit(p, room, n) ==
    /\ n \in 0 .. Len(pending_messages[p])
    /\ \A i \in 1 .. n : SegmentBytes(SubSeq(pending_messages[p], 1, i)) <= room
    /\ n < Len(pending_messages[p])
         => SegmentBytes(SubSeq(pending_messages[p], 1, n + 1)) > room

\* The first n pending messages as they go into the packet.
SegmentToWrite(p, n) ==
    [i \in 1 .. n |->
        [sequence_number |-> pending_messages[p][i].sequence_number,
         payload |-> BytesAt(m_buffer[p], pending_messages[p][i].begin,
                             pending_messages[p][i].end)]]

StreamWrite(p, id, room, n) ==
    /\ MessagesFit(p, room, n)
    /\ in_flight_messages' = [in_flight_messages EXCEPT
         ![p] = @ \o [i \in 1 .. n |-> [packet_id |-> id,
                                        message |-> pending_messages[p][i]]]]
    /\ pending_messages' = [pending_messages EXCEPT ![p] = SubSeq(@, n + 1, Len(@))]
    /\ UNCHANGED <<m_buffer, m_next_outgoing_sequence_number,
                   m_next_expected_sequence_number, call>>

-----------------------------------------------------------------------------
(* read.                                                                     *)

\* A segment for the stream begins to be read.
StreamRead(p, id, messages) ==
    /\ call' = [call EXCEPT
         ![p] = IF messages = << >> THEN NoCall ELSE ReadCall(id, messages)]
    /\ UNCHANGED <<m_buffer, in_flight_messages, pending_messages,
                   m_next_outgoing_sequence_number, m_next_expected_sequence_number>>

\* Mutant: any message that is not older than the expected one is taken.
IsNext_OrLater(p, message) ==
    message.sequence_number >= m_next_expected_sequence_number[p]

\* Only the message with the expected number goes to the application.
IsNext(p, message) ==
    message.sequence_number = m_next_expected_sequence_number[p]

\* Mutant: the first message that is skipped ends the loop.
ReadMessage_StopsAtSkipped(p) ==
    LET rest == IF IsNext(p, Head(call[p].messages))
                THEN Tail(call[p].messages) ELSE << >>
    IN
    /\ call[p].op = "read"
    /\ m_next_expected_sequence_number' =
         [m_next_expected_sequence_number EXCEPT
            ![p] = IF IsNext(p, Head(call[p].messages))
                   THEN (@ + 1) % SequenceModulus ELSE @]
    /\ call' = [call EXCEPT
         ![p] = IF rest = << >> THEN NoCall ELSE ReadCall(@.id, rest)]
    /\ UNCHANGED <<m_buffer, in_flight_messages, pending_messages,
                   m_next_outgoing_sequence_number>>

\* One message of the segment is taken or skipped.
ReadMessage(p) ==
    LET rest == Tail(call[p].messages) IN
    /\ call[p].op = "read"
    /\ m_next_expected_sequence_number' =
         [m_next_expected_sequence_number EXCEPT
            ![p] = IF IsNext(p, Head(call[p].messages))
                   THEN (@ + 1) % SequenceModulus ELSE @]
    /\ call' = [call EXCEPT
         ![p] = IF rest = << >> THEN NoCall ELSE ReadCall(@.id, rest)]
    /\ UNCHANGED <<m_buffer, in_flight_messages, pending_messages,
                   m_next_outgoing_sequence_number>>

-----------------------------------------------------------------------------
(* on_packet_delivery_status.                                                *)

\* ACK: the loop that pops the messages of the packet begins.
StreamAck(p, id) ==
    /\ call' = [call EXCEPT ![p] = AckCall(id)]
    /\ UNCHANGED <<m_buffer, in_flight_messages, pending_messages,
                   m_next_outgoing_sequence_number, m_next_expected_sequence_number>>

\* Mutant: whatever is in flight counts as carried by the packet.
CarriedBy_Any(p, id) == in_flight_messages[p] # << >>

CarriedBy(p, id) ==
    /\ in_flight_messages[p] # << >>
    /\ Head(in_flight_messages[p]).packet_id = id

\* Mutant: only the first message of the packet is popped.
PopAcked_OnlyFirst(p) ==
    /\ call[p].op = "ack"
    /\ call' = [call EXCEPT ![p] = NoCall]
    /\ \/ /\ CarriedBy(p, call[p].id)
          /\ m_buffer' = [m_buffer EXCEPT
               ![p] = Consume(@, Size(Head(in_flight_messages[p]).message))]
          /\ in_flight_messages' = [in_flight_messages EXCEPT ![p] = Tail(@)]
       \/ /\ ~CarriedBy(p, call[p].id)
          /\ UNCHANGED <<m_buffer, in_flight_messages>>
    /\ UNCHANGED <<pending_messages, m_next_outgoing_sequence_number,
                   m_next_expected_sequence_number>>

\* The loop pops a message and gives its bytes back, or ends.
PopAcked(p) ==
    /\ call[p].op = "ack"
    /\ \/ /\ CarriedBy(p, call[p].id)
          /\ m_buffer' = [m_buffer EXCEPT
               ![p] = Consume(@, Size(Head(in_flight_messages[p]).message))]
          /\ in_flight_messages' = [in_flight_messages EXCEPT ![p] = Tail(@)]
          /\ UNCHANGED call
       \/ /\ ~CarriedBy(p, call[p].id)
          /\ call' = [call EXCEPT ![p] = NoCall]
          /\ UNCHANGED <<m_buffer, in_flight_messages>>
    /\ UNCHANGED <<pending_messages, m_next_outgoing_sequence_number,
                   m_next_expected_sequence_number>>

\* The messages in flight, in order.
MessagesInFlight(p) ==
    [i \in 1 .. Len(in_flight_messages[p]) |-> in_flight_messages[p][i].message]

\* DROP: everything in flight, also what later packets carry, is pending again.
StreamDrop(p, id) ==
    /\ pending_messages' = [pending_messages EXCEPT ![p] = MessagesInFlight(p) \o @]
    /\ in_flight_messages' = [in_flight_messages EXCEPT ![p] = << >>]
    /\ UNCHANGED <<m_buffer, m_next_outgoing_sequence_number,
                   m_next_expected_sequence_number, call>>
=============================================================================
