----------------------------- MODULE WireFormat -----------------------------
(***************************************************************************)
(* The layout of a packet (neptun/messages) as write_to_peer writes it and  *)
(* Neptun::read reads it, and format_neptun_payload (neptun/format.h), the  *)
(* second reader of the same bytes.                                         *)
(*                                                                          *)
(* A packet is a record of its header's fields, the limits of a LetsConnect *)
(* or NoLimits, and the messages of the two streams.  A writer is a buffer  *)
(* and the position to write at; a reader is a position and what was read   *)
(* so far.  Readers are given the size of the payload, but a field that     *)
(* goes beyond it is read from the buffer behind it.  The packets here      *)
(* carry no Reject: write_to_peer may write one, but under the id of        *)
(* LetsConnect and without a body, so that no reader finds what was written.*)
(* ConnectionManager and Neptun model it and what is read in its place.     *)
(***************************************************************************)
EXTENDS IoBuffer

CONNECTION_MANAGER == 0
RELIABLE_STREAM == 3
UNRELIABLE_STREAM == 4

PacketHeaderSize == 12
SegmentSize == 2

LetsConnectId == 0
LetsConnectSize == 6
kMaxSendPacketRate == 0
kMaxReadPacketRate == kMaxSendPacketRate + U8
kMaxSendPacketSize == kMaxReadPacketRate + U16

\* Mutant: one more field counted with the wrong width.
kMaxReadPacketSize_Wider == kMaxSendPacketSize + U16 + U8

kMaxReadPacketSize == kMaxSendPacketSize + U16

NoLimits == << >>

-----------------------------------------------------------------------------
(* Writing.                                                                  *)

Put(w, width, value) ==
    [buffer |-> WriteUnsigned(w.buffer, width, value, w.at), at |-> w.at + width]

PutBytes(w, bytes) == [buffer |-> WriteByteArray(w.buffer, bytes, w.at), at |-> w.at + Len(bytes)]

WriteHeader(w, packet) ==
    Put(Put(Put(w, U32, packet.id), U32, packet.ack_sequence_number), U32, packet.ack_bitmask)

WriteSegment(w, manager_type, message_count) == Put(Put(w, U8, manager_type), U8, message_count)

\* The fields lie at their offsets; the packet goes on LetsConnectSize bytes later.
WriteLetsConnect(w, limits) ==
    LET field(buffer, width, value, offset) == WriteUnsigned(buffer, width, value, w.at + offset)
        send_rate == field(w.buffer, U8, limits.max_send_packet_rate, kMaxSendPacketRate)
        read_rate == field(send_rate, U8, limits.max_read_packet_rate, kMaxReadPacketRate)
        send_size == field(read_rate, U16, limits.max_send_packet_size, kMaxSendPacketSize)
    IN
    [buffer |-> field(send_size, U16, limits.max_read_packet_size, kMaxReadPacketSize),
     at |-> w.at + LetsConnectSize]

WriteHandshake(w, limits) ==
    IF limits = NoLimits THEN w
    ELSE WriteLetsConnect(Put(WriteSegment(w, CONNECTION_MANAGER, 1), U8, LetsConnectId), limits)

WriteReliableMessage(w, message) ==
    PutBytes(Put(Put(w, U32, message.sequence_number), U16, Len(message.payload)), message.payload)

WriteUnreliableMessage(w, payload) == PutBytes(Put(w, U16, Len(payload)), payload)

\* A stream that has nothing to send writes no segment.
WriteReliable(w, messages) ==
    IF messages = << >> THEN w
    ELSE FoldLeft(WriteReliableMessage, WriteSegment(w, RELIABLE_STREAM, Len(messages)), messages)

WriteUnreliable(w, payloads) ==
    IF payloads = << >> THEN w
    ELSE FoldLeft(WriteUnreliableMessage,
                  WriteSegment(w, UNRELIABLE_STREAM, Len(payloads)), payloads)

\* write_to_peer: the managers write one behind the other into the same buffer.
WriteToPeer(buffer, packet) ==
    WriteUnreliable(
        WriteReliable(
            WriteHandshake(WriteHeader([buffer |-> buffer, at |-> 0], packet), packet.limits),
            packet.reliable),
        packet.unreliable)

-----------------------------------------------------------------------------
(* Reading.                                                                  *)

ReadLimits(buffer, at) ==
    [max_send_packet_rate |-> ReadUnsigned(buffer, U8, at + kMaxSendPacketRate),
     max_read_packet_rate |-> ReadUnsigned(buffer, U8, at + kMaxReadPacketRate),
     max_send_packet_size |-> ReadUnsigned(buffer, U16, at + kMaxSendPacketSize),
     max_read_packet_size |-> ReadUnsigned(buffer, U16, at + kMaxReadPacketSize)]

\* Bytes of a message before its payload: sequence number and length, or length.
Overhead(manager_type) == IF manager_type = RELIABLE_STREAM THEN U32 + U16 ELSE U16

Length(buffer, at, manager_type) ==
    ReadUnsigned(buffer, U16, at + Overhead(manager_type) - U16)

\* serialized_size of the message at a position.
MessageSize(buffer, at, manager_type) ==
    Overhead(manager_type) + Length(buffer, at, manager_type)

\* validate_size: a message is not empty and ends inside the payload of the packet.
IsValid(buffer, size, at, manager_type) ==
    /\ at + Overhead(manager_type) <= size
    /\ Length(buffer, at, manager_type) > 0
    /\ at + MessageSize(buffer, at, manager_type) <= size

PayloadAt(buffer, size, at, manager_type) ==
    ReadByteArray(buffer, size, at + Overhead(manager_type), Length(buffer, at, manager_type))

MessageAt(buffer, size, at, manager_type) ==
    IF manager_type = RELIABLE_STREAM
    THEN [sequence_number |-> ReadUnsigned(buffer, U32, at),
          payload |-> PayloadAt(buffer, size, at, manager_type)]
    ELSE PayloadAt(buffer, size, at, manager_type)

\* The loop over the messages of a segment; it stops at one that is not valid.
ReadMessages(buffer, size, at, manager_type) ==
    FoldLeft(LAMBDA r, i :
                 IF r.ok /\ IsValid(buffer, size, r.at, manager_type)
                 THEN [r EXCEPT !.at = @ + MessageSize(buffer, r.at, manager_type),
                                !.messages = Append(@, MessageAt(buffer, size, r.at, manager_type))]
                 ELSE [r EXCEPT !.ok = FALSE],
             [at |-> at + SegmentSize, messages |-> << >>, ok |-> TRUE],
             [i \in 1 .. ReadUnsigned(buffer, U8, at + U8) |-> i])

HasSegment(buffer, size, at, manager_type) ==
    at + SegmentSize <= size /\ ReadUnsigned(buffer, U8, at) = manager_type

ReadStream(buffer, size, at, manager_type) ==
    IF HasSegment(buffer, size, at, manager_type)
    THEN ReadMessages(buffer, size, at, manager_type)
    ELSE [at |-> at, messages |-> << >>, ok |-> TRUE]

\* Neptun::read, of a peer that is connected.
Read(buffer, size) ==
    LET connects == HasSegment(buffer, size, PacketHeaderSize, CONNECTION_MANAGER)
        message == PacketHeaderSize + SegmentSize + U8
        reliable == ReadStream(buffer, size,
                               IF connects THEN message + LetsConnectSize ELSE PacketHeaderSize,
                               RELIABLE_STREAM)
        unreliable == ReadStream(buffer, size, reliable.at, UNRELIABLE_STREAM)
    IN
    [id |-> ReadUnsigned(buffer, U32, 0),
     ack_sequence_number |-> ReadUnsigned(buffer, U32, U32),
     ack_bitmask |-> ReadUnsigned(buffer, U32, 2 * U32),
     limits |-> IF connects THEN ReadLimits(buffer, message) ELSE NoLimits,
     reliable |-> reliable.messages,
     unreliable |-> IF reliable.ok THEN unreliable.messages ELSE << >>]

-----------------------------------------------------------------------------
(* format_neptun_payload.  Text is left out: what is formatted is the header *)
(* and one pair of manager type and contents per segment.                    *)

\* The loop over the messages of a segment, which are not validated here.
FormatMessages(buffer, size, at, manager_type) ==
    FoldLeft(LAMBDA r, i :
                 [at |-> r.at + MessageSize(buffer, r.at, manager_type),
                  messages |-> Append(r.messages, MessageAt(buffer, size, r.at, manager_type))],
             [at |-> at + SegmentSize, messages |-> << >>],
             [i \in 1 .. ReadUnsigned(buffer, U8, at + U8) |-> i])

\* append_segment: what is shown of the segment at a position, and where it ends.
\* (It throws at an unknown manager, of which no segment is ever written.)
FormatSegment(buffer, size, at) ==
    LET manager_type == ReadUnsigned(buffer, U8, at) IN
    IF manager_type = CONNECTION_MANAGER
    THEN [at |-> at + SegmentSize + U8 + LetsConnectSize,
          messages |-> ReadLimits(buffer, at + SegmentSize + U8)]
    ELSE FormatMessages(buffer, size, at, manager_type)

\* Mutant: a rest that is shorter than a LetsConnect is not formatted.
MoreToFormat_NotIfShort(size, at) == at + SegmentSize + U8 + LetsConnectSize <= size

\* The payload has not come to its end.
MoreToFormat(size, at) == at < size

FormatNeptunPayload(buffer, size) ==
    LET segments[at \in 0 .. size] ==
            IF ~MoreToFormat(size, at) THEN << >>
            ELSE <<<<ReadUnsigned(buffer, U8, at), FormatSegment(buffer, size, at).messages>>>>
                   \o segments[FormatSegment(buffer, size, at).at]
    IN
    [id |-> ReadUnsigned(buffer, U32, 0),
     ack_sequence_number |-> ReadUnsigned(buffer, U32, U32),
     ack_bitmask |-> ReadUnsigned(buffer, U32, 2 * U32),
     segments |-> segments[PacketHeaderSize]]
=============================================================================
