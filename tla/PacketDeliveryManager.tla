----------------------- MODULE PacketDeliveryManager -----------------------
(***************************************************************************)
(* The packet delivery manager of one end of a connection                   *)
(* (neptun/packet_delivery_manager.h): it numbers the outgoing packets,     *)
(* remembers which of them are in flight, accepts incoming packets in       *)
(* increasing order of id, acknowledges them in the header of the packets   *)
(* going the other way, and reports the fate of every packet it sent.       *)
(*                                                                          *)
(* The state of the class is one function per member, indexed by the host   *)
(* that owns the object.  An operation is an operator over the host; the    *)
(* modules that compose the managers turn it into an action.  A loop of     *)
(* the code that pops a queue while a condition holds is described by the   *)
(* number n of elements it pops: the elements 1..n satisfy the condition,   *)
(* element n + 1 does not.                                                  *)
(***************************************************************************)
EXTENDS Integers, Sequences

CONSTANTS
    Host,           \* the two ends of a connection
    IdModulus,      \* packet ids are u32: 2^32 in the code
    AckWindow,      \* bits of the ack bitmask: sizeof(u32) * 8 in the code
    PacketTimeout   \* m_packet_timeout, in clock units

ASSUME PacketConstants ==
    /\ IdModulus \in Nat \ {0}
    /\ AckWindow \in 1 .. IdModulus
    /\ PacketTimeout \in Nat

VARIABLES
    m_next_outgoing_packet_id,
    m_next_expected_packet_id,
    m_pending_acks,             \* queue of accepted ids not acknowledged yet
    m_in_flight_packets         \* queue of packets whose fate is not known yet

pdmVars == <<m_next_outgoing_packet_id, m_next_expected_packet_id,
             m_pending_acks, m_in_flight_packets>>

PacketId == 0 .. IdModulus - 1

\* The bitmask is the set of the positions of its 1 bits.
PacketHeader == [id : PacketId, ack_sequence_number : PacketId,
                 ack_bitmask : SUBSET (0 .. AckWindow - 1)]

InFlightPacket == [id : PacketId, time_dispatched : Nat]

ACK == "ACK"
DROP == "DROP"

DeliveryStatus == [id : PacketId, status : {ACK, DROP}]

\* What is left of a queue when its first n elements have been popped.
Popped(queue, n) == SubSeq(queue, n + 1, Len(queue))

PdmTypeOK ==
    /\ m_next_outgoing_packet_id \in [Host -> PacketId]
    /\ m_next_expected_packet_id \in [Host -> PacketId]
    /\ m_pending_acks \in [Host -> Seq(PacketId)]
    /\ m_in_flight_packets \in [Host -> Seq(InFlightPacket)]

PdmInit ==
    /\ m_next_outgoing_packet_id = [h \in Host |-> 0]
    /\ m_next_expected_packet_id = [h \in Host |-> 0]
    /\ m_pending_acks = [h \in Host |-> << >>]
    /\ m_in_flight_packets = [h \in Host |-> << >>]

-----------------------------------------------------------------------------
(* write: number a packet and acknowledge what the bitmask can hold.         *)

\* bit_position of the i-th pending ack; the subtraction is unsigned.
AckOffset(h, i) == (m_pending_acks[h][i] - m_pending_acks[h][1]) % IdModulus

\* The assertion pending_packet_id_ack >= ack_sequence_number, for every ack the
\* loop of write looks at.
AcksAscend(h) ==
    \A i \in 1 .. Len(m_pending_acks[h]) :
        m_pending_acks[h][i] >= m_pending_acks[h][1]

\* Mutant: the window is one position too wide for the bitmask.
AcksFit_WindowTooWide(h, n) ==
    /\ n \in 0 .. Len(m_pending_acks[h])
    /\ \A i \in 1 .. n : AckOffset(h, i) <= AckWindow
    /\ n < Len(m_pending_acks[h]) => AckOffset(h, n + 1) > AckWindow

\* The loop pops n acks: the first one that does not fit in the bitmask stays
\* for a future packet, with everything behind it.
AcksFit(h, n) ==
    /\ n \in 0 .. Len(m_pending_acks[h])
    /\ \A i \in 1 .. n : AckOffset(h, i) < AckWindow
    /\ n < Len(m_pending_acks[h]) => AckOffset(h, n + 1) >= AckWindow

\* The header that carries the first n pending acks; with nothing to
\* acknowledge both ack fields are 0.
HeaderToWrite(h, n) ==
    [id |-> m_next_outgoing_packet_id[h],
     ack_sequence_number |-> IF m_pending_acks[h] = << >> THEN 0
                             ELSE m_pending_acks[h][1],
     ack_bitmask |-> {AckOffset(h, i) : i \in 1 .. n}]

\* Mutant: the acks that did not fit are thrown away with the others.
PdmWrite_DropsAcks(h, now, n) ==
    /\ AcksFit(h, n)
    /\ m_next_outgoing_packet_id' =
         [m_next_outgoing_packet_id EXCEPT ![h] = (@ + 1) % IdModulus]
    /\ m_in_flight_packets' =
         [m_in_flight_packets EXCEPT
            ![h] = Append(@, [id |-> m_next_outgoing_packet_id[h],
                              time_dispatched |-> now])]
    /\ m_pending_acks' = [m_pending_acks EXCEPT ![h] = << >>]
    /\ UNCHANGED m_next_expected_packet_id

PdmWrite(h, now, n) ==
    /\ AcksFit(h, n)
    /\ m_next_outgoing_packet_id' =
         [m_next_outgoing_packet_id EXCEPT ![h] = (@ + 1) % IdModulus]
    /\ m_in_flight_packets' =
         [m_in_flight_packets EXCEPT
            ![h] = Append(@, [id |-> m_next_outgoing_packet_id[h],
                              time_dispatched |-> now])]
    /\ m_pending_acks' = [m_pending_acks EXCEPT ![h] = Popped(@, n)]
    /\ UNCHANGED m_next_expected_packet_id

-----------------------------------------------------------------------------
(* process_read: apply the acks of a header, then accept or refuse its       *)
(* packet.                                                                   *)

\* Mutant: the 0 bits after the highest set bit count as well.
IsHighestAcked_WholeWindow(id, header) ==
    /\ header.ack_bitmask # {}
    /\ id = (header.ack_sequence_number + AckWindow - 1) % IdModulus

\* id is highest_acked_packet_id: the ack sequence number plus the most
\* significant bit of the bitmask.
IsHighestAcked(id, header) ==
    \E msb \in header.ack_bitmask :
        /\ \A bit \in header.ack_bitmask : bit <= msb
        /\ id = (header.ack_sequence_number + msb) % IdModulus

\* process_acks pops n in-flight packets: those up to highest_acked_packet_id;
\* none if all the bits are 0.
AcksResolve(h, header, n) ==
    IF header.ack_bitmask = {}
    THEN n = 0
    ELSE \E highest \in PacketId :
           /\ IsHighestAcked(highest, header)
           /\ n \in 0 .. Len(m_in_flight_packets[h])
           /\ \A i \in 1 .. n : m_in_flight_packets[h][i].id <= highest
           /\ n < Len(m_in_flight_packets[h])
                => m_in_flight_packets[h][n + 1].id > highest

\* Mutant: a packet that is older than the whole window counts as delivered.
StatusOf_OlderIsDelivered(id, header) ==
    IF \/ id < header.ack_sequence_number
       \/ id - header.ack_sequence_number \in header.ack_bitmask
    THEN ACK ELSE DROP

\* What process_acks reports of a packet it pops: ACK if its bit is set, DROP
\* if the bit is 0 or the packet is older than the whole window.
StatusOf(id, header) ==
    IF /\ id >= header.ack_sequence_number
       /\ id - header.ack_sequence_number \in header.ack_bitmask
    THEN ACK ELSE DROP

ReadStatuses(h, header, n) ==
    [i \in 1 .. n |->
        [id |-> m_in_flight_packets[h][i].id,
         status |-> StatusOf(m_in_flight_packets[h][i].id, header)]]

\* Mutant: only the duplicate of the last packet counts as old.
Accepts_AnyButLast(h, header) == header.id + 1 # m_next_expected_packet_id[h]

\* process_packet_header takes the expected packet or a newer one.
Accepts(h, header) == header.id >= m_next_expected_packet_id[h]

ProcessPacketHeader(h, header) ==
    \/ /\ Accepts(h, header)
       /\ m_pending_acks' = [m_pending_acks EXCEPT ![h] = Append(@, header.id)]
       /\ m_next_expected_packet_id' =
            [m_next_expected_packet_id EXCEPT ![h] = (header.id + 1) % IdModulus]
    \/ /\ ~Accepts(h, header)
       /\ UNCHANGED <<m_pending_acks, m_next_expected_packet_id>>

ProcessRead(h, header, n) ==
    /\ AcksResolve(h, header, n)
    /\ m_in_flight_packets' = [m_in_flight_packets EXCEPT ![h] = Popped(@, n)]
    /\ ProcessPacketHeader(h, header)
    /\ UNCHANGED m_next_outgoing_packet_id

-----------------------------------------------------------------------------
(* drop_old_packets: give up on the packets whose timeout has passed.        *)

TimedOut(packet, now) == packet.time_dispatched + PacketTimeout <= now

\* Mutant: a packet is kept if its timeout expires exactly now, and the loop
\* never looks past it.
OldPackets_NeverAtDeadline(h, now, n) ==
    /\ n \in 0 .. Len(m_in_flight_packets[h])
    /\ \A i \in 1 .. n : m_in_flight_packets[h][i].time_dispatched + PacketTimeout < now
    /\ n < Len(m_in_flight_packets[h])
         => m_in_flight_packets[h][n + 1].time_dispatched + PacketTimeout >= now

\* drop_old_packets pops n packets.
OldPackets(h, now, n) ==
    /\ n \in 0 .. Len(m_in_flight_packets[h])
    /\ \A i \in 1 .. n : TimedOut(m_in_flight_packets[h][i], now)
    /\ n < Len(m_in_flight_packets[h])
         => ~TimedOut(m_in_flight_packets[h][n + 1], now)

DropStatuses(h, n) ==
    [i \in 1 .. n |-> [id |-> m_in_flight_packets[h][i].id, status |-> DROP]]

\* Mutant: the packets are reported, but stay in flight.
DropOldPackets_NoPop(h, now, n) ==
    /\ OldPackets(h, now, n)
    /\ UNCHANGED pdmVars

DropOldPackets(h, now, n) ==
    /\ OldPackets(h, now, n)
    /\ m_in_flight_packets' = [m_in_flight_packets EXCEPT ![h] = Popped(@, n)]
    /\ UNCHANGED <<m_next_outgoing_packet_id, m_next_expected_packet_id,
                   m_pending_acks>>
=============================================================================
