----------------------------- MODULE PacketLink -----------------------------
(***************************************************************************)
(* Two packet delivery managers joined by UDP.  A packet once written can   *)
(* be read by the other host at any later time, any number of times and in  *)
(* any order, or never: the network loses, duplicates, delays and reorders. *)
(* The hosts call write, process_read and drop_old_packets in any order,    *)
(* which includes the order of Neptun::tick.                                *)
(*                                                                          *)
(* sent doubles as the network: the k-th packet a host writes is packet k,  *)
(* whatever its id after a wrap around.  accepted and reported are the      *)
(* history of what the managers told their callers.                         *)
(***************************************************************************)
EXTENDS PacketDeliveryManager, SequencesExt

CONSTANTS
    A, B,           \* the two hosts
    MaxPackets,     \* bound: packets written by each host
    MaxTime         \* bound: the clock stops here

ASSUME LinkConstants ==
    /\ A # B
    /\ Host = {A, B}
    /\ MaxPackets \in Nat
    /\ MaxTime \in Nat

VARIABLES
    now,        \* the clock
    sent,       \* headers of the packets each host has written
    accepted,   \* numbers of the other host's packets a host has accepted
    reported    \* delivery statuses a host has got, with what caused them

vars == <<pdmVars, now, sent, accepted, reported>>

Other(h) == IF h = A THEN B ELSE A

BYACKS == "acks"
BYTIMEOUT == "timeout"

\* The statuses of one call, with the call they come from.
CausedBy(statuses, cause) ==
    [i \in 1 .. Len(statuses) |->
        [id |-> statuses[i].id, status |-> statuses[i].status, cause |-> cause]]

Init ==
    /\ PdmInit
    /\ now = 0
    /\ sent = [h \in Host |-> << >>]
    /\ accepted = [h \in Host |-> << >>]
    /\ reported = [h \in Host |-> << >>]

Elapse ==
    /\ now < MaxTime
    /\ now' = now + 1
    /\ UNCHANGED <<pdmVars, sent, accepted, reported>>

\* Packets are written only while the clock can still reach their timeout.
WritePacket(h) ==
    /\ Len(sent[h]) < MaxPackets
    /\ now + PacketTimeout <= MaxTime
    /\ \E n \in 0 .. Len(m_pending_acks[h]) :
         /\ PdmWrite(h, now, n)
         /\ sent' = [sent EXCEPT ![h] = Append(@, HeaderToWrite(h, n))]
    /\ UNCHANGED <<now, accepted, reported>>

ReadPacket(h, k) ==
    LET header == sent[Other(h)][k] IN
    /\ \E n \in 0 .. Len(m_in_flight_packets[h]) :
         /\ ProcessRead(h, header, n)
         /\ reported' = [reported EXCEPT
              ![h] = @ \o CausedBy(ReadStatuses(h, header, n), BYACKS)]
    /\ accepted' = [accepted EXCEPT
         ![h] = IF Accepts(h, header) THEN Append(@, k) ELSE @]
    /\ UNCHANGED <<now, sent>>

DropOld(h) ==
    /\ \E n \in 0 .. Len(m_in_flight_packets[h]) :
         /\ DropOldPackets(h, now, n)
         /\ reported' = [reported EXCEPT
              ![h] = @ \o CausedBy(DropStatuses(h, n), BYTIMEOUT)]
    /\ UNCHANGED <<now, sent, accepted>>

Next ==
    \/ Elapse
    \/ \E h \in Host :
         \/ WritePacket(h)
         \/ \E k \in 1 .. Len(sent[Other(h)]) : ReadPacket(h, k)
         \/ DropOld(h)

Spec == Init /\ [][Next]_vars

\* Neptun::tick calls drop_old_packets for every peer each time it runs, and
\* the application calls tick for ever; the network owes nothing.
FairSpec ==
    /\ Spec
    /\ WF_vars(Elapse)
    /\ \A h \in Host : WF_vars(DropOld(h))

-----------------------------------------------------------------------------
ReportedStatus == [id : PacketId, status : {ACK, DROP}, cause : {BYACKS, BYTIMEOUT}]

\* Every member has its type: in particular every ack written fits in the
\* 32 bits of the mask.
TypeOK ==
    /\ PdmTypeOK
    /\ now \in 0 .. MaxTime
    /\ sent \in [Host -> Seq(PacketHeader)]
    /\ accepted \in [Host -> Seq(Nat \ {0})]
    /\ reported \in [Host -> Seq(ReportedStatus)]

\* Each packet is either reported or in flight, never both and never neither,
\* and the reports come in the order the packets were written: no mix of acks,
\* late acks and timeouts reports a packet twice or skips one.
FateReportedOnce ==
    \A h \in Host :
        /\ Len(sent[h]) = Len(reported[h]) + Len(m_in_flight_packets[h])
        /\ \A i \in 1 .. Len(reported[h]) : reported[h][i].id = sent[h][i].id
        /\ \A i \in 1 .. Len(m_in_flight_packets[h]) :
             m_in_flight_packets[h][i].id = sent[h][Len(reported[h]) + i].id

\* process_acks says ACK only of a packet that the other host has accepted,
\* whatever was lost, duplicated or reordered.
AckedWasAccepted ==
    \A h \in Host : \A i \in 1 .. Len(reported[h]) :
        reported[h][i].status = ACK => i \in ToSet(accepted[Other(h)])

\* A packet that process_acks resolves is behind the packet the other host
\* expects next: if it was not accepted, it never will be.  (After a timeout it
\* still may be.)
AckFateIsFinal ==
    \A h \in Host : \A i \in 1 .. Len(reported[h]) :
        reported[h][i].cause = BYACKS
            => reported[h][i].id < m_next_expected_packet_id[Other(h)]

\* process_packet_header accepts packets in increasing order, so each at most
\* once: a duplicate or a late packet never reaches the streams.
AcceptedInOrder ==
    \A h \in Host : \A i, j \in 1 .. Len(accepted[h]) :
        i < j => accepted[h][i] < accepted[h][j]

\* The ids that a header acknowledges.
AckedIn(header) == {header.ack_sequence_number + bit : bit \in header.ack_bitmask}

\* write acknowledges every accepted packet once: in one header or, if it has
\* not been written yet, in the queue; later headers acknowledge later packets.
AcksAccounted ==
    \A h \in Host :
        /\ {k - 1 : k \in ToSet(accepted[h])} =
             (UNION {AckedIn(sent[h][j]) : j \in 1 .. Len(sent[h])})
               \cup ToSet(m_pending_acks[h])
        /\ \A j, k \in 1 .. Len(sent[h]) : j < k =>
             \A a \in AckedIn(sent[h][j]), b \in AckedIn(sent[h][k]) : a < b
        /\ \A j \in 1 .. Len(sent[h]) :
             \A a \in AckedIn(sent[h][j]), b \in ToSet(m_pending_acks[h]) : a < b

\* The assertion in the loop of write (packet_delivery_manager.h:117).
PendingAcksAscend == \A h \in Host : AcksAscend(h)

\* Every packet's fate is reported in the end, even if nothing ever comes back.
EveryFateReported ==
    \A h \in Host : \A i \in 1 .. MaxPackets :
        Len(sent[h]) >= i ~> Len(reported[h]) >= i

\* The managers keep the promise the streams rely on.
Contract == INSTANCE DeliveryNotification WITH
    sent <- [h \in Host |-> Len(sent[h])],
    accepted <- [h \in Host |-> ToSet(accepted[Other(h)])],
    reported <- [h \in Host |->
                    [i \in 1 .. Len(reported[h]) |-> reported[h][i].status]]

KeepsContract == Contract!ContractSpec
=============================================================================
