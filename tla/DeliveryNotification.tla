------------------------ MODULE DeliveryNotification ------------------------
(***************************************************************************)
(* What the packet delivery manager promises to the streams above it, with  *)
(* ids, acks, bitmasks and timeouts left out: every packet gets one fate,   *)
(* the fates come in the order the packets were sent, a packet reported     *)
(* delivered has been accepted by the other end, and the other end accepts  *)
(* packets in increasing order, each at most once.                          *)
(*                                                                          *)
(* Nothing is promised of a packet reported dropped: it may have been       *)
(* accepted already, and after a timeout it may still be.                   *)
(***************************************************************************)
EXTENDS Integers, Sequences

CONSTANTS A, B      \* the two ends of a connection

ASSUME TwoHosts == A # B

VARIABLES
    sent,       \* how many packets each host has sent; the k-th is packet k
    accepted,   \* which of a host's packets the other host has accepted
    reported    \* the fates a host has been told of its packets, in order

contractVars == <<sent, accepted, reported>>

Fate == {"ACK", "DROP"}

Ends == {A, B}

Other(h) == IF h = A THEN B ELSE A

ContractInit ==
    /\ sent = [h \in Ends |-> 0]
    /\ accepted = [h \in Ends |-> {}]
    /\ reported = [h \in Ends |-> << >>]

SendPacket(h) ==
    /\ sent' = [sent EXCEPT ![h] = @ + 1]
    /\ UNCHANGED <<accepted, reported>>

\* A packet that host h may accept: newer than all it has accepted.
Acceptable(h, k) ==
    /\ k \in 1 .. sent[Other(h)]
    /\ \A j \in accepted[Other(h)] : j < k

\* h may be told the fates in batch of its next packets.
Reportable(h, batch) ==
    /\ Len(reported[h]) + Len(batch) <= sent[h]
    /\ \A i \in 1 .. Len(batch) :
         batch[i] = "ACK" => Len(reported[h]) + i \in accepted[h]

Report(h, batch) ==
    /\ Reportable(h, batch)
    /\ reported' = [reported EXCEPT ![h] = @ \o batch]

\* h is told the fates of some packets, because a timeout has passed or because
\* of a packet that it refuses ...
Notify(h, batch) ==
    /\ Report(h, batch)
    /\ UNCHANGED <<sent, accepted>>

\* ... or because of a packet that it accepts, packet k of the other host.
Accept(h, batch, k) ==
    /\ Acceptable(h, k)
    /\ Report(h, batch)
    /\ accepted' = [accepted EXCEPT ![Other(h)] = @ \cup {k}]
    /\ UNCHANGED sent

\* The fates of up to as many packets as are still without one.
Batches(h) == UNION {[1 .. n -> Fate] : n \in 0 .. sent[h] - Len(reported[h])}

ContractNext ==
    \E h \in Ends :
        \/ SendPacket(h)
        \/ \E batch \in Batches(h) :
             \/ Notify(h, batch)
             \/ \E k \in 1 .. sent[Other(h)] : Accept(h, batch, k)

ContractSpec == ContractInit /\ [][ContractNext]_contractVars
=============================================================================
