------------------------------ MODULE MCNeptun ------------------------------
(* Instances of Neptun for TLC. *)
EXTENDS Neptun

\* Both hosts accept packets of 800 bytes, as the client of neptun_test.cc does.
Limits == [h \in Host |-> 800]

\* B accepts packets of 200 bytes only; depending on the byte that A reads in
\* place of the last one, that is a valid limit or not.
ShortLimits == [h \in Host |-> IF h = A THEN 800 ELSE 200]

ThreePackets == [h \in Host |-> 3]
FourPackets == [h \in Host |-> 4]
ThreeAndFivePackets == [h \in Host |-> IF h = A THEN 3 ELSE 5]

\* Where a behaviour is not followed any further: a Reject was written.
NoReject ==
    \A h \in Host : \A i \in 1 .. Len(network[h]) : network[h][i].handshake # <<"Reject">>
=============================================================================
