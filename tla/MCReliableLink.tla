--------------------------- MODULE MCReliableLink ---------------------------
(* An instance of ReliableLink for TLC. *)
EXTENDS ReliableLink
=============================================================================
