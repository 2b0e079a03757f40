-------------------------- MODULE MCUnreliableLink --------------------------
(* Instances of UnreliableLink for TLC. *)
EXTENDS UnreliableLink
=============================================================================
