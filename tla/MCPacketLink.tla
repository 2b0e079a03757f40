---------------------------- MODULE MCPacketLink ----------------------------
(* An instance of PacketLink for TLC. *)
EXTENDS PacketLink
=============================================================================
