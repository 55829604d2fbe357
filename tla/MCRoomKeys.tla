----------------------------- MODULE MCRoomKeys -----------------------------
(* Instances of RoomKeys for TLC. *)
EXTENDS RoomKeys
CONSTANTS c, x, y, k0, k1
=============================================================================
