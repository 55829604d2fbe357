--------------------------- MODULE MCRoomMessages ---------------------------
(* Instances of RoomMessages for TLC. *)
EXTENDS RoomMessages
CONSTANTS c, x, k
=============================================================================
