--------------------------- MODULE MCRoomSession ---------------------------
(* Instances of RoomSession for TLC. *)
EXTENDS RoomSession, TLC

=============================================================================
