-------------------------- MODULE MCRoomLifecycle --------------------------
(* Small instances of RoomLifecycle for TLC. *)
EXTENDS RoomLifecycle

=============================================================================
