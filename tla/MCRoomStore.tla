----------------------------- MODULE MCRoomStore -----------------------------
(* A small instance of RoomStore for TLC. *)
EXTENDS RoomStore
=============================================================================
