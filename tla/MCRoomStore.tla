---------------------------- MODULE MCRoomStore -----------------------------
(***************************************************************************)
(* RoomStore for TLC: the processes differ in name only.                   *)
(***************************************************************************)
EXTENDS RoomStore, TLC

Permutes == Permutations(Processes)
=============================================================================
