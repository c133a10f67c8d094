------------------------------ MODULE RoomLog ------------------------------
(***************************************************************************)
(* What a room promises its writers: one line of messages for all of them, *)
(* which grows at its end.  It repeats nothing and takes nothing back:     *)
(* only a death may cut lines off its end, and only a room whose time is   *)
(* over goes.  RoomStore implements it with a file, a lock file and calls  *)
(* that interleave, until a living process is robbed of lock or room.      *)
(***************************************************************************)
EXTENDS Sequences, SequencesExt

VARIABLES log, living, over, broken

vars == <<log, living, over, broken>>

Init == log = <<>> /\ over = FALSE /\ broken = FALSE

Post ==
  /\ IsPrefix(log, log') /\ IsInjective(log')
  /\ UNCHANGED <<living, over, broken>>

\* What the dead was writing is there in part, or gone with what came before it.
Death ==
  /\ \E p \in living : living' = living \ {p}
  /\ IsPrefix(log, log') \/ IsPrefix(log', log)
  /\ IsInjective(log')
  /\ UNCHANGED <<over, broken>>

TimeIsOver == over' = TRUE /\ UNCHANGED <<log, living, broken>>

Vanish == over /\ log' = <<>> /\ UNCHANGED <<living, over, broken>>

\* After that anything may be lost.
Break == broken'

Next == Post \/ Death \/ TimeIsOver \/ Vanish \/ Break

Spec == Init /\ [][Next]_vars
=============================================================================
