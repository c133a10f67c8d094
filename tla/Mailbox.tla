------------------------------ MODULE Mailbox ------------------------------
(***************************************************************************)
(* What the session promises of the messages its owner sends: a message    *)
(* waits, until a turn takes it or the owner's own stop clears it; whatever *)
(* has been taken or cleared never waits again.  Only one with mentions may *)
(* go back to its owner, as if it had not been sent.  SessionTurn           *)
(* implements it with three queues, the lines whose mentions are being      *)
(* resolved, and the hand-overs between them.                               *)
(***************************************************************************)
CONSTANTS Messages, Mentions

VARIABLES waiting, taken, cleared

vars == <<waiting, taken, cleared>>

Known == waiting \cup taken \cup cleared

Init == waiting = {} /\ taken = {} /\ cleared = {}

Send(m) ==
  /\ m \notin Known
  /\ waiting' = waiting \cup {m}
  /\ UNCHANGED <<taken, cleared>>

\* A turn takes some of those that wait, and perhaps the new message that started it.
Take(S, fresh) ==
  /\ S # {} /\ fresh \cap Known = {} /\ S \subseteq waiting \cup fresh /\ fresh \subseteq S
  /\ waiting' = waiting \ S
  /\ taken' = taken \cup S
  /\ UNCHANGED cleared

Clear(S) ==
  /\ S # {} /\ S \subseteq waiting
  /\ waiting' = waiting \ S
  /\ cleared' = cleared \cup S
  /\ UNCHANGED taken

Return(m) ==
  /\ m \in waiting
  /\ waiting' = waiting \ {m}
  /\ UNCHANGED <<taken, cleared>>

Next ==
  \/ \E m \in Messages : Send(m)
  \/ \E m \in Mentions : Return(m)
  \/ \E S \in SUBSET Messages : \E fresh \in SUBSET S : Take(S, fresh)
  \/ \E S \in SUBSET Messages : Clear(S)

Spec == Init /\ [][Next]_vars
=============================================================================
