--------------------------- MODULE MCEditJournal ---------------------------
(***************************************************************************)
(* The main agent and a detached child over one file.                       *)
(***************************************************************************)
EXTENDS EditJournal, TLC

CONSTANTS f1, a1, a2

\* The agents differ in name only.
Permutes == Permutations(Agents)
=============================================================================
