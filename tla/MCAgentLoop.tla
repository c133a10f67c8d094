---------------------------- MODULE MCAgentLoop ----------------------------
(***************************************************************************)
(* AgentLoop for TLC: its constants come from the configuration files.     *)
(***************************************************************************)
EXTENDS AgentLoop, TLC

\* The children differ in name only.
Permutes == Permutations(Children)

\* Without compaction and probes no guard reads a history, the self-check or what a run
\* delivered, and what a resting run consumed or how a child's ended is never looked at
\* again: a run that asks about the budget alone looks past all of it.
BudgetView == <<used, limits, pc, turn, [a \in Agents |-> IF At(a, "idle") THEN Zero ELSE own[a]],
                aborted, inbox, stop[Root], waiting, detached, trees, goals, continues, sent>>
=============================================================================
