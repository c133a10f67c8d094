--------------------------- MODULE MCSubAgentPool ---------------------------
(***************************************************************************)
(* Two calls of spawn: three profiles for two workers, and a call whose    *)
(* one profile carries a label of the first; or one call with a queue.     *)
(***************************************************************************)
EXTENDS SubAgentPool, TLC

CONSTANTS f1, f2, la, lb, lc

TwoFanouts == {f1, f2}
SharedLabel == (f1 :> <<la, lb, lc>>) @@ (f2 :> <<la>>)
OneFanout == {f1}
Pair == f1 :> <<la, lb>>
=============================================================================
