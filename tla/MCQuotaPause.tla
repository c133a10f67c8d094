---------------------------- MODULE MCQuotaPause ----------------------------
(***************************************************************************)
(* QuotaPause for TLC: short ladders and waits, all different.             *)
(***************************************************************************)
EXTENDS QuotaPause, TLC

CONSTANTS main, c1, c2, nobody

MCAgents == {main, c1, c2}
MCProbeLadder == <<1, 2>>
MCKnownResetLadder == <<2>>
MCBalanceLadder == <<3>>
=============================================================================
