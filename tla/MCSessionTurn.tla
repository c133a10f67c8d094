--------------------------- MODULE MCSessionTurn ---------------------------
(***************************************************************************)
(* SessionTurn for TLC.                                                    *)
(***************************************************************************)
EXTENDS SessionTurn

=============================================================================
