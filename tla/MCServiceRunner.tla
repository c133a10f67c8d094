-------------------------- MODULE MCServiceRunner --------------------------
(***************************************************************************)
(* A workflow of two activities, two lines of the owner, two updates.      *)
(***************************************************************************)
EXTENDS ServiceRunner, TLC

CONSTANTS x, y

TwoSays == {x, y}
=============================================================================
