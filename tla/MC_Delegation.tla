---------------------------- MODULE MC_Delegation ----------------------------
(***************************************************************************)
(* An instance of Delegation for TLC: a fan-out of two runs.               *)
(***************************************************************************)
EXTENDS Delegation, TLC

CONSTANTS fan, a, b

FanOnly == {fan}
FanRuns == {a, b}
FanRunsOf == (fan :> {a, b})
===============================================================================
