------------------------- MODULE MC_DelegationRestart -------------------------
(***************************************************************************)
(* Instances of DelegationRestart for TLC                                  *)
(***************************************************************************)
EXTENDS DelegationRestart, TLC

CONSTANTS fan, a, b

\* One fan-out of two runs
FanOnly == {fan}
FanRuns == {a, b}
FanRunsOf == (fan :> {a, b})
===============================================================================
