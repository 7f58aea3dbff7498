------------------------------ MODULE MC_TaskRun ------------------------------
(* Three environments: a coding run, a run with memory on a cluster without  *)
(* git, and a run that delegates.                                            *)
EXTENDS TaskRun

CONSTANTS me, task, daemon, other, server

MCAgent == {me, task, daemon, other}
MCTeam == {me, task, daemon}
MCFinishes ==
  {<<"plan", {"issue"}>>, <<"discovery", {}>>, <<"bogus", {}>>, <<"plan", {"bogus"}>>}
MCConfs ==
  {[git |-> TRUE, named |-> TRUE, memory |-> FALSE, team |-> FALSE, mcp |-> {}],
   [git |-> FALSE, named |-> TRUE, memory |-> TRUE, team |-> FALSE, mcp |-> {server}],
   [git |-> FALSE, named |-> FALSE, memory |-> FALSE, team |-> TRUE, mcp |-> {}]}
=============================================================================
