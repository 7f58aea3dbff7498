--------------------------- MODULE DelegationPromise ---------------------------
(***************************************************************************)
(* What the delegation tools promise the parent agent, whoever watches,    *)
(* retries, restores or times out behind it: a group that has been         *)
(* accepted is answered with a prompt that says all its runs have ended,   *)
(* only when they have, or with one that says its deadline has passed,     *)
(* only when it has, and with neither of them twice.  A group restored     *)
(* after its deadline may be dropped instead.                              *)
(***************************************************************************)
CONSTANTS Group, Run, RunsOf

VARIABLES
  accepted,  \* groups a call has registered, or a checkpoint has kept
  dropped,   \* groups given up without a prompt
  ended,     \* runs that have reached a terminal phase
  late,      \* groups whose deadline has passed
  prompts    \* the prompts the parent agent has been given, by group

promiseVars == <<accepted, dropped, ended, late, prompts>>

Prompt == {"completed", "timedOut"}

PromiseInit ==
  /\ accepted \in SUBSET Group
  /\ dropped = {}
  /\ ended \in SUBSET Run
  /\ late \in SUBSET accepted
  /\ prompts = [g \in Group |-> {}]

Accept(g) ==
  /\ g \notin accepted
  /\ accepted' = accepted \cup {g}
  /\ UNCHANGED <<dropped, ended, late, prompts>>

Drop(g) ==
  /\ g \in accepted \cap late
  /\ prompts[g] = {}
  /\ dropped' = dropped \cup {g}
  /\ UNCHANGED <<accepted, ended, late, prompts>>

EndRun(r) ==
  /\ r \notin ended
  /\ ended' = ended \cup {r}
  /\ UNCHANGED <<accepted, dropped, late, prompts>>

BecomeLate(g) ==
  /\ g \in accepted \ late
  /\ late' = late \cup {g}
  /\ UNCHANGED <<accepted, dropped, ended, prompts>>

Answer(g, p) ==
  /\ g \in accepted \ dropped
  /\ p \notin prompts[g]
  /\ p = "completed" => RunsOf[g] \subseteq ended
  /\ p = "timedOut" => g \in late
  /\ prompts' = [prompts EXCEPT ![g] = @ \cup {p}]
  /\ UNCHANGED <<accepted, dropped, ended, late>>

PromiseNext ==
  \/ \E g \in Group : Accept(g) \/ Drop(g) \/ BecomeLate(g) \/ \E p \in Prompt : Answer(g, p)
  \/ \E r \in Run : EndRun(r)

PromiseSpec == PromiseInit /\ [][PromiseNext]_promiseVars

===============================================================================
