------------------------------ MODULE Delegation ------------------------------
(***************************************************************************)
(* One process lifetime of the DelegationWatcher (delegation.go) and of    *)
(* the two tools that feed it, run_agents and run_agent.                   *)
(*                                                                         *)
(* A tool call creates one AgentRun per delegation, then registers a group *)
(* with the watcher.  Every run of a registered group has a goroutine that *)
(* watches it, every group has a timeout goroutine, and whoever ends the   *)
(* group calls triggerFn with a prompt for the parent agent.  The atomic   *)
(* steps below are the critical sections of DelegationWatcher.mu and the   *)
(* calls between them: cancelling a context, removing the group, calling   *)
(* triggerFn.                                                              *)
(*                                                                         *)
(* A lifetime starts either empty or with groups that RestoreGroups finds  *)
(* in the checkpoint of the previous one.  What the prompt triggers is     *)
(* left to the conversation; a prompt is counted here when triggerFn is    *)
(* called.                                                                 *)
(***************************************************************************)
EXTENDS Integers, FiniteSets

CONSTANTS
  Group,      \* group IDs
  Run,        \* AgentRun names
  RunsOf,     \* the runs a call delegates to, by group: unique names
  Outcomes    \* terminal phases the operator reports in this instance

\* isTerminalPhase
Terminal == {"Succeeded", "Failed", "Cancelled"}

\* Runs[name] == nil: the run is still open
nil == "nil"

ASSUME RunsOfAssumption ==
  /\ RunsOf \in [Group -> SUBSET Run]
  /\ \A g \in Group : RunsOf[g] # {} /\ IsFiniteSet(RunsOf[g])
  /\ \A g, h \in Group : g # h => RunsOf[g] \cap RunsOf[h] = {}
  /\ \A r \in Run : \E g \in Group : r \in RunsOf[g]

ASSUME OutcomesAssumption == Outcomes # {} /\ Outcomes \subseteq Terminal

VARIABLES
  phase,      \* the AgentRun in the API server, by run
  call,       \* progress of the tool call that makes the group
  restoring,  \* checkpointed groups RestoreGroups has not reached yet
  groups,     \* keys of dw.groups
  result,     \* group.Runs, by run (names are unique across groups)
  remaining,  \* group.Remaining
  ctx,        \* the context shared by a group's goroutines
  watcher,    \* program counter of watchRun, by run
  timer,      \* program counter of timeoutTimer / handleTimeout
  completer,  \* program counter of triggerCallback
  expired,    \* the group's Timeout lies in the past
  stopped,    \* Stop was called: the daemon is shutting down
  links,      \* pendingChildLinks, as the runs they name
  completed,  \* how often triggerFn got the group's "completed" prompt
  timedOut    \* how often triggerFn got the group's "TIMED OUT" prompt

toolVars  == <<phase, call>>
groupVars == <<groups, result, remaining>>
pcVars    == <<watcher, timer, completer>>
doneVars  == <<completed, timedOut>>
vars == <<phase, call, restoring, groups, result, remaining, ctx, watcher,
          timer, completer, expired, stopped, links, completed, timedOut>>

GroupOf(r) == CHOOSE g \in Group : r \in RunsOf[g]

\* Runs of a group that have no recorded result
Open(g) == {r \in RunsOf[g] : result[r] = nil}

TypeOK ==
  /\ phase \in [Run -> {"absent", "createError", "Active"} \cup Terminal]
  /\ call \in [Group -> {"idle", "creating", "rejected", "failed", "registered"}]
  /\ restoring \in SUBSET Group
  /\ groups \in SUBSET Group
  /\ result \in [Run -> Terminal \cup {nil}]
  /\ remaining \in [Group -> Int]
  /\ ctx \in [Group -> {"none", "live", "cancelled"}]
  /\ watcher \in [Run -> {"none", "loop", "watching", "check", "callback", "done"}]
  /\ timer \in [Group -> {"none", "armed", "fired", "removed", "deliver", "done"}]
  /\ completer \in [Group -> {"none", "cancel", "remove", "deliver", "done"}]
  /\ expired \in [Group -> BOOLEAN]
  /\ stopped \in BOOLEAN
  /\ links \in SUBSET Run
  /\ completed \in [Group -> Nat]
  /\ timedOut \in [Group -> Nat]

-------------------------------------------------------------------------------
(* Start of a lifetime *)

\* No goroutine of the watcher exists yet; S are the checkpointed groups
Boot(S) ==
  /\ restoring = S
  /\ call = [g \in Group |-> IF g \in S THEN "registered" ELSE "idle"]
  /\ groups = {}
  /\ remaining = [g \in Group |-> 0]
  /\ ctx = [g \in Group |-> "none"]
  /\ watcher = [r \in Run |-> "none"]
  /\ timer = [g \in Group |-> "none"]
  /\ completer = [g \in Group |-> "none"]
  /\ stopped = FALSE
  /\ links = {}
  /\ completed = [g \in Group |-> 0]
  /\ timedOut = [g \in Group |-> 0]

\* A checkpoint holds created runs, each with its final phase or with none;
\* some may have ended, and some deadlines passed, while no daemon ran.
Init ==
  \E S \in SUBSET Group :
    /\ Boot(S)
    /\ phase \in [Run -> {"absent", "Active"} \cup Outcomes]
    /\ result \in [Run -> Terminal \cup {nil}]
    /\ expired \in [Group -> BOOLEAN]
    /\ \A g \in S : \A r \in RunsOf[g] : phase[r] # "absent" /\ result[r] \in {nil, phase[r]}
    /\ \A g \in Group \ S :
         /\ ~expired[g]
         /\ \A r \in RunsOf[g] : phase[r] = "absent" /\ result[r] = nil

\* Register: the group enters the map with a live context, and a goroutine
\* starts for every run, those with a result included, and for the timeout
RegisterGroup(g) ==
  /\ groups' = groups \cup {g}
  /\ ctx' = [ctx EXCEPT ![g] = "live"]
  /\ watcher' = [r \in Run |-> IF r \in RunsOf[g] THEN "loop" ELSE watcher[r]]
  /\ timer' = [timer EXCEPT ![g] = "armed"]

\* RestoreGroups, its turn for an expired group
SkipExpired(g) ==
  /\ g \in restoring
  /\ expired[g]
  /\ restoring' = restoring \ {g}
  /\ UNCHANGED <<toolVars, groupVars, ctx, pcVars, expired, stopped, links, doneVars>>

\* Mutant: it is registered like any other
RestoreCompleteAsOpen(g) ==
  /\ g \in restoring
  /\ ~expired[g]
  /\ Open(g) = {}
  /\ restoring' = restoring \ {g}
  /\ remaining' = [remaining EXCEPT ![g] = 0]
  /\ RegisterGroup(g)
  /\ UNCHANGED <<toolVars, result, completer, expired, stopped, links, doneVars>>

\* RestoreGroups, its turn for a group whose runs were all recorded: a
\* goroutine of its own runs triggerCallback on it, with no cancelFn set
RestoreComplete(g) ==
  /\ g \in restoring
  /\ ~expired[g]
  /\ Open(g) = {}
  /\ restoring' = restoring \ {g}
  /\ remaining' = [remaining EXCEPT ![g] = 0]
  /\ completer' = [completer EXCEPT ![g] = "remove"]
  /\ UNCHANGED <<toolVars, groups, result, ctx, watcher, timer, expired,
                 stopped, links, doneVars>>

\* Mutant: Remaining stays at the number of delegations
RestoreOpenWithoutRecount(g) ==
  /\ g \in restoring
  /\ ~expired[g]
  /\ Open(g) # {}
  /\ restoring' = restoring \ {g}
  /\ remaining' = [remaining EXCEPT ![g] = Cardinality(RunsOf[g])]
  /\ RegisterGroup(g)
  /\ UNCHANGED <<toolVars, result, completer, expired, stopped, links, doneVars>>

\* Mutant: the watchers are started again, the timeout is not
RestoreOpenWithoutTimer(g) ==
  /\ g \in restoring
  /\ ~expired[g]
  /\ Open(g) # {}
  /\ restoring' = restoring \ {g}
  /\ remaining' = [remaining EXCEPT ![g] = Cardinality(Open(g))]
  /\ groups' = groups \cup {g}
  /\ ctx' = [ctx EXCEPT ![g] = "live"]
  /\ watcher' = [r \in Run |-> IF r \in RunsOf[g] THEN "loop" ELSE watcher[r]]
  /\ UNCHANGED <<toolVars, result, timer, completer, expired, stopped, links, doneVars>>

\* RestoreGroups, its turn for a group with open runs: recount and register
RestoreOpen(g) ==
  /\ g \in restoring
  /\ ~expired[g]
  /\ Open(g) # {}
  /\ restoring' = restoring \ {g}
  /\ remaining' = [remaining EXCEPT ![g] = Cardinality(Open(g))]
  /\ RegisterGroup(g)
  /\ UNCHANGED <<toolVars, result, completer, expired, stopped, links, doneVars>>

-------------------------------------------------------------------------------
(* The tools *)

\* RestoreGroups runs before the server listens; until it ends only a turn
\* started by a restored group's own callback can call a tool.
Serving == restoring = {} \/ \E g \in Group : completed[g] + timedOut[g] > 0

\* Validation of all delegations: any invalid one ends the call, no run made
StartCall(g) ==
  /\ Serving
  /\ call[g] = "idle"
  /\ \E c \in {"creating", "rejected"} : call' = [call EXCEPT ![g] = c]
  /\ UNCHANGED <<phase, restoring, groupVars, ctx, pcVars, expired, stopped,
                 links, doneVars>>

\* One of the parallel CreateAgentRun calls answers
CreateAgentRun(r) ==
  /\ call[GroupOf(r)] = "creating"
  /\ phase[r] = "absent"
  /\ \E p \in {"Active", "createError"} : phase' = [phase EXCEPT ![r] = p]
  /\ UNCHANGED <<call, restoring, groupVars, ctx, pcVars, expired, stopped,
                 links, doneVars>>

\* All creates have answered, one with an error: the call reports it and
\* returns; the runs that were created are not registered.
ReportCreateErrors(g) ==
  /\ call[g] = "creating"
  /\ \A r \in RunsOf[g] : phase[r] # "absent"
  /\ \E r \in RunsOf[g] : phase[r] = "createError"
  /\ call' = [call EXCEPT ![g] = "failed"]
  /\ UNCHANGED <<phase, restoring, groupVars, ctx, pcVars, expired, stopped,
                 links, doneVars>>

\* All creates have succeeded: build the group and register it
Register(g) ==
  /\ call[g] = "creating"
  /\ \A r \in RunsOf[g] : phase[r] \notin {"absent", "createError"}
  /\ call' = [call EXCEPT ![g] = "registered"]
  /\ remaining' = [remaining EXCEPT ![g] = Cardinality(RunsOf[g])]
  /\ RegisterGroup(g)
  /\ UNCHANGED <<phase, restoring, result, completer, expired, stopped, links, doneVars>>

\* External: the operator moves a created run to a terminal phase
FinishRun(r) ==
  /\ phase[r] = "Active"
  /\ \E p \in Outcomes : phase' = [phase EXCEPT ![r] = p]
  /\ UNCHANGED <<call, restoring, groupVars, ctx, pcVars, expired, stopped,
                 links, doneVars>>

\* External: the clock passes the deadline of a group that has one
PassDeadline(g) ==
  /\ call[g] = "registered"
  /\ ~expired[g]
  /\ expired' = [expired EXCEPT ![g] = TRUE]
  /\ UNCHANGED <<toolVars, restoring, groupVars, ctx, pcVars, stopped, links, doneVars>>

-------------------------------------------------------------------------------
(* watchRun: one goroutine per run *)

\* Top of the loop: stop on a cancelled context, else open a watch.  A failed
\* open waits and comes back here.
WatchAgentRun(r) ==
  /\ watcher[r] = "loop"
  /\ watcher' = [watcher EXCEPT
       ![r] = IF ctx[GroupOf(r)] = "cancelled" THEN "done" ELSE "watching"]
  /\ UNCHANGED <<toolVars, restoring, groupVars, ctx, timer, completer, expired,
                 stopped, links, doneVars>>

\* The context is done, the channel is closed, or an Error event came
WatchEnds(r) ==
  /\ watcher[r] = "watching"
  /\ watcher' = [watcher EXCEPT ![r] = "check"]
  /\ UNCHANGED <<toolVars, restoring, groupVars, ctx, timer, completer, expired,
                 stopped, links, doneVars>>

\* An Added or Modified event carries a terminal phase: recordCompletion,
\* for a group that is gone or a run that already has a result
IgnoreCompletion(r) ==
  LET g == GroupOf(r) IN
  /\ watcher[r] = "watching"
  /\ phase[r] \in Terminal
  /\ g \notin groups \/ result[r] # nil
  /\ watcher' = [watcher EXCEPT ![r] = "check"]
  /\ UNCHANGED <<toolVars, restoring, groupVars, ctx, timer, completer, expired,
                 stopped, links, doneVars>>

\* Recording without the guards, for the mutants of RecordCompletion
RecordAndCount(r) ==
  LET g == GroupOf(r) IN
  /\ result' = [result EXCEPT ![r] = phase[r]]
  /\ remaining' = [remaining EXCEPT ![g] = @ - 1]
  /\ IF remaining'[g] = 0
     THEN /\ completer' = [completer EXCEPT ![g] = "cancel"]
          /\ watcher' = [watcher EXCEPT ![r] = "callback"]
     ELSE /\ watcher' = [watcher EXCEPT ![r] = "check"]
          /\ UNCHANGED completer
  /\ UNCHANGED <<toolVars, restoring, groups, ctx, timer, expired, stopped,
                 links, doneVars>>

\* Mutant: any phase is recorded, terminal or not
RecordAnyPhase(r) ==
  /\ watcher[r] = "watching"
  /\ GroupOf(r) \in groups
  /\ result[r] = nil
  /\ RecordAndCount(r)

\* Mutant: a result is recorded again
RecordAgain(r) ==
  /\ watcher[r] = "watching"
  /\ phase[r] \in Terminal
  /\ GroupOf(r) \in groups
  /\ RecordAndCount(r)

\* Mutant: a result is recorded although the group has been removed
RecordAfterRemoval(r) ==
  /\ watcher[r] = "watching"
  /\ phase[r] \in Terminal
  /\ result[r] = nil
  /\ RecordAndCount(r)

\* Mutant: no early return, and the group is complete when no result is nil
RecordAndLookForNil(r) ==
  LET g == GroupOf(r) IN
  /\ watcher[r] = "watching"
  /\ phase[r] \in Terminal
  /\ result' = [result EXCEPT ![r] = phase[r]]
  /\ remaining' = [remaining EXCEPT ![g] = Cardinality(Open(g) \ {r})]
  /\ IF remaining'[g] = 0
     THEN /\ completer' = [completer EXCEPT ![g] = "cancel"]
          /\ watcher' = [watcher EXCEPT ![r] = "callback"]
     ELSE /\ watcher' = [watcher EXCEPT ![r] = "check"]
          /\ UNCHANGED completer
  /\ UNCHANGED <<toolVars, restoring, groups, ctx, timer, expired, stopped,
                 links, doneVars>>

\* recordCompletion, for an open run: the last one goes on to triggerCallback
\* after the lock is released
RecordCompletion(r) ==
  LET g == GroupOf(r) IN
  /\ watcher[r] = "watching"
  /\ phase[r] \in Terminal
  /\ g \in groups
  /\ result[r] = nil
  /\ result' = [result EXCEPT ![r] = phase[r]]
  /\ remaining' = [remaining EXCEPT ![g] = @ - 1]
  /\ IF remaining'[g] = 0
     THEN /\ completer' = [completer EXCEPT ![g] = "cancel"]
          /\ watcher' = [watcher EXCEPT ![r] = "callback"]
     ELSE /\ watcher' = [watcher EXCEPT ![r] = "check"]
          /\ UNCHANGED completer
  /\ UNCHANGED <<toolVars, restoring, groups, ctx, timer, expired, stopped,
                 links, doneVars>>

\* Mutant: no reconnection after the watch has ended
ReturnAfterWatch(r) ==
  /\ watcher[r] = "check"
  /\ watcher' = [watcher EXCEPT ![r] = "done"]
  /\ UNCHANGED <<toolVars, restoring, groupVars, ctx, timer, completer, expired,
                 stopped, links, doneVars>>

\* The watch is over: return if cancelled or recorded, else reconnect
CheckRecorded(r) ==
  LET g == GroupOf(r) IN
  /\ watcher[r] = "check"
  /\ watcher' = [watcher EXCEPT
       ![r] = IF ctx[g] = "cancelled" \/ (g \in groups /\ result[r] # nil)
              THEN "done" ELSE "loop"]
  /\ UNCHANGED <<toolVars, restoring, groupVars, ctx, timer, completer, expired,
                 stopped, links, doneVars>>

-------------------------------------------------------------------------------
(* triggerCallback: on the goroutine of the run that ended last, or on one    *)
(* that RestoreGroups started                                                 *)

CallbackCancels(g) ==
  /\ completer[g] = "cancel"
  /\ completer' = [completer EXCEPT ![g] = "remove"]
  /\ ctx' = [ctx EXCEPT ![g] = "cancelled"]
  /\ UNCHANGED <<toolVars, restoring, groupVars, watcher, timer, expired,
                 stopped, links, doneVars>>

\* Under the lock: delete the group, whether or not it is still in the map,
\* and replace the pending child links by those of its runs
CallbackRemoves(g) ==
  /\ completer[g] = "remove"
  /\ completer' = [completer EXCEPT ![g] = "deliver"]
  /\ groups' = groups \ {g}
  /\ links' = {r \in RunsOf[g] : result[r] # nil}
  /\ UNCHANGED <<toolVars, restoring, result, remaining, ctx, watcher, timer,
                 expired, stopped, doneVars>>

\* Build the prompt from group.Runs, emit, call triggerFn, return
CallbackTriggers(g) ==
  /\ completer[g] = "deliver"
  /\ completer' = [completer EXCEPT ![g] = "done"]
  /\ completed' = [completed EXCEPT ![g] = @ + 1]
  /\ watcher' = [r \in Run |->
       IF r \in RunsOf[g] /\ watcher[r] = "callback" THEN "check" ELSE watcher[r]]
  /\ UNCHANGED <<toolVars, restoring, groupVars, ctx, timer, expired, stopped,
                 links, timedOut>>

\* ConsumePendingChildLinks, called when an internal prompt starts a turn
ConsumePendingChildLinks ==
  /\ links # {}
  /\ links' = {}
  /\ UNCHANGED <<toolVars, restoring, groupVars, ctx, pcVars, expired, stopped, doneVars>>

-------------------------------------------------------------------------------
(* timeoutTimer and handleTimeout: one goroutine per group *)

\* The select: both branches are open when the deadline has passed and the
\* context is done, and Go then takes either
TimerSelects(g) ==
  /\ timer[g] = "armed"
  /\ \/ ctx[g] = "cancelled" /\ timer' = [timer EXCEPT ![g] = "done"]
     \/ expired[g] /\ timer' = [timer EXCEPT ![g] = "fired"]
  /\ UNCHANGED <<toolVars, restoring, groupVars, ctx, watcher, completer,
                 expired, stopped, links, doneVars>>

\* Under the lock: return if the group is gone, else delete it
TimeoutRemoves(g) ==
  /\ timer[g] = "fired"
  /\ timer' = [timer EXCEPT ![g] = IF g \in groups THEN "removed" ELSE "done"]
  /\ groups' = groups \ {g}
  /\ UNCHANGED <<toolVars, restoring, result, remaining, ctx, watcher,
                 completer, expired, stopped, links, doneVars>>

TimeoutCancels(g) ==
  /\ timer[g] = "removed"
  /\ timer' = [timer EXCEPT ![g] = "deliver"]
  /\ ctx' = [ctx EXCEPT ![g] = "cancelled"]
  /\ UNCHANGED <<toolVars, restoring, groupVars, watcher, completer, expired,
                 stopped, links, doneVars>>

\* Build the prompt from group.Runs without the lock, emit, call triggerFn
TimeoutTriggers(g) ==
  /\ timer[g] = "deliver"
  /\ timer' = [timer EXCEPT ![g] = "done"]
  /\ timedOut' = [timedOut EXCEPT ![g] = @ + 1]
  /\ UNCHANGED <<toolVars, restoring, groupVars, ctx, watcher, completer,
                 expired, stopped, links, completed>>

\* Stop, on shutdown: cancel every group, remove none
Stop ==
  /\ ~stopped
  /\ stopped' = TRUE
  /\ ctx' = [g \in Group |-> IF g \in groups THEN "cancelled" ELSE ctx[g]]
  /\ UNCHANGED <<toolVars, restoring, groupVars, pcVars, expired, links, doneVars>>

-------------------------------------------------------------------------------
Restore(g) == SkipExpired(g) \/ RestoreComplete(g) \/ RestoreOpen(g)

Tool(g) == StartCall(g) \/ ReportCreateErrors(g) \/ Register(g)

Callback(g) == CallbackCancels(g) \/ CallbackRemoves(g) \/ CallbackTriggers(g)

Timeout(g) ==
  TimerSelects(g) \/ TimeoutRemoves(g) \/ TimeoutCancels(g) \/ TimeoutTriggers(g)

Watch(r) ==
  \/ WatchAgentRun(r)
  \/ WatchEnds(r)
  \/ IgnoreCompletion(r)
  \/ RecordCompletion(r)
  \/ CheckRecorded(r)

Work ==
  \/ \E g \in Group : Restore(g) \/ Tool(g) \/ PassDeadline(g) \/ Callback(g) \/ Timeout(g)
  \/ \E r \in Run : CreateAgentRun(r) \/ FinishRun(r) \/ Watch(r)
  \/ ConsumePendingChildLinks

Next == Work \/ Stop

Spec == Init /\ [][Next]_vars

\* The Go scheduler runs every goroutine that can run, the clock moves on,
\* and RestoreGroups walks its list.
SchedulerFairness ==
  /\ \A g \in Group : /\ WF_vars(Restore(g))
                      /\ WF_vars(Callback(g))
                      /\ WF_vars(Timeout(g))
  /\ \A r \in Run : WF_vars(WatchAgentRun(r)) /\ WF_vars(CheckRecorded(r))

\* The API server does not end every watch before it has sent the event that
\* shows a terminal run
WatchFairness == \A r \in Run : SF_vars(RecordCompletion(r))

FairSpec == Spec /\ SchedulerFairness /\ WatchFairness

\* The clock reaches every deadline that is not met before
ClockRuns == \A g \in Group : WF_vars(PassDeadline(g))

-------------------------------------------------------------------------------
(* Properties *)

\* Remaining counts the runs without a result for as long as the group is
\* registered, across double events, restores and recounts: recordCompletion
\* decides by it whether the group is complete.
RemainingCountsOpenRuns ==
  \A g \in groups : remaining[g] = Cardinality(Open(g))

\* A group is never announced as completed while one of its runs has no
\* result (triggerCallback's prompt says that all agents have completed).
CompletedMeansAllRecorded ==
  \A g \in Group : completed[g] > 0 => Open(g) = {}

\* In one lifetime a group is announced as completed at most once and as
\* timed out at most once, however watch events, timer and restore interleave.
EachPromptAtMostOnce ==
  \A g \in Group : completed[g] <= 1 /\ timedOut[g] <= 1

\* A group leaves the map only on the hands of a goroutine that has called
\* triggerFn for it or is about to: no removal forgets the parent agent.
RemovedIsReported ==
  \A g \in Group :
    call[g] = "registered" /\ g \notin groups /\ g \notin restoring =>
      \/ completed[g] + timedOut[g] > 0
      \/ completer[g] \in {"remove", "deliver"}
      \/ timer[g] \in {"removed", "deliver"}
      \/ expired[g] /\ timer[g] = "none"    \* skipped by RestoreGroups

\* While a goroutine builds a group's prompt, no step changes its results
ReportedResultsKept ==
  \A g \in Group : \A r \in RunsOf[g] :
    completer[g] \in {"cancel", "remove", "deliver"} \/ timer[g] \in {"removed", "deliver"}
      => result'[r] = result[r]

\* Once a group is out of the map its results are final: handleTimeout and
\* triggerCallback read group.Runs after the unlock and build on this.
ResultsFrozenAfterRemoval == [][ReportedResultsKept]_vars

\* Every group that is registered, or restored with nothing left to wait for,
\* is reported, unless the daemon shuts down first: the timeout goroutine sees
\* to it when the runs do not end.
EveryGroupReported ==
  ClockRuns =>
    \A g \in Group :
      (g \in groups \/ completer[g] # "none")
        ~> (completed[g] + timedOut[g] > 0 \/ stopped)

\* A group all of whose runs have ended is announced as completed, unless its
\* deadline passes or the daemon shuts down first: no run's end is missed by
\* reconnecting watches.
EndedGroupCompletes ==
  \A g \in Group :
    (g \in groups /\ \A r \in RunsOf[g] : phase[r] \in Terminal)
      ~> (completed[g] > 0 \/ expired[g] \/ stopped)

-------------------------------------------------------------------------------
(* The inductive invariant behind the safety properties *)

\* Before its registration, or its turn in RestoreGroups, a group has no
\* goroutine, no prompt and no place in the map; before its registration by
\* a tool call it has no result either.
UnregisteredIsFresh ==
  \A g \in Group :
    /\ g \in restoring => call[g] = "registered"
    /\ call[g] # "registered" => Open(g) = RunsOf[g]
    /\ call[g] # "registered" \/ g \in restoring =>
         /\ g \notin groups
         /\ completer[g] = "none" /\ completed[g] = 0
         /\ timer[g] = "none" /\ timedOut[g] = 0

\* triggerCallback runs for groups without open runs only, and runs once
CompleterHasAllResults ==
  \A g \in Group :
    /\ completer[g] # "none" => Open(g) = {}
    /\ completed[g] = IF completer[g] = "done" THEN 1 ELSE 0
    /\ completer[g] \in {"deliver", "done"} => g \notin groups

\* Past its delete, handleTimeout has taken the group out of the map for good
TimeoutRemovedGroup ==
  \A g \in Group :
    /\ timedOut[g] > 0 => timer[g] = "done" /\ timedOut[g] = 1
    /\ timer[g] \in {"removed", "deliver"} \/ timedOut[g] > 0 => g \notin groups

\* Inductive by itself, and kept by a process that starts with groups lost
WatcherInv ==
  /\ TypeOK
  /\ UnregisteredIsFresh
  /\ RemainingCountsOpenRuns
  /\ CompleterHasAllResults
  /\ TimeoutRemovedGroup

IInv == WatcherInv /\ RemovedIsReported

-------------------------------------------------------------------------------
(* What a group is to the parent agent *)

Accepted == {g \in Group : call[g] = "registered"}

\* RestoreGroups passed it over: registered, and never watched or reported
Skipped(g) ==
  /\ call[g] = "registered" /\ g \notin restoring /\ g \notin groups
  /\ timer[g] = "none" /\ completer[g] = "none"

Dropped == {g \in Group : Skipped(g)}

Ended == {r \in Run : phase[r] \in Terminal}

Late == {g \in Group : expired[g]}

PromptsOf(g) ==
  (IF completed[g] > 0 THEN {"completed"} ELSE {})
    \cup (IF timedOut[g] > 0 THEN {"timedOut"} ELSE {})

Given == [g \in Group |-> PromptsOf(g)]

Promise == INSTANCE DelegationPromise WITH
  accepted <- Accepted, dropped <- Dropped, ended <- Ended, late <- Late, prompts <- Given

\* A recorded result is the phase the run has ended in, and a timer fires when
\* its deadline has passed
ReportsAreTrue ==
  /\ \A r \in Run : result[r] \in {nil, phase[r]}
  /\ \A g \in Group : timer[g] \in {"fired", "removed", "deliver"} => expired[g]

\* The watcher keeps the tools' promise: every step of tools, watchers, timers
\* and restores is a step of DelegationPromise or invisible there.  A prompt
\* speaks of ends and deadlines that have really come, and none is repeated.
KeepsPromise == Promise!PromiseSpec

-------------------------------------------------------------------------------
(* What the documentation says and the code does not keep *)

\* "Already completed": a group that completed is not also reported as timed
\* out (the comments on handleTimeout's early return and on timeoutTimer).
ReportedOnce ==
  \A g \in Group : completed[g] + timedOut[g] <= 1

===============================================================================
