-------------------------- MODULE Delegation_proofs --------------------------
(***************************************************************************)
(* Proofs about one lifetime of the DelegationWatcher, for any number of   *)
(* groups and runs.                                                        *)
(***************************************************************************)
EXTENDS Delegation, FiniteSetTheorems, TLAPS

-------------------------------------------------------------------------------
(* Facts about the constants and about Open *)

LEMMA GroupOfRun ==
  ASSUME NEW r \in Run
  PROVE  GroupOf(r) \in Group /\ r \in RunsOf[GroupOf(r)]
BY RunsOfAssumption DEF GroupOf

LEMMA GroupOfIsUnique ==
  ASSUME NEW g \in Group, NEW r \in RunsOf[g]
  PROVE  r \in Run /\ GroupOf(r) = g
<1>1. r \in Run
  BY RunsOfAssumption
<1>2. GroupOf(r) \in Group /\ r \in RunsOf[GroupOf(r)]
  BY <1>1, GroupOfRun
<1> QED
  BY <1>1, <1>2, RunsOfAssumption

LEMMA OpenIsFinite ==
  ASSUME NEW g \in Group
  PROVE  /\ IsFiniteSet(RunsOf[g]) /\ IsFiniteSet(Open(g))
         /\ Cardinality(RunsOf[g]) \in Nat /\ Cardinality(Open(g)) \in Nat
<1>1. IsFiniteSet(RunsOf[g]) /\ Open(g) \subseteq RunsOf[g]
  BY RunsOfAssumption DEF Open
<1>2. IsFiniteSet(Open(g))
  BY <1>1, FS_Subset
<1> QED
  BY <1>1, <1>2, FS_CardinalityType

-------------------------------------------------------------------------------
(* Types *)

LEMMA InitTypeOK == Init => TypeOK
<1> SUFFICES ASSUME Init
             PROVE  TypeOK
  OBVIOUS
<1>1. PICK S \in SUBSET Group : Boot(S)
  BY DEF Init
<1>2. /\ phase \in [Run -> {"absent", "Active"} \cup Outcomes]
      /\ result \in [Run -> Terminal \cup {nil}]
      /\ expired \in [Group -> BOOLEAN]
  BY DEF Init
<1>3. phase \in [Run -> {"absent", "createError", "Active"} \cup Terminal]
  BY <1>2, OutcomesAssumption
<1>4. /\ restoring \in SUBSET Group
      /\ call \in [Group -> {"idle", "creating", "rejected", "failed", "registered"}]
  BY <1>1 DEF Boot
<1>5. /\ groups \in SUBSET Group /\ links \in SUBSET Run /\ stopped \in BOOLEAN
      /\ completed \in [Group -> Nat]
      /\ timedOut \in [Group -> Nat]
  BY <1>1 DEF Boot
<1>6. /\ ctx \in [Group -> {"none", "live", "cancelled"}]
      /\ watcher \in [Run -> {"none", "loop", "watching", "check", "callback", "done"}]
      /\ timer \in [Group -> {"none", "armed", "fired", "removed", "deliver", "done"}]
      /\ completer \in [Group -> {"none", "cancel", "remove", "deliver", "done"}]
  BY <1>1 DEF Boot
<1>7. remaining \in [Group -> Int]
  BY <1>1 DEF Boot
<1> QED
  BY <1>2, <1>3, <1>4, <1>5, <1>6, <1>7 DEF TypeOK

LEMMA NextTypeOK == TypeOK /\ [Next]_vars => TypeOK'
<1> SUFFICES ASSUME TypeOK, [Next]_vars
             PROVE  TypeOK'
  OBVIOUS
<1> USE DEF TypeOK, toolVars, groupVars, pcVars, doneVars
<1>1. CASE UNCHANGED vars
  BY <1>1 DEF vars
<1>2. ASSUME NEW g \in Group, Restore(g)
      PROVE  TypeOK'
  <2>1. CASE SkipExpired(g)
    BY <2>1 DEF SkipExpired
  <2>2. CASE RestoreComplete(g)
    BY <2>2 DEF RestoreComplete
  <2>3. CASE RestoreOpen(g)
    BY <2>3, OpenIsFinite DEF RestoreOpen, RegisterGroup
  <2> QED
    BY <1>2, <2>1, <2>2, <2>3 DEF Restore
<1>3. ASSUME NEW g \in Group, Tool(g)
      PROVE  TypeOK'
  <2>1. CASE StartCall(g)
    BY <2>1 DEF StartCall
  <2>2. CASE ReportCreateErrors(g)
    BY <2>2 DEF ReportCreateErrors
  <2>3. CASE Register(g)
    BY <2>3, OpenIsFinite DEF Register, RegisterGroup
  <2> QED
    BY <1>3, <2>1, <2>2, <2>3 DEF Tool
<1>4. ASSUME NEW g \in Group, Callback(g)
      PROVE  TypeOK'
  <2>1. CASE CallbackCancels(g)
    BY <2>1 DEF CallbackCancels
  <2>2. CASE CallbackRemoves(g)
    BY <2>2, RunsOfAssumption DEF CallbackRemoves
  <2>3. CASE CallbackTriggers(g)
    BY <2>3 DEF CallbackTriggers
  <2> QED
    BY <1>4, <2>1, <2>2, <2>3 DEF Callback
<1>5. ASSUME NEW g \in Group, Timeout(g)
      PROVE  TypeOK'
  <2>1. CASE TimerSelects(g)
    BY <2>1 DEF TimerSelects
  <2>2. CASE TimeoutRemoves(g)
    BY <2>2 DEF TimeoutRemoves
  <2>3. CASE TimeoutCancels(g)
    BY <2>3 DEF TimeoutCancels
  <2>4. CASE TimeoutTriggers(g)
    BY <2>4 DEF TimeoutTriggers
  <2> QED
    BY <1>5, <2>1, <2>2, <2>3, <2>4 DEF Timeout
<1>6. ASSUME NEW r \in Run, Watch(r)
      PROVE  TypeOK'
  <2>1. CASE WatchAgentRun(r)
    BY <2>1 DEF WatchAgentRun
  <2>2. CASE WatchEnds(r)
    BY <2>2 DEF WatchEnds
  <2>3. CASE IgnoreCompletion(r)
    BY <2>3 DEF IgnoreCompletion
  <2>4. CASE RecordCompletion(r)
    BY <2>4, GroupOfRun DEF RecordCompletion
  <2>5. CASE CheckRecorded(r)
    BY <2>5 DEF CheckRecorded
  <2> QED
    BY <1>6, <2>1, <2>2, <2>3, <2>4, <2>5 DEF Watch
<1>7. ASSUME NEW g \in Group, PassDeadline(g)
      PROVE  TypeOK'
  BY <1>7 DEF PassDeadline
<1>8. ASSUME NEW r \in Run, CreateAgentRun(r)
      PROVE  TypeOK'
  BY <1>8 DEF CreateAgentRun
<1>9. ASSUME NEW r \in Run, FinishRun(r)
      PROVE  TypeOK'
  BY <1>9, OutcomesAssumption DEF FinishRun
<1>10. CASE ConsumePendingChildLinks
  BY <1>10 DEF ConsumePendingChildLinks
<1>11. CASE Stop
  BY <1>11 DEF Stop
<1> QED
  BY <1>1, <1>2, <1>3, <1>4, <1>5, <1>6, <1>7, <1>8, <1>9, <1>10, <1>11 DEF Next, Work

\* Type correctness of every state of a lifetime, for all groups and runs.
THEOREM TypeCorrect == Spec => []TypeOK
BY InitTypeOK, NextTypeOK, PTL DEF Spec

-------------------------------------------------------------------------------
(* The inductive invariant *)

\* WatcherInv without the types
Parts ==
  /\ UnregisteredIsFresh
  /\ RemainingCountsOpenRuns
  /\ CompleterHasAllResults
  /\ TimeoutRemovedGroup

\* That no removal forgets a group is kept by every step for itself
StepKeepsParts == Parts' /\ (RemovedIsReported => RemovedIsReported')

\* The variables that Parts speaks of
core == <<call, restoring, groups, result, remaining, timer, completer,
          expired, completed, timedOut>>

LEMMA InitParts == Init => Parts /\ RemovedIsReported
<1> SUFFICES ASSUME Init
             PROVE  Parts /\ RemovedIsReported
  OBVIOUS
<1>1. PICK S \in SUBSET Group :
        /\ Boot(S)
        /\ \A g \in Group \ S : \A r \in RunsOf[g] : result[r] = nil
  BY DEF Init
<1>2. groups = {} /\ restoring = S
  BY <1>1 DEF Boot
<1>3. ASSUME NEW g \in Group
      PROVE  /\ completer[g] = "none" /\ completed[g] = 0
             /\ timer[g] = "none" /\ timedOut[g] = 0
             /\ call[g] = IF g \in S THEN "registered" ELSE "idle"
  BY <1>1, <1>3 DEF Boot
<1>4. UnregisteredIsFresh
  BY <1>1, <1>2, <1>3 DEF UnregisteredIsFresh, Open
<1>5. RemainingCountsOpenRuns
  BY <1>2 DEF RemainingCountsOpenRuns
<1>6. CompleterHasAllResults /\ TimeoutRemovedGroup
  BY <1>2, <1>3 DEF CompleterHasAllResults, TimeoutRemovedGroup
<1>7. RemovedIsReported
  BY <1>2, <1>3 DEF RemovedIsReported
<1> QED
  BY <1>4, <1>5, <1>6, <1>7 DEF Parts

LEMMA CoreUnchanged == Parts /\ UNCHANGED core => StepKeepsParts
BY DEF StepKeepsParts, Parts, core, UnregisteredIsFresh, RemainingCountsOpenRuns,
       CompleterHasAllResults, TimeoutRemovedGroup, RemovedIsReported, Open

\* RestoreGroups
LEMMA RestoreKeepsParts ==
  ASSUME WatcherInv, NEW g \in Group, Restore(g)
  PROVE  StepKeepsParts
<1> USE DEF WatcherInv, TypeOK, toolVars, groupVars, pcVars, doneVars
<1>1. \A h \in Group : Open(h)' = Open(h)
  BY DEF Restore, SkipExpired, RestoreComplete, RestoreOpen, Open
<1>2. CASE SkipExpired(g)
  <2>1. UnregisteredIsFresh' /\ TimeoutRemovedGroup' /\ CompleterHasAllResults'
    BY <1>1, <1>2 DEF SkipExpired, UnregisteredIsFresh, TimeoutRemovedGroup, CompleterHasAllResults
  <2>2. RemainingCountsOpenRuns'
    BY <1>1, <1>2 DEF SkipExpired, RemainingCountsOpenRuns
  <2>3. RemovedIsReported => RemovedIsReported'
    BY <1>2 DEF SkipExpired, RemovedIsReported, UnregisteredIsFresh
  <2> QED
    BY <2>1, <2>2, <2>3 DEF Parts, StepKeepsParts
<1>3. CASE RestoreComplete(g)
  <2>1. UnregisteredIsFresh' /\ TimeoutRemovedGroup'
    BY <1>1, <1>3 DEF RestoreComplete, UnregisteredIsFresh, TimeoutRemovedGroup
  <2>2. CompleterHasAllResults'
    BY <1>1, <1>3 DEF RestoreComplete, CompleterHasAllResults, UnregisteredIsFresh
  <2>3. RemainingCountsOpenRuns'
    BY <1>1, <1>3 DEF RestoreComplete, RemainingCountsOpenRuns, UnregisteredIsFresh
  <2>4. RemovedIsReported => RemovedIsReported'
    BY <1>3 DEF RestoreComplete, RemovedIsReported
  <2> QED
    BY <2>1, <2>2, <2>3, <2>4 DEF Parts, StepKeepsParts
<1>4. CASE RestoreOpen(g)
  <2>1. UnregisteredIsFresh'
    BY <1>1, <1>4 DEF RestoreOpen, RegisterGroup, UnregisteredIsFresh
  <2>2. CompleterHasAllResults'
    BY <1>1, <1>4 DEF RestoreOpen, RegisterGroup, CompleterHasAllResults, UnregisteredIsFresh
  <2>3. TimeoutRemovedGroup'
    BY <1>4 DEF RestoreOpen, RegisterGroup, TimeoutRemovedGroup, UnregisteredIsFresh
  <2>4. RemainingCountsOpenRuns'
    BY <1>1, <1>4, OpenIsFinite DEF RestoreOpen, RegisterGroup, RemainingCountsOpenRuns
  <2>5. RemovedIsReported => RemovedIsReported'
    BY <1>4 DEF RestoreOpen, RegisterGroup, RemovedIsReported
  <2> QED
    BY <2>1, <2>2, <2>3, <2>4, <2>5 DEF Parts, StepKeepsParts
<1> QED
  BY <1>2, <1>3, <1>4 DEF Restore

\* The tool call
LEMMA ToolKeepsParts ==
  ASSUME WatcherInv, NEW g \in Group, Tool(g)
  PROVE  StepKeepsParts
<1> USE DEF WatcherInv, TypeOK, toolVars, groupVars, pcVars, doneVars
<1>1. \A h \in Group : Open(h)' = Open(h)
  BY DEF Tool, StartCall, ReportCreateErrors, Register, Open
<1>2. CASE StartCall(g) \/ ReportCreateErrors(g)
  <2>1. UnregisteredIsFresh'
    BY <1>1, <1>2 DEF StartCall, ReportCreateErrors, UnregisteredIsFresh
  <2>2. RemainingCountsOpenRuns'
    BY <1>1, <1>2 DEF StartCall, ReportCreateErrors, RemainingCountsOpenRuns
  <2>3. CompleterHasAllResults' /\ TimeoutRemovedGroup'
    BY <1>1, <1>2 DEF StartCall, ReportCreateErrors, CompleterHasAllResults, TimeoutRemovedGroup
  <2>4. RemovedIsReported => RemovedIsReported'
    BY <1>2 DEF StartCall, ReportCreateErrors, RemovedIsReported
  <2> QED
    BY <2>1, <2>2, <2>3, <2>4 DEF Parts, StepKeepsParts
<1>3. CASE Register(g)
  <2>1. Open(g) = RunsOf[g] /\ g \notin restoring /\ completer[g] = "none" /\ timedOut[g] = 0
    BY <1>3 DEF Register, UnregisteredIsFresh
  <2>2. UnregisteredIsFresh'
    BY <1>1, <1>3, <2>1 DEF Register, RegisterGroup, UnregisteredIsFresh
  <2>3. RemainingCountsOpenRuns'
    BY <1>1, <1>3, <2>1 DEF Register, RegisterGroup, RemainingCountsOpenRuns
  <2>4. CompleterHasAllResults'
    BY <1>1, <1>3, <2>1 DEF Register, RegisterGroup, CompleterHasAllResults
  <2>5. TimeoutRemovedGroup'
    BY <1>3, <2>1 DEF Register, RegisterGroup, TimeoutRemovedGroup
  <2>6. RemovedIsReported => RemovedIsReported'
    BY <1>3, <2>1 DEF Register, RegisterGroup, RemovedIsReported
  <2> QED
    BY <2>2, <2>3, <2>4, <2>5, <2>6 DEF Parts, StepKeepsParts
<1> QED
  BY <1>2, <1>3 DEF Tool

\* recordCompletion of an open run
LEMMA RecordKeepsParts ==
  ASSUME WatcherInv, NEW r \in Run, RecordCompletion(r)
  PROVE  StepKeepsParts
<1> DEFINE g == GroupOf(r)
<1> USE DEF WatcherInv, TypeOK, toolVars, groupVars, pcVars, doneVars
<1>1. g \in Group /\ r \in RunsOf[g] /\ r \in Open(g)
  BY GroupOfRun DEF RecordCompletion, Open
<1>2. g \in groups /\ remaining[g] = Cardinality(Open(g))
  BY <1>1 DEF RecordCompletion, RemainingCountsOpenRuns
<1>3. Open(g)' = Open(g) \ {r}
  BY <1>1, GroupOfIsUnique, RunsOfAssumption DEF RecordCompletion, Open, Terminal, nil
<1>4. \A h \in Group : h # g => Open(h)' = Open(h)
  BY <1>1, GroupOfIsUnique, RunsOfAssumption DEF RecordCompletion, Open
<1>5. /\ Cardinality(Open(g)') = Cardinality(Open(g)) - 1
      /\ Cardinality(Open(g)') = 0 => Open(g)' = {}
  <2>1. IsFiniteSet(Open(g))
    BY <1>1, OpenIsFinite
  <2>2. /\ IsFiniteSet(Open(g) \ {r})
        /\ Cardinality(Open(g) \ {r}) = Cardinality(Open(g)) - 1
    BY <1>1, <2>1, FS_RemoveElement
  <2>3. Cardinality(Open(g) \ {r}) = 0 => Open(g) \ {r} = {}
    BY <2>2, FS_EmptySet
  <2> QED
    BY <1>3, <2>2, <2>3
<1>6. /\ remaining' = [remaining EXCEPT ![g] = Cardinality(Open(g)')]
      /\ groups' = groups /\ call' = call /\ restoring' = restoring
      /\ timer' = timer /\ completed' = completed /\ timedOut' = timedOut
      /\ expired' = expired
  BY <1>1, <1>2, <1>5 DEF RecordCompletion
<1>7. /\ \A h \in Group : h # g => completer'[h] = completer[h]
      /\ completer'[g] = completer[g] \/ (completer'[g] = "cancel" /\ Open(g)' = {})
  BY <1>1, <1>5, <1>6 DEF RecordCompletion
<1>8. completer[g] = "none" /\ completed[g] = 0
  BY <1>1 DEF CompleterHasAllResults
<1>9. call[g] = "registered" /\ g \notin restoring
  BY <1>1, <1>2 DEF UnregisteredIsFresh
<1>10. UnregisteredIsFresh'
  BY <1>4, <1>6, <1>7, <1>9 DEF UnregisteredIsFresh
<1>11. RemainingCountsOpenRuns'
  BY <1>1, <1>4, <1>6 DEF RemainingCountsOpenRuns
<1>12. CompleterHasAllResults'
  BY <1>1, <1>3, <1>4, <1>6, <1>7, <1>8 DEF CompleterHasAllResults
<1>13. TimeoutRemovedGroup'
  BY <1>6 DEF TimeoutRemovedGroup
<1>14. RemovedIsReported => RemovedIsReported'
  BY <1>2, <1>6, <1>7 DEF RemovedIsReported
<1> QED
  BY <1>10, <1>11, <1>12, <1>13, <1>14 DEF Parts, StepKeepsParts

\* triggerCallback
LEMMA CallbackKeepsParts ==
  ASSUME WatcherInv, NEW g \in Group, Callback(g)
  PROVE  StepKeepsParts
<1> USE DEF WatcherInv, TypeOK, toolVars, groupVars, pcVars, doneVars
<1>1. \A h \in Group : Open(h)' = Open(h)
  BY DEF Callback, CallbackCancels, CallbackRemoves, CallbackTriggers, Open
<1>2. call[g] = "registered" /\ g \notin restoring
  BY DEF Callback, CallbackCancels, CallbackRemoves, CallbackTriggers, UnregisteredIsFresh
<1>3. UnregisteredIsFresh'
  BY <1>1, <1>2 DEF Callback, CallbackCancels, CallbackRemoves, CallbackTriggers, UnregisteredIsFresh
<1>4. RemainingCountsOpenRuns'
  BY <1>1 DEF Callback, CallbackCancels, CallbackRemoves, CallbackTriggers, RemainingCountsOpenRuns
<1>5. CompleterHasAllResults'
  <2>1. CASE CallbackCancels(g)
    BY <1>1, <2>1 DEF CallbackCancels, CompleterHasAllResults
  <2>2. CASE CallbackRemoves(g)
    BY <1>1, <2>2 DEF CallbackRemoves, CompleterHasAllResults
  <2>3. CASE CallbackTriggers(g)
    BY <1>1, <2>3 DEF CallbackTriggers, CompleterHasAllResults
  <2> QED
    BY <2>1, <2>2, <2>3 DEF Callback
<1>6. TimeoutRemovedGroup'
  BY DEF Callback, CallbackCancels, CallbackRemoves, CallbackTriggers, TimeoutRemovedGroup
<1>7. RemovedIsReported => RemovedIsReported'
  <2>1. CASE CallbackCancels(g)
    BY <2>1 DEF CallbackCancels, RemovedIsReported
  <2>2. CASE CallbackRemoves(g)
    BY <2>2 DEF CallbackRemoves, RemovedIsReported
  <2>3. CASE CallbackTriggers(g)
    BY <2>3 DEF CallbackTriggers, RemovedIsReported
  <2> QED
    BY <2>1, <2>2, <2>3 DEF Callback
<1> QED
  BY <1>3, <1>4, <1>5, <1>6, <1>7 DEF Parts, StepKeepsParts

\* timeoutTimer and handleTimeout
LEMMA TimeoutKeepsParts ==
  ASSUME WatcherInv, NEW g \in Group, Timeout(g)
  PROVE  StepKeepsParts
<1> USE DEF WatcherInv, TypeOK, toolVars, groupVars, pcVars, doneVars
<1> DEFINE Steps == TimerSelects(g) \/ TimeoutRemoves(g) \/ TimeoutCancels(g) \/ TimeoutTriggers(g)
<1>0. Steps
  BY DEF Timeout
<1>1. \A h \in Group : Open(h)' = Open(h)
  BY <1>0 DEF TimerSelects, TimeoutRemoves, TimeoutCancels, TimeoutTriggers, Open
<1>2. call[g] = "registered" /\ g \notin restoring /\ timer[g] # "none"
  BY <1>0 DEF TimerSelects, TimeoutRemoves, TimeoutCancels, TimeoutTriggers, UnregisteredIsFresh
<1>3. UnregisteredIsFresh'
  BY <1>0, <1>1, <1>2 DEF TimerSelects, TimeoutRemoves, TimeoutCancels, TimeoutTriggers, UnregisteredIsFresh
<1>4. RemainingCountsOpenRuns'
  BY <1>0, <1>1 DEF TimerSelects, TimeoutRemoves, TimeoutCancels, TimeoutTriggers, RemainingCountsOpenRuns
<1>5. CompleterHasAllResults'
  BY <1>0, <1>1 DEF TimerSelects, TimeoutRemoves, TimeoutCancels, TimeoutTriggers, CompleterHasAllResults
<1>6. TimeoutRemovedGroup'
  BY <1>0 DEF TimerSelects, TimeoutRemoves, TimeoutCancels, TimeoutTriggers, TimeoutRemovedGroup
<1>7. RemovedIsReported => RemovedIsReported'
  <2>1. CASE TimerSelects(g)
    BY <1>2, <2>1 DEF TimerSelects, RemovedIsReported
  <2>2. CASE TimeoutRemoves(g)
    BY <2>2 DEF TimeoutRemoves, RemovedIsReported
  <2>3. CASE TimeoutCancels(g)
    BY <2>3 DEF TimeoutCancels, RemovedIsReported
  <2>4. CASE TimeoutTriggers(g)
    BY <2>4 DEF TimeoutTriggers, RemovedIsReported
  <2> QED
    BY <1>0, <2>1, <2>2, <2>3, <2>4
<1> QED
  BY <1>3, <1>4, <1>5, <1>6, <1>7 DEF Parts, StepKeepsParts

\* The clock
LEMMA DeadlineKeepsParts ==
  ASSUME WatcherInv, NEW g \in Group, PassDeadline(g)
  PROVE  StepKeepsParts
<1> USE DEF WatcherInv, TypeOK, toolVars, groupVars, pcVars, doneVars
<1>1. \A h \in Group : Open(h)' = Open(h)
  BY DEF PassDeadline, Open
<1>2. UnregisteredIsFresh' /\ CompleterHasAllResults' /\ TimeoutRemovedGroup'
  BY <1>1 DEF PassDeadline, UnregisteredIsFresh, CompleterHasAllResults, TimeoutRemovedGroup
<1>3. RemainingCountsOpenRuns'
  BY <1>1 DEF PassDeadline, RemainingCountsOpenRuns
<1>4. RemovedIsReported => RemovedIsReported'
  BY DEF PassDeadline, RemovedIsReported
<1> QED
  BY <1>2, <1>3, <1>4 DEF Parts, StepKeepsParts

LEMMA NextParts == WatcherInv /\ [Next]_vars => StepKeepsParts
<1> SUFFICES ASSUME WatcherInv, [Next]_vars
             PROVE  StepKeepsParts
  OBVIOUS
<1>1. Parts
  BY DEF WatcherInv, Parts
<1>2. CASE UNCHANGED vars
  BY <1>1, <1>2, CoreUnchanged DEF vars, core
<1>3. CASE \E g \in Group : Restore(g) \/ Tool(g) \/ PassDeadline(g) \/ Callback(g) \/ Timeout(g)
  BY <1>3, RestoreKeepsParts, ToolKeepsParts, DeadlineKeepsParts, CallbackKeepsParts,
     TimeoutKeepsParts
<1>4. ASSUME NEW r \in Run, CreateAgentRun(r) \/ FinishRun(r)
      PROVE  StepKeepsParts
  BY <1>1, <1>4, CoreUnchanged
  DEF CreateAgentRun, FinishRun, core, groupVars, pcVars, doneVars
<1>5. ASSUME NEW r \in Run, Watch(r)
      PROVE  StepKeepsParts
  <2>1. CASE RecordCompletion(r)
    BY <2>1, RecordKeepsParts
  <2>2. CASE WatchAgentRun(r) \/ WatchEnds(r) \/ IgnoreCompletion(r) \/ CheckRecorded(r)
    BY <1>1, <2>2, CoreUnchanged
    DEF WatchAgentRun, WatchEnds, IgnoreCompletion, CheckRecorded, core, toolVars,
        groupVars, doneVars
  <2> QED
    BY <1>5, <2>1, <2>2 DEF Watch
<1>6. CASE ConsumePendingChildLinks \/ Stop
  BY <1>1, <1>6, CoreUnchanged
  DEF ConsumePendingChildLinks, Stop, core, toolVars, groupVars, pcVars, doneVars
<1> QED
  BY <1>2, <1>3, <1>4, <1>5, <1>6 DEF Next, Work

LEMMA InitWatcherInv == Init => WatcherInv
BY InitTypeOK, InitParts DEF WatcherInv, Parts

LEMMA NextWatcherInv == WatcherInv /\ [Next]_vars => WatcherInv'
<1> SUFFICES ASSUME WatcherInv, [Next]_vars
             PROVE  WatcherInv'
  OBVIOUS
<1>1. TypeOK' /\ Parts'
  BY NextTypeOK, NextParts DEF WatcherInv, StepKeepsParts
<1> QED
  BY <1>1 DEF WatcherInv, Parts

LEMMA IInvCorrect == Spec => []IInv
<1>1. Init => IInv
  BY InitWatcherInv, InitParts DEF IInv
<1>2. IInv /\ [Next]_vars => IInv'
  BY NextWatcherInv, NextParts DEF IInv, StepKeepsParts
<1> QED
  BY <1>1, <1>2, PTL DEF Spec

-------------------------------------------------------------------------------
(* What follows from it *)

\* recordCompletion can rely on Remaining: for a group in the map it is the
\* number of runs that have no result.
THEOREM RemainingIsExact == Spec => []RemainingCountsOpenRuns
<1>1. IInv => RemainingCountsOpenRuns
  BY DEF IInv, WatcherInv
<1> QED
  BY <1>1, IInvCorrect, PTL

\* No group is announced as completed with a run still open.
THEOREM CompletionIsComplete == Spec => []CompletedMeansAllRecorded
<1>1. IInv => CompletedMeansAllRecorded
  BY DEF IInv, WatcherInv, CompleterHasAllResults, CompletedMeansAllRecorded
<1> QED
  BY <1>1, IInvCorrect, PTL

\* In one lifetime triggerFn gets a group's completed prompt at most once, and
\* its timeout prompt at most once.
THEOREM NoPromptTwice == Spec => []EachPromptAtMostOnce
<1>1. IInv => EachPromptAtMostOnce
  BY DEF IInv, WatcherInv, TypeOK, CompleterHasAllResults, TimeoutRemovedGroup, EachPromptAtMostOnce
<1> QED
  BY <1>1, IInvCorrect, PTL

\* No group leaves the map without someone to report it.
THEOREM NoGroupForgotten == Spec => []RemovedIsReported
<1>1. IInv => RemovedIsReported
  BY DEF IInv
<1> QED
  BY <1>1, IInvCorrect, PTL

\* The results that triggerCallback and handleTimeout read without the lock
\* do not change under them.
THEOREM UnlockedReadsAreStable == Spec => ResultsFrozenAfterRemoval
<1> DEFINE Step(g, r) ==
      completer[g] \in {"cancel", "remove", "deliver"} \/ timer[g] \in {"removed", "deliver"}
        => result'[r] = result[r]
<1>1. IInv /\ [Next]_vars => [ReportedResultsKept]_vars
  <2> SUFFICES ASSUME IInv, [Next]_vars
               PROVE  ReportedResultsKept
    OBVIOUS
  <2>1. ASSUME NEW x \in Run, RecordCompletion(x), NEW g \in Group, NEW r \in RunsOf[g]
        PROVE  Step(g, r)
    <3>1. CASE r = x
      <4>1. GroupOf(x) = g /\ g \in groups /\ x \in Open(g)
        BY <2>1, <3>1, GroupOfIsUnique DEF RecordCompletion, Open
      <4>2. completer[g] = "none" /\ timer[g] \notin {"removed", "deliver"}
        BY <4>1 DEF IInv, WatcherInv, CompleterHasAllResults, TimeoutRemovedGroup
      <4> QED
        BY <4>2
    <3>2. CASE r # x
      BY <2>1, <3>2, GroupOfIsUnique DEF RecordCompletion, IInv, WatcherInv, TypeOK
    <3> QED
      BY <3>1, <3>2
  <2>2. CASE \E x \in Run : RecordCompletion(x)
    BY <2>1, <2>2 DEF ReportedResultsKept
  <2>3. CASE ~ \E x \in Run : RecordCompletion(x)
    <3>1. UNCHANGED result
      BY <2>3
      DEF Next, Work, vars, Restore, SkipExpired, RestoreComplete, RestoreOpen, Tool, StartCall,
          ReportCreateErrors, Register, PassDeadline, Callback, CallbackCancels,
          CallbackRemoves, CallbackTriggers, Timeout, TimerSelects, TimeoutRemoves,
          TimeoutCancels, TimeoutTriggers, CreateAgentRun, FinishRun, Watch, WatchAgentRun,
          WatchEnds, IgnoreCompletion, CheckRecorded, ConsumePendingChildLinks, Stop,
          groupVars
    <3> QED
      BY <3>1 DEF ReportedResultsKept
  <2> QED
    BY <2>2, <2>3
<1> QED
  BY <1>1, IInvCorrect, PTL DEF Spec, ResultsFrozenAfterRemoval

===============================================================================
