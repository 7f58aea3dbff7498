----------------------- MODULE DelegationPromise_proofs -----------------------
(***************************************************************************)
(* Proof that the watcher of Delegation implements DelegationPromise.      *)
(***************************************************************************)
EXTENDS Delegation_proofs

-------------------------------------------------------------------------------
(* Prompts tell the truth *)

LEMMA InitReportsAreTrue == Init => ReportsAreTrue
<1> SUFFICES ASSUME Init
             PROVE  ReportsAreTrue
  OBVIOUS
<1>1. PICK S \in SUBSET Group :
        /\ Boot(S)
        /\ \A g \in S : \A r \in RunsOf[g] : result[r] \in {nil, phase[r]}
        /\ \A g \in Group \ S : \A r \in RunsOf[g] : result[r] = nil
  BY DEF Init
<1>2. \A r \in Run : result[r] \in {nil, phase[r]}
  BY <1>1, GroupOfRun
<1>3. \A g \in Group : timer[g] = "none"
  BY <1>1 DEF Boot
<1> QED
  BY <1>2, <1>3 DEF ReportsAreTrue

LEMMA NextReportsAreTrue == WatcherInv /\ ReportsAreTrue /\ [Next]_vars => ReportsAreTrue'
<1> SUFFICES ASSUME WatcherInv, ReportsAreTrue, [Next]_vars
             PROVE  ReportsAreTrue'
  OBVIOUS
<1>0. TypeOK /\ UnregisteredIsFresh
  BY DEF WatcherInv
\* Only a creation, an end and a record concern results and phases
<1>1. \A r \in Run : result'[r] \in {nil, phase'[r]}
  <2>1. ASSUME NEW x \in Run, CreateAgentRun(x)
        PROVE  \A r \in Run : result'[r] \in {nil, phase'[r]}
    <3>1. result[x] = nil
      BY <1>0, <2>1, GroupOfRun DEF CreateAgentRun, UnregisteredIsFresh, Open
    <3> QED
      BY <1>0, <2>1, <3>1 DEF CreateAgentRun, groupVars, TypeOK, ReportsAreTrue
  <2>2. ASSUME NEW x \in Run, FinishRun(x)
        PROVE  \A r \in Run : result'[r] \in {nil, phase'[r]}
    <3>1. result[x] = nil
      BY <1>0, <2>2 DEF FinishRun, ReportsAreTrue, TypeOK, Terminal, nil
    <3> QED
      BY <1>0, <2>2, <3>1 DEF FinishRun, groupVars, TypeOK, ReportsAreTrue
  <2>3. ASSUME NEW x \in Run, RecordCompletion(x)
        PROVE  \A r \in Run : result'[r] \in {nil, phase'[r]}
    BY <1>0, <2>3 DEF RecordCompletion, toolVars, TypeOK, ReportsAreTrue
  <2>4. CASE UNCHANGED <<result, phase>>
    BY <2>4 DEF ReportsAreTrue
  <2>5. \/ \E x \in Run : CreateAgentRun(x) \/ FinishRun(x) \/ RecordCompletion(x)
        \/ UNCHANGED <<result, phase>>
    BY DEF Next, Work, vars, Restore, SkipExpired, RestoreComplete, RestoreOpen, Tool, StartCall,
           ReportCreateErrors, Register, PassDeadline, Callback, CallbackCancels,
           CallbackRemoves, CallbackTriggers, Timeout, TimerSelects, TimeoutRemoves,
           TimeoutCancels, TimeoutTriggers, Watch, WatchAgentRun, WatchEnds,
           IgnoreCompletion, CheckRecorded, ConsumePendingChildLinks, Stop,
           groupVars, toolVars
  <2> QED
    BY <2>1, <2>2, <2>3, <2>4, <2>5
\* Timers fire after their deadline, and deadlines do not come back
<1>2. \A g \in Group : timer'[g] \in {"fired", "removed", "deliver"} => expired'[g]
  <2>1. ASSUME NEW h \in Group, Restore(h) \/ Tool(h)
        PROVE  \A g \in Group : timer'[g] \in {"fired", "removed", "deliver"} => expired'[g]
    BY <1>0, <2>1
    DEF Restore, SkipExpired, RestoreComplete, RestoreOpen, Tool, StartCall,
        ReportCreateErrors, Register, RegisterGroup, TypeOK, ReportsAreTrue, pcVars
  <2>2. ASSUME NEW h \in Group, PassDeadline(h) \/ Timeout(h)
        PROVE  \A g \in Group : timer'[g] \in {"fired", "removed", "deliver"} => expired'[g]
    BY <1>0, <2>2
    DEF PassDeadline, Timeout, TimerSelects, TimeoutRemoves, TimeoutCancels,
        TimeoutTriggers, TypeOK, ReportsAreTrue, pcVars
  <2>3. CASE UNCHANGED <<timer, expired>>
    BY <2>3 DEF ReportsAreTrue
  <2>4. \/ \E h \in Group : Restore(h) \/ Tool(h) \/ PassDeadline(h) \/ Timeout(h)
        \/ UNCHANGED <<timer, expired>>
    BY DEF Next, Work, vars, Callback, CallbackCancels, CallbackRemoves, CallbackTriggers,
           CreateAgentRun, FinishRun, Watch, WatchAgentRun, WatchEnds, IgnoreCompletion,
           RecordCompletion, CheckRecorded, ConsumePendingChildLinks, Stop, pcVars
  <2> QED
    BY <2>1, <2>2, <2>3, <2>4
<1> QED
  BY <1>1, <1>2 DEF ReportsAreTrue

LEMMA TrueInvariant == Spec => [](IInv /\ ReportsAreTrue)
<1>1. IInv => WatcherInv
  BY DEF IInv
<1> QED
  BY <1>1, IInvCorrect, InitReportsAreTrue, NextReportsAreTrue, PTL DEF Spec

-------------------------------------------------------------------------------
(* The refinement *)

\* What each part of the mapping depends on
LEMMA MappedUnchanged ==
  /\ UNCHANGED call => UNCHANGED Accepted
  /\ UNCHANGED phase => UNCHANGED Ended
  /\ UNCHANGED expired => UNCHANGED Late
  /\ UNCHANGED <<completed, timedOut>> => UNCHANGED Given
BY DEF Accepted, Ended, Late, Given, PromptsOf

\* Only RestoreGroups, passing a group over, drops it
LEMMA DroppedUnchanged ==
  ASSUME IInv, [Next]_vars, \A g \in Group : ~SkipExpired(g)
  PROVE  UNCHANGED Dropped
<1> USE DEF IInv, WatcherInv, TypeOK, toolVars, groupVars, pcVars, doneVars, Skipped
<1> SUFFICES \A h \in Group : Skipped(h)' <=> Skipped(h)
  BY DEF Dropped
<1>1. CASE UNCHANGED vars
  BY <1>1 DEF vars
<1>2. ASSUME NEW g \in Group, Restore(g)
      PROVE  \A h \in Group : Skipped(h)' <=> Skipped(h)
  <2>1. CASE RestoreComplete(g)
    BY <2>1 DEF RestoreComplete
  <2>2. CASE RestoreOpen(g)
    BY <2>2 DEF RestoreOpen, RegisterGroup
  <2> QED
    BY <1>2, <2>1, <2>2 DEF Restore
<1>3. ASSUME NEW g \in Group, Tool(g)
      PROVE  \A h \in Group : Skipped(h)' <=> Skipped(h)
  <2>1. CASE StartCall(g)
    BY <2>1 DEF StartCall
  <2>2. CASE ReportCreateErrors(g)
    BY <2>2 DEF ReportCreateErrors
  <2>3. CASE Register(g)
    BY <2>3 DEF Register, RegisterGroup
  <2> QED
    BY <1>3, <2>1, <2>2, <2>3 DEF Tool
<1>4. ASSUME NEW g \in Group, Callback(g)
      PROVE  \A h \in Group : Skipped(h)' <=> Skipped(h)
  BY <1>4 DEF Callback, CallbackCancels, CallbackRemoves, CallbackTriggers
<1>5. ASSUME NEW g \in Group, Timeout(g)
      PROVE  \A h \in Group : Skipped(h)' <=> Skipped(h)
  BY <1>5 DEF Timeout, TimerSelects, TimeoutRemoves, TimeoutCancels, TimeoutTriggers
<1>6. ASSUME NEW r \in Run, Watch(r)
      PROVE  \A h \in Group : Skipped(h)' <=> Skipped(h)
  <2>1. CASE RecordCompletion(r)
    BY <2>1, GroupOfRun DEF RecordCompletion
  <2>2. CASE WatchAgentRun(r) \/ WatchEnds(r) \/ IgnoreCompletion(r) \/ CheckRecorded(r)
    BY <2>2 DEF WatchAgentRun, WatchEnds, IgnoreCompletion, CheckRecorded
  <2> QED
    BY <1>6, <2>1, <2>2 DEF Watch
<1>7. ASSUME \/ \E g \in Group : PassDeadline(g)
             \/ \E r \in Run : CreateAgentRun(r) \/ FinishRun(r)
             \/ ConsumePendingChildLinks
             \/ Stop
      PROVE  \A h \in Group : Skipped(h)' <=> Skipped(h)
  BY <1>7 DEF PassDeadline, CreateAgentRun, FinishRun, ConsumePendingChildLinks, Stop
<1> QED
  BY <1>1, <1>2, <1>3, <1>4, <1>5, <1>6, <1>7 DEF Next, Work

LEMMA InitRefines == Init => Promise!PromiseInit
<1> SUFFICES ASSUME Init
             PROVE  Promise!PromiseInit
  OBVIOUS
<1>1. PICK S \in SUBSET Group :
        /\ Boot(S)
        /\ \A g \in Group \ S : ~expired[g]
  BY DEF Init
<1>2. /\ restoring = S
      /\ \A g \in Group : call[g] = "registered" <=> g \in S
      /\ \A g \in Group : completed[g] = 0 /\ timedOut[g] = 0
  BY <1>1 DEF Boot
<1>3. Dropped = {}
  BY <1>2 DEF Dropped, Skipped
<1>4. Late \subseteq Accepted
  BY <1>1, <1>2 DEF Late, Accepted
<1>5. Given = [g \in Group |-> {}]
  BY <1>2 DEF Given, PromptsOf
<1> QED
  BY <1>3, <1>4, <1>5 DEF Promise!PromiseInit, Accepted, Ended

LEMMA NextRefines ==
  IInv /\ ReportsAreTrue /\ [Next]_vars => [Promise!PromiseNext]_(Promise!promiseVars)
<1> SUFFICES ASSUME IInv, ReportsAreTrue, [Next]_vars
             PROVE  Promise!PromiseNext \/ UNCHANGED Promise!promiseVars
  OBVIOUS
<1> DEFINE Mapped == Promise!PromiseNext \/ UNCHANGED Promise!promiseVars
<1>0. TypeOK /\ UnregisteredIsFresh /\ CompleterHasAllResults /\ TimeoutRemovedGroup
  BY DEF IInv, WatcherInv
\* A group restored too late
<1>1. ASSUME NEW g \in Group, SkipExpired(g)
      PROVE  Mapped
  <2>1. UNCHANGED <<call, phase, expired, completed, timedOut>>
    BY <1>1 DEF SkipExpired, toolVars, doneVars
  <2>2. UNCHANGED <<Accepted, Ended, Late, Given>>
    BY <2>1, MappedUnchanged
  <2>3. g \in Accepted \cap Late /\ Given[g] = {}
    BY <1>0, <1>1 DEF SkipExpired, UnregisteredIsFresh, Accepted, Late, Given, PromptsOf
  <2>4. Dropped' = Dropped \cup {g}
    BY <1>0, <1>1 DEF SkipExpired, UnregisteredIsFresh, TypeOK, Dropped, Skipped, toolVars,
                      groupVars, pcVars
  <2> QED
    BY <2>2, <2>3, <2>4 DEF Promise!PromiseNext, Promise!Drop
\* Every other step drops no group
<1>2. ASSUME \A g \in Group : ~SkipExpired(g)
      PROVE  UNCHANGED Dropped
  BY <1>2, DroppedUnchanged
<1>3. ASSUME NEW g \in Group, Register(g), UNCHANGED Dropped
      PROVE  Mapped
  <2>1. UNCHANGED <<Ended, Late, Given>>
    BY <1>3, MappedUnchanged DEF Register, doneVars
  <2>2. g \notin Accepted /\ Accepted' = Accepted \cup {g}
    BY <1>0, <1>3 DEF Register, TypeOK, Accepted
  <2> QED
    BY <1>3, <2>1, <2>2 DEF Promise!PromiseNext, Promise!Accept
<1>4. ASSUME NEW r \in Run, FinishRun(r), UNCHANGED Dropped
      PROVE  Mapped
  <2>1. UNCHANGED <<Accepted, Late, Given>>
    BY <1>4, MappedUnchanged DEF FinishRun, doneVars
  <2>2. r \notin Ended /\ Ended' = Ended \cup {r}
    BY <1>0, <1>4, OutcomesAssumption DEF FinishRun, TypeOK, Ended, Terminal
  <2> QED
    BY <1>4, <2>1, <2>2 DEF Promise!PromiseNext, Promise!EndRun
<1>5. ASSUME NEW g \in Group, PassDeadline(g), UNCHANGED Dropped
      PROVE  Mapped
  <2>1. UNCHANGED <<Accepted, Ended, Given>>
    BY <1>5, MappedUnchanged DEF PassDeadline, toolVars, doneVars
  <2>2. g \in Accepted \ Late /\ Late' = Late \cup {g}
    BY <1>0, <1>5 DEF PassDeadline, TypeOK, Accepted, Late
  <2> QED
    BY <1>5, <2>1, <2>2 DEF Promise!PromiseNext, Promise!BecomeLate
\* The completed prompt: all results are in, and results are true
<1>6. ASSUME NEW g \in Group, CallbackTriggers(g), UNCHANGED Dropped
      PROVE  Mapped
  <2>1. UNCHANGED <<Accepted, Ended, Late>>
    BY <1>6, MappedUnchanged DEF CallbackTriggers, toolVars
  <2>2. completer[g] = "deliver" /\ Open(g) = {} /\ completed[g] = 0
    BY <1>0, <1>6 DEF CallbackTriggers, CompleterHasAllResults
  <2>3. RunsOf[g] \subseteq Ended
    BY <1>0, <2>2, RunsOfAssumption DEF Open, Ended, ReportsAreTrue, TypeOK
  <2>4. g \in Accepted \ Dropped
    BY <1>0, <2>2 DEF UnregisteredIsFresh, Accepted, Dropped, Skipped
  <2>5. "completed" \notin Given[g]
    BY <2>2 DEF Given, PromptsOf
  <2>6. Given' = [Given EXCEPT ![g] = @ \cup {"completed"}]
    <3>1. /\ \A h \in Group : completed'[h] > 0 <=> (h = g \/ completed[h] > 0)
          /\ timedOut' = timedOut
      BY <1>0, <1>6, <2>2 DEF CallbackTriggers, TypeOK
    <3>2. \A h \in Group : PromptsOf(h)' =
            IF h = g THEN PromptsOf(h) \cup {"completed"} ELSE PromptsOf(h)
      BY <3>1 DEF PromptsOf
    <3> QED
      BY <3>2 DEF Given
  <2> QED
    BY <1>6, <2>1, <2>3, <2>4, <2>5, <2>6
    DEF Promise!PromiseNext, Promise!Answer, Promise!Prompt
\* The timeout prompt: the timer has fired
<1>7. ASSUME NEW g \in Group, TimeoutTriggers(g), UNCHANGED Dropped
      PROVE  Mapped
  <2>1. UNCHANGED <<Accepted, Ended, Late>>
    BY <1>7, MappedUnchanged DEF TimeoutTriggers, toolVars
  <2>2. timer[g] = "deliver" /\ expired[g] /\ timedOut[g] = 0
    BY <1>0, <1>7 DEF TimeoutTriggers, TimeoutRemovedGroup, ReportsAreTrue, TypeOK
  <2>3. g \in Late
    BY <2>2 DEF Late
  <2>4. g \in Accepted \ Dropped
    BY <1>0, <2>2 DEF UnregisteredIsFresh, Accepted, Dropped, Skipped
  <2>5. "timedOut" \notin Given[g]
    BY <2>2 DEF Given, PromptsOf
  <2>6. Given' = [Given EXCEPT ![g] = @ \cup {"timedOut"}]
    <3>1. /\ \A h \in Group : timedOut'[h] > 0 <=> (h = g \/ timedOut[h] > 0)
          /\ completed' = completed
      BY <1>0, <1>7, <2>2 DEF TimeoutTriggers, TypeOK
    <3>2. \A h \in Group : PromptsOf(h)' =
            IF h = g THEN PromptsOf(h) \cup {"timedOut"} ELSE PromptsOf(h)
      BY <3>1 DEF PromptsOf
    <3> QED
      BY <3>2 DEF Given
  <2> QED
    BY <1>7, <2>1, <2>3, <2>4, <2>5, <2>6
    DEF Promise!PromiseNext, Promise!Answer, Promise!Prompt
\* The rest is invisible: the call may move on and runs may be created, but no
\* group is accepted, no run ends, no deadline passes and no prompt is given.
<1>8. ASSUME UNCHANGED <<expired, completed, timedOut>>, UNCHANGED Accepted,
             UNCHANGED Ended, UNCHANGED Dropped
      PROVE  Mapped
  BY <1>8, MappedUnchanged DEF Promise!promiseVars
<1>9. ASSUME NEW g \in Group, StartCall(g) \/ ReportCreateErrors(g), UNCHANGED Dropped
      PROVE  Mapped
  <2>1. UNCHANGED <<phase, expired, completed, timedOut>>
    BY <1>9 DEF StartCall, ReportCreateErrors, doneVars
  <2>2. Accepted' = Accepted
    BY <1>0, <1>9 DEF StartCall, ReportCreateErrors, TypeOK, Accepted
  <2> QED
    BY <1>8, <1>9, <2>1, <2>2, MappedUnchanged
<1>10. ASSUME NEW r \in Run, CreateAgentRun(r), UNCHANGED Dropped
       PROVE  Mapped
  <2>1. UNCHANGED <<call, expired, completed, timedOut>>
    BY <1>10 DEF CreateAgentRun, doneVars
  <2>2. Ended' = Ended
    BY <1>0, <1>10 DEF CreateAgentRun, TypeOK, Ended, Terminal
  <2> QED
    BY <1>8, <1>10, <2>1, <2>2, MappedUnchanged
<1>11. ASSUME UNCHANGED <<call, phase, expired, completed, timedOut>>, UNCHANGED Dropped
       PROVE  Mapped
  BY <1>8, <1>11, MappedUnchanged
<1>12. \/ \E g \in Group : \/ SkipExpired(g) \/ Register(g) \/ PassDeadline(g)
                           \/ CallbackTriggers(g) \/ TimeoutTriggers(g)
                           \/ StartCall(g) \/ ReportCreateErrors(g)
       \/ \E r \in Run : CreateAgentRun(r) \/ FinishRun(r)
       \/ UNCHANGED <<call, phase, expired, completed, timedOut>>
  BY DEF Next, Work, vars, Restore, RestoreComplete, RestoreOpen, Tool, Callback, CallbackCancels,
         CallbackRemoves, Timeout, TimerSelects, TimeoutRemoves, TimeoutCancels, Watch,
         WatchAgentRun, WatchEnds, IgnoreCompletion, RecordCompletion, CheckRecorded,
         ConsumePendingChildLinks, Stop, toolVars, doneVars
<1> QED
  BY <1>1, <1>2, <1>3, <1>4, <1>5, <1>6, <1>7, <1>9, <1>10, <1>11, <1>12

\* Whatever watchers, timers, tools and restores do, the parent agent sees what
\* DelegationPromise allows: the prompts of a lifetime are true and not repeated.
THEOREM WatcherKeepsPromise == Spec => KeepsPromise
<1>1. IInv /\ ReportsAreTrue /\ [Next]_vars => [Promise!PromiseNext]_(Promise!promiseVars)
  BY NextRefines
<1> QED
  BY <1>1, InitRefines, TrueInvariant, PTL DEF Spec, KeepsPromise, Promise!PromiseSpec

===============================================================================
