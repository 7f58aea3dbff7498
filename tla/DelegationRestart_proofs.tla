----------------------- MODULE DelegationRestart_proofs -----------------------
(***************************************************************************)
(* Proofs about the DelegationWatcher over its lifetimes, for any number   *)
(* of groups, runs and lifetimes.                                          *)
(*                                                                         *)
(* A step of the watcher is one of Delegation, for which WatcherInv and    *)
(* ReportsAreTrue are known to be kept; what is added here is what such a  *)
(* step does to the memory of the process, and what the shutdown, the      *)
(* crash and the start do.                                                 *)
(***************************************************************************)
EXTENDS DelegationRestart, DelegationPromise_proofs

-------------------------------------------------------------------------------
(* What one step of the watcher does to a group *)

Fresh(g) == call[g] = "creating" /\ call'[g] = "registered"

\* Calls, deadlines and reports go one way, and a registered group's runs exist
GoesOn(g) ==
  /\ call[g] = "registered" => call'[g] = "registered"
  /\ call[g] # "registered" /\ call'[g] = "registered" =>
       Fresh(g) /\ \A r \in RunsOf[g] : phase'[r] \notin {"absent", "createError"}
  /\ expired[g] => expired'[g]
  /\ g \in Reported => g \in Reported'

\* A group gets into memory by its registration, and leaves it when it is
\* reported or passed over
StaysInMemory(g) ==
  /\ Active(g)' => Active(g) \/ Fresh(g)
  /\ Fresh(g) => g \in groups'
  /\ g \in Held \cup Reported => g \in Held' \cup Reported' \/ (expired'[g] /\ ~Active(g)')

LEMMA HeldOrReported ==
  ASSUME NEW g \in Group
  PROVE  g \in Held \cup Reported <=>
           \/ g \in groups \cup restoring
           \/ completer[g] \in {"remove", "deliver"} \/ timer[g] \in {"removed", "deliver"}
           \/ completed[g] + timedOut[g] > 0
BY DEF Held, InHand, Reported

LEMMA EveryGroupGoesOn ==
  ASSUME WatcherInv, [Next]_vars, NEW g \in Group
  PROVE  GoesOn(g)
<1> USE DEF WatcherInv, TypeOK, GoesOn, Fresh, Reported, toolVars, groupVars, pcVars, doneVars
<1>1. CASE UNCHANGED vars
  BY <1>1 DEF vars
<1>2. ASSUME NEW h \in Group, Restore(h)
      PROVE  GoesOn(g)
  BY <1>2 DEF Restore, SkipExpired, RestoreComplete, RestoreOpen, RegisterGroup
<1>3. ASSUME NEW h \in Group, Tool(h)
      PROVE  GoesOn(g)
  BY <1>3 DEF Tool, StartCall, ReportCreateErrors, Register, RegisterGroup
<1>4. ASSUME NEW h \in Group, PassDeadline(h)
      PROVE  GoesOn(g)
  BY <1>4 DEF PassDeadline
<1>5. ASSUME NEW h \in Group, Callback(h)
      PROVE  GoesOn(g)
  BY <1>5 DEF Callback, CallbackCancels, CallbackRemoves, CallbackTriggers
<1>6. ASSUME NEW h \in Group, Timeout(h)
      PROVE  GoesOn(g)
  BY <1>6 DEF Timeout, TimerSelects, TimeoutRemoves, TimeoutCancels, TimeoutTriggers
<1>7. ASSUME NEW r \in Run, CreateAgentRun(r) \/ FinishRun(r)
      PROVE  GoesOn(g)
  BY <1>7 DEF CreateAgentRun, FinishRun
<1>8. ASSUME NEW r \in Run, Watch(r)
      PROVE  GoesOn(g)
  BY <1>8 DEF Watch, WatchAgentRun, WatchEnds, IgnoreCompletion, RecordCompletion, CheckRecorded
<1>9. CASE ConsumePendingChildLinks \/ Stop
  BY <1>9 DEF ConsumePendingChildLinks, Stop
<1> QED
  BY <1>1, <1>2, <1>3, <1>4, <1>5, <1>6, <1>7, <1>8, <1>9 DEF Next, Work

LEMMA EveryGroupStaysInMemory ==
  ASSUME WatcherInv, ActiveIsHeld, [Next]_vars, NEW g \in Group
  PROVE  StaysInMemory(g)
<1> DEFINE InMemory ==
      \/ g \in groups \cup restoring
      \/ completer[g] \in {"remove", "deliver"} \/ timer[g] \in {"removed", "deliver"}
      \/ completed[g] + timedOut[g] > 0
<1>0. /\ g \in Held \cup Reported <=> InMemory
      /\ g \in Held' \cup Reported' <=> InMemory'
      /\ Active(g) => InMemory
  BY HeldOrReported DEF Held, InHand, Reported, ActiveIsHeld
<1> USE DEF WatcherInv, TypeOK, Fresh, Active, toolVars, groupVars, pcVars, doneVars
<1> SUFFICES /\ Active(g)' => Active(g) \/ Fresh(g)
             /\ Fresh(g) => g \in groups'
             /\ InMemory => InMemory' \/ (expired'[g] /\ ~Active(g)')
  BY <1>0 DEF StaysInMemory
<1> DEFINE Keeps == /\ Active(g)' => Active(g) \/ Fresh(g)
                    /\ Fresh(g) => g \in groups'
                    /\ InMemory => InMemory' \/ (expired'[g] /\ ~Active(g)')
<1>1. CASE UNCHANGED vars
  BY <1>1 DEF vars
<1>2. ASSUME NEW h \in Group, Restore(h)
      PROVE  Keeps
  <2>1. CASE SkipExpired(h)
    BY <2>1 DEF SkipExpired, UnregisteredIsFresh
  <2>2. CASE RestoreComplete(h)
    BY <2>2 DEF RestoreComplete
  <2>3. CASE RestoreOpen(h)
    BY <2>3 DEF RestoreOpen, RegisterGroup
  <2> QED
    BY <1>2, <2>1, <2>2, <2>3 DEF Restore
<1>3. ASSUME NEW h \in Group, Tool(h)
      PROVE  Keeps
  <2>1. CASE StartCall(h)
    BY <2>1 DEF StartCall
  <2>2. CASE ReportCreateErrors(h)
    BY <2>2 DEF ReportCreateErrors
  <2>3. CASE Register(h)
    BY <2>3 DEF Register, RegisterGroup
  <2> QED
    BY <1>3, <2>1, <2>2, <2>3 DEF Tool
<1>4. ASSUME NEW h \in Group, PassDeadline(h)
      PROVE  Keeps
  BY <1>4 DEF PassDeadline
<1>5. ASSUME NEW h \in Group, Callback(h)
      PROVE  Keeps
  <2>1. CASE CallbackCancels(h)
    BY <2>1 DEF CallbackCancels
  <2>2. CASE CallbackRemoves(h)
    BY <2>2 DEF CallbackRemoves
  <2>3. CASE CallbackTriggers(h)
    BY <2>3 DEF CallbackTriggers
  <2> QED
    BY <1>5, <2>1, <2>2, <2>3 DEF Callback
<1>6. ASSUME NEW h \in Group, Timeout(h)
      PROVE  Keeps
  <2>1. CASE TimerSelects(h)
    BY <2>1 DEF TimerSelects
  <2>2. CASE TimeoutRemoves(h)
    BY <2>2 DEF TimeoutRemoves
  <2>3. CASE TimeoutCancels(h)
    BY <2>3 DEF TimeoutCancels
  <2>4. CASE TimeoutTriggers(h)
    BY <2>4 DEF TimeoutTriggers
  <2> QED
    BY <1>6, <2>1, <2>2, <2>3, <2>4 DEF Timeout
<1>7. ASSUME NEW r \in Run, CreateAgentRun(r) \/ FinishRun(r)
      PROVE  Keeps
  BY <1>7 DEF CreateAgentRun, FinishRun
<1>8. ASSUME NEW r \in Run, Watch(r)
      PROVE  Keeps
  <2>1. CASE RecordCompletion(r)
    BY <2>1, GroupOfRun DEF RecordCompletion
  <2>2. CASE WatchAgentRun(r) \/ WatchEnds(r) \/ IgnoreCompletion(r) \/ CheckRecorded(r)
    BY <2>2 DEF WatchAgentRun, WatchEnds, IgnoreCompletion, CheckRecorded
  <2> QED
    BY <1>8, <2>1, <2>2 DEF Watch
<1>9. CASE ConsumePendingChildLinks \/ Stop
  BY <1>9 DEF ConsumePendingChildLinks, Stop
<1> QED
  BY <1>1, <1>2, <1>3, <1>4, <1>5, <1>6, <1>7, <1>8, <1>9 DEF Next, Work

\* The runs: a created one stays created, an ended one keeps its phase
LEMMA EveryRunGoesOn ==
  ASSUME WatcherInv, [Next]_vars, NEW r \in Run
  PROVE  \/ phase'[r] = phase[r]
         \/ phase[r] = "absent"
         \/ phase[r] = "Active" /\ phase'[r] \in Terminal
<1> USE DEF WatcherInv, TypeOK
<1>1. CASE UNCHANGED phase
  BY <1>1
<1>2. CASE \E x \in Run : CreateAgentRun(x)
  BY <1>2 DEF CreateAgentRun
<1>3. CASE \E x \in Run : FinishRun(x)
  BY <1>3, OutcomesAssumption DEF FinishRun
<1>4. UNCHANGED phase \/ \E x \in Run : CreateAgentRun(x) \/ FinishRun(x)
  BY DEF Next, Work, vars, Restore, SkipExpired, RestoreComplete, RestoreOpen, Tool, StartCall,
         ReportCreateErrors, Register, PassDeadline, Callback, CallbackCancels,
         CallbackRemoves, CallbackTriggers, Timeout, TimerSelects, TimeoutRemoves,
         TimeoutCancels, TimeoutTriggers, Watch, WatchAgentRun, WatchEnds, IgnoreCompletion,
         RecordCompletion, CheckRecorded, ConsumePendingChildLinks, Stop, toolVars
<1> QED
  BY <1>1, <1>2, <1>3, <1>4

-------------------------------------------------------------------------------
(* The first lifetime *)

LEMMA LifeInitIsInit == LifeInit => Init
<1> SUFFICES ASSUME LifeInit
             PROVE  Init
  OBVIOUS
<1>1. Boot({})
  BY DEF LifeInit
<1>2. /\ phase \in [Run -> {"absent", "Active"} \cup Outcomes]
      /\ result \in [Run -> Terminal \cup {nil}]
      /\ expired \in [Group -> BOOLEAN]
  BY DEF LifeInit
<1>3. \A g \in Group : ~expired[g] /\ \A r \in RunsOf[g] : phase[r] = "absent" /\ result[r] = nil
  BY RunsOfAssumption DEF LifeInit
<1> QED
  BY <1>1, <1>2, <1>3 DEF Init

LEMMA LifeInitInv == LifeInit => LifeInv
<1> SUFFICES ASSUME LifeInit
             PROVE  LifeInv
  OBVIOUS
<1>1. WatcherInv /\ ReportsAreTrue
  BY LifeInitIsInit, InitWatcherInv, InitReportsAreTrue
<1>2. /\ mode = "up" /\ copied = {} /\ file = {} /\ lives = 1
      /\ told = {} /\ again = {} /\ excused = {}
  BY DEF LifeInit
<1>3. CopiedGroups = {} /\ FiledGroups = {}
  BY <1>2 DEF CopiedGroups, FiledGroups
<1>4. \A g \in Group : /\ call[g] = "idle" /\ g \notin groups /\ g \notin restoring
                       /\ timer[g] = "none" /\ completer[g] = "none"
                       /\ completed[g] = 0 /\ timedOut[g] = 0
  BY DEF LifeInit, Boot
<1>5. Accepted = {} /\ Reported = {} /\ \A g \in Group : ~Active(g)
  BY <1>4 DEF Accepted, Reported, Active
<1>6. LifeTypeOK
  BY <1>1, <1>2, MaxLivesAssumption DEF LifeTypeOK, WatcherInv
<1>7. ShutdownInOrder /\ AcceptedHaveRuns /\ CheckpointIsTrue /\ CopyIsTrue
  BY <1>2, <1>3, <1>5 DEF ShutdownInOrder, AcceptedHaveRuns, CheckpointIsTrue, CopyIsTrue
<1>8. ActiveIsHeld /\ CopyCoversMemory /\ RepeatsAreCopies /\ NoGroupLost
  BY <1>2, <1>3, <1>5 DEF ActiveIsHeld, CopyCoversMemory, RepeatsAreCopies, NoGroupLost
<1> QED
  BY <1>1, <1>6, <1>7, <1>8 DEF LifeInv

-------------------------------------------------------------------------------
(* A step of the watcher *)

\* What the steps of the watcher have in common: in any mode but "down", and
\* with the stop of the watcher as part of the shutdown
WatcherStep ==
  /\ Next
  /\ mode' = mode \/ (mode = "saved" /\ mode' = "stopped")
  /\ mode = "down" => UNCHANGED call
  /\ UNCHANGED <<copied, file, lives, told>>
  /\ again' = again \cup ((Reported' \ Reported) \cap CopiedGroups)
  /\ excused \subseteq excused' /\ excused' \subseteq Group
  /\ mode # "up" => \A g \in Group : Fresh(g) => g \in excused'

LEMMA LiveIsWatcherStep == LifeInv /\ Live => WatcherStep
BY DEF Live, Witness, WatcherStep, Next, Fresh, LifeInv, LifeTypeOK

LEMMA StopIsWatcherStep == LifeInv /\ StopWatcher => WatcherStep
BY DEF StopWatcher, Stop, WatcherStep, Next, Fresh, LifeInv, LifeTypeOK, Reported, toolVars, doneVars

LEMMA MeanwhileIsWatcherStep == LifeInv /\ Meanwhile => WatcherStep
<1> SUFFICES ASSUME LifeInv, Meanwhile
             PROVE  WatcherStep
  OBVIOUS
<1>1. Next
  BY DEF Meanwhile, Next, Work
<1>2. UNCHANGED <<call, completed, timedOut>>
  BY DEF Meanwhile, FinishRun, PassDeadline, toolVars, doneVars
<1>3. UNCHANGED Reported
  BY <1>2 DEF Reported
<1> QED
  BY <1>1, <1>2, <1>3 DEF Meanwhile, WatcherStep, lifeVars, LifeInv, LifeTypeOK, Fresh

LEMMA WatcherKeepsLifeInv == LifeInv /\ WatcherStep => LifeInv'
<1> SUFFICES ASSUME LifeInv, WatcherStep
             PROVE  LifeInv'
  OBVIOUS
<1>1. WatcherInv /\ [Next]_vars /\ LifeTypeOK /\ ActiveIsHeld /\ ReportsAreTrue
  BY DEF LifeInv, WatcherStep
<1>2. /\ mode' = mode \/ (mode = "saved" /\ mode' = "stopped")
      /\ mode = "down" => UNCHANGED call
      /\ copied' = copied /\ file' = file /\ lives' = lives /\ told' = told
      /\ again' = again \cup ((Reported' \ Reported) \cap CopiedGroups)
      /\ excused \subseteq excused' /\ excused' \subseteq Group
      /\ mode # "up" => \A g \in Group : Fresh(g) => g \in excused'
  BY DEF WatcherStep
<1>3. CopiedGroups' = CopiedGroups /\ FiledGroups' = FiledGroups
  BY <1>2 DEF CopiedGroups, FiledGroups
<1>4. \A g \in Group : GoesOn(g) /\ StaysInMemory(g)
  BY <1>1, EveryGroupGoesOn, EveryGroupStaysInMemory
<1>5. WatcherInv' /\ ReportsAreTrue'
  BY <1>1, NextWatcherInv, NextReportsAreTrue
<1>6. Reported \subseteq Group /\ Reported' \subseteq Group
  BY DEF Reported
<1>7. LifeTypeOK'
  BY <1>1, <1>2, <1>5, <1>6 DEF LifeTypeOK, WatcherInv
<1>8. ShutdownInOrder'
  <2>1. restoring' \subseteq restoring
    BY DEF WatcherStep, Next, Work, Restore, SkipExpired, RestoreComplete, RestoreOpen, Tool,
           StartCall, ReportCreateErrors, Register, PassDeadline, Callback, CallbackCancels,
           CallbackRemoves, CallbackTriggers, Timeout, TimerSelects, TimeoutRemoves,
           TimeoutCancels, TimeoutTriggers, CreateAgentRun, FinishRun, Watch, WatchAgentRun,
           WatchEnds, IgnoreCompletion, RecordCompletion, CheckRecorded,
           ConsumePendingChildLinks, Stop
  <2>2. mode' = "down" => \A g \in Group : ~Active(g)'
    BY <1>2, <1>4 DEF StaysInMemory, Fresh, LifeInv, ShutdownInOrder
  <2> QED
    BY <1>2, <1>3, <2>1, <2>2 DEF LifeInv, ShutdownInOrder
<1>9. AcceptedHaveRuns'
  <2>1. ASSUME NEW g \in Accepted', NEW r \in RunsOf[g]
        PROVE  phase'[r] \notin {"absent", "createError"}
    <3>1. g \in Group /\ r \in Run
      BY <2>1, RunsOfAssumption DEF Accepted
    <3>2. CASE call[g] = "registered"
      <4>1. phase[r] \notin {"absent", "createError"}
        BY <3>1, <3>2 DEF LifeInv, AcceptedHaveRuns, Accepted
      <4> QED
        BY <1>1, <3>1, <4>1, EveryRunGoesOn DEF Terminal
    <3>3. CASE call[g] # "registered"
      BY <1>4, <2>1, <3>1, <3>3 DEF GoesOn, Accepted
    <3> QED
      BY <3>2, <3>3
  <2>2. Accepted \subseteq Accepted'
    BY <1>4 DEF GoesOn, Accepted
  <2> QED
    BY <1>2, <1>3, <2>1, <2>2 DEF LifeInv, AcceptedHaveRuns
<1>10. CheckpointIsTrue' /\ CopyIsTrue'
  <2>1. ASSUME NEW c \in copied \cup file, NEW g \in c.groups, NEW r \in RunsOf[g]
        PROVE  phase'[r] \notin {"absent", "createError"} /\ c.result[r] \in {nil, phase'[r]}
    <3>1. c \in Checkpoint /\ g \in Group /\ r \in Run
      BY <1>1, <2>1, RunsOfAssumption DEF LifeTypeOK, Checkpoint
    <3>2. g \in CopiedGroups \cup FiledGroups
      BY <2>1 DEF CopiedGroups, FiledGroups
    <3>3. phase[r] \notin {"absent", "createError"} /\ c.result[r] \in {nil, phase[r]}
      BY <2>1, <3>2 DEF LifeInv, AcceptedHaveRuns, CheckpointIsTrue, CopyIsTrue
    <3>4. c.result[r] \in Terminal \cup {nil}
      BY <3>1 DEF Checkpoint
    <3> QED
      BY <1>1, <3>1, <3>3, <3>4, EveryRunGoesOn DEF Terminal, nil
  <2> QED
    BY <1>2, <2>1 DEF CheckpointIsTrue, CopyIsTrue
<1>11. ActiveIsHeld'
  BY <1>1, <1>4 DEF ActiveIsHeld, StaysInMemory, Held
<1>12. CopyCoversMemory'
  BY <1>2, <1>3, <1>4 DEF LifeInv, CopyCoversMemory, StaysInMemory, GoesOn
<1>13. RepeatsAreCopies'
  <2>1. ASSUME NEW g \in told', Active(g)' \/ g \in CopiedGroups' \cup FiledGroups'
        PROVE  g \in again'
    <3>1. g \in told /\ g \in Group /\ call[g] = "registered"
      BY <1>1, <1>2, <2>1 DEF LifeTypeOK, LifeInv, AcceptedHaveRuns, Accepted
    <3>2. Active(g)' => Active(g)
      BY <1>4, <3>1 DEF StaysInMemory, Fresh
    <3> QED
      BY <1>2, <1>3, <2>1, <3>1, <3>2 DEF LifeInv, RepeatsAreCopies
  <2>2. Reported' \cap CopiedGroups' \subseteq again'
    BY <1>2, <1>3 DEF LifeInv, RepeatsAreCopies
  <2> QED
    BY <2>1, <2>2 DEF RepeatsAreCopies
<1>14. NoGroupLost'
  <2>1. ASSUME NEW g \in Accepted'
        PROVE  \/ g \in told' \cup Reported' \cup Held' \cup FiledGroups'
               \/ expired'[g]
               \/ g \in excused'
    <3>1. g \in Group
      BY <2>1 DEF Accepted
    <3>2. CASE call[g] = "registered"
      BY <1>2, <1>3, <1>4, <3>1, <3>2
      DEF LifeInv, NoGroupLost, Accepted, GoesOn, StaysInMemory
    <3>3. CASE call[g] # "registered"
      BY <1>4, <2>1, <3>1, <3>3 DEF Accepted, GoesOn, StaysInMemory, Held
    <3> QED
      BY <3>2, <3>3
  <2> QED
    BY <2>1 DEF NoGroupLost
<1> QED
  BY <1>5, <1>7, <1>8, <1>9, <1>10, <1>11, <1>12, <1>13, <1>14 DEF LifeInv

-------------------------------------------------------------------------------
(* The shutdown's copy and its file *)

\* Nothing that concerns one lifetime changes
LEMMA MemoryUnchanged ==
  ASSUME UNCHANGED vars
  PROVE  /\ WatcherInv => WatcherInv'
         /\ ReportsAreTrue => ReportsAreTrue'
         /\ Accepted' = Accepted /\ Reported' = Reported /\ Held' = Held
         /\ \A g \in Group : Active(g)' = Active(g)
<1> USE DEF vars
<1>1. WatcherInv => WatcherInv'
  BY DEF WatcherInv, TypeOK, UnregisteredIsFresh, RemainingCountsOpenRuns,
         CompleterHasAllResults, TimeoutRemovedGroup, Open
<1>2. ReportsAreTrue => ReportsAreTrue'
  BY DEF ReportsAreTrue
<1>3. Accepted' = Accepted /\ Reported' = Reported /\ Held' = Held
  BY DEF Accepted, Reported, Held, InHand
<1>4. \A g \in Group : Active(g)' = Active(g)
  BY DEF Active
<1> QED
  BY <1>1, <1>2, <1>3, <1>4

\* A group in the map has not been reported in this lifetime
LEMMA RegisteredIsUnreported ==
  ASSUME WatcherInv
  PROVE  groups \cap Reported = {}
BY DEF WatcherInv, TypeOK, CompleterHasAllResults, TimeoutRemovedGroup, Reported

LEMMA CheckpointGroupsKeepsLifeInv == LifeInv /\ CheckpointGroups => LifeInv'
<1> SUFFICES ASSUME LifeInv, CheckpointGroups
             PROVE  LifeInv'
  OBVIOUS
<1>1. /\ mode = "up" /\ restoring = {} /\ mode' = "copied"
      /\ copied' = {[groups |-> groups, result |-> result]}
      /\ excused' = excused \cup InHand
      /\ UNCHANGED vars
      /\ file' = file /\ lives' = lives /\ told' = told /\ again' = again
  BY DEF CheckpointGroups
<1>2. /\ WatcherInv' /\ ReportsAreTrue'
      /\ Accepted' = Accepted /\ Reported' = Reported /\ Held' = Held
      /\ \A g \in Group : Active(g)' = Active(g)
  BY <1>1, MemoryUnchanged DEF LifeInv
<1>3. TypeOK /\ UnregisteredIsFresh
  BY DEF LifeInv, WatcherInv
<1>4. CopiedGroups' = groups /\ FiledGroups' = FiledGroups /\ file = {} /\ FiledGroups = {}
  BY <1>1 DEF CopiedGroups, FiledGroups, LifeInv, ShutdownInOrder
<1>5. groups \subseteq Accepted
  BY <1>3 DEF TypeOK, UnregisteredIsFresh, Accepted
<1>6. LifeTypeOK'
  <2>1. copied' \subseteq Checkpoint
    BY <1>1, <1>3 DEF Checkpoint, TypeOK
  <2>2. InHand \subseteq Group
    BY DEF InHand
  <2> QED
    BY <1>1, <1>2, <2>1, <2>2 DEF LifeInv, LifeTypeOK, WatcherInv
<1>7. ShutdownInOrder'
  BY <1>1, <1>4 DEF ShutdownInOrder, vars
<1>8. AcceptedHaveRuns'
  BY <1>1, <1>2, <1>4, <1>5 DEF LifeInv, AcceptedHaveRuns, vars
<1>9. CheckpointIsTrue' /\ CopyIsTrue'
  <2>1. \A g \in groups : \A r \in RunsOf[g] : result[r] \in {nil, phase[r]}
    BY <1>3, RunsOfAssumption DEF LifeInv, ReportsAreTrue, TypeOK
  <2> QED
    BY <1>1, <1>4, <2>1 DEF CheckpointIsTrue, CopyIsTrue, vars
<1>10. ActiveIsHeld'
  BY <1>2 DEF LifeInv, ActiveIsHeld
<1>11. CopyCoversMemory'
  <2>1. \A g \in Group : Active(g) => g \in groups \cup InHand \cup Reported
    BY <1>1 DEF LifeInv, ActiveIsHeld, Held
  <2> QED
    BY <1>1, <1>2, <1>4, <2>1 DEF CopyCoversMemory
<1>12. RepeatsAreCopies'
  <2>1. \A g \in groups : Active(g)
    BY DEF Active
  <2>2. groups \cap Reported = {}
    BY RegisteredIsUnreported DEF LifeInv
  <2>3. told \subseteq Group
    BY DEF LifeInv, LifeTypeOK
  <2> QED
    BY <1>1, <1>2, <1>4, <2>1, <2>2, <2>3 DEF LifeInv, RepeatsAreCopies
<1>13. NoGroupLost'
  BY <1>1, <1>2, <1>4 DEF LifeInv, NoGroupLost, vars
<1> QED
  BY <1>2, <1>6, <1>7, <1>8, <1>9, <1>10, <1>11, <1>12, <1>13 DEF LifeInv

LEMMA SaveKeepsLifeInv == LifeInv /\ SaveDelegationCheckpoint => LifeInv'
<1> SUFFICES ASSUME LifeInv, SaveDelegationCheckpoint
             PROVE  LifeInv'
  OBVIOUS
<1>1. /\ mode = "copied" /\ mode' = "saved"
      /\ UNCHANGED vars
      /\ copied' = copied /\ lives' = lives /\ told' = told /\ again' = again
  BY DEF SaveDelegationCheckpoint
<1>2. /\ WatcherInv' /\ ReportsAreTrue'
      /\ Accepted' = Accepted /\ Reported' = Reported /\ Held' = Held
      /\ \A g \in Group : Active(g)' = Active(g)
  BY <1>1, MemoryUnchanged DEF LifeInv
<1>3. file = {} /\ FiledGroups = {} /\ CopiedGroups' = CopiedGroups
  BY <1>1 DEF CopiedGroups, FiledGroups, LifeInv, ShutdownInOrder
<1>4. CopiedGroups \subseteq Group
  BY DEF LifeInv, LifeTypeOK, Checkpoint, CopiedGroups
\* Either the file has the copied groups, or there are none, or they are excused
<1>5. /\ FiledGroups' \subseteq CopiedGroups
      /\ excused \subseteq excused' /\ excused' \subseteq excused \cup CopiedGroups
      /\ CopiedGroups \subseteq FiledGroups' \cup excused'
      /\ file' \subseteq Checkpoint /\ \A c, d \in file' : c = d
      /\ \A c \in file' : \A g \in c.groups : \A r \in RunsOf[g] : c.result[r] \in {nil, phase[r]}
  <2>1. CASE CopiedGroups = {} /\ file' = {} /\ excused' = excused
    BY <2>1 DEF FiledGroups
  <2>2. ASSUME NEW c \in copied, NEW read \in [Run -> Terminal \cup {nil}],
               \A r \in Run : read[r] \in ReadBy(c, r),
               file' = {[groups |-> c.groups, result |-> read]}, excused' = excused
        PROVE  /\ FiledGroups' = CopiedGroups
               /\ file' \subseteq Checkpoint /\ \A d, e \in file' : d = e
               /\ \A d \in file' : \A g \in d.groups : \A r \in RunsOf[g] :
                    d.result[r] \in {nil, phase[r]}
    <3>1. c.groups \subseteq Group /\ CopiedGroups = c.groups
      BY <2>2 DEF LifeInv, LifeTypeOK, Checkpoint, CopiedGroups
    <3>2. FiledGroups' = c.groups
      BY <2>2 DEF FiledGroups
    <3>3. ASSUME NEW g \in c.groups, NEW r \in RunsOf[g]
          PROVE  read[r] \in {nil, phase[r]}
      BY <2>2, <3>1, <3>3, RunsOfAssumption DEF ReadBy, LifeInv, CopyIsTrue, ReportsAreTrue
    <3> QED
      BY <2>2, <3>1, <3>2, <3>3 DEF Checkpoint
  <2>3. CASE file' = file /\ excused' = excused \cup CopiedGroups
    BY <1>3, <2>3 DEF FiledGroups
  <2> QED
    BY <2>1, <2>2, <2>3 DEF SaveDelegationCheckpoint
<1>6. LifeTypeOK'
  BY <1>1, <1>2, <1>4, <1>5 DEF LifeInv, LifeTypeOK, WatcherInv
<1>7. ShutdownInOrder'
  BY <1>1, <1>3, <1>5 DEF LifeInv, ShutdownInOrder, vars
<1>8. AcceptedHaveRuns'
  BY <1>1, <1>2, <1>3, <1>5 DEF LifeInv, AcceptedHaveRuns, vars
<1>9. CheckpointIsTrue' /\ CopyIsTrue'
  <2>1. \A c \in file' : c.groups \subseteq Accepted
    BY <1>5 DEF LifeInv, AcceptedHaveRuns, FiledGroups
  <2> QED
    BY <1>1, <1>5, <2>1 DEF LifeInv, AcceptedHaveRuns, CheckpointIsTrue, CopyIsTrue, vars
<1>10. ActiveIsHeld'
  BY <1>2 DEF LifeInv, ActiveIsHeld
<1>11. CopyCoversMemory'
  BY <1>1, <1>2, <1>5 DEF LifeInv, CopyCoversMemory
<1>12. RepeatsAreCopies'
  BY <1>1, <1>2, <1>3, <1>5 DEF LifeInv, LifeTypeOK, RepeatsAreCopies
<1>13. NoGroupLost'
  BY <1>1, <1>2, <1>3, <1>5 DEF LifeInv, NoGroupLost, vars
<1> QED
  BY <1>2, <1>6, <1>7, <1>8, <1>9, <1>10, <1>11, <1>12, <1>13 DEF LifeInv

-------------------------------------------------------------------------------
(* The end of a process and the next start *)

LEMMA EndKeepsLifeInv ==
  LifeInv /\ ProcessEnds /\ mode # "down"
    /\ (\/ mode = "stopped" /\ excused' = excused
        \/ excused' = excused \cup (Held \ FiledGroups)) => LifeInv'
<1> SUFFICES ASSUME LifeInv, ProcessEnds, mode # "down",
                    \/ mode = "stopped" /\ excused' = excused
                    \/ excused' = excused \cup (Held \ FiledGroups)
             PROVE  LifeInv'
  OBVIOUS
<1>1. /\ mode' = "down" /\ copied' = {} /\ told' = told \cup Reported
      /\ call' = [g \in Group |-> IF call[g] = "creating" THEN "failed" ELSE call[g]]
      /\ UNCHANGED <<phase, expired, file, lives, again>>
      /\ excused \subseteq excused' /\ excused' \subseteq excused \cup Held
  BY DEF ProcessEnds
<1>2. /\ restoring' = {} /\ groups' = {} /\ links' = {} /\ stopped' = FALSE
      /\ result' = [r \in Run |-> nil]
      /\ remaining' = [g \in Group |-> 0]
      /\ ctx' = [g \in Group |-> "none"]
      /\ watcher' = [r \in Run |-> "none"]
      /\ timer' = [g \in Group |-> "none"]
      /\ completer' = [g \in Group |-> "none"]
      /\ completed' = [g \in Group |-> 0]
      /\ timedOut' = [g \in Group |-> 0]
  BY DEF ProcessEnds
<1>3. TypeOK /\ LifeTypeOK
  BY DEF LifeInv, WatcherInv
<1>4. FiledGroups' = FiledGroups /\ CopiedGroups' = {}
  BY <1>1 DEF FiledGroups, CopiedGroups
<1>5. Reported' = {} /\ Held' = {} /\ \A g \in Group : ~Active(g)'
  BY <1>2 DEF Reported, Held, InHand, Active
<1>6. Accepted' = Accepted
  BY <1>1, <1>3 DEF Accepted, TypeOK
<1>7. Held \subseteq Group /\ Reported \subseteq Accepted
  BY <1>3 DEF Held, InHand, Reported, TypeOK, LifeInv, WatcherInv, UnregisteredIsFresh, Accepted
<1>8. TypeOK'
  <2>1. call' \in [Group -> {"idle", "creating", "rejected", "failed", "registered"}]
    BY <1>1, <1>3 DEF TypeOK
  <2>2. /\ phase' \in [Run -> {"absent", "createError", "Active"} \cup Terminal]
        /\ expired' \in [Group -> BOOLEAN]
    BY <1>1, <1>3 DEF TypeOK
  <2>3. /\ restoring' \in SUBSET Group /\ groups' \in SUBSET Group
        /\ links' \in SUBSET Run /\ stopped' \in BOOLEAN
    BY <1>2
  <2>4. /\ result' \in [Run -> Terminal \cup {nil}]
        /\ remaining' \in [Group -> Int]
        /\ completed' \in [Group -> Nat] /\ timedOut' \in [Group -> Nat]
    BY <1>2
  <2>5. /\ ctx' \in [Group -> {"none", "live", "cancelled"}]
        /\ watcher' \in [Run -> {"none", "loop", "watching", "check", "callback", "done"}]
        /\ timer' \in [Group -> {"none", "armed", "fired", "removed", "deliver", "done"}]
        /\ completer' \in [Group -> {"none", "cancel", "remove", "deliver", "done"}]
    BY <1>2
  <2> QED
    BY <2>1, <2>2, <2>3, <2>4, <2>5 DEF TypeOK
<1>9. WatcherInv'
  <2>1. \A g \in Group : Open(g)' = RunsOf[g]
    BY <1>2, RunsOfAssumption DEF Open
  <2>2. UnregisteredIsFresh' /\ RemainingCountsOpenRuns'
    BY <1>2, <2>1 DEF UnregisteredIsFresh, RemainingCountsOpenRuns
  <2>3. CompleterHasAllResults' /\ TimeoutRemovedGroup'
    BY <1>2 DEF CompleterHasAllResults, TimeoutRemovedGroup
  <2> QED
    BY <1>8, <2>2, <2>3 DEF WatcherInv
<1>10. ReportsAreTrue'
  BY <1>2 DEF ReportsAreTrue
<1>11. LifeTypeOK'
  BY <1>1, <1>3, <1>7, <1>8 DEF LifeTypeOK, Accepted
<1>12. ShutdownInOrder'
  BY <1>1, <1>2, <1>4, <1>5 DEF LifeInv, ShutdownInOrder
<1>13. AcceptedHaveRuns'
  BY <1>1, <1>4, <1>6, <1>7 DEF LifeInv, AcceptedHaveRuns
<1>14. CheckpointIsTrue' /\ CopyIsTrue'
  BY <1>1 DEF LifeInv, CheckpointIsTrue, CopyIsTrue
<1>15. ActiveIsHeld' /\ CopyCoversMemory'
  BY <1>1, <1>5 DEF ActiveIsHeld, CopyCoversMemory
<1>16. RepeatsAreCopies'
  <2>1. ASSUME NEW g \in told \cup Reported, g \in FiledGroups
        PROVE  g \in again
    <3>1. mode \notin {"up", "copied"}
      BY <2>1 DEF LifeInv, ShutdownInOrder, FiledGroups
    <3>2. g \in CopiedGroups
      BY <1>3, <2>1, <3>1 DEF LifeTypeOK, LifeInv, ShutdownInOrder
    <3> QED
      BY <2>1, <3>2 DEF LifeInv, RepeatsAreCopies
  <2> QED
    BY <1>1, <1>3, <1>4, <1>5, <1>7, <2>1 DEF RepeatsAreCopies, LifeTypeOK, Accepted
<1>17. NoGroupLost'
  <2>1. ASSUME NEW g \in Held
        PROVE  g \in Reported \cup FiledGroups \cup excused' \/ expired[g]
    <3>1. CASE mode = "stopped"
      <4>1. g \in Group /\ (Active(g) \/ g \notin groups \cup restoring)
        BY <1>7, <2>1 DEF Active
      <4>2. Active(g)
        BY <1>3, <2>1, <4>1 DEF Held, InHand, Active
      <4> QED
        BY <1>1, <3>1, <4>1, <4>2 DEF LifeInv, CopyCoversMemory
    <3>2. CASE excused' = excused \cup (Held \ FiledGroups)
      BY <2>1, <3>2
    <3> QED
      BY <3>1, <3>2
  <2> QED
    BY <1>1, <1>4, <1>6, <2>1 DEF LifeInv, NoGroupLost
<1> QED
  BY <1>9, <1>10, <1>11, <1>12, <1>13, <1>14, <1>15, <1>16, <1>17 DEF LifeInv

LEMMA ExitKeepsLifeInv == LifeInv /\ Exit => LifeInv'
BY EndKeepsLifeInv DEF Exit

LEMMA CrashKeepsLifeInv == LifeInv /\ Crash => LifeInv'
BY EndKeepsLifeInv DEF Crash

LEMMA StartKeepsLifeInv == LifeInv /\ Start => LifeInv'
<1> SUFFICES ASSUME LifeInv, Start
             PROVE  LifeInv'
  OBVIOUS
<1>1. /\ mode = "down" /\ lives < MaxLives
      /\ mode' = "up" /\ lives' = lives + 1
      /\ restoring' = FiledGroups
      /\ file' = {}
      /\ UNCHANGED <<phase, call, groups, remaining, ctx, watcher, timer, completer, expired,
                     stopped, links, completed, timedOut, copied, told, again, excused>>
  BY DEF Start, toolVars, pcVars, doneVars
<1>2. TypeOK /\ LifeTypeOK
  BY DEF LifeInv, WatcherInv
<1>3. /\ copied = {} /\ CopiedGroups = {} /\ CopiedGroups' = {} /\ FiledGroups' = {}
      /\ groups = {} /\ restoring = {}
      /\ \A g \in Group : timer[g] = "none" /\ completer[g] = "none"
  BY <1>1, <1>2 DEF LifeInv, ShutdownInOrder, Active, CopiedGroups, FiledGroups, TypeOK
<1>4. FiledGroups \subseteq Accepted
  BY DEF LifeInv, AcceptedHaveRuns
<1>5. \A r \in Run : /\ result'[r] \in Terminal \cup {nil}
                     /\ result'[r] \in {nil, phase[r]}
                     /\ GroupOf(r) \notin FiledGroups => result'[r] = nil
  <2>1. result' = [r \in Run |-> IF GroupOf(r) \in FiledGroups
                                 THEN (CHOOSE c \in file : TRUE).result[r] ELSE nil]
    BY DEF Start
  <2>2. ASSUME NEW r \in Run, GroupOf(r) \in FiledGroups
        PROVE  result'[r] \in Terminal \cup {nil} /\ result'[r] \in {nil, phase[r]}
    <3>1. PICK c \in file : GroupOf(r) \in c.groups
      BY <2>2 DEF FiledGroups
    <3>2. (CHOOSE d \in file : TRUE) = c
      BY <1>2, <3>1 DEF LifeTypeOK
    <3>3. result'[r] = c.result[r]
      BY <2>1, <2>2, <3>2
    <3>4. c.result[r] \in Terminal \cup {nil}
      BY <1>2, <3>1 DEF LifeTypeOK, Checkpoint
    <3>5. c.result[r] \in {nil, phase[r]}
      BY <3>1, GroupOfRun DEF LifeInv, CheckpointIsTrue
    <3> QED
      BY <3>3, <3>4, <3>5
  <2> QED
    BY <2>1, <2>2
<1>6. result' \in [Run -> Terminal \cup {nil}]
  BY <1>5 DEF Start
<1>7. Accepted' = Accepted /\ Reported' = Reported
  BY <1>1 DEF Accepted, Reported
<1>8. TypeOK'
  BY <1>1, <1>2, <1>4, <1>6 DEF TypeOK, Accepted
<1>9. Reported = {}
  BY <1>2, <1>3 DEF LifeInv, WatcherInv, CompleterHasAllResults, TimeoutRemovedGroup, Reported, TypeOK
<1>10. \A g \in Group : completed[g] = 0 /\ timedOut[g] = 0
  BY <1>2, <1>9 DEF Reported, TypeOK
<1>11. WatcherInv'
  <2>1. ASSUME NEW g \in Group, call[g] # "registered"
        PROVE  Open(g)' = RunsOf[g]
    <3>1. ASSUME NEW r \in RunsOf[g]
          PROVE  result'[r] = nil
      BY <1>4, <1>5, <2>1, GroupOfIsUnique DEF Accepted
    <3> QED
      BY <3>1, RunsOfAssumption DEF Open
  <2>2. UnregisteredIsFresh'
    BY <1>1, <1>3, <1>4, <1>10, <2>1 DEF UnregisteredIsFresh, Accepted
  <2>3. RemainingCountsOpenRuns' /\ CompleterHasAllResults' /\ TimeoutRemovedGroup'
    BY <1>1, <1>3, <1>10
    DEF RemainingCountsOpenRuns, CompleterHasAllResults, TimeoutRemovedGroup
  <2> QED
    BY <1>8, <2>2, <2>3 DEF WatcherInv
<1>12. ReportsAreTrue'
  BY <1>1, <1>3, <1>5 DEF ReportsAreTrue
<1>13. Held' = FiledGroups /\ Held = {}
  BY <1>1, <1>3 DEF Held, InHand
<1>14. \A g \in Group : Active(g)' <=> g \in FiledGroups
  BY <1>1, <1>3 DEF Active
<1>15. LifeTypeOK'
  BY <1>1, <1>2, <1>8, MaxLivesAssumption DEF LifeTypeOK
<1>16. ShutdownInOrder'
  BY <1>1, <1>3 DEF ShutdownInOrder
<1>17. AcceptedHaveRuns'
  BY <1>1, <1>3, <1>7 DEF LifeInv, AcceptedHaveRuns
<1>18. CheckpointIsTrue' /\ CopyIsTrue'
  BY <1>1, <1>3 DEF CheckpointIsTrue, CopyIsTrue
<1>19. ActiveIsHeld' /\ CopyCoversMemory'
  BY <1>1, <1>13, <1>14 DEF ActiveIsHeld, CopyCoversMemory
<1>20. RepeatsAreCopies'
  BY <1>1, <1>2, <1>3, <1>7, <1>9, <1>14 DEF LifeInv, RepeatsAreCopies, LifeTypeOK
<1>21. NoGroupLost'
  BY <1>1, <1>7, <1>9, <1>13 DEF LifeInv, NoGroupLost
<1> QED
  BY <1>11, <1>12, <1>15, <1>16, <1>17, <1>18, <1>19, <1>20, <1>21 DEF LifeInv

-------------------------------------------------------------------------------
LEMMA LifeInvUnchanged == LifeInv /\ UNCHANGED allVars => LifeInv'
<1> SUFFICES ASSUME LifeInv, UNCHANGED allVars
             PROVE  LifeInv'
  OBVIOUS
<1>1. UNCHANGED vars /\ UNCHANGED lifeVars
  BY DEF allVars
<1>2. /\ WatcherInv' /\ ReportsAreTrue'
      /\ Accepted' = Accepted /\ Reported' = Reported /\ Held' = Held
      /\ \A g \in Group : Active(g)' = Active(g)
  BY <1>1, MemoryUnchanged DEF LifeInv
<1>3. CopiedGroups' = CopiedGroups /\ FiledGroups' = FiledGroups
  BY <1>1 DEF lifeVars, CopiedGroups, FiledGroups
<1>4. LifeTypeOK' /\ ShutdownInOrder' /\ AcceptedHaveRuns'
  BY <1>1, <1>2, <1>3
  DEF lifeVars, vars, LifeInv, LifeTypeOK, WatcherInv, ShutdownInOrder, AcceptedHaveRuns
<1>5. CheckpointIsTrue' /\ CopyIsTrue'
  BY <1>1 DEF lifeVars, vars, LifeInv, CheckpointIsTrue, CopyIsTrue
<1>6. ActiveIsHeld' /\ CopyCoversMemory' /\ RepeatsAreCopies' /\ NoGroupLost'
  BY <1>1, <1>2, <1>3
  DEF lifeVars, vars, LifeInv, LifeTypeOK, ActiveIsHeld, CopyCoversMemory, RepeatsAreCopies,
      NoGroupLost
<1> QED
  BY <1>2, <1>4, <1>5, <1>6 DEF LifeInv

LEMMA LifeInvCorrect == LifeSpec => []LifeInv
<1>1. LifeInv /\ [LifeNext]_allVars => LifeInv'
  BY LiveIsWatcherStep, MeanwhileIsWatcherStep, StopIsWatcherStep, WatcherKeepsLifeInv,
     CheckpointGroupsKeepsLifeInv, SaveKeepsLifeInv, ExitKeepsLifeInv, CrashKeepsLifeInv,
     StartKeepsLifeInv, LifeInvUnchanged
  DEF LifeNext
<1> QED
  BY <1>1, LifeInitInv, PTL DEF LifeSpec

-------------------------------------------------------------------------------
(* What follows from it *)

\* Type correctness of the watcher, the checkpoint and the histories, in every
\* state of every lifetime.
THEOREM LifeTypeCorrect == LifeSpec => []LifeTypeOK
<1>1. LifeInv => LifeTypeOK
  BY DEF LifeInv
<1> QED
  BY <1>1, LifeInvCorrect, PTL

\* RestoreGroups can trust the file: whatever json.Marshal reads of the shared
\* maps while watchers go on, a checkpoint names created runs and true phases.
THEOREM CheckpointsAreTrue == LifeSpec => []CheckpointIsTrue
<1>1. LifeInv => CheckpointIsTrue
  BY DEF LifeInv
<1> QED
  BY <1>1, LifeInvCorrect, PTL

\* Over any number of shutdowns, crashes and starts, a registered group is
\* reported, held, filed or late, or one of the named gaps explains its loss.
THEOREM RestartsLoseNoGroup == LifeSpec => []NoGroupLost
<1>1. LifeInv => NoGroupLost
  BY DEF LifeInv
<1> QED
  BY <1>1, LifeInvCorrect, PTL

\* A group is reported again by a later lifetime only if its first report fell
\* between CheckpointGroups and the end of the process.
THEOREM RepeatsComeFromTheCopy == LifeSpec => []RepeatOnlyAfterCopy
<1>1. LifeInv => RepeatOnlyAfterCopy
  <2> SUFFICES ASSUME LifeInv, NEW g \in told, g \in Held \cup FiledGroups \cup Reported
               PROVE  g \in again
    BY DEF RepeatOnlyAfterCopy
  <2>1. g \in Group /\ WatcherInv
    BY DEF LifeInv, LifeTypeOK
  <2>2. g \in Held \cup Reported => Active(g)
    BY <2>1 DEF WatcherInv, TypeOK, CompleterHasAllResults, TimeoutRemovedGroup, Held, InHand,
                Reported, Active
  <2> QED
    BY <2>2 DEF LifeInv, RepeatsAreCopies
<1> QED
  BY <1>1, LifeInvCorrect, PTL

===============================================================================
