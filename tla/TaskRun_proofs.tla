---------------------------- MODULE TaskRun_proofs ----------------------------
(***************************************************************************)
(* Proofs about TaskRun for any agents, team, servers and bounds: which    *)
(* runs a delegating call may leave behind, what a process leaves open     *)
(* when it ends, that commits of others stay on the server and those of    *)
(* the run in its clone, and that the outcome tells of the work of the run *)
(* that the checked-out branch leads to.                                   *)
(***************************************************************************)
EXTENDS TaskRun, FiniteSetTheorems, WellFoundedInduction, TLAPS

-----------------------------------------------------------------------------
(* Delegation.                                                             *)

\* What is known of the call in progress: it is not refused, it has created
\* nothing while it validates, and then only runs of its own that it counts as
\* created or as failed.
CallOwnsItsRuns ==
  call # Idle =>
    /\ call \in Calling
    /\ ncalls > 0 /\ ncalls \notin refused
    /\ \A r \in runs : r.call = ncalls =>
         /\ call.stage = "create"
         /\ \E i \in call.created \cup call.failed : r = Child(i)
    /\ \A i \in call.created : Child(i) \in runs

NumbersAreUsed ==
  /\ ncalls \in Nat
  /\ refused \subseteq 1 .. ncalls
  /\ \A r \in runs : r.call \in 1 .. ncalls

DInv == /\ NumbersAreUsed /\ CallOwnsItsRuns
        /\ ChildrenAreWatched /\ RefusedCallsCreateNothing

\* Outside the delegation tools nothing touches their state.
LEMMA OnlyToolsDelegate ==
  ASSUME [Next]_vars
  PROVE  \/ \E tool \in Tool, timeoutOk \in BOOLEAN : \E items \in Batch(tool) :
              StartCall(tool, items, timeoutOk)
         \/ Validate
         \/ \E i \in 1 .. MaxFanOut : Create(i)
         \/ ReportCreateErrors
         \/ RegisterGroup
         \/ ClusterChange
         \/ UNCHANGED toolVars
<1>1. CASE UNCHANGED vars
  BY <1>1 DEF vars
<1>2. CASE Others
  BY <1>2 DEF Others
<1>3. CASE Cluster
  BY <1>3 DEF Cluster
<1>4. CASE Runtime
  <2>1. CASE SetupFails \/ SetupDone \/ MemoryInit \/ BundleFails \/ BundleDone
    BY <2>1 DEF SetupFails, SetupDone, MemoryInit, BundleFails, BundleDone, worldVars
  <2>2. CASE CallGit \/ CallOpenPR \/ CallMemSave
    BY <2>2 DEF CallGit, CallOpenPR, CallMemSave, worldVars
  <2>3. CASE CallDelegate
    BY <2>3 DEF CallDelegate
  <2>4. CASE Delegating
    BY <2>4 DEF Delegating, ToolStep
  <2>5. CASE \E f \in Finishes : CallRunFinish(f[1], f[2])
    BY <2>5 DEF CallRunFinish, worldVars
  <2>6. CASE GenerateSucceeds \/ GenerateFallsBack \/ GenerateFails
    BY <2>6 DEF GenerateSucceeds, GenerateFallsBack, GenerateFails, worldVars
  <2>7. CASE autoFinalizeOutcome \/ EndSession \/ writeTaskResult
    BY <2>7 DEF autoFinalizeOutcome, EndSession, writeTaskResult, worldVars
  <2> QED
    BY <1>4, <2>1, <2>2, <2>3, <2>4, <2>5, <2>6, <2>7, Zenon DEF Runtime
<1> QED
  BY <1>1, <1>2, <1>3, <1>4 DEF Next

LEMMA StartCallKeeps ==
  ASSUME DInv,
         \E tool \in Tool, timeoutOk \in BOOLEAN : \E items \in Batch(tool) :
           StartCall(tool, items, timeoutOk)
  PROVE  DInv'
<1> USE DEF DInv
<1> PICK tool \in Tool, timeoutOk \in BOOLEAN : \E items \in Batch(tool) :
           StartCall(tool, items, timeoutOk)
  OBVIOUS
<1> PICK items \in Batch(tool) : StartCall(tool, items, timeoutOk)
  OBVIOUS
<1>1. /\ call = Idle /\ ncalls' = ncalls + 1
      /\ runs' = runs /\ groups' = groups /\ broken' = broken
      /\ \/ /\ call' = [stage |-> "validate", tool |-> tool, items |-> items,
                        checked |-> 0, created |-> {}, failed |-> {}]
            /\ refused' = refused
         \/ call' = call /\ refused' = refused \cup {ncalls + 1}
  BY DEF StartCall
<1>2. NumbersAreUsed'
  <2>1. ncalls' \in Nat /\ 1 .. ncalls' = (1 .. ncalls) \cup {ncalls + 1}
    BY <1>1 DEF NumbersAreUsed
  <2>2. refused' \subseteq 1 .. ncalls'
    BY <1>1, <2>1 DEF NumbersAreUsed
  <2> QED
    BY <1>1, <2>1, <2>2 DEF NumbersAreUsed
<1>3. \A r \in runs : r.call # ncalls'
  BY <1>1 DEF NumbersAreUsed
<1>4. CallOwnsItsRuns'
  <2>1. CASE call' = call
    BY <2>1, <1>1 DEF CallOwnsItsRuns
  <2>2. CASE /\ call' = [stage |-> "validate", tool |-> tool, items |-> items,
                         checked |-> 0, created |-> {}, failed |-> {}]
             /\ refused' = refused
    <3>1. items \in Seq(Item)
      <4>1. PICK n \in Nat : items \in [1 .. n -> Item]
        BY AgentAssumption DEF Batch
      <4> QED
        BY <4>1
    <3>2. call' \in Calling
      BY <2>2, <3>1 DEF Calling
    <3>3. ncalls' > 0 /\ ncalls' \notin refused'
      BY <2>2, <1>1 DEF NumbersAreUsed
    <3> QED
      BY <2>2, <3>2, <3>3, <1>1, <1>3 DEF CallOwnsItsRuns
  <2> QED
    BY <2>1, <2>2, <1>1
<1>5. ChildrenAreWatched'
  BY <1>1 DEF ChildrenAreWatched
<1>6. RefusedCallsCreateNothing'
  BY <1>1, <1>3 DEF RefusedCallsCreateNothing
<1> QED
  BY <1>2, <1>4, <1>5, <1>6

LEMMA ValidateKeeps ==
  ASSUME DInv, Validate
  PROVE  DInv'
<1> USE DEF DInv
<1>1. /\ call # Idle /\ call \in Calling /\ call.stage = "validate"
      /\ ncalls' = ncalls /\ runs' = runs /\ groups' = groups /\ broken' = broken
  BY DEF Validate, CallOwnsItsRuns
<1>2. \A r \in runs : r.call # ncalls
  BY <1>1 DEF CallOwnsItsRuns
<1>3. CASE /\ call' = [call EXCEPT !.checked = @ + 1,
                         !.stage = IF call.checked + 1 = Len(call.items)
                                   THEN "create" ELSE "validate"]
           /\ refused' = refused
  <2>1. call' \in Calling /\ call'.created = call.created
    <3>1. PICK stage \in {"validate", "create"} :
            call' = [call EXCEPT !.checked = @ + 1, !.stage = stage]
      BY <1>3
    <3>2. call.checked + 1 \in Nat
      BY <1>1 DEF Calling
    <3> QED
      BY <1>1, <3>1, <3>2 DEF Calling
  <2>2. CallOwnsItsRuns'
    <3>1. ncalls' > 0 /\ ncalls' \notin refused'
      BY <1>1, <1>3 DEF CallOwnsItsRuns
    <3>2. \A i \in call'.created : Child(i)' \in runs'
      <4>1. call'.items = call.items
        BY <1>1, <1>3 DEF Calling
      <4> QED
        BY <1>1, <2>1, <4>1 DEF CallOwnsItsRuns, Child
    <3> QED
      BY <1>1, <1>2, <2>1, <3>1, <3>2 DEF CallOwnsItsRuns
  <2>3. ChildrenAreWatched'
    BY <1>1, <1>2 DEF ChildrenAreWatched
  <2> QED
    BY <1>1, <1>3, <2>2, <2>3 DEF NumbersAreUsed, RefusedCallsCreateNothing
<1>4. CASE call' = Idle /\ refused' = refused \cup {ncalls}
  <2>1. NumbersAreUsed'
    <3>1. ncalls \in 1 .. ncalls
      BY <1>1 DEF NumbersAreUsed, CallOwnsItsRuns
    <3> QED
      BY <1>1, <1>4, <3>1 DEF NumbersAreUsed
  <2>2. CallOwnsItsRuns'
    BY <1>4 DEF CallOwnsItsRuns
  <2>3. ChildrenAreWatched'
    BY <1>1, <1>2, <1>4 DEF ChildrenAreWatched
  <2>4. RefusedCallsCreateNothing'
    BY <1>1, <1>2, <1>4 DEF RefusedCallsCreateNothing
  <2> QED
    BY <2>1, <2>2, <2>3, <2>4
<1> QED
  BY <1>3, <1>4 DEF Validate

LEMMA CreateKeeps ==
  ASSUME DInv, NEW i \in 1 .. MaxFanOut, Create(i)
  PROVE  DInv'
<1> USE DEF DInv
<1>1. /\ call # Idle /\ call \in Calling /\ call.stage = "create"
      /\ ncalls' = ncalls /\ groups' = groups
      /\ refused' = refused /\ broken' = broken
      /\ runs \subseteq runs' /\ runs' \subseteq runs \cup {Child(i)}
      /\ ncalls > 0 /\ ncalls \in Nat /\ ncalls \notin refused
  BY DEF Create, CallOwnsItsRuns, NumbersAreUsed
<1>2. Child(i).call = ncalls
  BY DEF Child
<1>3. /\ call' \in Calling /\ call' # Idle /\ call'.stage = "create"
      /\ call'.items = call.items
      /\ call'.created \cup call'.failed = call.created \cup call.failed \cup {i}
      /\ call'.created \subseteq call.created \cup {i}
      /\ i \in call'.created => Child(i) \in runs'
  <2>1. i \in Nat
    BY AgentAssumption
  <2>2. CASE runs' = runs \cup {Child(i)} /\ call' = [call EXCEPT !.created = @ \cup {i}]
    BY <1>1, <2>1, <2>2 DEF Calling, Idle
  <2>3. CASE call' = [call EXCEPT !.failed = @ \cup {i}]
    <3>1. i \notin call.created
      BY DEF Create
    <3> QED
      BY <1>1, <2>1, <2>3, <3>1 DEF Calling, Idle
  <2> QED
    BY <2>2, <2>3 DEF Create
<1>4. \A j : Child(j)' = Child(j)
  BY <1>1, <1>3 DEF Child
<1>5. NumbersAreUsed'
  BY <1>1, <1>2 DEF NumbersAreUsed
<1>6. CallOwnsItsRuns'
  <2>1. ASSUME NEW r \in runs', r.call = ncalls
        PROVE  \E j \in call'.created \cup call'.failed : r = Child(j)
    BY <1>1, <1>3, <2>1 DEF CallOwnsItsRuns
  <2>2. \A j \in call'.created : Child(j) \in runs'
    BY <1>1, <1>3 DEF CallOwnsItsRuns
  <2> QED
    BY <1>1, <1>3, <1>4, <2>1, <2>2 DEF CallOwnsItsRuns
<1>7. ChildrenAreWatched'
  <2>1. SUFFICES ASSUME NEW r \in runs', r.call # ncalls, r.call \notin broken
                 PROVE  \E g \in groups :
                          r \in g.runs /\ g.runs = {t \in runs' : t.call = r.call}
    BY <1>1, <1>3 DEF ChildrenAreWatched
  <2>2. r \in runs /\ {t \in runs' : t.call = r.call} = {t \in runs : t.call = r.call}
    BY <1>1, <1>2, <2>1
  <2> QED
    BY <2>1, <2>2 DEF ChildrenAreWatched
<1>8. RefusedCallsCreateNothing'
  BY <1>1, <1>2 DEF RefusedCallsCreateNothing
<1> QED
  BY <1>5, <1>6, <1>7, <1>8

LEMMA ReportCreateErrorsKeeps ==
  ASSUME DInv, ReportCreateErrors
  PROVE  DInv'
BY DEF DInv, ReportCreateErrors, NumbersAreUsed, CallOwnsItsRuns, ChildrenAreWatched,
       RefusedCallsCreateNothing

\* Without a failed create the group holds all runs of its call.
LEMMA RegisterGroupKeeps ==
  ASSUME DInv, RegisterGroup
  PROVE  DInv'
<1> USE DEF DInv
<1> DEFINE mine == {Child(i) : i \in call.created}
           g == [call |-> ncalls, single |-> call.tool = "run_agent", runs |-> mine]
<1>1. /\ call # Idle /\ call' = Idle /\ call.failed = {}
      /\ ncalls' = ncalls /\ runs' = runs /\ groups' = groups \cup {g}
      /\ refused' = refused /\ broken' = broken
  BY DEF RegisterGroup, Collected
<1>2. mine = {r \in runs : r.call = ncalls}
  BY <1>1 DEF CallOwnsItsRuns, Child
<1>3. ChildrenAreWatched'
  <2>1. SUFFICES ASSUME NEW r \in runs, r.call \notin broken
                 PROVE  \E h \in groups' :
                          r \in h.runs /\ h.runs = {t \in runs : t.call = r.call}
    BY <1>1 DEF ChildrenAreWatched
  <2>2. CASE r.call = ncalls
    <3>1. r \in g.runs /\ g.runs = {t \in runs : t.call = r.call}
      BY <1>2, <2>2
    <3> QED
      BY <1>1, <3>1
  <2>3. CASE r.call # ncalls
    BY <1>1, <2>1, <2>3 DEF ChildrenAreWatched
  <2> QED
    BY <2>2, <2>3
<1> QED
  BY <1>1, <1>3 DEF NumbersAreUsed, CallOwnsItsRuns, RefusedCallsCreateNothing

LEMMA DInvInitially ==
  ASSUME Init
  PROVE  DInv
BY DEF Init, ToolInit, DInv, NumbersAreUsed, CallOwnsItsRuns, ChildrenAreWatched,
       RefusedCallsCreateNothing

LEMMA DInvPreserved ==
  ASSUME DInv, [Next]_vars
  PROVE  DInv'
<1>1. CASE ClusterChange \/ UNCHANGED toolVars
  BY <1>1 DEF ClusterChange, toolVars, DInv, NumbersAreUsed, CallOwnsItsRuns, Child,
              ChildrenAreWatched, RefusedCallsCreateNothing
<1> QED
  BY <1>1, OnlyToolsDelegate, StartCallKeeps, ValidateKeeps, CreateKeeps,
     ReportCreateErrorsKeeps, RegisterGroupKeeps, Zenon

\* A delegating call that is refused has created no run, and a call that is over
\* has all its runs in one group of the watcher, or it failed in part and told
\* so, whatever becomes of the agents meanwhile (newRunAgentTool,
\* newRunAgentsTool).
THEOREM ChildrenAreAccountedFor == Spec => []DelegationIsAllOrNothing
<1>1. DInv => DelegationIsAllOrNothing
  BY DEF DInv, DelegationIsAllOrNothing
<1> QED
  BY <1>1, DInvInitially, DInvPreserved, PTL DEF Spec

-----------------------------------------------------------------------------
(* What is left open.                                                      *)

\* The process stops what it holds a connection to, so that it has to hold one
\* to every server it has started.  Until the agent is built there is no
\* session, unless the request for one failed; afterwards an open session is
\* the client's to close, or a request failed.
OInv ==
  /\ phase # "done" => servers = conns
  /\ phase = "done" => servers = {}
  /\ phase \in {"setup", "memory"} => session = "none"
  /\ session = "open" => memFailed \/ engram
  /\ phase = "write" /\ session = "open" => memFailed
  /\ phase = "done" /\ session = "open" => memFailed \/ result = "failed"

LEMMA OInvInitially ==
  ASSUME Init
  PROVE  OInv
BY DEF Init, OInv

LEMMA OInvPreserved ==
  ASSUME OInv, [Next]_vars
  PROVE  OInv'
<1> USE DEF OInv
<1> DEFINE openVars == <<servers, conns, phase, session, memFailed, engram, result>>
<1>1. CASE UNCHANGED openVars
  BY <1>1
<1>2. CASE SetupFails \/ BundleFails \/ GenerateFails
  BY <1>2 DEF SetupFails, BundleFails, GenerateFails, Fail, Exit, memoryVars
<1>3. CASE writeTaskResult
  BY <1>3 DEF writeTaskResult, Exit, memoryVars
<1>4. CASE SetupDone
  BY <1>4 DEF SetupDone, envVars, memoryVars
<1>5. CASE MemoryInit
  BY <1>5 DEF MemoryInit, envVars, memoryVars
<1>6. CASE BundleDone
  BY <1>6 DEF BundleDone, loadOCITools, memoryVars
<1>7. CASE GenerateSucceeds \/ GenerateFallsBack
  BY <1>7 DEF GenerateSucceeds, GenerateFallsBack, envVars, memoryVars
<1>8. CASE autoFinalizeOutcome
  BY <1>8 DEF autoFinalizeOutcome, envVars, memoryVars
<1>9. CASE EndSession
  BY <1>9 DEF EndSession, envVars, memoryVars
<1>10. CASE \/ CallGit \/ CallDelegate \/ CallOpenPR \/ CallMemSave
            \/ \E f \in Finishes : CallRunFinish(f[1], f[2])
  <2>1. Calls
    BY <1>10, Zenon DEF CallGit, CallDelegate, CallOpenPR, CallMemSave, CallRunFinish
  <2> QED
    BY <1>1, <2>1 DEF Calls, envVars, memoryVars
<1>11. CASE Delegating \/ Others \/ Cluster
  BY <1>1, <1>11 DEF Delegating, Others, Cluster, taskVars
<1>12. CASE UNCHANGED vars
  BY <1>1, <1>12 DEF vars, taskVars
<1> QED
  BY <1>2, <1>3, <1>4, <1>5, <1>6, <1>7, <1>8, <1>9, <1>10, <1>11, <1>12, Zenon
  DEF Next, Runtime

\* On every way out of runTask the MCP servers it started are stopped, and the
\* memory session is closed unless the run or a request for it failed.
THEOREM ProcessLeavesNothingOpen == Spec => []NothingLeftOpen
<1>1. OInv => NothingLeftOpen
  BY DEF OInv, NothingLeftOpen
<1> QED
  BY <1>1, OInvInitially, OInvPreserved, PTL DEF Spec

-----------------------------------------------------------------------------
(* Histories.  Each commit follows an earlier one, so that the definition  *)
(* by recursion means what it says, and what holds of every history is     *)
(* found by looking at the least commit of which it would not.             *)

LEMMA LeastNumber ==
  ASSUME NEW S \in SUBSET Nat, S # {}
  PROVE  \E n \in S : \A k \in S : n <= k
<1>1. PICK n \in S : \A k \in S : ~ (<<k, n>> \in OpToRel(<, Nat))
  BY WFMin, NatLessThanWellFounded
<1>2. \A k \in S : k < n => <<k, n>> \in OpToRel(<, Nat)
  BY DEF OpToRel
<1>3. \A k \in S : ~ (k < n)
  BY <1>1, <1>2, Zenon
<1> QED
  BY <1>3

Descends(before) ==
  before \in [Commit -> Commit] /\ \A d \in Commit \ {0} : before[d] < d

\* h gives the history of every commit up to n.
Histories(h, before, n) ==
  h = [d \in 0 .. n |-> IF d = 0 THEN {0} ELSE {d} \cup h[before[d]]]

LEMMA HistoriesExist ==
  ASSUME NEW before, Descends(before), NEW n \in Commit
  PROVE  \E h : Histories(h, before, n)
<1> DEFINE without == {k \in Commit : ~ \E h : Histories(h, before, k)}
<1> SUFFICES ASSUME without # {} PROVE FALSE
  OBVIOUS
<1>1. PICK k \in without : \A j \in without : k <= j
  <2>1. without \in SUBSET Nat
    BY CommitAssumption DEF Commit
  <2> QED
    BY <2>1, LeastNumber, Zenon
<1>2. k \in Nat /\ k <= MaxCommit /\ MaxCommit \in Nat
  BY CommitAssumption DEF Commit
<1>3. CASE k = 0
  <2> DEFINE first == [j \in 0 .. 0 |-> {0}]
  <2>1. Histories(first, before, 0)
    BY DEF Histories
  <2> QED
    BY <1>3, <2>1
<1>4. CASE k # 0
  <2>1. k - 1 \in Commit /\ k - 1 \notin without
    BY <1>1, <1>2, <1>4 DEF Commit
  <2>2. PICK h : Histories(h, before, k - 1)
    BY <2>1
  <2> DEFINE more == [j \in 0 .. k |-> IF j = k THEN {k} \cup h[before[k]] ELSE h[j]]
  <2>3. ASSUME NEW j \in 0 .. k
        PROVE  more[j] = IF j = 0 THEN {0} ELSE {j} \cup more[before[j]]
    <3>1. \A i \in 0 .. k - 1 : h[i] = IF i = 0 THEN {0} ELSE {i} \cup h[before[i]]
      BY <2>2 DEF Histories
    <3>2. j # 0 => before[j] \in 0 .. k /\ before[j] # k
      BY <1>2 DEF Descends, Commit
    <3>3. CASE j = k
      BY <1>4, <3>2, <3>3
    <3>4. CASE j # k
      <4>1. j \in 0 .. k - 1 /\ more[j] = h[j]
        BY <1>2, <3>4
      <4>2. j # 0 => more[before[j]] = h[before[j]]
        BY <3>2
      <4> QED
        BY <3>1, <4>1, <4>2
    <3> QED
      BY <3>3, <3>4
  <2>4. Histories(more, before, k)
    BY <2>3 DEF Histories
  <2> QED
    BY <2>4
<1> QED
  BY <1>3, <1>4

\* What the recursion computes: a commit, and the history it was made on.
LEMMA HistoryIs ==
  ASSUME NEW before, Descends(before), NEW c \in Commit
  PROVE  HistoryBy(before, c) = IF c = 0 THEN {0} ELSE {c} \cup HistoryBy(before, before[c])
<1> DEFINE h == CHOOSE g : Histories(g, before, MaxCommit)
<1>1. MaxCommit \in Commit /\ NoCommit \notin Commit /\ Commit = 0 .. MaxCommit
  BY CommitAssumption DEF Commit
<1>2. Histories(h, before, MaxCommit)
  BY <1>1, HistoriesExist
<1>3. \A d \in Commit : HistoryBy(before, d) = h[d]
  BY <1>1 DEF HistoryBy, Histories
<1> HIDE DEF h
<1>4. \A d \in Commit : h[d] = IF d = 0 THEN {0} ELSE {d} \cup h[before[d]]
  BY <1>1, <1>2 DEF Histories
<1>5. before[c] \in Commit
  BY DEF Descends
<1> QED
  BY <1>3, <1>4, <1>5

LEMMA NoHistory == \A before : HistoryBy(before, NoCommit) = {}
BY DEF HistoryBy

\* A history holds its commit and otherwise earlier ones.
LEMMA HistoryIsEarlier ==
  ASSUME NEW before, Descends(before), NEW c \in Commit
  PROVE  c \in HistoryBy(before, c) /\ HistoryBy(before, c) \subseteq 0 .. c
<1> DEFINE bad == {d \in Commit : ~ (HistoryBy(before, d) \subseteq 0 .. d)}
<1>1. c \in HistoryBy(before, c)
  BY HistoryIs
<1>2. bad = {}
  <2> SUFFICES ASSUME bad # {} PROVE FALSE
    OBVIOUS
  <2>1. PICK d \in bad : \A e \in bad : d <= e
    <3>1. bad \in SUBSET Nat
      BY CommitAssumption DEF Commit
    <3> QED
      BY <3>1, LeastNumber, Zenon
  <2>2. d \in Commit /\ d \in Nat
    BY CommitAssumption DEF Commit
  <2>3. CASE d = 0
    BY <2>2, <2>3, HistoryIs
  <2>4. CASE d # 0
    <3>1. before[d] \in Commit /\ before[d] < d /\ before[d] \in Nat
      BY <2>2, <2>4, CommitAssumption DEF Descends, Commit
    <3>2. before[d] \notin bad
      BY <2>1, <2>2, <3>1
    <3>3. HistoryBy(before, before[d]) \subseteq 0 .. before[d]
      BY <3>1, <3>2
    <3>4. HistoryBy(before, d) = {d} \cup HistoryBy(before, before[d])
      BY <2>2, <2>4, HistoryIs
    <3>5. HistoryBy(before, d) \subseteq 0 .. d
      BY <2>2, <3>1, <3>3, <3>4
    <3> QED
      BY <3>5
  <2> QED
    BY <2>3, <2>4
<1> QED
  BY <1>1, <1>2

\* What is in a history has its whole history in it.
LEMMA HistoriesNest ==
  ASSUME NEW before, Descends(before), NEW c \in Commit, NEW d \in HistoryBy(before, c)
  PROVE  d \in Commit /\ HistoryBy(before, d) \subseteq HistoryBy(before, c)
<1> DEFINE bad == {e \in Commit : ~ \A x \in HistoryBy(before, e) :
                                      HistoryBy(before, x) \subseteq HistoryBy(before, e)}
<1>1. d \in Commit
  <2>1. d \in 0 .. c
    BY HistoryIsEarlier
  <2> QED
    BY <2>1, CommitAssumption DEF Commit
<1>2. bad = {}
  <2> SUFFICES ASSUME bad # {} PROVE FALSE
    OBVIOUS
  <2>1. PICK e \in bad : \A x \in bad : e <= x
    <3>1. bad \in SUBSET Nat
      BY CommitAssumption DEF Commit
    <3> QED
      BY <3>1, LeastNumber, Zenon
  <2>2. PICK x \in HistoryBy(before, e) : ~ (HistoryBy(before, x) \subseteq HistoryBy(before, e))
    BY <2>1
  <2>3. e \in Commit /\ e \in Nat
    BY CommitAssumption DEF Commit
  <2>4. x # e
    BY <2>2
  <2>5. e # 0
    BY <2>2, <2>3, <2>4, HistoryIs
  <2>6. before[e] \in Commit /\ before[e] < e /\ before[e] \in Nat
    BY <2>3, <2>5, CommitAssumption DEF Descends, Commit
  <2>7. HistoryBy(before, e) = {e} \cup HistoryBy(before, before[e])
    BY <2>3, <2>5, HistoryIs
  <2>8. before[e] \notin bad
    BY <2>1, <2>3, <2>6
  <2>9. HistoryBy(before, x) \subseteq HistoryBy(before, before[e])
    BY <2>2, <2>4, <2>6, <2>7, <2>8
  <2> QED
    BY <2>2, <2>7, <2>9
<1> QED
  BY <1>1, <1>2

\* The commit after n is made on another.
MadeOn(after, before, n, on) == after = [before EXCEPT ![n + 1] = on]

\* A new commit changes no history of the commits before it.
LEMMA HistoriesStay ==
  ASSUME NEW before, Descends(before), NEW n \in Nat, n < MaxCommit, NEW on \in 0 .. n,
         NEW after, MadeOn(after, before, n, on)
  PROVE  /\ Descends(after)
         /\ \A c \in 0 .. n : HistoryBy(after, c) = HistoryBy(before, c)
         /\ HistoryBy(after, n + 1) = {n + 1} \cup HistoryBy(before, on)
<1>1. /\ n + 1 \in Commit /\ on \in Commit /\ \A c \in 0 .. n : c \in Commit /\ c \in Nat
      /\ before \in [Commit -> Commit]
  <2>1. MaxCommit \in Nat /\ Commit = 0 .. MaxCommit
    BY CommitAssumption DEF Commit
  <2>2. before \in [Commit -> Commit]
    BY DEF Descends
  <2>3. n + 1 \in Commit
    BY <2>1
  <2>4. on \in Commit
    BY <2>1
  <2>5. \A c \in 0 .. n : c \in Commit /\ c \in Nat
    BY <2>1
  <2> QED
    BY <2>2, <2>3, <2>4, <2>5
<1>2. after[n + 1] = on /\ \A c \in Commit : c # n + 1 => after[c] = before[c]
  BY <1>1 DEF MadeOn
<1>3. Descends(after)
  BY <1>1, <1>2 DEF Descends, MadeOn
<1> DEFINE bad == {c \in 0 .. n : HistoryBy(after, c) # HistoryBy(before, c)}
<1>4. bad = {}
  <2> SUFFICES ASSUME bad # {} PROVE FALSE
    OBVIOUS
  <2>1. PICK c \in bad : \A d \in bad : c <= d
    <3>1. bad \in SUBSET Nat
      OBVIOUS
    <3> QED
      BY <3>1, LeastNumber, Zenon
  <2>2. c \in 0 .. n /\ c \in Nat /\ c \in Commit /\ c # n + 1 /\ HistoryBy(after, c) # HistoryBy(before, c)
    BY <1>1, <2>1
  <2>3. c # 0
    BY <1>3, <2>2, HistoryIs
  <2>4. before[c] \in 0 .. n /\ before[c] < c /\ after[c] = before[c]
    <3>1. before[c] < c /\ before[c] \in Nat
      BY <2>2, <2>3, CommitAssumption DEF Descends, Commit
    <3> QED
      BY <1>2, <2>2, <3>1
  <2>5. HistoryBy(after, before[c]) = HistoryBy(before, before[c])
    <3>1. before[c] \notin bad
      <4> HIDE DEF bad
      <4> QED
        BY <2>1, <2>2, <2>4
    <3> QED
      BY <2>4, <3>1
  <2>6. HistoryBy(after, c) = {c} \cup HistoryBy(after, after[c])
    BY <1>3, <2>2, <2>3, HistoryIs
  <2>7. HistoryBy(before, c) = {c} \cup HistoryBy(before, before[c])
    BY <2>2, <2>3, HistoryIs
  <2> QED
    BY <2>2, <2>4, <2>5, <2>6, <2>7
<1>5. HistoryBy(after, n + 1) = {n + 1} \cup HistoryBy(before, on)
  <2>1. HistoryBy(after, n + 1) = {n + 1} \cup HistoryBy(after, on)
    <3>1. n + 1 # 0
      OBVIOUS
    <3> QED
      BY <1>1, <1>2, <1>3, <3>1, HistoryIs
  <2> QED
    BY <1>4, <2>1
<1> QED
  BY <1>3, <1>4, <1>5

-----------------------------------------------------------------------------
(* The workspace.                                                          *)

GInv == GitTypeOK /\ RefsExist

LEMMA OnlyGitSteps ==
  ASSUME [Next]_vars
  PROVE  (\E b \in Branch : OthersPush(b)) \/ setupGitWorkspace \/ GitTool \/ UNCHANGED gitVars
<1>1. CASE UNCHANGED vars
  BY <1>1 DEF vars
<1>2. CASE Others \/ Cluster
  BY <1>2 DEF Others, Cluster
<1>3. CASE Runtime
  <2>1. CASE SetupFails \/ SetupDone \/ MemoryInit \/ BundleFails \/ BundleDone
    BY <2>1 DEF SetupFails, SetupDone, MemoryInit, BundleFails, BundleDone, worldVars
  <2>2. CASE CallGit \/ CallOpenPR \/ CallMemSave
    BY <2>2 DEF CallGit, CallOpenPR, CallMemSave, worldVars
  <2>3. CASE CallDelegate \/ Delegating
    BY <2>3 DEF CallDelegate, Delegating
  <2>4. CASE \E f \in Finishes : CallRunFinish(f[1], f[2])
    BY <2>4 DEF CallRunFinish, worldVars
  <2>5. CASE GenerateSucceeds \/ GenerateFallsBack \/ GenerateFails
    BY <2>5 DEF GenerateSucceeds, GenerateFallsBack, GenerateFails, worldVars
  <2>6. CASE autoFinalizeOutcome \/ EndSession \/ writeTaskResult
    BY <2>6 DEF autoFinalizeOutcome, EndSession, writeTaskResult, worldVars
  <2> QED
    BY <1>3, <2>1, <2>2, <2>3, <2>4, <2>5, <2>6, Zenon DEF Runtime
<1> QED
  BY <1>1, <1>2, <1>3 DEF Next

LEMMA GInvInitially ==
  ASSUME Init
  PROVE  GInv
<1> USE DEF Init, GitInit
<1>1. MaxCommit \in Nat /\ NoCommit \notin Commit /\ Commit = 0 .. MaxCommit /\ 0 \in Commit
  BY CommitAssumption DEF Commit
<1>2. Base \in Branch /\ (\A b \in Branch : remote[b] \in {0, NoCommit} /\ local[b] = NoCommit)
      /\ remote[Base] = 0
  BY DEF Branch
<1>3. GitTypeOK
  BY <1>1, <1>2 DEF GitTypeOK
<1>4. RefsExist
  <2>1. 0 # NoCommit /\ 0 \in 0 .. made
    BY <1>1
  <2>2. \A c \in Commit \ {0} : parent[c] < c
    BY <1>1
  <2> QED
    BY <1>2, <2>1, <2>2 DEF RefsExist
<1> QED
  BY <1>3, <1>4 DEF GInv

LEMMA CommitsAreKnown ==
  ASSUME GInv
  PROVE  /\ made \in Nat /\ made \in Commit /\ Descends(parent)
         /\ 0 .. made \subseteq Commit /\ NoCommit \notin 0 .. made
         /\ \A b \in Branch : /\ remote[b] # NoCommit => remote[b] \in 0 .. made
                              /\ local[b] # NoCommit => local[b] \in 0 .. made
         /\ track # NoCommit => track \in 0 .. made
         /\ remote[Base] \in 0 .. made /\ Base \in Branch /\ head \in Branch
<1>1. /\ Base \in Branch /\ head \in Branch /\ made \in Commit
      /\ parent \in [Commit -> Commit] /\ \A c \in Commit \ {0} : parent[c] < c
      /\ \A b \in Branch : {remote[b], local[b], track} \subseteq 0 .. made \cup {NoCommit}
      /\ remote[Base] # NoCommit
  BY DEF GInv, GitTypeOK, RefsExist, Branch
<1>2. MaxCommit \in Nat /\ NoCommit \notin Commit /\ Commit = 0 .. MaxCommit
  BY CommitAssumption DEF Commit
<1>3. 0 .. made \subseteq Commit /\ made \in Nat
  BY <1>1, <1>2
<1> QED
  BY <1>1, <1>2, <1>3 DEF Descends

\* Someone commits.
LEMMA CommitIsNew ==
  ASSUME GInv, NEW on \in 0 .. made, NewCommit(on)
  PROVE  /\ made' = made + 1 /\ made' \in Commit /\ parent' \in [Commit -> Commit]
         /\ 0 .. made' = 0 .. made \cup {made + 1} /\ 1 .. made' = 1 .. made \cup {made + 1}
         /\ Descends(parent)'
         /\ \A c \in 0 .. made : History(c)' = History(c)
         /\ HistoryBy(parent', made + 1) = {made + 1} \cup History(on)
<1>1. made' = made + 1 /\ made < MaxCommit /\ parent' = [parent EXCEPT ![made + 1] = on]
  BY DEF NewCommit
<1>2. made \in Nat /\ Descends(parent) /\ MaxCommit \in Nat
  BY CommitsAreKnown, CommitAssumption
<1>3. /\ Descends(parent')
      /\ \A c \in 0 .. made : HistoryBy(parent', c) = HistoryBy(parent, c)
      /\ HistoryBy(parent', made + 1) = {made + 1} \cup HistoryBy(parent, on)
  <2> PICK n, before, after : n = made /\ before = parent /\ after = parent'
    OBVIOUS
  <2>1. n \in Nat /\ Descends(before) /\ n < MaxCommit /\ on \in 0 .. n
        /\ MadeOn(after, before, n, on)
    BY <1>1, <1>2 DEF MadeOn
  <2>2. /\ Descends(after)
        /\ \A c \in 0 .. n : HistoryBy(after, c) = HistoryBy(before, c)
        /\ HistoryBy(after, n + 1) = {n + 1} \cup HistoryBy(before, on)
    BY <2>1, HistoriesStay
  <2> QED
    BY <2>2
<1>4. made' \in Commit
  BY <1>1, <1>2 DEF Commit
<1>5. 0 .. made' = 0 .. made \cup {made + 1} /\ 1 .. made' = 1 .. made \cup {made + 1}
  BY <1>1, <1>2
<1> QED
  BY <1>1, <1>3, <1>4, <1>5 DEF Descends, History

\* The worktree only.
LEMMA TreeKeeps ==
  ASSUME GInv, UNCHANGED refVars,
         staged' \subseteq File, unstaged' \subseteq File, new' \subseteq unstaged'
  PROVE  GInv'
BY DEF GInv, GitTypeOK, RefsExist, refVars

\* Moving a branch to a commit that exists.
LEMMA RefsKeep ==
  ASSUME GInv, UNCHANGED <<made, parent, own, asked, unstaged, new>>,
         staged' \subseteq File, {forced', switched'} \subseteq BOOLEAN,
         remote' \in [Branch -> Commit \cup {NoCommit}], local' \in [Branch -> Commit \cup {NoCommit}],
         \A b \in Branch : {remote'[b], local'[b], track'} \subseteq 0 .. made \cup {NoCommit},
         remote'[Base] # NoCommit, ready' = TRUE, head' \in Branch,
         local'[head'] # NoCommit, track' # NoCommit
  PROVE  GInv'
<1>1. track' \in Commit
  BY CommitsAreKnown
<1>2. GitTypeOK'
  BY <1>1 DEF GInv, GitTypeOK
<1>3. RefsExist'
  BY DEF GInv, RefsExist
<1> QED
  BY <1>2, <1>3 DEF GInv

LEMMA OthersPushKeeps ==
  ASSUME GInv, NEW b \in Branch, OthersPush(b)
  PROVE  GInv'
<1>1. PICK on \in 0 .. made : NewCommit(on)
  BY CommitsAreKnown DEF OthersPush
<1>2. /\ made' = made + 1 /\ made' \in Commit /\ parent' \in [Commit -> Commit]
      /\ Descends(parent)'
      /\ 0 .. made \subseteq 0 .. made' /\ 1 .. made \subseteq 1 .. made' /\ made + 1 \in 0 .. made'
      /\ made + 1 # NoCommit
  BY <1>1, CommitIsNew, CommitAssumption
<1>3. /\ remote' = [remote EXCEPT ![b] = made + 1]
      /\ UNCHANGED <<own, ready, asked, local, track, head, forced, switched, staged, unstaged, new>>
  BY DEF OthersPush, treeVars
<1>4. remote \in [Branch -> Commit \cup {NoCommit}] /\ Base \in Branch
  BY DEF GInv, GitTypeOK, Branch
<1>5. /\ remote' \in [Branch -> Commit \cup {NoCommit}]
      /\ \A c \in Branch : remote'[c] = remote[c] \/ remote'[c] = made + 1
  BY <1>2, <1>3, <1>4
<1>6. GitTypeOK'
  BY <1>2, <1>3, <1>5 DEF GInv, GitTypeOK
<1>7. RefsExist'
  BY <1>2, <1>3, <1>4, <1>5 DEF GInv, RefsExist, Descends
<1> QED
  BY <1>6, <1>7 DEF GInv

LEMMA SetupKeeps ==
  ASSUME GInv, setupGitWorkspace
  PROVE  GInv'
<1>1. PICK work : SetupOn(work) /\ work \in 0 .. made /\ work # NoCommit
  <2>1. CASE SetupNew
    BY <2>1, CommitsAreKnown DEF SetupNew
  <2>2. CASE SetupExisting
    BY <2>2, CommitsAreKnown DEF SetupExisting, Fetched, GInv, GitTypeOK
  <2> QED
    BY <2>1, <2>2 DEF setupGitWorkspace
<1>2. /\ remote[Base] \in 0 .. made /\ remote[Base] # NoCommit /\ 0 .. made \subseteq Commit
      /\ asked \in Branch \cup {NoBranch} /\ Base \in Branch /\ NoBranch \notin Branch
      /\ remote \in [Branch -> Commit \cup {NoCommit}]
  BY CommitsAreKnown, BranchAssumption DEF GInv, GitTypeOK
<1>3. /\ UNCHANGED <<made, parent, own, remote, asked, forced, switched, staged, unstaged, new>>
      /\ ready' = TRUE /\ track' = remote[Base]
      /\ head' = IF asked = NoBranch THEN Base ELSE asked
      /\ local' = [b \in Branch |-> CASE b = Base -> remote[Base]
                                      [] b = asked /\ b # Base -> work
                                      [] OTHER -> NoCommit]
  BY <1>1 DEF SetupOn, treeVars
<1>4. /\ \A b \in Branch : local'[b] \in {remote[Base], work, NoCommit}
      /\ local' \in [Branch -> Commit \cup {NoCommit}]
  BY <1>1, <1>2, <1>3
<1>5. head' \in Branch /\ local'[head'] # NoCommit
  BY <1>1, <1>2, <1>3
<1>6. \A b \in Branch : {remote'[b], local'[b], track'} \subseteq 0 .. made \cup {NoCommit}
  <2>1. \A b \in Branch : remote[b] \in 0 .. made \cup {NoCommit}
    BY DEF GInv, RefsExist
  <2> QED
    BY <1>1, <1>2, <1>3, <1>4, <2>1
<1>7. {forced', switched'} \subseteq BOOLEAN /\ staged' \subseteq File
  BY <1>3 DEF GInv, GitTypeOK
<1> QED
  BY <1>2, <1>3, <1>4, <1>5, <1>6, <1>7, RefsKeep

LEMMA GitCommitKeeps ==
  ASSUME GInv, GitCommit
  PROVE  GInv'
<1>1. HeadCommit \in 0 .. made /\ NewCommit(HeadCommit) /\ head \in Branch /\ ready = TRUE
  BY CommitsAreKnown DEF GitCommit, HeadCommit, GInv, RefsExist, GitTypeOK
<1>2. /\ made' = made + 1 /\ made' \in Commit /\ parent' \in [Commit -> Commit]
      /\ Descends(parent)' /\ made \in Nat
      /\ 0 .. made \subseteq 0 .. made' /\ 1 .. made \subseteq 1 .. made'
      /\ made + 1 \in 0 .. made' /\ made + 1 \in 1 .. made'
      /\ made + 1 # NoCommit
  BY <1>1, CommitIsNew, CommitsAreKnown, CommitAssumption
<1>3. /\ local' = [local EXCEPT ![head] = made + 1]
      /\ own' = own \cup {made + 1} /\ staged' = {}
      /\ UNCHANGED <<remote, ready, asked, track, head, forced, switched, unstaged, new>>
  BY DEF GitCommit
<1>4. local \in [Branch -> Commit \cup {NoCommit}] /\ own \subseteq Commit
  BY DEF GInv, GitTypeOK
<1>5. /\ local' \in [Branch -> Commit \cup {NoCommit}]
      /\ \A b \in Branch : local'[b] = local[b] \/ local'[b] = made + 1
      /\ local'[head] = made + 1
  BY <1>1, <1>2, <1>3, <1>4
<1>6. GitTypeOK'
  BY <1>2, <1>3, <1>4, <1>5 DEF GInv, GitTypeOK
<1>7. RefsExist'
  BY <1>1, <1>2, <1>3, <1>5 DEF GInv, RefsExist, Descends
<1> QED
  BY <1>6, <1>7 DEF GInv

LEMMA GitPushKeeps ==
  ASSUME GInv, NEW branch \in Branch \cup {NoBranch}, NEW force \in BOOLEAN, GitPush(branch, force)
  PROVE  GInv'
<1>1. /\ UNCHANGED <<made, parent, own, ready, asked, local, head, staged, unstaged, new>>
      /\ remote' = [b \in Branch |-> IF b \in Offered(branch) THEN local[b] ELSE remote[b]]
      /\ track' = IF Base \in Offered(branch) THEN local[Base] ELSE track
      /\ ready = TRUE /\ {forced', switched'} \subseteq BOOLEAN /\ staged' \subseteq File
  BY DEF GitPush, treeVars, GInv, GitTypeOK
<1>2. /\ \A b \in Offered(branch) : local[b] # NoCommit
      /\ local \in [Branch -> Commit \cup {NoCommit}] /\ remote \in [Branch -> Commit \cup {NoCommit}]
      /\ local[head] # NoCommit /\ track # NoCommit /\ remote[Base] # NoCommit
      /\ head \in Branch /\ Base \in Branch
      /\ \A b \in Branch : {remote[b], local[b], track} \subseteq 0 .. made \cup {NoCommit}
  BY <1>1 DEF Offered, GInv, GitTypeOK, RefsExist, Branch
<1>3. remote' \in [Branch -> Commit \cup {NoCommit}]
  BY <1>1, <1>2
<1>4. /\ \A b \in Branch : {remote'[b], local'[b], track'} \subseteq 0 .. made \cup {NoCommit}
      /\ remote'[Base] # NoCommit /\ track' # NoCommit
  BY <1>1, <1>2
<1> QED
  BY <1>1, <1>2, <1>3, <1>4, RefsKeep

LEMMA GitPullKeeps ==
  ASSUME GInv, NEW branch \in Branch \cup {NoBranch}, GitPull(branch)
  PROVE  GInv'
<1> DEFINE to == remote[IF branch = NoBranch THEN Base ELSE branch]
<1>1. /\ UNCHANGED <<made, parent, own, remote, ready, asked, head, forced, switched, unstaged, new>>
      /\ ready = TRUE /\ {forced', switched'} \subseteq BOOLEAN /\ track' = remote[Base]
      /\ staged' \subseteq File
      /\ local' = local \/ (to # NoCommit /\ local' = [local EXCEPT ![head] = to])
  BY DEF GitPull, GInv, GitTypeOK
<1>2. /\ local \in [Branch -> Commit \cup {NoCommit}] /\ remote \in [Branch -> Commit \cup {NoCommit}]
      /\ local[head] # NoCommit /\ remote[Base] # NoCommit
      /\ head \in Branch /\ Base \in Branch
      /\ \A b \in Branch : {remote[b], local[b], track} \subseteq 0 .. made \cup {NoCommit}
  BY <1>1 DEF GInv, GitTypeOK, RefsExist, Branch
<1>3. to \in Commit \cup {NoCommit} /\ to \in 0 .. made \cup {NoCommit}
  BY <1>2
<1> HIDE DEF to
<1>4. /\ local' \in [Branch -> Commit \cup {NoCommit}] /\ local'[head] # NoCommit
      /\ \A b \in Branch : local'[b] = local[b] \/ local'[b] = to
  BY <1>1, <1>2, <1>3
<1>5. /\ \A b \in Branch : {remote'[b], local'[b], track'} \subseteq 0 .. made \cup {NoCommit}
      /\ track' # NoCommit
  BY <1>1, <1>2, <1>3, <1>4
<1> QED
  BY <1>1, <1>2, <1>4, <1>5, RefsKeep

LEMMA GitBranchKeeps ==
  ASSUME GInv, NEW b \in Branch, NEW create \in BOOLEAN, GitBranch(b, create)
  PROVE  GInv'
<1>1. /\ UNCHANGED <<made, parent, own, remote, ready, asked, track, forced, unstaged, new>>
      /\ ready = TRUE /\ {forced', switched'} \subseteq BOOLEAN /\ head' = b
      /\ staged' \subseteq File
      /\ \/ local' = local /\ local[b] # NoCommit
         \/ local' = [local EXCEPT ![b] = local[head]]
  BY DEF GitBranch, HeadCommit, GInv, GitTypeOK
<1>2. /\ local \in [Branch -> Commit \cup {NoCommit}] /\ remote \in [Branch -> Commit \cup {NoCommit}]
      /\ local[head] # NoCommit /\ remote[Base] # NoCommit /\ track # NoCommit
      /\ head \in Branch /\ Base \in Branch
      /\ \A c \in Branch : {remote[c], local[c], track} \subseteq 0 .. made \cup {NoCommit}
  BY <1>1 DEF GInv, GitTypeOK, RefsExist, Branch
<1>3. /\ local' \in [Branch -> Commit \cup {NoCommit}] /\ local'[b] # NoCommit
      /\ \A c \in Branch : local'[c] = local[c] \/ local'[c] = local[head]
  BY <1>1, <1>2
<1>4. \A c \in Branch : {remote'[c], local'[c], track'} \subseteq 0 .. made \cup {NoCommit}
  BY <1>1, <1>2, <1>3
<1> QED
  BY <1>1, <1>2, <1>3, <1>4, RefsKeep

LEMMA GInvPreserved ==
  ASSUME GInv, (\E b \in Branch : OthersPush(b)) \/ setupGitWorkspace \/ GitTool \/ UNCHANGED gitVars
  PROVE  GInv'
<1>1. CASE UNCHANGED gitVars
  BY <1>1, TreeKeeps DEF gitVars, treeVars, GInv, GitTypeOK
<1>2. ASSUME NEW f \in File, EditFile(f) PROVE GInv'
  BY <1>2, TreeKeeps DEF EditFile, GInv, GitTypeOK
<1>3. ASSUME NEW fs \in SUBSET File, GitAdd(fs) PROVE GInv'
  BY <1>3, TreeKeeps DEF GitAdd, GInv, GitTypeOK
<1>4. CASE GitTool
  BY <1>2, <1>3, <1>4, GitCommitKeeps, GitPushKeeps, GitPullKeeps, GitBranchKeeps, Zenon DEF GitTool
<1> QED
  BY <1>1, <1>4, OthersPushKeeps, SetupKeeps

\* What is on the server.
OnServer == UNION {History(remote[b]) : b \in Branch}

LEMMA ServerGrows ==
  ASSUME GInv, NEW b \in Branch, OthersPush(b)
  PROVE  OnServer \cup {made + 1} \subseteq OnServer'
<1> DEFINE on == IF remote[b] = NoCommit THEN remote[Base] ELSE remote[b]
<1>1. on \in 0 .. made /\ NewCommit(on) /\ remote' = [remote EXCEPT ![b] = made + 1]
  BY CommitsAreKnown DEF OthersPush
<1>2. remote \in [Branch -> Commit \cup {NoCommit}]
  BY DEF GInv, GitTypeOK
<1>3. /\ HistoryBy(parent', made + 1) = {made + 1} \cup History(on)
      /\ \A c \in 0 .. made : HistoryBy(parent', c) = History(c)
  <2> HIDE DEF on
  <2> QED
    BY <1>1, CommitIsNew DEF History
<1>4. remote'[b] = made + 1 /\ \A c \in Branch : c # b => remote'[c] = remote[c]
  BY <1>1, <1>2
<1>5. HistoryBy(parent', made + 1) \subseteq OnServer'
  BY <1>4 DEF OnServer, History
<1>6. ASSUME NEW c \in Branch PROVE History(remote[c]) \subseteq OnServer'
  <2>1. CASE remote[c] = NoCommit
    BY <2>1, NoHistory DEF History
  <2>2. CASE remote[c] # NoCommit /\ c = b
    BY <1>3, <1>5, <2>2
  <2>3. CASE remote[c] # NoCommit /\ c # b
    <3>1. remote[c] \in 0 .. made
      BY <2>3, CommitsAreKnown
    <3>2. HistoryBy(parent', remote'[c]) = History(remote[c])
      BY <1>3, <1>4, <2>3, <3>1
    <3> QED
      BY <3>2 DEF OnServer, History
  <2> QED
    BY <2>1, <2>2, <2>3
<1> QED
  BY <1>3, <1>5, <1>6 DEF OnServer

\* A push that is not forced, and is accepted, follows what is there.
LEMMA PushKeepsServer ==
  ASSUME GInv, NEW branch \in Branch \cup {NoBranch}, GitPush(branch, FALSE)
  PROVE  OnServer \subseteq OnServer'
<1>1. /\ parent' = parent
      /\ remote' = [b \in Branch |-> IF b \in Offered(branch) THEN local[b] ELSE remote[b]]
      /\ \A b \in Offered(branch) : FastForward(remote[b], local[b])
      /\ \A b \in Offered(branch) : local[b] # NoCommit
  BY DEF GitPush, Offered
<1>2. ASSUME NEW b \in Branch PROVE History(remote[b]) \subseteq History(remote'[b])
  <2>1. CASE b \notin Offered(branch)
    BY <1>1, <2>1
  <2>2. CASE b \in Offered(branch) /\ remote[b] = NoCommit
    BY <2>2, NoHistory DEF History
  <2>3. CASE b \in Offered(branch) /\ remote[b] # NoCommit
    <3>1. local[b] \in Commit /\ remote[b] \in History(local[b]) /\ remote'[b] = local[b]
      BY <1>1, <2>3, CommitsAreKnown DEF FastForward
    <3> QED
      BY <3>1, CommitsAreKnown, HistoriesNest DEF History
  <2> QED
    BY <2>1, <2>2, <2>3
<1> QED
  BY <1>1, <1>2 DEF OnServer, History

LEMMA OthersWorkPreserved ==
  ASSUME GInv, OthersWorkStays,
         (\E b \in Branch : OthersPush(b)) \/ setupGitWorkspace \/ GitTool \/ UNCHANGED gitVars
  PROVE  OthersWorkStays'
<1> DEFINE others == (1 .. made) \ own
<1>0. own \subseteq 1 .. made /\ (~forced => others \subseteq OnServer)
  BY DEF GInv, RefsExist, OthersWorkStays, OnServer
<1>1. ASSUME forced' \/ (~forced /\ (1 .. made)' \ own' \subseteq OnServer') PROVE OthersWorkStays'
  BY <1>1 DEF OthersWorkStays, OnServer
<1>2. ASSUME UNCHANGED <<made, parent, own, remote, forced>> PROVE OthersWorkStays'
  BY <1>2 DEF OthersWorkStays, History
<1>3. ASSUME NEW b \in Branch, OthersPush(b) PROVE OthersWorkStays'
  <2>1. OnServer \cup {made + 1} \subseteq OnServer' /\ own' = own /\ forced' = forced
    BY <1>3, ServerGrows DEF OthersPush
  <2>2. PICK on \in 0 .. made : NewCommit(on)
    BY <1>3, CommitsAreKnown DEF OthersPush
  <2>3. 1 .. made' = 1 .. made \cup {made + 1}
    BY <2>2, CommitIsNew
  <2> QED
    BY <1>0, <1>1, <2>1, <2>3 DEF GInv, GitTypeOK
<1>4. CASE GitCommit
  <2>1. HeadCommit \in 0 .. made /\ NewCommit(HeadCommit)
    BY <1>4, CommitsAreKnown DEF GitCommit, HeadCommit, GInv, RefsExist, GitTypeOK
  <2>2. 1 .. made' = 1 .. made \cup {made + 1} /\ \A c \in 0 .. made : History(c)' = History(c)
    BY <2>1, CommitIsNew
  <2>3. own' = own \cup {made + 1} /\ remote' = remote /\ forced' = forced
    BY <1>4 DEF GitCommit
  <2>4. ASSUME NEW b \in Branch PROVE History(remote[b]) \subseteq OnServer'
    <3>1. CASE remote[b] = NoCommit
      BY <3>1, NoHistory DEF History
    <3>2. CASE remote[b] # NoCommit
      <4>1. remote[b] \in 0 .. made
        BY <3>2, CommitsAreKnown
      <4>2. HistoryBy(parent', remote[b]) = History(remote[b])
        BY <2>2, <4>1 DEF History
      <4> QED
        BY <2>3, <4>2 DEF OnServer, History
    <3> QED
      BY <3>1, <3>2
  <2>5. OnServer \subseteq OnServer'
    BY <2>4 DEF OnServer
  <2> QED
    BY <1>0, <1>1, <2>2, <2>3, <2>5 DEF GInv, GitTypeOK
<1>5. ASSUME NEW branch \in Branch \cup {NoBranch}, NEW force \in BOOLEAN, GitPush(branch, force)
      PROVE  OthersWorkStays'
  <2>1. made' = made /\ own' = own /\ forced' = (forced \/ force)
    BY <1>5 DEF GitPush
  <2>2. CASE force
    BY <1>1, <2>1, <2>2
  <2>3. CASE ~force
    <3>1. GitPush(branch, FALSE)
      BY <1>5, <2>3
    <3>2. OnServer \subseteq OnServer'
      BY <3>1, PushKeepsServer
    <3> QED
      BY <1>0, <1>1, <2>1, <2>3, <3>2
  <2> QED
    BY <2>2, <2>3
<1>6. CASE UNCHANGED gitVars \/ setupGitWorkspace
  BY <1>2, <1>6 DEF gitVars, refVars, setupGitWorkspace, SetupExisting, SetupNew, SetupOn
<1>7. ASSUME \/ \E f \in File : EditFile(f)
             \/ \E fs \in SUBSET File : GitAdd(fs)
             \/ \E branch \in Branch \cup {NoBranch} : GitPull(branch)
             \/ \E b \in Branch, create \in BOOLEAN : GitBranch(b, create)
      PROVE  OthersWorkStays'
  <2>1. UNCHANGED <<made, parent, own, remote, forced>>
    BY <1>7 DEF EditFile, GitAdd, GitPull, GitBranch, refVars
  <2> QED
    BY <1>2, <2>1
<1>8. CASE GitTool
  BY <1>4, <1>5, <1>7, <1>8, Zenon DEF GitTool
<1> QED
  BY <1>3, <1>6, <1>8

\* Until a push is forced, every commit others have pushed stays on the server,
\* whatever the tools of a run do to a clone that may be stale (git_push,
\* git_pull, git_branch; gitops.go:620-725).
THEOREM OthersLoseNothing == Spec => []OthersWorkStays
<1>1. Init => GInv /\ OthersWorkStays
  <2>1. 1 .. 0 = {}
    OBVIOUS
  <2>2. Init => OthersWorkStays
    BY <2>1 DEF Init, GitInit, OthersWorkStays
  <2> QED
    BY <2>2, GInvInitially
<1>2. GInv /\ OthersWorkStays /\ [Next]_vars => (GInv /\ OthersWorkStays)'
  BY OnlyGitSteps, GInvPreserved, OthersWorkPreserved
<1> QED
  BY <1>1, <1>2, PTL DEF Spec

-----------------------------------------------------------------------------
(* The commits of the run.                                                 *)

\* What is on the branches of the clone.
OnClone == UNION {History(local[b]) : b \in Branch}

\* The commits of the run are in the clone, and at HEAD until a switch.
WInv == OwnWorkAtHead /\ own \subseteq OnClone

\* Where no branch of the clone loses a commit and no history changes, the
\* commits of the run stay there.
LEMMA CloneKeeps ==
  ASSUME WInv, UNCHANGED <<own, parent>>,
         \A b \in Branch : History(local[b]) \subseteq History(local'[b])
  PROVE  (own \subseteq OnClone)'
<1>1. \A b \in Branch : History(local'[b]) = HistoryBy(parent', local'[b])
  BY DEF History
<1>2. own' \subseteq UNION {HistoryBy(parent', local'[b]) : b \in Branch}
  BY <1>1 DEF WInv, OnClone
<1> QED
  BY <1>2 DEF OnClone, History

\* A commit of someone changes no history a branch has.
LEMMA HistoriesOfRefsStay ==
  ASSUME GInv, NEW on \in 0 .. made, NewCommit(on), NEW b \in Branch
  PROVE  HistoryBy(parent', local[b]) = History(local[b])
<1>1. CASE local[b] = NoCommit
  BY <1>1, NoHistory DEF History
<1>2. CASE local[b] # NoCommit
  <2>1. local[b] \in 0 .. made
    BY <1>2, CommitsAreKnown
  <2>2. \A c \in 0 .. made : HistoryBy(parent', c) = History(c)
    BY CommitIsNew DEF History
  <2> QED
    BY <2>1, <2>2
<1> QED
  BY <1>1, <1>2

LEMMA OthersPushKeepsWork ==
  ASSUME GInv, WInv, NEW b \in Branch, OthersPush(b)
  PROVE  WInv'
<1>1. PICK on \in 0 .. made : NewCommit(on)
  BY CommitsAreKnown DEF OthersPush
<1>2. UNCHANGED <<own, local, head, switched>> /\ head \in Branch
  BY CommitsAreKnown DEF OthersPush
<1>3. \A c \in Branch : HistoryBy(parent', local'[c]) = History(local[c])
  BY <1>1, <1>2, HistoriesOfRefsStay
<1>4. HistoryBy(parent', local'[head']) = History(local[head])
  BY <1>2, <1>3
<1> QED
  BY <1>2, <1>3, <1>4 DEF WInv, OwnWorkAtHead, OnClone, HeadCommit, History

LEMMA SetupKeepsWork ==
  ASSUME GInv, setupGitWorkspace
  PROVE  WInv'
<1>1. ~ready /\ own' = own
  BY DEF setupGitWorkspace, SetupExisting, SetupNew, SetupOn
<1>2. own' = {}
  BY <1>1 DEF GInv, RefsExist
<1> QED
  BY <1>2 DEF WInv, OwnWorkAtHead

LEMMA GitCommitKeepsWork ==
  ASSUME GInv, WInv, GitCommit
  PROVE  WInv'
<1>1. HeadCommit \in 0 .. made /\ NewCommit(HeadCommit) /\ head \in Branch
      /\ local \in [Branch -> Commit \cup {NoCommit}]
  BY CommitsAreKnown DEF GitCommit, HeadCommit, GInv, RefsExist, GitTypeOK
<1>2. HistoryBy(parent', made + 1) = {made + 1} \cup History(HeadCommit)
  BY <1>1, CommitIsNew
<1>3. /\ local' = [local EXCEPT ![head] = made + 1] /\ own' = own \cup {made + 1}
      /\ head' = head /\ switched' = switched
  BY DEF GitCommit
<1>4. local'[head] = made + 1 /\ \A b \in Branch \ {head} : local'[b] = local[b]
  BY <1>1, <1>3
<1>5. \A b \in Branch \ {head} : HistoryBy(parent', local'[b]) = History(local[b])
  BY <1>1, <1>4, HistoriesOfRefsStay
<1>6. HistoryBy(parent', local'[head']) = {made + 1} \cup History(HeadCommit)
  BY <1>2, <1>3, <1>4
<1>7. OwnWorkAtHead'
  BY <1>3, <1>6 DEF WInv, OwnWorkAtHead, HeadCommit, History
<1>8. \A b \in Branch : History(local[b]) \subseteq HistoryBy(parent', local'[b])
  BY <1>3, <1>5, <1>6 DEF HeadCommit
<1>9. own' \subseteq UNION {HistoryBy(parent', local'[b]) : b \in Branch}
  BY <1>1, <1>3, <1>6, <1>8 DEF WInv, OnClone
<1> QED
  BY <1>7, <1>9 DEF WInv, OnClone, History

\* A pull goes forward.
LEMMA GitPullKeepsWork ==
  ASSUME GInv, WInv, NEW branch \in Branch \cup {NoBranch}, GitPull(branch)
  PROVE  WInv'
<1> DEFINE to == remote[IF branch = NoBranch THEN Base ELSE branch]
<1>1. /\ UNCHANGED <<own, parent, head, switched>>
      /\ \/ local' = local
         \/ to # NoCommit /\ FastForward(HeadCommit, to) /\ local' = [local EXCEPT ![head] = to]
  BY DEF GitPull
<1>2. /\ head \in Branch /\ local \in [Branch -> Commit \cup {NoCommit}] /\ Descends(parent)
      /\ to # NoCommit => to \in Commit
  BY CommitsAreKnown DEF GInv, GitTypeOK, Branch
<1> HIDE DEF to
<1>3. ASSUME NEW b \in Branch PROVE History(local[b]) \subseteq History(local'[b])
  <2>1. CASE local'[b] = local[b]
    BY <2>1
  <2>2. CASE local'[b] # local[b]
    <3>1. b = head /\ local'[b] = to /\ to \in Commit /\ FastForward(local[b], to)
      BY <1>1, <1>2, <2>2 DEF HeadCommit
    <3>2. CASE local[b] = NoCommit
      BY <3>2, NoHistory DEF History
    <3>3. CASE local[b] \in History(to)
      BY <1>2, <3>1, <3>3, HistoriesNest DEF History
    <3> QED
      BY <3>1, <3>2, <3>3 DEF FastForward
  <2> QED
    BY <2>1, <2>2
<1>4. OwnWorkAtHead'
  BY <1>1, <1>2, <1>3 DEF WInv, OwnWorkAtHead, HeadCommit, History
<1> QED
  BY <1>1, <1>3, <1>4, CloneKeeps DEF WInv

\* A branch is created where there is none.
LEMMA GitBranchKeepsWork ==
  ASSUME GInv, WInv, NEW b \in Branch, NEW create \in BOOLEAN, GitBranch(b, create)
  PROVE  WInv'
<1>1. /\ UNCHANGED <<own, parent>> /\ head' = b /\ switched' = (switched \/ ~create)
      /\ local \in [Branch -> Commit \cup {NoCommit}]
      /\ \/ ~create /\ local' = local
         \/ create /\ local[b] = NoCommit /\ local' = [local EXCEPT ![b] = HeadCommit]
  BY DEF GitBranch, GInv, GitTypeOK
<1>2. ASSUME NEW c \in Branch PROVE History(local[c]) \subseteq History(local'[c])
  <2>1. CASE local[c] = NoCommit
    BY <2>1, NoHistory DEF History
  <2>2. CASE local[c] # NoCommit
    BY <1>1, <2>2
  <2> QED
    BY <2>1, <2>2
<1>3. OwnWorkAtHead'
  BY <1>1 DEF WInv, OwnWorkAtHead, HeadCommit, History
<1> QED
  BY <1>1, <1>2, <1>3, CloneKeeps DEF WInv

LEMMA WInvPreserved ==
  ASSUME GInv, WInv,
         (\E b \in Branch : OthersPush(b)) \/ setupGitWorkspace \/ GitTool \/ UNCHANGED gitVars
  PROVE  WInv'
<1>1. ASSUME UNCHANGED <<own, parent, local, head, switched>> PROVE WInv'
  BY <1>1 DEF WInv, OwnWorkAtHead, OnClone, HeadCommit, History
<1>2. CASE UNCHANGED gitVars
  BY <1>1, <1>2 DEF gitVars, refVars
<1>3. ASSUME \/ \E f \in File : EditFile(f)
             \/ \E fs \in SUBSET File : GitAdd(fs)
             \/ \E branch \in Branch \cup {NoBranch}, force \in BOOLEAN : GitPush(branch, force)
      PROVE  WInv'
  <2>1. UNCHANGED <<own, parent, local, head, switched>>
    BY <1>3 DEF EditFile, GitAdd, GitPush, refVars
  <2> QED
    BY <1>1, <2>1
<1>4. CASE GitTool
  BY <1>3, <1>4, GitCommitKeepsWork, GitPullKeepsWork, GitBranchKeepsWork, Zenon DEF GitTool
<1> QED
  BY <1>2, <1>4, OthersPushKeepsWork, SetupKeepsWork

LEMMA WInvInitially ==
  ASSUME Init
  PROVE  WInv
BY DEF Init, GitInit, WInv, OwnWorkAtHead

\* No sequence of git_commit, git_pull, git_branch and git_push, next to pushes
\* of others, makes a commit of the run fall off the branches of its clone
\* (gitops.go:590-725).
THEOREM OwnWorkIsKept == Spec => []OwnWorkStays
<1>1. Init => GInv /\ WInv
  BY GInvInitially, WInvInitially
<1>2. GInv /\ WInv /\ [Next]_vars => (GInv /\ WInv)'
  BY OnlyGitSteps, GInvPreserved, WInvPreserved
<1>3. WInv => OwnWorkStays
  BY DEF WInv, OnClone, OwnWorkStays
<1> QED
  BY <1>1, <1>2, <1>3, PTL DEF Spec

-----------------------------------------------------------------------------
(* Types of the delegation tools.                                          *)

TInv == ToolTypeOK /\ CallIsChecked

\* The call in progress.
LEMMA CallIsTyped ==
  ASSUME TInv, call # Idle
  PROVE  /\ call \in Calling /\ ncalls \in 1 .. MaxDelegations /\ ncalls \in 1 .. ncalls
         /\ call.items \in Seq(Item) /\ DOMAIN call.items = 1 .. Len(call.items)
         /\ Len(call.items) \in 1 .. MaxFanOut /\ Len(call.items) \in Nat
         /\ call.checked \in 0 .. Len(call.items) /\ call.checked \in Nat
         /\ call.created \subseteq DOMAIN call.items /\ call.failed \subseteq DOMAIN call.items
         /\ \A i \in 1 .. call.checked : call.items[i] \in Team
<1>1. /\ call \in Calling /\ call.checked \in 0 .. Len(call.items)
      /\ call.created \subseteq DOMAIN call.items /\ call.failed \subseteq DOMAIN call.items
      /\ ncalls \in 0 .. MaxDelegations
      /\ ncalls > 0 /\ Len(call.items) \in 1 .. MaxFanOut
      /\ \A i \in 1 .. call.checked : call.items[i] \in Team
  BY DEF TInv, ToolTypeOK, CallIsChecked
<1>2. call.items \in Seq(Item) /\ call.checked \in Nat
  BY <1>1 DEF Calling
<1>3. ncalls \in 1 .. MaxDelegations /\ ncalls \in 1 .. ncalls
  BY <1>1, AgentAssumption
<1> QED
  BY <1>1, <1>2, <1>3

LEMMA StartCallIsTyped ==
  ASSUME TInv, NEW tool \in Tool, NEW timeoutOk \in BOOLEAN, NEW items \in Batch(tool),
         StartCall(tool, items, timeoutOk)
  PROVE  TInv'
<1>1. /\ call = Idle /\ ncalls < MaxDelegations /\ ncalls' = ncalls + 1
      /\ UNCHANGED <<existing, running, runs, groups, broken>>
  BY DEF StartCall, clusterVars
<1>2. /\ ncalls \in 0 .. MaxDelegations /\ refused \subseteq 1 .. ncalls /\ broken \subseteq 1 .. ncalls
      /\ existing \subseteq Agent /\ running \subseteq Agent /\ runs \subseteq Run /\ groups \subseteq Group
      /\ MaxDelegations \in Nat /\ MaxFanOut \in 1 .. 10
  BY AgentAssumption DEF TInv, ToolTypeOK
<1>3. ncalls' \in 0 .. MaxDelegations /\ 1 .. ncalls' = 1 .. ncalls \cup {ncalls + 1} /\ ncalls' > 0
  BY <1>1, <1>2
<1>4. CASE ~WellFormed(tool, items, timeoutOk)
  <2>1. call' = Idle /\ refused' = refused \cup {ncalls + 1}
    BY <1>1, <1>4 DEF StartCall
  <2> QED
    BY <1>1, <1>2, <1>3, <2>1 DEF TInv, ToolTypeOK, CallIsChecked
<1>5. CASE WellFormed(tool, items, timeoutOk)
  <2>1. /\ refused' = refused
        /\ call' = [stage |-> "validate", tool |-> tool, items |-> items,
                    checked |-> 0, created |-> {}, failed |-> {}]
    BY <1>5 DEF StartCall
  <2>2. items \in Seq(Item) /\ Len(items) \in 1 .. MaxFanOut
    <3>1. PICK n \in Nat : /\ items \in [1 .. n -> Item]
                           /\ tool = "run_agent" => n = 1
      BY <1>2 DEF Batch
    <3>2. items \in Seq(Item) /\ Len(items) = n
      BY <3>1
    <3> QED
      BY <1>2, <1>5, <3>1, <3>2 DEF WellFormed
  <2>3. call' \in Calling
    BY <2>1, <2>2 DEF Calling
  <2>4. /\ call'.checked \in 0 .. Len(call'.items) /\ call'.created = {} /\ call'.failed = {}
        /\ call'.checked < Len(call'.items) /\ call'.stage = "validate"
        /\ Len(call'.items) \in 1 .. MaxFanOut /\ call'.checked = 0
    BY <1>2, <2>1, <2>2
  <2>5. ToolTypeOK'
    BY <1>1, <1>2, <1>3, <2>1, <2>3, <2>4 DEF ToolTypeOK
  <2>6. CallIsChecked'
    BY <1>3, <2>4 DEF CallIsChecked
  <2> QED
    BY <2>5, <2>6 DEF TInv
<1> QED
  BY <1>4, <1>5

LEMMA ValidateIsTyped ==
  ASSUME TInv, Validate
  PROVE  TInv'
<1>1. /\ call # Idle /\ call.stage = "validate"
      /\ UNCHANGED <<existing, running, ncalls, runs, groups, broken>>
  BY DEF Validate, clusterVars
<1>2. /\ existing \subseteq Agent /\ running \subseteq Agent /\ runs \subseteq Run /\ groups \subseteq Group
      /\ ncalls \in 0 .. MaxDelegations /\ refused \subseteq 1 .. ncalls /\ broken \subseteq 1 .. ncalls
  BY DEF TInv, ToolTypeOK
<1>3. CASE call' = Idle /\ refused' = refused \cup {ncalls}
  BY <1>1, <1>2, <1>3, CallIsTyped DEF TInv, ToolTypeOK, CallIsChecked
<1>4. CASE /\ Accepts(call.items[call.checked + 1])
           /\ call' = [call EXCEPT !.checked = @ + 1,
                         !.stage = IF call.checked + 1 = Len(call.items)
                                   THEN "create" ELSE "validate"]
           /\ refused' = refused
  <2> DEFINE n == call.checked + 1
             stage == IF n = Len(call.items) THEN "create" ELSE "validate"
  <2>1. /\ call \in Calling /\ call.checked < Len(call.items)
        /\ Len(call.items) \in 1 .. MaxFanOut /\ Len(call.items) \in Nat /\ call.checked \in Nat
        /\ \A i \in 1 .. call.checked : call.items[i] \in Team
        /\ call.items[n] \in Team /\ stage \in {"validate", "create"}
        /\ call.created \subseteq DOMAIN call.items /\ call.failed \subseteq DOMAIN call.items
        /\ ncalls > 0
    BY <1>1, <1>4, CallIsTyped DEF TInv, CallIsChecked, Accepts
  <2>2. n \in 0 .. Len(call.items) /\ n \in Nat /\ 1 .. n = 1 .. call.checked \cup {n}
    BY <2>1
  <2>3. call' = [call EXCEPT !.checked = n, !.stage = stage]
    BY <1>4
  <2> HIDE DEF stage
  <2>4. /\ call' \in Calling /\ call'.checked = n /\ call'.items = call.items /\ call'.stage = stage
        /\ call'.created = call.created /\ call'.failed = call.failed
    BY <2>1, <2>2, <2>3 DEF Calling
  <2>5. ToolTypeOK'
    BY <1>1, <1>2, <1>4, <2>1, <2>2, <2>4 DEF ToolTypeOK
  <2>6. stage = "validate" => n < Len(call.items)
    BY <2>1, <2>2 DEF stage
  <2>7. stage # "validate" => n = Len(call.items)
    BY DEF stage
  <2>8. \A i \in 1 .. n : call.items[i] \in Team
    BY <2>1, <2>2
  <2>9. CallIsChecked'
    <3> HIDE DEF n
    <3> QED
      BY <1>1, <2>1, <2>4, <2>6, <2>7, <2>8 DEF CallIsChecked
  <2> QED
    BY <2>5, <2>9 DEF TInv
<1> QED
  BY <1>3, <1>4 DEF Validate

LEMMA CreateIsTyped ==
  ASSUME TInv, NEW i \in 1 .. MaxFanOut, Create(i)
  PROVE  TInv'
<1>1. /\ call # Idle /\ call.stage = "create" /\ i \in DOMAIN call.items
      /\ UNCHANGED <<existing, running, ncalls, groups, refused, broken>>
      /\ runs' \subseteq runs \cup {Child(i)}
      /\ \/ call' = [call EXCEPT !.created = @ \cup {i}]
         \/ call' = [call EXCEPT !.failed = @ \cup {i}]
  BY DEF Create, clusterVars
<1>2. /\ existing \subseteq Agent /\ running \subseteq Agent /\ runs \subseteq Run /\ groups \subseteq Group
      /\ ncalls \in 0 .. MaxDelegations /\ refused \subseteq 1 .. ncalls /\ broken \subseteq 1 .. ncalls
  BY DEF TInv, ToolTypeOK
<1>3. /\ call \in Calling /\ call.checked = Len(call.items) /\ call.checked \in 0 .. Len(call.items)
      /\ call.created \subseteq DOMAIN call.items /\ call.failed \subseteq DOMAIN call.items
      /\ Len(call.items) \in 1 .. MaxFanOut /\ ncalls \in 1 .. MaxDelegations
      /\ \A j \in DOMAIN call.items : call.items[j] \in Team
      /\ \A j \in 1 .. call.checked : call.items[j] \in Team
      /\ ncalls > 0
  BY <1>1, CallIsTyped DEF TInv, CallIsChecked
<1>4. Child(i) \in Run
  BY <1>1, <1>3, AgentAssumption DEF Child, Run
<1>5. i \in Nat
  BY AgentAssumption
<1>6. /\ call' \in Calling /\ call'.items = call.items /\ call'.checked = call.checked
      /\ call'.stage = "create"
      /\ call'.created \subseteq call.created \cup {i} /\ call'.failed \subseteq call.failed \cup {i}
  <2>1. CASE call' = [call EXCEPT !.created = @ \cup {i}]
    BY <1>1, <1>3, <1>5, <2>1 DEF Calling
  <2>2. CASE call' = [call EXCEPT !.failed = @ \cup {i}]
    BY <1>1, <1>3, <1>5, <2>2 DEF Calling
  <2> QED
    BY <1>1, <2>1, <2>2
<1>7. ToolTypeOK'
  BY <1>1, <1>2, <1>3, <1>4, <1>6 DEF ToolTypeOK
<1>8. CallIsChecked'
  BY <1>1, <1>3, <1>6 DEF CallIsChecked
<1> QED
  BY <1>7, <1>8 DEF TInv

LEMMA CallEndsTyped ==
  ASSUME TInv, ReportCreateErrors \/ RegisterGroup
  PROVE  TInv'
<1>1. /\ call # Idle /\ call' = Idle /\ call.stage = "create"
      /\ UNCHANGED <<existing, running, ncalls, runs, refused>>
  BY DEF ReportCreateErrors, RegisterGroup, Collected, clusterVars
<1>2. /\ existing \subseteq Agent /\ running \subseteq Agent /\ runs \subseteq Run /\ groups \subseteq Group
      /\ ncalls \in 0 .. MaxDelegations /\ refused \subseteq 1 .. ncalls /\ broken \subseteq 1 .. ncalls
  BY DEF TInv, ToolTypeOK
<1>3. /\ ncalls \in 1 .. ncalls /\ ncalls \in 1 .. MaxDelegations
      /\ DOMAIN call.items = 1 .. call.checked /\ call.created \subseteq DOMAIN call.items
      /\ \A j \in 1 .. call.checked : call.items[j] \in Team
      /\ Len(call.items) \in 1 .. MaxFanOut /\ call.checked = Len(call.items)
  BY <1>1, CallIsTyped DEF TInv, CallIsChecked
<1>4. ASSUME NEW j \in call.created PROVE Child(j) \in Run
  BY <1>3, AgentAssumption DEF Child, Run
<1>5. [call |-> ncalls, single |-> call.tool = "run_agent",
       runs |-> {Child(j) : j \in call.created}] \in Group
  BY <1>3, <1>4 DEF Group
<1>6. groups' \subseteq Group /\ broken' \subseteq 1 .. ncalls
  BY <1>2, <1>3, <1>5 DEF ReportCreateErrors, RegisterGroup
<1> QED
  BY <1>1, <1>2, <1>6 DEF TInv, ToolTypeOK, CallIsChecked

LEMMA TInvPreserved ==
  ASSUME TInv, [Next]_vars
  PROVE  TInv'
<1>1. CASE ClusterChange
  BY <1>1, AgentAssumption DEF ClusterChange, TInv, ToolTypeOK, CallIsChecked
<1>2. CASE UNCHANGED toolVars
  BY <1>2 DEF toolVars, clusterVars, TInv, ToolTypeOK, CallIsChecked
<1> QED
  BY <1>1, <1>2, OnlyToolsDelegate, StartCallIsTyped, ValidateIsTyped, CreateIsTyped,
     CallEndsTyped, Zenon

-----------------------------------------------------------------------------
(* The outcome.                                                            *)

LEMMA HistoryIsFinite ==
  ASSUME GInv, NEW c \in 0 .. made
  PROVE  /\ History(c) \subseteq 0 .. made /\ IsFiniteSet(History(c)) /\ c \in History(c)
         /\ IsFiniteSet(0 .. made) /\ Cardinality(0 .. made) = made + 1
<1>1. c \in Commit /\ c \in Nat /\ made \in Nat /\ Descends(parent)
  BY CommitsAreKnown
<1>2. c \in History(c) /\ History(c) \subseteq 0 .. c
  BY <1>1, HistoryIsEarlier DEF History
<1>3. History(c) \subseteq 0 .. made
  BY <1>1, <1>2
<1>4. IsFiniteSet(0 .. made) /\ Cardinality(0 .. made) = made + 1
  BY <1>1, FS_Interval
<1> QED
  BY <1>2, <1>3, <1>4, FS_Subset

\* Fewer commits are counted than were ever made: either origin/<base> is in
\* the history of HEAD and not counted itself, or it is a commit that is not.
LEMMA CountIsBounded ==
  ASSUME GInv, NEW c \in 0 .. made, NEW b \in 0 .. made,
         NEW counted, counted = IF b \in History(c) THEN History(c) \ History(b) ELSE History(c)
  PROVE  IsFiniteSet(counted) /\ Cardinality(counted) \in 0 .. made
<1>1. /\ b \in History(b) /\ History(c) \subseteq 0 .. made /\ made \in Nat
      /\ IsFiniteSet(0 .. made) /\ Cardinality(0 .. made) = made + 1
  BY HistoryIsFinite, CommitsAreKnown
<1>2. counted \subseteq (0 .. made) \ {b}
  BY <1>1
<1>3. IsFiniteSet((0 .. made) \ {b}) /\ Cardinality((0 .. made) \ {b}) = made
  <2> PICK all : all = 0 .. made
    OBVIOUS
  <2>1. IsFiniteSet(all) /\ b \in all /\ Cardinality(all) = made + 1
    BY <1>1
  <2>2. IsFiniteSet(all \ {b}) /\ Cardinality(all \ {b}) = Cardinality(all) - 1
    BY <2>1, FS_RemoveElement
  <2> QED
    BY <1>1, <2>1, <2>2
<1>4. IsFiniteSet(counted) /\ Cardinality(counted) <= made
  BY <1>2, <1>3, FS_Subset
<1> QED
  BY <1>1, <1>4, FS_CardinalityType

\* The commits of the run that are not on origin/<base> are all counted.
LEMMA CommitsAheadCovers ==
  ASSUME GInv
  PROVE  /\ CommitsAhead \in 0 .. made
         /\ AtHead # {} => CommitsAhead > 0 /\ CommitsAhead >= Cardinality(AtHead)
<1>0. /\ made \in Nat /\ 0 \in 0 .. made
      /\ HeadCommit # NoCommit => HeadCommit \in 0 .. made
      /\ track # NoCommit => track \in 0 .. made
      /\ ready => track # NoCommit
      /\ own # {} => ready
  BY CommitsAreKnown DEF GInv, RefsExist, HeadCommit
<1>1. CASE ~ready \/ HeadCommit = NoCommit
  <2>1. CommitsAhead = 0
    BY <1>1 DEF CommitsAhead
  <2>2. AtHead = {}
    BY <1>0, <1>1, NoHistory DEF AtHead, Unmerged, History
  <2> QED
    BY <1>0, <2>1, <2>2
<1>2. CASE ready /\ HeadCommit # NoCommit
  <2> DEFINE counted == IF track \in History(HeadCommit)
                        THEN History(HeadCommit) \ History(track) ELSE History(HeadCommit)
  <2>1. CommitsAhead = Cardinality(counted)
    BY <1>0, <1>2 DEF CommitsAhead
  <2>2. HeadCommit \in 0 .. made /\ track \in 0 .. made
    BY <1>0, <1>2
  <2>3. IsFiniteSet(counted) /\ Cardinality(counted) \in 0 .. made
    BY <2>2, CountIsBounded
  <2>4. AtHead \subseteq counted
    BY DEF AtHead, Unmerged
  <2> HIDE DEF counted
  <2>5. IsFiniteSet(AtHead) /\ Cardinality(AtHead) <= Cardinality(counted)
    BY <2>3, <2>4, FS_Subset
  <2>6. AtHead # {} => Cardinality(AtHead) \in Nat /\ Cardinality(AtHead) # 0
    BY <2>5, FS_CardinalityType, FS_EmptySet
  <2> QED
    BY <1>0, <2>1, <2>3, <2>5, <2>6
<1> QED
  BY <1>1, <1>2

\* What autoFinalizeOutcome infers tells of the commits and the pull request.
LEMMA InferredTells ==
  ASSUME GInv, OutcomeIsKept, stepPR \in {"pr", "mr", none}, attempt \in Nat
  PROVE  /\ Inferred.intent \in Intent /\ Inferred.artifacts \subseteq Artifact
         /\ Merged(Inferred).intent = Inferred.intent
         /\ Inferred.artifacts # {} => Merged(Inferred).artifacts = Inferred.artifacts
         /\ AtHead # {} =>
              /\ Inferred.intent = "change"
              /\ \E a \in Inferred.artifacts : a.kind = "commit" /\ a.count >= Cardinality(AtHead)
         /\ opened => \/ attempt > 0 \/ unread
                      \/ \E a \in Inferred.artifacts : a.kind \in {"pr", "mr"}
<1> DEFINE pr == IF stepPR = none THEN {} ELSE {[kind |-> stepPR, count |-> 0]}
           artifacts == pr \cup CommitArtifact(CommitsAhead)
<1>1. /\ Inferred.artifacts = artifacts
      /\ Inferred.intent = IF artifacts # {} THEN "change" ELSE IF ready THEN "discovery" ELSE "noop"
  BY DEF Inferred
<1>2. CommitsAhead \in 0 .. made /\ 0 .. made \subseteq Commit /\ 0 \in Commit
  BY CommitsAheadCovers, CommitsAreKnown
<1>3. artifacts \subseteq Artifact
  <2>1. pr \subseteq Artifact
    BY <1>2 DEF Artifact, Kind
  <2>2. CommitArtifact(CommitsAhead) \subseteq Artifact
    BY <1>2 DEF CommitArtifact, Artifact, Kind
  <2> QED
    BY <2>1, <2>2
<1>4. Inferred.intent \in Intent
  BY <1>1 DEF Intent
<1>5. Merged(Inferred).intent = Inferred.intent
  BY <1>4, TaskAssumption DEF Merged
<1>6. Inferred.artifacts # {} => Merged(Inferred).artifacts = Inferred.artifacts
  BY DEF Merged
<1>7. ASSUME AtHead # {}
      PROVE  /\ Inferred.intent = "change"
             /\ \E a \in Inferred.artifacts : a.kind = "commit" /\ a.count >= Cardinality(AtHead)
  <2>1. CommitsAhead > 0 /\ CommitsAhead >= Cardinality(AtHead)
    BY <1>7, CommitsAheadCovers
  <2>2. [kind |-> "commit", count |-> CommitsAhead] \in artifacts
    BY <2>1 DEF CommitArtifact
  <2> HIDE DEF artifacts
  <2>3. \E a \in artifacts : a.kind = "commit" /\ a.count >= Cardinality(AtHead)
    BY <2>1, <2>2
  <2> QED
    BY <1>1, <2>2, <2>3
<1>8. ASSUME opened, attempt = 0, ~unread
      PROVE  \E a \in Inferred.artifacts : a.kind \in {"pr", "mr"}
  <2>1. stepPR \in {"pr", "mr"} /\ stepPR # none
    BY <1>8, TaskAssumption DEF OutcomeIsKept
  <2>2. [kind |-> stepPR, count |-> 0] \in artifacts
    BY <2>1
  <2> HIDE DEF artifacts
  <2>3. \E a \in artifacts : a.kind \in {"pr", "mr"}
    BY <2>1, <2>2
  <2> QED
    BY <1>1, <2>3
<1> QED
  BY <1>1, <1>3, <1>4, <1>5, <1>6, <1>7, <1>8

\* Types of the task, in three parts.
ProcessOK ==
  /\ conf \in Confs
  /\ servers \subseteq Server /\ conns \subseteq Server
  /\ phase \in {"setup", "memory", "bundle", "generate", "outcome", "end", "write", "done"}
  /\ attempt \in 0 .. Fallbacks
  /\ calls \in 0 .. MaxCalls
  /\ session \in {"none", "open", "ended"}
  /\ result \in {"ok", "failed", none}
FlagsOK == {stopped, opened, unread, acked, engram, memFailed} \subseteq BOOLEAN
RecordOK ==
  /\ stepPR \in {"pr", "mr", none}
  /\ outcome.intent \in Intent \cup {none} /\ outcome.artifacts \subseteq Artifact

LEMMA TaskTypes == TaskTypeOK <=> ProcessOK /\ FlagsOK /\ RecordOK
BY DEF TaskTypeOK, ProcessOK, FlagsOK, RecordOK

KInv == GInv /\ WInv /\ TaskTypeOK /\ OutcomeIsKept

LEMMA ProcessTyped ==
  ASSUME ProcessOK, [Next]_vars
  PROVE  ProcessOK'
<1> USE TaskAssumption DEF ProcessOK
<1>1. CASE SetupFails \/ BundleFails \/ GenerateFails \/ writeTaskResult
  BY <1>1 DEF SetupFails, BundleFails, GenerateFails, writeTaskResult, Fail, Exit, agentVars, memoryVars
<1>2. CASE SetupDone \/ GenerateSucceeds \/ autoFinalizeOutcome
  BY <1>2 DEF SetupDone, GenerateSucceeds, autoFinalizeOutcome, envVars, agentVars, memoryVars
<1>3. CASE MemoryInit \/ EndSession
  BY <1>3 DEF MemoryInit, EndSession, envVars, agentVars, memoryVars
<1>4. CASE BundleDone
  <2>1. conf.mcp \subseteq Server
    BY DEF Conf
  <2> QED
    BY <1>4, <2>1 DEF BundleDone, loadOCITools, agentVars, memoryVars
<1>5. CASE GenerateFallsBack
  <2>1. attempt' \in 0 .. Fallbacks /\ calls' \in 0 .. MaxCalls
    BY <1>5 DEF GenerateFallsBack
  <2>2. UNCHANGED <<conf, servers, conns, phase, session, result>>
    BY <1>5 DEF GenerateFallsBack, envVars, memoryVars
  <2> QED
    BY <2>1, <2>2
<1>6. CASE \/ CallGit \/ CallDelegate \/ CallOpenPR \/ CallMemSave
           \/ \E f \in Finishes : CallRunFinish(f[1], f[2])
  <2>1. Calls
    BY <1>6, Zenon DEF CallGit, CallDelegate, CallOpenPR, CallMemSave, CallRunFinish
  <2>2. calls' \in 0 .. MaxCalls
    BY <2>1 DEF Calls
  <2>3. UNCHANGED <<conf, servers, conns, phase, attempt, session, result>>
    BY <2>1 DEF Calls, envVars, memoryVars
  <2> QED
    BY <2>2, <2>3
<1>7. CASE Delegating \/ Others \/ Cluster
  BY <1>7 DEF Delegating, Others, Cluster, taskVars
<1>8. CASE UNCHANGED vars
  BY <1>8 DEF vars, taskVars
<1> QED
  BY <1>1, <1>2, <1>3, <1>4, <1>5, <1>6, <1>7, <1>8, Zenon DEF Next, Runtime

LEMMA FlagsTyped ==
  ASSUME FlagsOK, [Next]_vars
  PROVE  FlagsOK'
<1> USE DEF FlagsOK
<1>1. CASE SetupFails \/ BundleFails \/ GenerateFails \/ writeTaskResult
  BY <1>1 DEF SetupFails, BundleFails, GenerateFails, writeTaskResult, agentVars, memoryVars, recordVars
<1>2. CASE SetupDone \/ GenerateSucceeds \/ BundleDone
  BY <1>2 DEF SetupDone, GenerateSucceeds, BundleDone, agentVars, memoryVars, recordVars
<1>3. CASE MemoryInit
  BY <1>3 DEF MemoryInit, agentVars, memoryVars, recordVars
<1>4. CASE EndSession
  BY <1>4 DEF EndSession, agentVars, memoryVars, recordVars
<1>5. CASE GenerateFallsBack
  BY <1>5 DEF GenerateFallsBack, memoryVars, recordVars
<1>6. CASE autoFinalizeOutcome
  BY <1>6 DEF autoFinalizeOutcome, agentVars, memoryVars
<1>7. CASE CallGit \/ CallDelegate
  BY <1>7 DEF CallGit, CallDelegate, Calls, memoryVars
<1>8. CASE CallOpenPR
  BY <1>8 DEF CallOpenPR, Calls, memoryVars
<1>9. CASE CallMemSave
  BY <1>9 DEF CallMemSave, Calls, memoryVars
<1>10. ASSUME NEW f \in Finishes, CallRunFinish(f[1], f[2]) PROVE FlagsOK'
  BY <1>10 DEF CallRunFinish, Calls, memoryVars
<1>11. CASE Delegating \/ Others \/ Cluster
  BY <1>11 DEF Delegating, Others, Cluster, taskVars
<1>12. CASE UNCHANGED vars
  BY <1>12 DEF vars, taskVars
<1> QED
  BY <1>1, <1>2, <1>3, <1>4, <1>5, <1>6, <1>7, <1>8, <1>9, <1>10, <1>11, <1>12, Zenon
  DEF Next, Runtime

LEMMA RecordTyped ==
  ASSUME GInv, OutcomeIsKept, attempt \in Nat, RecordOK, [Next]_vars
  PROVE  RecordOK'
<1> USE DEF RecordOK
<1>0. ASSUME NEW o, o.intent \in Intent, o.artifacts \subseteq Artifact, NEW ok \in BOOLEAN, Patch(o, ok)
      PROVE  outcome'.intent \in Intent \cup {none} /\ outcome'.artifacts \subseteq Artifact
  <2>1. Merged(o).intent \in Intent \cup {none} /\ Merged(o).artifacts \subseteq Artifact
    BY <1>0 DEF Merged
  <2>2. outcome' = outcome \/ outcome' = Merged(o)
    BY <1>0 DEF Patch
  <2> QED
    BY <2>1, <2>2
<1>1. CASE SetupFails \/ BundleFails \/ GenerateFails \/ writeTaskResult
  BY <1>1 DEF SetupFails, BundleFails, GenerateFails, writeTaskResult, agentVars, recordVars
<1>2. CASE SetupDone \/ GenerateSucceeds \/ BundleDone
  BY <1>2 DEF SetupDone, GenerateSucceeds, BundleDone, agentVars, recordVars
<1>3. CASE MemoryInit \/ EndSession
  BY <1>3 DEF MemoryInit, EndSession, agentVars, recordVars
<1>4. CASE GenerateFallsBack
  BY <1>4 DEF GenerateFallsBack, recordVars
<1>5. CASE autoFinalizeOutcome
  <2>1. stepPR' = stepPR
    BY <1>5 DEF autoFinalizeOutcome, agentVars
  <2>2. outcome' = outcome \/ \E ok \in BOOLEAN : Patch(Inferred, ok)
    BY <1>5 DEF autoFinalizeOutcome
  <2>3. Inferred.intent \in Intent /\ Inferred.artifacts \subseteq Artifact
    BY InferredTells
  <2> QED
    BY <1>0, <2>1, <2>2, <2>3
<1>6. CASE CallGit \/ CallDelegate \/ CallMemSave
  BY <1>6 DEF CallGit, CallDelegate, CallMemSave
<1>7. CASE CallOpenPR
  BY <1>7 DEF CallOpenPR
<1>8. ASSUME NEW intent, NEW kinds, CallRunFinish(intent, kinds) PROVE RecordOK'
  <2> DEFINE o == [intent |-> intent, artifacts |-> {[kind |-> k, count |-> 0] : k \in kinds}]
  <2>1. CASE conf.named /\ ValidFinish(intent, kinds)
    <3>1. PICK ok \in BOOLEAN : Patch(o, ok)
      BY <1>8, <2>1 DEF CallRunFinish
    <3>2. intent \in Intent /\ o.intent = intent /\ o.artifacts \subseteq Artifact
      BY <2>1, CommitsAreKnown DEF ValidFinish, Artifact
    <3>3. stepPR' = stepPR
      BY <1>8 DEF CallRunFinish
    <3> HIDE DEF o
    <3>4. outcome'.intent \in Intent \cup {none} /\ outcome'.artifacts \subseteq Artifact
      BY <1>0, <3>1, <3>2
    <3> QED
      BY <3>1, <3>2, <3>3, <3>4
  <2>2. CASE ~ (conf.named /\ ValidFinish(intent, kinds))
    BY <1>8, <2>2 DEF CallRunFinish
  <2> QED
    BY <2>1, <2>2
<1>9. CASE Delegating \/ Others \/ Cluster
  BY <1>9 DEF Delegating, Others, Cluster, taskVars
<1>10. CASE UNCHANGED vars
  BY <1>10 DEF vars, taskVars
<1> QED
  BY <1>1, <1>2, <1>3, <1>4, <1>5, <1>6, <1>7, <1>8, <1>9, <1>10, Zenon DEF Next, Runtime

\* A step that leaves the workspace, the steps of the agent and the record
\* alone keeps what the record tells.
LEMMA RecordStands ==
  ASSUME OutcomeIsKept, UNCHANGED <<gitVars, opened, unread, attempt, stepPR, recordVars>>,
         acked => phase' \in {"end", "write", "done"}
  PROVE  OutcomeIsKept'
<1>1. UNCHANGED <<own, parent, local, head, track, switched, outcome, acked>>
  BY DEF gitVars, refVars, recordVars
<1>2. AtHead' = AtHead /\ Unmerged' = Unmerged
  BY <1>1 DEF AtHead, Unmerged, History, HeadCommit
<1>3. WorkIsTold' = WorkIsTold
  BY <1>1, <1>2 DEF WorkIsTold
<1>4. PRIsTold' = PRIsTold
  BY <1>1 DEF PRIsTold
<1> QED
  BY <1>1, <1>3, <1>4 DEF OutcomeIsKept

\* Before the outcome is on record a step has to keep only what the steps of
\* the agent tell of the pull request.
LEMMA NothingOnRecordYet ==
  ASSUME OutcomeIsKept, ~acked', opened' /\ attempt' = 0 => unread' \/ stepPR' \in {"pr", "mr"}
  PROVE  OutcomeIsKept'
BY DEF OutcomeIsKept

LEMMA OutcomeKept ==
  ASSUME KInv, [Next]_vars
  PROVE  OutcomeIsKept'
<1>0. /\ OutcomeIsKept /\ GInv /\ WInv /\ stepPR \in {"pr", "mr", none} /\ attempt \in Nat
      /\ acked => phase \in {"end", "write", "done"}
  BY DEF KInv, TaskTypeOK, OutcomeIsKept
<1>1. CASE SetupFails \/ BundleFails \/ GenerateFails \/ writeTaskResult
  BY <1>0, <1>1, RecordStands
  DEF SetupFails, BundleFails, GenerateFails, writeTaskResult, Fail, Exit, worldVars, agentVars
<1>2. CASE MemoryInit \/ BundleDone \/ GenerateSucceeds \/ EndSession
  BY <1>0, <1>2, RecordStands
  DEF MemoryInit, BundleDone, GenerateSucceeds, EndSession, worldVars, agentVars
<1>3. CASE Delegating \/ Cluster
  BY <1>0, <1>3, RecordStands DEF Delegating, Cluster, taskVars, recordVars
<1>4. CASE SetupDone \/ Others
  <2>1. ~acked /\ UNCHANGED <<acked, opened, unread, attempt, stepPR>>
    BY <1>0, <1>4 DEF SetupDone, Others, taskVars, agentVars, recordVars
  <2> QED
    BY <1>0, <2>1, NothingOnRecordYet DEF OutcomeIsKept
<1>5. CASE \/ CallGit \/ CallDelegate \/ CallMemSave
           \/ \E f \in Finishes : CallRunFinish(f[1], f[2])
  <2>1. Calls
    BY <1>5, Zenon DEF CallGit, CallDelegate, CallMemSave, CallRunFinish
  <2>2. UNCHANGED <<opened, unread, stepPR>>
    BY <1>5 DEF CallGit, CallDelegate, CallMemSave, CallRunFinish
  <2>3. ~acked /\ UNCHANGED <<acked, attempt>>
    BY <1>0, <2>1 DEF Calls
  <2> QED
    BY <1>0, <2>2, <2>3, NothingOnRecordYet DEF OutcomeIsKept
<1>6. CASE CallOpenPR
  <2>1. ~acked'
    BY <1>0, <1>6 DEF CallOpenPR, Calls
  <2>2. unread' \/ stepPR' \in {"pr", "mr"}
    BY <1>6 DEF CallOpenPR
  <2> QED
    BY <1>0, <2>1, <2>2, NothingOnRecordYet
<1>7. CASE GenerateFallsBack
  <2>1. ~acked'
    BY <1>0, <1>7 DEF GenerateFallsBack, recordVars
  <2>2. attempt' # 0
    BY <1>0, <1>7 DEF GenerateFallsBack
  <2> QED
    BY <1>0, <2>1, <2>2, NothingOnRecordYet
<1>8. CASE autoFinalizeOutcome
  <2>1. /\ ~acked /\ phase' = "end"
        /\ UNCHANGED <<own, parent, local, head, track, switched, opened, unread, attempt, stepPR>>
    BY <1>0, <1>8 DEF autoFinalizeOutcome, worldVars, gitVars, refVars, agentVars
  <2>2. CASE ~acked'
    BY <1>0, <2>1, <2>2, NothingOnRecordYet DEF OutcomeIsKept
  <2>3. CASE acked'
    <3>1. outcome' = Merged(Inferred)
      BY <1>8, <2>1, <2>3 DEF autoFinalizeOutcome, Patch
    <3>2. AtHead' = AtHead /\ Unmerged' = Unmerged
      BY <2>1 DEF AtHead, Unmerged, History, HeadCommit
    <3>3. WorkIsTold'
      <4>1. AtHead # {} =>
              /\ outcome'.intent = "change"
              /\ \E a \in outcome'.artifacts : a.kind = "commit" /\ a.count >= Cardinality(AtHead)
        BY <1>0, <3>1, InferredTells
      <4>2. Unmerged \subseteq AtHead \/ switched
        BY <1>0 DEF WInv, OwnWorkAtHead, AtHead, Unmerged
      <4> QED
        BY <2>1, <3>2, <4>1, <4>2 DEF WorkIsTold
    <3>4. PRIsTold'
      <4>1. opened => \/ attempt > 0 \/ unread
                      \/ \E a \in outcome'.artifacts : a.kind \in {"pr", "mr"}
        BY <1>0, <3>1, InferredTells
      <4> QED
        BY <2>1, <4>1 DEF PRIsTold
    <3> QED
      BY <1>0, <2>1, <3>3, <3>4 DEF OutcomeIsKept
  <2> QED
    BY <2>2, <2>3
<1>9. CASE UNCHANGED vars
  BY <1>0, <1>9, RecordStands DEF vars, taskVars, recordVars
<1> QED
  BY <1>1, <1>2, <1>3, <1>4, <1>5, <1>6, <1>7, <1>8, <1>9, Zenon DEF Next, Runtime

LEMMA KInvPreserved ==
  ASSUME KInv, [Next]_vars
  PROVE  KInv'
<1>1. GInv /\ WInv /\ OutcomeIsKept /\ ProcessOK /\ FlagsOK /\ RecordOK /\ attempt \in Nat
  BY TaskTypes DEF KInv, TaskTypeOK
<1>2. GInv' /\ WInv'
  BY <1>1, OnlyGitSteps, GInvPreserved, WInvPreserved
<1>3. ProcessOK' /\ FlagsOK' /\ RecordOK'
  BY <1>1, ProcessTyped, FlagsTyped, RecordTyped
<1>4. TaskTypeOK'
  BY <1>3 DEF TaskTypeOK, ProcessOK, FlagsOK, RecordOK
<1> QED
  BY <1>2, <1>4, OutcomeKept DEF KInv

LEMMA TaskInitially ==
  ASSUME Init
  PROVE  KInv /\ TInv
<1>1. GInv /\ WInv
  BY GInvInitially, WInvInitially
<1>2. TaskTypeOK
  <2>1. ProcessOK
    BY TaskAssumption DEF Init, ProcessOK
  <2>2. FlagsOK
    BY DEF Init, FlagsOK
  <2>3. RecordOK
    BY DEF Init, RecordOK
  <2> QED
    BY <2>1, <2>2, <2>3, TaskTypes
<1>3. OutcomeIsKept
  BY DEF Init, OutcomeIsKept
<1>4. TInv
  BY AgentAssumption DEF Init, ToolInit, TInv, ToolTypeOK, CallIsChecked
<1> QED
  BY <1>1, <1>2, <1>3, <1>4 DEF KInv

\* The state of a run in task mode stays what it is declared to be: the commits
\* and references of the clone, the call that delegates and its runs, and what
\* runTask keeps (main.go:1955-2170, gitops.go:100-725, delegation.go:98-211).
THEOREM TypeCorrect == Spec => []TypeOK
<1>1. Init => KInv /\ TInv
  BY TaskInitially
<1>2. KInv /\ TInv /\ [Next]_vars => (KInv /\ TInv)'
  BY KInvPreserved, TInvPreserved
<1>3. KInv /\ TInv => TypeOK
  BY DEF KInv, GInv, TInv, TypeOK
<1> QED
  BY <1>1, <1>2, <1>3, PTL DEF Spec

\* The outcome that autoFinalizeOutcome leaves on the AgentRun tells of the
\* commits of a successful run that are on the branch it ends on and not on the
\* base, with at least their number, and these are all it made, unless git_branch
\* has switched; and it tells of the pull request it opened (outcome.go:101-157,
\* gitops.go:185-227).  However many commits anyone makes, whatever the agent
\* calls and however many models are tried.
THEOREM OutcomeTellsAll == Spec => []OutcomeIsComplete
<1>1. Init => KInv
  BY TaskInitially
<1>2. KInv /\ [Next]_vars => KInv'
  BY KInvPreserved
<1>3. KInv => OutcomeIsComplete
  BY DEF KInv, OutcomeIsKept, OutcomeIsComplete, OwnWorkReported, PRLostOnlyByFallback
<1> QED
  BY <1>1, <1>2, <1>3, PTL DEF Spec
=============================================================================
