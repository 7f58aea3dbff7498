------------------------------- MODULE TaskRun --------------------------------
(***************************************************************************)
(* One run of the runtime in task mode (runTask in src/main.go): set up,   *)
(* one agent loop with its fallback models, the outcome recorded on the    *)
(* AgentRun (src/outcome.go, src/k8s.go), the memory session opened and    *)
(* closed around it (src/memory.go), and the result of the process.  The   *)
(* git tools are those of GitWorkspace, the tools it delegates with those  *)
(* of AgentTools.                                                          *)
(*                                                                         *)
(* The model decides what the agent calls and in which order; a request    *)
(* may fail, or succeed although its reply is lost.                        *)
(***************************************************************************)
EXTENDS GitWorkspace, AgentTools

CONSTANTS
  Confs,      \* environments: which of git, cluster, memory and team are set
  Finishes,   \* what the agent may give run_finish: an intent and kinds
  Server,     \* MCP servers among the tools of the configuration
  Fallbacks,  \* number of models in FALLBACK_MODELS
  MaxCalls,   \* bound on the tool calls of one attempt
  none        \* an absent intent, pull request, result or declaration

Conf == [git : BOOLEAN, named : BOOLEAN, memory : BOOLEAN, team : BOOLEAN,
         mcp : SUBSET Server]

Intent == {"change", "plan", "incident", "discovery", "noop"}
Kind == {"pr", "mr", "issue", "memory", "commit"}
Artifact == [kind : Kind, count : Commit]

ASSUME TaskAssumption ==
  /\ Confs \subseteq Conf
  /\ Fallbacks \in Nat /\ MaxCalls \in Nat
  /\ none \notin Intent \cup {"pr", "mr"}

VARIABLES
  conf,      \* the environment; "named" is a run name and a cluster
  servers,   \* MCP servers the process has started and not stopped
  conns,     \* the connections it holds (bundle.mcpConns)
  phase,     \* where runTask is
  attempt,   \* models tried before the current one; 0 is the primary model
  calls,     \* tool calls of the current attempt
  stopped,   \* a tool asked for the turn to end (StopTurn)
  stepPR,    \* first readable pull request URL in the steps of this attempt
  opened,    \* a pull request was opened on the server
  unread,    \* one was opened and its answer held no URL the code finds
  outcome,   \* status.outcome of the AgentRun
  acked,     \* the automatic outcome was recorded and acknowledged
  engram,    \* the client's memory is on (engram # nil)
  session,   \* the memory session, as the memory service has it
  memFailed, \* a request that opens or ends the session failed
  result     \* the result written for the operator

taskVars == <<conf, servers, conns, phase, attempt, calls, stopped, stepPR, opened, unread,
              outcome, acked, engram, session, memFailed, result>>
vars == <<gitVars, toolVars, taskVars>>
worldVars == <<gitVars, toolVars>>

TaskTypeOK ==
  /\ conf \in Confs
  /\ servers \subseteq Server /\ conns \subseteq Server
  /\ phase \in {"setup", "memory", "bundle", "generate", "outcome", "end",
                "write", "done"}
  /\ attempt \in 0 .. Fallbacks
  /\ calls \in 0 .. MaxCalls
  /\ {stopped, opened, unread, acked, engram, memFailed} \subseteq BOOLEAN
  /\ stepPR \in {"pr", "mr", none}
  /\ outcome.intent \in Intent \cup {none} /\ outcome.artifacts \subseteq Artifact
  /\ session \in {"none", "open", "ended"}
  /\ result \in {"ok", "failed", none}

TypeOK == GitTypeOK /\ ToolTypeOK /\ TaskTypeOK

Init ==
  /\ GitInit /\ ToolInit
  /\ conf \in Confs
  /\ conf.git \/ asked = NoBranch
  /\ servers = {} /\ conns = {}
  /\ phase = "setup" /\ attempt = 0 /\ calls = 0
  /\ stopped = FALSE /\ stepPR = none /\ opened = FALSE /\ unread = FALSE
  /\ outcome = [intent |-> none, artifacts |-> {}]
  /\ acked = FALSE
  /\ engram = FALSE /\ session = "none" /\ memFailed = FALSE
  /\ result = none

envVars == <<conf, servers, conns>>
agentVars == <<attempt, calls, stopped, stepPR, opened, unread>>
recordVars == <<outcome, acked>>
memoryVars == <<engram, session, memFailed>>

-----------------------------------------------------------------------------
(* Before the agent starts.  The process ends with a result; what was      *)
(* deferred by then, shutdownMCPConnections, runs on the way out.          *)

Exit(r) ==
  /\ result' = r
  /\ phase' = "done"
  /\ servers' = servers \ conns
  /\ UNCHANGED <<conf, conns>>

Fail == Exit("failed")

\* Mutant: the process returns its error without writing the result
SetupFailsSilently ==
  /\ phase = "setup"
  /\ phase' = "done"
  /\ UNCHANGED <<worldVars, envVars, agentVars, recordVars, memoryVars, result>>

\* No prompt, an invalid configuration or a workspace that cannot be set up.
SetupFails ==
  /\ phase = "setup"
  /\ Fail
  /\ UNCHANGED <<worldVars, agentVars, recordVars, memoryVars>>

SetupDone ==
  /\ phase = "setup"
  /\ (IF conf.git THEN setupGitWorkspace ELSE UNCHANGED gitVars)
  /\ UNCHANGED toolVars
  /\ phase' = "memory"
  /\ UNCHANGED <<envVars, agentVars, recordVars, memoryVars, result>>

\* EngramClient.Init: when the request fails, or only its answer is lost, the
\* task goes on without memory.
MemoryInit ==
  /\ phase = "memory"
  /\ phase' = "bundle"
  /\ \/ /\ ~conf.memory
        /\ UNCHANGED memoryVars
     \/ /\ conf.memory
        /\ session' \in {"none", "open"}
        /\ engram' \in {FALSE, session' = "open"}
        /\ memFailed' = ~engram'
  /\ UNCHANGED <<worldVars, envVars, agentVars, recordVars, result>>

\* buildAgentBundle fails only when the primary model cannot be resolved, before
\* it starts any server; the memory session is open by then.
BundleFails ==
  /\ phase = "bundle"
  /\ Fail
  /\ UNCHANGED <<worldVars, agentVars, recordVars, memoryVars>>

\* Mutant: only the connections of servers with tools are kept
loadUsableTools ==
  /\ servers' \in SUBSET conf.mcp
  /\ conns' \in SUBSET servers'

\* loadOCITools starts the servers one by one and goes on past those it cannot
\* start.  One whose tools cannot be listed keeps running without tools.
loadOCITools ==
  /\ servers' \in SUBSET conf.mcp
  /\ conns' = servers'

BundleDone ==
  /\ phase = "bundle"
  /\ loadOCITools
  /\ phase' = "generate"
  /\ UNCHANGED <<worldVars, conf, agentVars, recordVars, memoryVars, result>>

-----------------------------------------------------------------------------
(* The agent loop.  Only the agent of the primary model has tools:         *)
(* buildFallbackAgent passes none on.                                      *)

Calls ==
  /\ phase = "generate" /\ attempt = 0 /\ ~stopped /\ calls < MaxCalls
  /\ call = Idle
  /\ calls' = calls + 1
  /\ UNCHANGED <<envVars, phase, attempt, memoryVars, acked, result>>

CallGit ==
  /\ Calls
  /\ GitTool
  /\ UNCHANGED <<toolVars, stopped, stepPR, opened, unread, outcome>>

\* The delegation tools; a call lasts several steps, and the loop waits for it.
CallDelegate ==
  /\ Calls /\ conf.team
  /\ \E tool \in Tool, timeoutOk \in BOOLEAN : \E items \in Batch(tool) :
       StartCall(tool, items, timeoutOk)
  /\ UNCHANGED <<gitVars, stopped, stepPR, opened, unread, outcome>>

Delegating ==
  /\ phase = "generate"
  /\ ToolStep
  /\ UNCHANGED <<gitVars, taskVars>>

\* A tool whose name ends in one of prToolSuffixes opens a pull or merge
\* request.  parsePRURL finds the URL of its answer, or nothing.
CallOpenPR ==
  /\ Calls /\ ~opened
  /\ opened' = TRUE
  /\ \E url \in {"pr", "mr", none} :
       /\ stepPR' = url
       /\ unread' = (url = none)
  /\ UNCHANGED <<worldVars, stopped, outcome>>

\* mem_save ends the turn once the observation is saved.
CallMemSave ==
  /\ Calls /\ engram
  /\ stopped' \in BOOLEAN
  /\ UNCHANGED <<worldVars, stepPR, opened, unread, outcome>>

-----------------------------------------------------------------------------
(* The outcome.                                                            *)

\* outcomeToUnstructured leaves empty fields out, and the API server merges:
\* what the patch does not hold stays.
Merged(o) ==
  [intent |-> IF o.intent = none THEN outcome.intent ELSE o.intent,
   artifacts |-> IF o.artifacts = {} THEN outcome.artifacts ELSE o.artifacts]

\* PatchAgentRunOutcome: the request fails, or is applied, and then its
\* answer may be lost to the 10 s limit.
Patch(o, acknowledged) ==
  outcome' \in IF acknowledged THEN {Merged(o)} ELSE {outcome, Merged(o)}

ValidFinish(intent, kinds) == intent \in Intent /\ kinds \subseteq Kind

\* run_finish: validation, then the patch.  It is offered only with a
\* reachable cluster, and refuses without a run name.
CallRunFinish(intent, kinds) ==
  /\ Calls
  /\ IF conf.named /\ ValidFinish(intent, kinds)
     THEN \E acknowledged \in BOOLEAN :
            /\ Patch([intent |-> intent,
                      artifacts |-> {[kind |-> k, count |-> 0] : k \in kinds}],
                     acknowledged)
            /\ stopped' = acknowledged
     ELSE UNCHANGED <<outcome, stopped>>
  /\ UNCHANGED <<worldVars, stepPR, opened, unread>>

CommitArtifact(n) == IF n = 0 THEN {} ELSE {[kind |-> "commit", count |-> n]}

\* The outcome autoFinalizeOutcome infers from the steps of the attempt that
\* ended well and from the workspace.
Inferred ==
  LET pr == IF stepPR = none THEN {} ELSE {[kind |-> stepPR, count |-> 0]}
      artifacts == pr \cup CommitArtifact(CommitsAhead)
  IN [intent |-> IF artifacts # {} THEN "change"
                 ELSE IF ready THEN "discovery" ELSE "noop",
      artifacts |-> artifacts]

\* It is written after every successful run that has a run name.
autoFinalizeOutcome ==
  /\ phase = "outcome"
  /\ phase' = "end"
  /\ IF conf.named
     THEN \E acknowledged \in BOOLEAN :
            Patch(Inferred, acknowledged) /\ acked' = acknowledged
     ELSE UNCHANGED <<outcome, acked>>
  /\ UNCHANGED <<worldVars, envVars, agentVars, memoryVars, result>>

-----------------------------------------------------------------------------
(* generateWithFallback and the end of the run.                            *)

GenerateSucceeds ==
  /\ phase = "generate" /\ call = Idle
  /\ phase' = "outcome"
  /\ UNCHANGED <<worldVars, envVars, agentVars, recordVars, memoryVars, result>>

\* A retryable error goes on to the next model that can be built.  Its steps
\* begin anew: what the attempts before it did is not in them.
GenerateFallsBack ==
  /\ phase = "generate" /\ ~stopped /\ call = Idle
  /\ attempt' \in attempt + 1 .. Fallbacks
  /\ calls' = 0
  /\ stepPR' = none
  /\ UNCHANGED <<worldVars, envVars, phase, stopped, opened, unread, recordVars,
                 memoryVars, result>>

\* Another error, or no model left.
GenerateFails ==
  /\ phase = "generate" /\ ~stopped /\ call = Idle
  /\ Fail
  /\ UNCHANGED <<worldVars, agentVars, recordVars, memoryVars>>

\* EngramClient.EndSession: a failure is logged and the session stays.
EndSession ==
  /\ phase = "end"
  /\ phase' = "write"
  /\ \/ /\ ~engram
        /\ UNCHANGED memoryVars
     \/ /\ engram
        /\ session' \in {"open", "ended"}
        /\ memFailed' \in {TRUE, session' = "open"}
        /\ UNCHANGED engram
  /\ UNCHANGED <<worldVars, envVars, agentVars, recordVars, result>>

writeTaskResult ==
  /\ phase = "write"
  /\ Exit("ok")
  /\ UNCHANGED <<worldVars, agentVars, recordVars, memoryVars>>

\* After the agent loop nothing reads the server's branches any more.
Others ==
  /\ conf.git /\ phase \in {"setup", "generate"}
  /\ \E b \in Branch : OthersPush(b)
  /\ UNCHANGED <<toolVars, taskVars>>

Cluster ==
  /\ call # Idle
  /\ ClusterChange
  /\ UNCHANGED <<gitVars, taskVars>>

Runtime ==
  \/ SetupFails \/ SetupDone
  \/ MemoryInit
  \/ BundleFails \/ BundleDone
  \/ CallGit \/ CallDelegate \/ Delegating \/ CallOpenPR \/ CallMemSave
  \/ \E f \in Finishes : CallRunFinish(f[1], f[2])
  \/ GenerateSucceeds \/ GenerateFallsBack \/ GenerateFails
  \/ autoFinalizeOutcome \/ EndSession \/ writeTaskResult

Next == Runtime \/ Others \/ Cluster

Spec == Init /\ [][Next]_vars
FairSpec == Spec /\ WF_vars(Runtime)
-----------------------------------------------------------------------------
(* Properties.                                                             *)

Succeeded == phase = "done" /\ result = "ok"

\* The commits of the run that are not on the base branch it knows, and those
\* of them on the branch that is checked out.
Unmerged == own \ History(track)
AtHead == Unmerged \cap History(HeadCommit)

WorkIsTold ==
  /\ AtHead # {} =>
       /\ outcome.intent = "change"
       /\ \E a \in outcome.artifacts : a.kind = "commit" /\ a.count >= Cardinality(AtHead)
  /\ Unmerged \subseteq AtHead \/ switched

PRIsTold ==
  opened => \/ attempt > 0
            \/ unread
            \/ \E a \in outcome.artifacts : a.kind \in {"pr", "mr"}

\* A successful run whose outcome was recorded tells of the commits it made that
\* are not on the base branch it knows, with at least their number, as far as
\* they are on the branch it ends on (autoFinalizeOutcome, outcome.go:110-139).
\* Those are all of them, unless git_branch went over to another branch:
\* whatever was pulled, pushed, created or failed in between.
OwnWorkReported == Succeeded /\ acked => WorkIsTold

\* A pull request the run opened is in its outcome, unless a fallback model
\* finished the run (its steps are all the outcome sees) or the answer of the
\* tool held no URL that parsePRURL finds.
PRLostOnlyByFallback == Succeeded /\ acked => PRIsTold

\* What the outcome of a successful run leaves out of what the run has made is
\* due to a switch of branches, a fallback model or an unreadable answer.
OutcomeIsComplete == OwnWorkReported /\ PRLostOnlyByFallback

\* A process that has ended has stopped the MCP servers it started, those
\* without tools included (mcp.go:81-85, main.go:2099), and "End memory session
\* (fixes session leak in task mode)" (main.go:2146): the session stays open
\* only when the run failed or a request to the memory service did.
NothingLeftOpen ==
  phase = "done" =>
    /\ servers = {}
    /\ session = "open" => memFailed \/ result = "failed"

\* A call that delegates creates nothing, or runs that are all watched, or it
\* is one of those answered with create errors.
DelegationIsAllOrNothing == ChildrenAreWatched /\ RefusedCallsCreateNothing

\* Every task ends with a result for the operator, whatever fails.
AlwaysReports == <>(phase = "done" /\ result # none)
-----------------------------------------------------------------------------
(* The inductive invariant of the outcome, beside those of the parts.      *)

\* Once the automatic outcome is on record nothing changes what it tells of.
OutcomeIsKept ==
  /\ opened /\ attempt = 0 => unread \/ stepPR \in {"pr", "mr"}
  /\ acked => phase \in {"end", "write", "done"} /\ WorkIsTold /\ PRIsTold
=============================================================================
