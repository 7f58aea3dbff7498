# Verification of the AgentOps runtime

The AgentOps runtime (Go, `src/*.go`) runs one LLM agent per process, either as
a long-lived *daemon* that serves a single conversation over HTTP, or as a
one-shot *task*. Agents delegate work to other agents by creating `AgentRun`
objects in Kubernetes and are called back with a prompt when those have ended.

This directory holds TLA+ modules for the parts of the runtime whose
correctness depends on the order of concurrent steps, TLC configurations that
check small instances, and TLAPS proofs that hold for every instance. Section
references such as `delegation.go:688` are to files under `src/`.

## 1. The system

### 1.1 Components

| component | files | state | operations | module |
|---|---|---|---|---|
| DelegationWatcher and its tools | `delegation.go`, `main.go:2244-2465` | `groups` (ID → runs with results, `Remaining`, deadline, cancel), `pendingChildLinks`, goroutines | `run_agents`, `run_agent`, `Register`, `watchRun`, `recordCompletion`, `triggerCallback`, `handleTimeout`, `RestoreGroups`, `CheckpointGroups`, `Stop` | `Delegation`, `DelegationPromise`, `DelegationRestart` |
| Daemon conversation | `main.go:752-1640`, `context_injection.go` | `sessionContext` (busy, cancel, steerMsg, emitter), context injector | `/prompt`, `/prompt/stream`, internal prompt, `/steer`, `/abort` | `Conversation` |
| WorkingMemory | `memory.go:45-232` | message list, tool metadata, turn count | `Append`, `TrimToTokenBudget`, `CompleteTurn`, `StoreToolMeta` | `WorkingMemory` |
| Checkpoint and restart | `checkpoint.go`, `main.go:458-750` | two JSON files | save on shutdown, restore on start | `DelegationRestart` (groups), `WorkingMemory` (messages) |
| Permission and question gates | `permission.go`, `question.go`, `main.go:612-676`, `main.go:1641-1679` | map of pending requests, the tools the agent was built with | wire, ask, reply, time out, cancel | `Gate` |
| Model fallback | `main.go:265-438` | none of its own | primary call, then each fallback model, without tools | `Stream` (streamed), `TaskRun` (tasks) |
| Streamed turn | `main.go:960-1224`, `fep.go` | step count, open span, steps of the attempt | the SDK's callbacks, the events the client sees | `Stream` |
| Tool hooks | `hooks.go` | none; goroutines that post | refuse, run, audit, capture | `ToolHooks` |
| Delegation tools against the cluster | `delegation.go:60-259`, `main.go:2258-2381` | the call in progress | validate, create in parallel, register | `AgentTools` |
| Task mode and run outcome | `outcome.go`, `main.go:1940-2170`, `k8s.go:394-453` | phase of `runTask`, status of the `AgentRun` | set-up, agent loop, `run_finish`, automatic outcome, result file | `TaskRun` |
| GitOps tools | `gitops.go` | a clone: branches, index, worktree | set-up, `git_*` tools, the signals the outcome is inferred from | `GitWorkspace` |
| Engram client | `memory.go:241-772` | session ID | session, observations, search, context | `TaskRun`, `ToolHooks` in part |
| MCP connections | `mcp.go` | server processes | start, stop | `TaskRun` in part |
| Context budget | `budget.go` | none | budget arithmetic | `WorkingMemory` in part |
| Kubernetes client | `k8s.go` | none | API calls | from the side of their callers |
| Built-in tools, OAuth2 tokens, providers, configuration, resources, tracing, caching, repair, GitLab tools | remaining files | – | – | not modelled, see section 6 |

### 1.2 How they interact

* A tool call inside a turn of the conversation creates `AgentRun`s and registers
  a group with the watcher. The watcher's goroutines observe the runs through
  the API server and call `triggerFn` when the group is complete or too late.
* `triggerFn` is the closure at `main.go:583-597`: it looks at the conversation's
  `busy` flag and either leaves the prompt as a steer message or starts
  `handleInternalPrompt` in a goroutine, which looks at `busy` again.
* The three prompt handlers share `sessionContext`, the context injector and
  working memory; `/steer` writes the steer slot, `/abort` cancels the running
  turn and clears `busy`. The gates send their requests through
  `sessionContext.emitter`.
* A turn calls the agent on the primary model and, after a retryable error, on
  the fallback models, all with the same callbacks. Tools run inside the hook
  wrapper, which posts records to the memory service from goroutines.
* A task runs one agent loop around a git clone, a memory session and MCP servers,
  patches its outcome into its own `AgentRun`, and writes a result file that the
  operator reads. Other developers push to the same repository meanwhile, and
  other agents appear and disappear.
* On shutdown the daemon checkpoints the watcher's groups, stops the watcher, and
  saves working memory, in this order (`main.go:715-746`); on start it restores
  both, the groups before the HTTP server listens.

### 1.3 What is hard here

Nothing in the program serialises these actors except four mutexes that are
held for a few lines each. The decisions (a counter that reaches zero, a flag
that is clear, a slot that is empty) are taken under a lock and acted upon
after it is released. Watches end at any moment, runs end while no daemon is
there to see it, and contexts are cancelled while the work under them goes on.
`PROJECT.json` lists the hazards line by line, with the properties that would
catch each of them going wrong.

## 2. Modules

### 2.1 `Delegation` — one lifetime of the watcher

State: `phase` is the API server's view of each run (absent, failed create,
`Active`, or terminal); `call` is the progress of the tool call that makes a
group; `groups`, `result` and `remaining` are `dw.groups` and its records;
`ctx` is the context a group's goroutines share; `watcher`, `timer` and
`completer` are the program counters of `watchRun`, of
`timeoutTimer`/`handleTimeout` and of `triggerCallback`; `expired` says that a
deadline lies in the past; `completed` and `timedOut` count calls of `triggerFn`.

Actions follow the critical sections:

| code | actions |
|---|---|
| `newRunAgentsTool` (`delegation.go:72-259`), `run_agent` (one run) | `StartCall`, `CreateAgentRun`, `ReportCreateErrors`, `Register` |
| `RestoreGroups` (`526-559`), once per group | `SkipExpired`, `RestoreComplete`, `RestoreOpen` |
| `watchRun`, `processWatchEvents`, `recordCompletion` (`563-686`) | `WatchAgentRun`, `WatchEnds`, `IgnoreCompletion`, `RecordCompletion`, `CheckRecorded` |
| `triggerCallback` (`688-768`) | `CallbackCancels`, `CallbackRemoves`, `CallbackTriggers` |
| `timeoutTimer`, `handleTimeout` (`770-848`) | `TimerSelects`, `TimeoutRemoves`, `TimeoutCancels`, `TimeoutTriggers` |
| `ConsumePendingChildLinks`, `Stop` | the same names |
| the operator, the clock (external) | `FinishRun`, `PassDeadline` |

A lifetime begins empty or with any checkpoint that an earlier lifetime can have
left: created runs, each with its final phase or none, some ended meanwhile,
some deadlines passed meanwhile.

Abstractions. `Register` is one step: the goroutines it starts can only begin
after it, and their first step commutes with the rest of it (the iteration over
`group.Runs` outside the lock is listed as a hazard). A watch that cannot be
opened returns to the top of the loop, which is a stutter. A deleted `AgentRun`
or one that never ends is a run that stays `Active`. Prompts are counted, not
spelled out.

### 2.2 `DelegationPromise` — what the parent agent is promised

The abstract specification: a group is accepted; runs end; deadlines pass; a
group may be answered with "completed" only when all its runs have ended, with
"timed out" only when its deadline has passed, with each at most once; an
accepted group may be dropped only when it is late and unanswered. It knows no
watches, counters, contexts or program counters. `Delegation` instantiates it
as `Promise` (mapping: `Accepted`, `Dropped`, `Ended`, `Late`, `Given`);
`KeepsPromise` is the refinement, checked by TLC and proved by TLAPS.

### 2.3 `Conversation` — the handlers and their session

State: the four fields of `sessionContext`; `injector`, the turn whose context
the injector holds; `log`, what has been appended to working memory; per handler
a program counter, its kind, its step count, the steer message it has popped
(`hand`) and the length of the snapshot its agent call works on (`seen`).
`aborted` is a history variable.

| code | actions |
|---|---|
| admission in `handlePrompt`, `handlePromptStream` | `Admit` |
| the trigger closure, `handleInternalPrompt`'s entry | `Trigger`, `StartInternal` |
| the set-up of a turn, in source order | `SetCancel`, `SetEmitter`, `Snapshot`, `SetInjector`, `Fit` |
| the agent call with `OnStepStart` | `StepStart`, `InjectSteer`, `StepEnd` |
| recording the turn | `AppendUser`, `AppendReply`, `CompleteTurn`, `Announce` |
| the deferred calls, last deferred first | `ClearInjector`, `ClearEmitter`, `Release` |
| `handleSteer`, `handleAbort` | `PostSteer`, `Abort` |

Abstractions. A model call ends in another step, in success or in an error; an
attempt with a fallback model is inside one call. A client that goes away is a
failing call. Trimming matters only as a second snapshot.

### 2.4 `DelegationRestart` — the watcher over several lifetimes

Extends `Delegation` with the process: `mode` says how far the shutdown goroutine
(`main.go:712-750`) is, or that no process runs; `copied` is what
`CheckpointGroups` returned, `file` the delegation checkpoint. `told`, `again` and
`excused` are histories.

| code | actions |
|---|---|
| the watcher, tools and timers, which go on during the shutdown | `Live` (`Delegation`'s `Work`) |
| the shutdown goroutine, in order | `CheckpointGroups`, `SaveDelegationCheckpoint`, `StopWatcher`, `Exit` |
| `RestoreDelegationCheckpoint`, then `RestoreGroups` | `Start`, then `Delegation`'s `Restore` |
| a kill, a fatal error | `Crash`, at any moment of a lifetime |
| the cluster and the clock without a daemon | `Meanwhile` |

The copies share the `Runs` maps, which `json.Marshal` reads later and without
the lock: for each run the file may hold what it was at the copy or what it is at
the write (`ReadBy`). A write can fail and then changes nothing. A crash between
reading the file and removing it leaves what there was before the start, so that
`Start` is one step. The shutdown goroutine starts after `RestoreGroups` has
returned. `CheckpointIsTrue` is what `Delegation`'s `Init` assumes of a
checkpoint, so that the results about one lifetime hold for each.

### 2.5 `WorkingMemory` — messages, budget and their checkpoint

State: `messages`, `toolMeta` and `turnNum` of the type in `memory.go:45-69`; the
turn in progress with the messages its call was `given`; the checkpoint `file`.
A message is its role, the tool calls it makes or answers, and its estimate.

| code | actions and operators |
|---|---|
| `EstimateMessageTokens`, `ConversationBudget` (`budget.go:158-212`) | the same names |
| `TrimToTokenBudget`, `pruneToolMeta` (`memory.go:142-210`) | `Trimmed`, `Pruned`; `LoopTrim` is the loop as written |
| the pre-flight part of the handlers | `BeginTurn` |
| `OnStepStart`, the model, `OnToolResult` | `StepStart`, `ModelAnswers` |
| the end of a turn | `FailTurn`; `AppendUser`, `AppendStep`, `CompleteTurn` |
| `SaveCheckpoint`, `RestoreCheckpoint` (`checkpoint.go:30-117`) | the same names; `Exit` |

`Trimmed` says which window is kept (the first safe start from which on the
messages fit) instead of how it is found; `TrimMatchesLoop` compares the two.
Turns follow one another: `Conversation` says when they do. Reading a checkpoint
back is the identity on roles, calls and estimates; part kinds the serialisation
does not know are not distinguished.

### 2.6 `Gate` — permission and question requests

State: per call a program counter (`stage`), its place in the `pending` maps, its
channel (`slot`) and what its `select` received (`got`); per reply handler its
progress, target and content; `alwaysAllowed`; and `offered`, which of two tools of
one name the agent runs.

| code | actions |
|---|---|
| the agent as `runDaemon` rebuilds it (`main.go:636-668`) | `ToolOptions`, `Init` |
| `wrapTool`, `resolvePermission`, `ask` | `Begin`, `EmitEvent`, `ReceiveReply` or `GiveUp`, `Leave`, `Decide` |
| `handlePermissionReply`, `handleQuestionReply`, `reply` | `LookUp`, `Send` |

Abstractions. The gates have the same protocol and unique IDs: one map stands for
both. The timer and the end of the context are one action, `GiveUp`, possible
whenever a call waits. An event is seen or dropped (no emitter). A handler only
names IDs the console has seen. Malformed requests change nothing. Tools are not
marked parallel, so that the calls of one turn follow one another; calls overlap
when the turn of an aborted handler still waits in one. The model lets any overlap.

The wiring is part of the model. The daemon builds `WithTools` of the wrapped tools
and then appends all options of the first build, which begin with `WithTools` of the
tools as they were. Which of two tools of one name runs is the library's rule (the
later option replaces the earlier, both are added and the later or the first is
found), so that `offered` is either, and one choice stands for a process.

### 2.7 `ToolHooks` and `Stream` — one streamed turn

`ToolHooks` is the wrapper around every tool. State: the calls the model has
asked for, how many are over, where the wrapper is with the next one, the posts on
their way and what the memory service has stored by topic. `raced` and `lost` are
histories. `Stream` extends it by the turn: the attempt, the SDK's step, the
open step spans, the steer slot, the tool results of the attempt, and the events
emitted and messages appended so far.

| code | actions |
|---|---|
| `hookWrappedTool.Run` (`hooks.go:65-248`) | `RefuseCall`; `RunInner`, `AfterHooks` |
| `EngramClient.post` in a goroutine (`memory.go:627-661`) | `Deliver`, `LosePost` |
| `buildStreamCallbacks` (`main.go:960-1224`) | `OnStepStart`, `OnToolCall`, `OnToolResult`, `OnStepFinish`, `cleanup` |
| `streamWithFallback` (`main.go:289-361`) | `AgentSucceeds`, `FallBack`, `GiveUp` |
| `handlePromptStream` around it (`main.go:1347-1417`) | `emitAgentStart`, `TurnFails`, `TurnSucceeds`, `emitSessionIdle` |
| `handleSteer` | `Steer` |

Abstractions. What the arguments of a call match is its `input`; patterns, path
normalisation and truncation are not spelled out. Tools of one step run one after
the other, as the SDK runs tools that are not marked parallel. The SDK counts
steps from 0 in each agent call and calls `OnError` once when a call fails; text
and reasoning deltas are left out. A call fails between two tools. Injected context only
changes a span event. `handleInternalPrompt` is the same turn with an emitter that
may be missing.

### 2.8 `GitWorkspace` — the clone and the git tools

State: the commits made by anyone (`parent`), those of this run (`own`), the
server's branches (`remote`), the local ones, `origin/<base>` (`track`), the
branch that is checked out, and three sets of paths for index and worktree.
`forced` and `switched` (`git_branch` left for a branch that was there) are
histories. `setupGitWorkspace` and each tool is an action of that
name, but `git_diff`, which changes nothing; `CommitsAhead` is the count of
`extractGitInfo`, and `OthersPush` are the other developers.

Abstractions. Two branches, linear histories, and a complete clone where the
code asks for depth 50. The libraries' effects on a worktree that a tool then
refuses are nondeterministic: go-git moves HEAD (`git_branch`) or the branch
(`git_pull`) before it looks for unstaged changes, and a pull it then refuses leaves
the old index against the new commit. A fetch that fails and a branch that does not exist look the same,
as they do to the code.

### 2.9 `AgentTools` — delegating to a changing cluster

State: the agents that exist and run, the tool call in progress with what it has
checked and created, the `AgentRun`s and the groups registered. `Validate` checks
one delegation per step, `Create` is one goroutine's request, `ReportCreateErrors`
and `RegisterGroup` end the call, `ClusterChange` is everyone else. A failing
create may have had its effect; the error then names its agent and not its run. `Delegation` begins where `RegisterGroup` ends.

### 2.10 `TaskRun` — a task from start to exit

Extends `GitWorkspace` and `AgentTools` by `runTask`: `phase` is its place,
`attempt` the model, `stepPR` what the outcome will find in the steps, `outcome` the
status of the `AgentRun`, `session` the memory session as the service has it,
`servers` and `conns` the MCP processes and the connections held. `Exit(r)` writes the
result and runs the deferred shutdown.

| code | actions |
|---|---|
| `runTask` up to the agent (`main.go:2037-2099`) | `SetupFails`, `SetupDone`, `MemoryInit`, `BundleFails`, `BundleDone` |
| the agent's tool calls | `CallGit`, `CallDelegate` with `Delegating`, `CallOpenPR`, `CallMemSave`, `CallRunFinish` |
| `generateWithFallback` (`main.go:391-438`) | `GenerateSucceeds`, `GenerateFallsBack`, `GenerateFails` |
| `autoFinalizeOutcome`, `PatchAgentRunOutcome` | `autoFinalizeOutcome` with `Patch`, `Merged` |
| the end of the run (`main.go:2146-2170`) | `EndSession`, `writeTaskResult` |

A request fails, succeeds, or succeeds although its answer is lost. Each initial
state picks one environment: which of git, cluster, memory, team and MCP servers are
configured. Others push until the agent loop ends; afterwards nothing here reads
the server's branches.

## 3. Model checking

All passing runs are exhaustive. `CHECK_DEADLOCK FALSE` is set everywhere because
the systems may come to rest: every run reported, every turn or call over.

| run | instance | shows |
|---|---|---|
| `Delegation_fan` | one group of two runs, two outcomes | types; `RemainingCountsOpenRuns`, `EachPromptAtMostOnce`; `ResultsFrozenAfterRemoval` (reads after the unlock are stable); liveness `EveryGroupReported`, `EndedGroupCompletes`; the refinement `KeepsPromise` |
| `Delegation_twice` (violation) | the same | `ReportedOnce` fails: a group is announced as completed and as timed out |
| `Conversation_turns` | two handlers of any kind, one steer message, two steps per call | `OneTurnAtATime`, `OwnSession`, `TurnsAreContiguous` until an abort; `QuietMeansClean` always |
| `Conversation_live` | two handlers, one step | `NeverStuckBusy` |
| `Conversation_queued` (violation) | two handlers, one steer message | `QueuedCallbackKept` fails: the slot is overwritten |
| `DelegationRestart_lives` | one group of two runs, three lifetimes | what can lose a group (`NoGroupLost`) or report it again (`RepeatOnlyAfterCopy`); `CheckpointIsTrue`; liveness `ReportedAcrossRestarts` |
| `WorkingMemory_window` | three turns of one step, two tool calls, two lifetimes | `PreflightFits`, `ResultsKeepMeta`, `OrphanedOnlyAlone`, `TrimMatchesLoop` |
| `Gate_replies` | two calls of one tool, a question, two replies, either tool set | `WrapperRunsOnlyApproved`, `AnswerIsOwn`, `NothingLeftPending`; liveness `EveryCallEnds` |
| `Gate_wiring` (violation) | the same | `RunsOnlyApproved` fails: the rebuilt agent has the unwrapped tools too |
| `TaskRun_outcome` | three environments, two branches, two commits, one file, four tool calls, one fallback model, one delegation call of up to two runs | what the outcome may leave out, and why (`OutcomeIsComplete`); others' commits survive on the server (`OthersWorkStays`), the run's own in its clone (`OwnWorkStays`); no run is left unwatched unnoticed (`DelegationIsAllOrNothing`); nothing stays open (`NothingLeftOpen`); liveness `AlwaysReports` |
| `TaskRun_force` (violation) | the same | `DefaultPushIsCurrent` fails: a forced push overwrites another branch |
| `Stream_fallback` | two models, two steps, two tool calls of four kinds, one steer message | the client can follow the events (`EventsFollow`); working memory gets a turn whole or not at all (`TurnIsWhole`); `RefusedNeverRuns`, `AuditLatest` |

**Bounds.** Two runs per group give a last run and another one, so that the
counter's zero test, a repeated event and a partial record all occur. One group
is enough for TLC: groups share only the lock, the map and `links`, and the
proofs cover any number. Two turns are what an overlap takes; a third adds
interleavings of the same pairs, and the proofs of the exclusion properties
cover any number. `MaxSteps` bounds the steps of a call: with two, a steer
message can meet the first or a later step, and replies form a block of more
than one. In `Conversation_turns` turns and steer messages are interchangeable
and the run has no liveness property, so symmetry is sound; the same holds for
the tool calls of `WorkingMemory_window`. Three lifetimes are what a repeated
checkpoint takes: one that registers, one that restores and reports, one that
must not see the group again; the last one is never ended (`MaxLives`). In
`WorkingMemory` three turns let a trim meet messages that an earlier trim has
left, estimates of one and three against a small window make both a cut at a
boundary and the forced cut of a last message happen, and nobody reads the last
lifetime's file. In `TaskRun` two commits let the run and another developer each move
a branch, which is what a count from the wrong commit, a stale clone and a lost
push take; four calls hold an edit, an add, a commit and a push, a pull or a switch; the
environments are separate because git, memory and delegation meet in `runTask`
only through `phase`, `stopped` and the outcome. One delegation call suffices,
for calls follow one another, and the proof covers any number. In `Stream` a
second attempt after a failed one, a second step after a first, and two calls of
one tool are what the properties relate. In `Gate` two calls of one tool are what the allow-list relates,
and two replies what a channel of one place has to tell apart.

**Fairness.** `SchedulerFairness` and the `WF` of `Conversation`'s `FairSpec`
say that the Go scheduler runs every goroutine that can run, and that model
calls end (they have contexts and HTTP timeouts). `WatchFairness` is strong
fairness of `RecordCompletion`: the API server does not end every watch before
it has sent the event; weak fairness would not do, since each end of a watch
disables the step. Nothing makes runs end. That the clock reaches deadlines is
the premise `ClockRuns` of `EveryGroupReported` alone, so `EndedGroupCompletes`
does not lean on it. `LifeFairness` asks the same of every lifetime, that a
shutdown that has begun goes on, and that Kubernetes starts the daemon again;
nothing makes a shutdown or a crash happen. In `Gate` it is weak fairness of the
call's own steps, `GiveUp` included, for `time.After` fires; no user has to reply.
In `TaskRun` it is weak fairness of the process: requests have timeouts and model
calls end; the other developers and the cluster need do nothing. `Stream` has no
liveness property: that turns end is `NeverStuckBusy`.

**Each property can fail.** `PROJECT.json` names, for every property of a passing
run, a plausible mistake in the code (defined next to the action it changes and
commented "Mutant") under which TLC finds the property violated.

## 4. Disagreements found

* *A completed group can also be reported as timed out* (`Delegation_twice`):
  `recordCompletion` unlocks before `triggerCallback` deletes the group, and the
  latter does not look whether the group is still in the map.
* *A queued delegation result can be lost* (`Conversation_queued`): there is one
  steer slot and whoever comes last wins.
* *A forced push without a branch name pushes every branch, without a lease*
  (`TaskRun_force`): the tool's schema promises the current branch and a lease.
* *Gated tools may run without an approval* (`Gate_wiring`): the comment at
  `main.go:655` says that the old tool set is filtered out, but the loop below it
  appends every option, the ungated tools (`main.go:182-184`) last. Only a library
  that keeps the first of two tools of one name would make the gates effective. What
  the gates do with the calls that reach them is right (`WrapperRunsOnlyApproved`).

Seen while modelling, without a run of their own:

* Conversation. `/abort` clears `busy` while the cancelled handler still runs, whose
  clean-up then undoes the next turn's session state (the exclusion properties
  hold only until an abort); a steer message is appended to working memory while
  the call goes on with an earlier snapshot.
* Memory. Trimming can leave a tool result that is larger than the budget without
  its call (`OrphanedOnlyAlone` says that it is then alone). The comment "so the
  latest call upserts" (`hooks.go:284`) holds only while posts do not overtake each
  other (`raced` in `AuditLatest`), and "prepend relevant context" (`hooks.go:152`)
  adds an event to a span and changes no call.
* Gates. `reply` accepts an answer that a waiter who has given up never reads; the
  console shows `{"ok":true}`.
* Events. `agent_error`, "Execution failed" (`README.md:229`), is also emitted for an
  attempt that a fallback model rescues, and twice when a turn fails.
* Outcome. `extractGitInfo` walks from HEAD (`gitops.go:207`), so that a commit on the
  feature branch followed by `git_branch` to the base is recorded as "discovery",
  against the rules in `outcome.go:95-97` (`switched` in `OutcomeIsComplete`). A
  pull request opened before a fallback is not in it. A run that changes nothing on
  an existing feature branch is reported as a change, for the commits others made
  there count as ahead of the base. The automatic outcome replaces the intent that
  `run_finish` declared: the agent "may override" it (`outcome.go:100`), but it is
  written after every successful run and does not look at what is there.
* Git. The staged view, "Show staged changes (--cached)" (`gitops.go:390`), prints the
  content of untracked files, which it does not list, and of every staged path as
  it is in the worktree (`gitops.go:437-461`).
* Restart. A crash loses every group, for the delegation checkpoint, "for crash
  recovery" (`checkpoint.go:232`), is written on a graceful shutdown only and
  removed when it is read; one failed create leaves the other runs of a fan-out in
  no group (`delegation.go:199`); `session_idle` precedes the release of `busy`
  (`main.go:1417`); `CheckpointGroups` drops `Single` (`delegation.go:512-519`);
  working memory is saved in every configuration but restored only with a memory
  section (`main.go:496`, `726`).

## 5. Proofs

The modules named `*_proofs` are checked by TLAPS for any number of groups, runs,
lifetimes, turns, steer messages, calls, replies, agents, tools, commits and models,
any bound, and either value of `HasNATS` and `HasMemory`. Every invariant of a passing
run is a theorem, and so are its safety properties over steps and the refinement;
only the liveness properties are left to TLC.

They use only the named assumptions about the constants: groups have finite,
non-empty, disjoint sets of runs (names are generated per call), and every run
belongs to a group; outcomes are terminal phases; every gated call has a tool;
`MaxFanOut` is between 1 and 10, as the code clamps it; the estimate of a message is
positive (`EstimateMessageTokens` adds an overhead to each, `budget.go:172`); an
absent topic, branch, commit or intent is none of those in use.

| module | theorems |
|---|---|
| `Delegation_proofs` | `TypeCorrect`, `RemainingIsExact`, `CompletionIsComplete`, `NoPromptTwice`, `NoGroupForgotten`, `UnlockedReadsAreStable` |
| `DelegationPromise_proofs` | `WatcherKeepsPromise` |
| `DelegationRestart_proofs` | `LifeTypeCorrect`, `CheckpointsAreTrue`, `RestartsLoseNoGroup`, `RepeatsComeFromTheCopy` |
| `Conversation_proofs` | `TypeCorrect`, `QuietIsClean`, `NoOverlap`, `ContextIsOwn`, `EmitterIsOwn`, `SessionIsOwn`, `TurnsStayWhole` |
| `WorkingMemory_proofs` | `TypeCorrect`, `SentFitsBudget`, `MetadataIsKept`, `OrphansStandAlone`, `TrimIsTheLoop` |
| `Gate_proofs` | `TypeCorrect`, `WrapperAsks`, `AnswerBelongs`, `MapIsClean`, `FirstReplyWins` |
| `Stream_proofs` | `TypeCorrect`, `ClientCanFollow`, `TurnsAreWhole`, `RefusalsHold`, `AuditsAreLatest` |
| `TaskRun_proofs` | `TypeCorrect`, `OutcomeTellsAll`, `OthersLoseNothing`, `ChildrenAreAccountedFor`, `ProcessLeavesNothingOpen`, `OwnWorkIsKept` |

**Watcher.** The inductive invariant `WatcherInv` has four parts beside the types.
`RemainingCountsOpenRuns` is almost inductive by itself, but a completer must
not come twice: `CompleterHasAllResults` says that `triggerCallback` runs for
groups without open runs only, so that no further `RecordCompletion` can reach
zero, and ties `completed` to its program counter. `TimeoutRemovedGroup` says
that past its delete `handleTimeout` has taken the group out of the map for
good, which needs `UnregisteredIsFresh`: a group enters the map once in a
lifetime. `RemovedIsReported` is inductive with these (`IInv`); it is apart because a
process that starts after a crash has lost groups without a report, and keeps
`WatcherInv` all the same.

**Refinement.** `WatcherKeepsPromise` adds to `IInv` that recorded results are
the phases runs have ended in and that timers fire after their deadline
(`ReportsAreTrue`). `NextRefines` then maps `Register` to `Accept`,
`SkipExpired` to `Drop`, `FinishRun` to `EndRun`, `PassDeadline` to
`BecomeLate`, the two calls of `triggerFn` to `Answer`, and every other step to a
stutter; `DroppedUnchanged` shows that no other step drops a group.

**Restarts.** `LifeInv` adds to `WatcherInv` and `ReportsAreTrue` which of memory, copy
and file holds what at each point of the shutdown (`ShutdownInOrder`). A group lost
after the copy was lost before the process ended, so `NoGroupLost` needs
`CopyCoversMemory`: from the copy on, what is in memory is in the copy, then in the file, or
is reported or explained. `RepeatOnlyAfterCopy` needs the same of what comes back
(`RepeatsAreCopies`). That a checkpoint read while watchers write the shared maps is
true all the same rests on `CopyIsTrue` and on results that only go from none to the
final phase. What a step of the watcher does to a group is proved once
(`EveryGroupGoesOn`), for the four properties.

**Conversation.** `QuietIsClean` rests on `HeldIsOwned`: whatever the session
holds (busy, cancel, emitter, injector) belongs to a turn that has yet to give
it back; this is inductive even when aborts let turns overlap. `NoOverlap`,
`ContextIsOwn` and `EmitterIsOwn` are the exclusion properties up to the first
abort; `SessionIsOwn` joins the last two. `TurnsStayWhole` uses `NoOverlap`: `Blocks` says
that a turn which has begun to append finds its own last message at the end of the
log, and no other handler can be at an append meanwhile.

**Working memory.** `IInv` says that a result follows the message that makes its calls
or is the first (`ResultsFollowCalls`), and that metadata stored for the calls of a
message is there (`CallsCovered`), of the conversation, the steps of the turn and the
checkpoint alike. `TrimKeeps`, `TrimFits` and `TrimOrphansOne` say what a trim does to
them. `TrimIsTheLoop` compares the trim with the loop as written, a recursive function of the
start of the window: `Settles`, the first window that fits from a start on, solves the
loop's equation (`SettlesLoops`), and no other function does (`LoopEndsThere`: of the starts
on which two differ the last has a next one, on which they differ too).

**Gates.** `WrapperRunsOnlyApproved` is about the gates where they are in the way of
a call; that they are is not claimed (section 4). It is not inductive: that a call goes on with an
approval rests on where its reply came from. `IInv` adds that a reply on its way
names a call the console has seen (`RepliesAreAddressed`), that a channel holds an
accepted reply to its own call (`ChannelsHoldOwn`), and that the allow-list goes
back to accepted replies (`AllowedByUser`). `AcceptedStays` makes all of them
stable: an accepted reply never changes.

**Hooks.** `RefusalsHold` and `AuditsAreLatest` are about every step of a streamed
turn, which `NextIsHookStep` reduces to what the hooks see of it. `Progress` says
that only calls that are over, or the one in the wrapper, have been refused or have run;
`RecordsAreOfRan`, that posts and records other than violations are of calls that
ran. For audits, `InOrder` adds that a topic never raced has at most one post on
its way, of the latest call.

**Streamed turn.** The properties relate the sequence of events to the messages
appended in the end; `SInv` ties both to the place the turn is at. `EventsTellPhase`: the
last event that is not a tool's is the one this place follows. `ToolsAreOfStep`: the
calls not yet served are the last events, in order. `ResultsAreShown`: the results carried
are those shown since the attempt began, one by one. `SpansAreActive`: at most one step
span is open, and none after the turn.

**Delegation tools.** `ChildrenAreAccountedFor` is about every run of a task.
`CallOwnsItsRuns` strengthens the property: the call in progress is not refused, has
created nothing while it validates, and then only runs that it counts as created
or failed, so that the group it registers without a failure holds them all.
`OnlyToolsDelegate` reduces the steps of a task to those of the tools. For the types,
`CallIsChecked` says that only delegations to the team are created.

**Tasks.** `ProcessLeavesNothingOpen` rests on `OInv`: until it exits the process
holds a connection to every server it has started, and an open session is the
client's to close, unless a request failed. `OutcomeTellsAll` rests on `OutcomeIsKept`:
what was recorded is still true, since nothing touches the workspace after the agent
loop, and before a fallback the steps hold the pull request. The step that records it
is `InferredTells`, with `CommitsAheadCovers`: whether the count of `extractGitInfo`
ends at `origin/<base>` or goes through the whole history, it is no less than the
run's own commits at HEAD that are not on the base. That these are all it made until
`git_branch` switches is `OwnWorkAtHead`, an invariant of the clone.

**Git.** A history is a recursive function over commits. `RefsExist` says that commits
are made on earlier ones and that references name commits made; from the first,
`HistoryIs` unfolds a history, `HistoriesNest` says that the history of a commit in a
history is part of it, and `HistoriesStay` that a new commit changes no earlier one.
`OthersLoseNothing` then follows per tool: a push that is not forced moves a branch
to a history that contains the old one (`PushKeepsServer`). `OwnWorkIsKept` is the same
for the branches of the clone: a pull goes forward and a branch is created only where
there is none (`GitPullKeepsWork`, `GitBranchKeepsWork`).

**Induction over data.** The library's induction theorems take an operator as a
parameter, which the installed provers cannot instantiate. Where a lemma is about every
prefix of a conversation or every commit (`SumExists`, `HistoriesExist`, `HistoriesNest`,
`LoopEndsThere`) it is proved by a least counterexample instead: `LeastNumber`, that a
non-empty set of numbers has a least element, follows from `WFMin`.

**Model-checked only.** Liveness under fairness is out of the prover's reach:
`EveryGroupReported`, `EndedGroupCompletes`, `NeverStuckBusy`, `EveryCallEnds`,
`ReportedAcrossRestarts` and `AlwaysReports` hold on the instances of section 3.
`ReportedOnce`, `QueuedCallbackKept`, `RunsOnlyApproved` and `DefaultPushIsCurrent` do
not hold of the code (section 4).

## 6. Not modelled

* The built-in tools (`tools.go`) and the GitLab tools are single I/O operations
  whose meaning is string processing; a model would restate them.
* `oauth2.go` holds one mutex over the check, the request and the assignment of a
  token: it has no state in between that another caller could see.
* Providers, configuration and resources map static data. Tracing, prompt caching
  and tool-call repair are adaptations nothing in the control depends on.
* Of the partly modelled components: the read-only endpoints and tools
  (`list_task_agents`, `get_agent_run`, `git_diff`, `git_log`, search and context of the
  memory service), the MCP protocol, the NATS copies of events, the messages that
  `PrepareStep` builds, and all wording.

## 7. Plan

1. `Daemon`: watcher and conversation composed, so that a prompt's way from
   `triggerFn` into working memory is one behaviour; with it the hazard that
   `session_idle` precedes the release of `busy`.
2. Abstract specifications for `Conversation` (one turn after the other) and for
   `TaskRun` (what the operator reads), with their refinements proved as that of the
   watcher is.
3. The sum of `DelegationRestart` and `DelegationPromise`: the promise over several
   lifetimes, with the losses of `NoGroupLost` as its only exceptions.
