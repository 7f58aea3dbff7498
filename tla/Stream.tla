-------------------------------- MODULE Stream --------------------------------
(***************************************************************************)
(* One streamed turn of the daemon (handlePromptStream, buildStreamCall-   *)
(* backs and streamWithFallback in src/main.go, the events of src/fep.go): *)
(* agent calls on one model after the other, the events the client sees,   *)
(* the spans of the steps, the steer messages taken on the way, and what   *)
(* the turn leaves in working memory.  Tools run in the wrapper of module  *)
(* ToolHooks.                                                              *)
(*                                                                         *)
(* The SDK calls back OnStepStart with 0, 1, ... in every agent call, and  *)
(* OnError once when the call fails.  Module Conversation says when turns  *)
(* run; here the turn has been admitted.                                   *)
(***************************************************************************)
EXTENDS ToolHooks, SequencesExt

CONSTANTS
  Fallbacks,  \* number of models in FALLBACK_MODELS
  MaxSteps,   \* bound on the steps of one agent call
  MaxSteers   \* bound on the steer messages posted

ASSUME StreamAssumption ==
  /\ Fallbacks \in Nat /\ MaxSteps \in Nat \ {0} /\ MaxSteers \in Nat

VARIABLES
  phase,    \* where the turn is
  attempt,  \* models tried before the current one
  step,     \* res.stepCount
  inStep,   \* between OnStepStart and OnStepFinish of the SDK
  nsteps,   \* steps the current agent call has begun
  active,   \* activeStepSpan: at most one span
  spans,    \* step spans started and not ended
  steer,    \* sc.steerMsg holds a message
  nsteers,  \* steer messages posted
  produced, \* tool results in the steps of the current agent call
  meta,     \* calls whose metadata StoreToolMeta was given
  memory,   \* messages the turn appended to working memory
  events    \* events emitted

turnVars == <<phase, attempt, nsteps, inStep, produced>>
spanVars == <<step, active, spans>>
steerVars == <<steer, nsteers>>
streamVars == <<turnVars, spanVars, steerVars, meta, memory, events>>
vars == <<hookVars, streamVars>>

Event ==
  [type : {"agent_start", "session_idle"}]
  \cup [type : {"step_start", "step_finish", "agent_finish"}, n : 0 .. MaxSteps - 1]
  \cup [type : {"tool_call", "tool_result"}, id : Id]
  \cup [type : {"agent_error"}, retryable : BOOLEAN]

Span == (0 .. Fallbacks) \X (0 .. MaxSteps - 1)
Message == [role : {"steer", "prompt"}] \cup [role : {"result"}, id : Id]

TypeOK ==
  /\ HookTypeOK
  /\ phase \in {"start", "agent", "failed", "succeeded", "idle", "done"}
  /\ attempt \in 0 .. Fallbacks
  /\ step \in 0 .. MaxSteps - 1 /\ nsteps \in 0 .. MaxSteps
  /\ inStep \in BOOLEAN
  /\ spans \subseteq Span /\ active \subseteq Span /\ Cardinality(active) <= 1
  /\ steer \in BOOLEAN /\ nsteers \in 0 .. MaxSteers
  /\ produced \in Seq(Id)
  /\ meta \subseteq Id
  /\ memory \in Seq(Message)
  /\ events \in Seq(Event)

Init ==
  /\ HookInit
  /\ phase = "start" /\ attempt = 0
  /\ step = 0 /\ nsteps = 0 /\ inStep = FALSE
  /\ spans = {} /\ active = {}
  /\ steer = FALSE /\ nsteers = 0
  /\ produced = <<>> /\ meta = {} /\ memory = <<>>
  /\ events = <<>>

emit(e) == events' = Append(events, e)

StepEvent(type, n) == [type |-> type, n |-> n]
ToolEvent(type, i) == [type |-> type, id |-> i]
AgentError(retryable) == [type |-> "agent_error", retryable |-> retryable]

-----------------------------------------------------------------------------
(* The callbacks.                                                          *)

emitAgentStart ==
  /\ phase = "start"
  /\ emit([type |-> "agent_start"])
  /\ phase' = "agent"
  /\ UNCHANGED <<hookVars, attempt, nsteps, inStep, produced, spanVars, steerVars,
                 meta, memory>>

\* The span of an earlier step that is still open ends here; a pending steer
\* message goes to working memory, which the running call does not read.
OnStepStart ==
  /\ phase = "agent" /\ ~inStep /\ nsteps < MaxSteps
  /\ inStep' = TRUE
  /\ nsteps' = nsteps + 1
  /\ step' = nsteps
  /\ active' = {<<attempt, nsteps>>}
  /\ spans' = (spans \ active) \cup active'
  /\ emit(StepEvent("step_start", nsteps))
  /\ steer' = FALSE
  /\ memory' = IF steer THEN Append(memory, [role |-> "steer"]) ELSE memory
  /\ UNCHANGED <<hookVars, phase, attempt, produced, nsteers, meta>>

\* Only the primary model has tools: buildFallbackAgent passes none on.
OnToolCall ==
  /\ phase = "agent" /\ inStep /\ attempt = 0
  /\ Len(asked) < MaxToolCalls
  /\ \E c \in Asks : asked' = Append(asked, c)
  /\ emit(ToolEvent("tool_call", Len(asked) + 1))
  /\ UNCHANGED <<served, stage, ran, refused, flying, raced, storeVars, turnVars,
                 spanVars, steerVars, meta, memory>>

RunTool ==
  /\ phase = "agent" /\ inStep
  /\ Wrapper
  /\ UNCHANGED streamVars

OnToolResult ==
  /\ phase = "agent" /\ stage = "returned"
  /\ stage' = "idle" /\ served' = Current
  /\ produced' = Append(produced, Current)
  /\ meta' = meta \cup {Current}
  /\ emit(ToolEvent("tool_result", Current))
  /\ UNCHANGED <<asked, ran, refused, flying, raced, storeVars, phase, attempt,
                 nsteps, inStep, spanVars, steerVars, memory>>

OnStepFinish ==
  /\ phase = "agent" /\ inStep /\ stage = "idle" /\ ~Pending
  /\ inStep' = FALSE
  /\ spans' = spans \ active /\ active' = {}
  /\ emit(StepEvent("step_finish", step))
  /\ UNCHANGED <<hookVars, phase, attempt, nsteps, produced, step, steerVars,
                 meta, memory>>

-----------------------------------------------------------------------------
(* streamWithFallback.                                                     *)

AgentSucceeds ==
  /\ phase = "agent" /\ ~inStep /\ nsteps > 0
  /\ phase' = "succeeded"
  /\ UNCHANGED <<hookVars, attempt, nsteps, inStep, produced, spanVars, steerVars,
                 meta, memory, events>>

\* The call fails between two tools, perhaps in the middle of a step; what it
\* asked for and did not get to is dropped.
AgentFails(retryable) ==
  /\ phase = "agent" /\ stage = "idle"
  /\ emit(AgentError(retryable))
  /\ inStep' = FALSE
  /\ served' = Len(asked)
  /\ UNCHANGED <<asked, stage, ran, refused, flying, raced, storeVars, spanVars,
                 steerVars, meta, memory>>

\* Mutant: one model too many is tried
FallBackPastEnd ==
  /\ AgentFails(TRUE)
  /\ attempt' \in attempt + 1 .. Fallbacks + 1
  /\ nsteps' = 0 /\ produced' = <<>>
  /\ UNCHANGED phase

\* Mutant: any error goes on to the next model
FallBackOnAnyError ==
  /\ \E retryable \in BOOLEAN : AgentFails(retryable)
  /\ attempt' \in attempt + 1 .. Fallbacks
  /\ nsteps' = 0 /\ produced' = <<>>
  /\ UNCHANGED phase

\* Mutant: the steps of all attempts are kept
FallBackKeepingSteps ==
  /\ AgentFails(TRUE)
  /\ attempt' \in attempt + 1 .. Fallbacks
  /\ nsteps' = 0
  /\ UNCHANGED <<phase, produced>>

\* The next model that can be built gets the same call: the same prompt,
\* messages and callbacks.
FallBack ==
  /\ AgentFails(TRUE)
  /\ attempt' \in attempt + 1 .. Fallbacks
  /\ nsteps' = 0
  /\ produced' = <<>>
  /\ UNCHANGED phase

\* No further model, or none that can be built, or another error: also that of
\* a cancelled context.
GiveUp(retryable) ==
  /\ AgentFails(retryable)
  /\ phase' = "failed"
  /\ UNCHANGED <<attempt, nsteps, produced>>

-----------------------------------------------------------------------------
(* The end of the turn.                                                    *)

cleanup ==
  /\ spans' = spans \ active
  /\ active' = {}

\* The error the SDK's OnError has told of is told once more.
TurnFails ==
  /\ phase = "failed"
  /\ cleanup
  /\ emit(Last(events))
  /\ phase' = "idle"
  /\ UNCHANGED <<hookVars, attempt, nsteps, inStep, produced, step, steerVars, meta,
                 memory>>

Result(i) == [role |-> "result", id |-> i]

\* The prompt and the messages of the steps of the call that succeeded.
TurnSucceeds ==
  /\ phase = "succeeded"
  /\ cleanup
  /\ memory' = memory \o <<[role |-> "prompt"]>>
                      \o [k \in DOMAIN produced |-> Result(produced[k])]
  /\ emit(StepEvent("agent_finish", step))
  /\ phase' = "idle"
  /\ UNCHANGED <<hookVars, attempt, nsteps, inStep, produced, step, steerVars, meta>>

emitSessionIdle ==
  /\ phase = "idle"
  /\ emit([type |-> "session_idle"])
  /\ phase' = "done"
  /\ UNCHANGED <<hookVars, attempt, nsteps, inStep, produced, spanVars, steerVars,
                 meta, memory>>

\* POST /steer while the turn runs: one message at most is kept.
Steer ==
  /\ phase = "agent" /\ nsteers < MaxSteers
  /\ steer' = TRUE
  /\ nsteers' = nsteers + 1
  /\ UNCHANGED <<hookVars, turnVars, spanVars, meta, memory, events>>

Deliveries ==
  /\ Posts
  /\ UNCHANGED streamVars

Next ==
  \/ emitAgentStart
  \/ OnStepStart \/ OnToolCall \/ RunTool \/ OnToolResult \/ OnStepFinish
  \/ AgentSucceeds \/ FallBack \/ \E r \in BOOLEAN : GiveUp(r)
  \/ TurnFails \/ TurnSucceeds \/ emitSessionIdle
  \/ Steer \/ Deliveries

Spec == Init /\ [][Next]_vars
-----------------------------------------------------------------------------
(* Properties.                                                             *)

IsToolEvent(e) == e.type \in {"tool_call", "tool_result"}
Milestones == {k \in DOMAIN events : ~IsToolEvent(events[k])}

\* b may come right after a, tool events left out.
Follows(a, b) ==
  CASE b.type = "step_start" ->
         IF b.n = 0 THEN a.type = "agent_start" \/ a = AgentError(TRUE)
                    ELSE a = StepEvent("step_finish", b.n - 1)
    [] b.type = "step_finish" -> a = StepEvent("step_start", b.n)
    [] b.type = "agent_finish" -> a = StepEvent("step_finish", b.n)
    [] b.type = "agent_error" -> a.type = "agent_error" => a.retryable \/ a = b
    [] b.type = "session_idle" -> a.type \in {"agent_finish", "agent_error"}
    [] OTHER -> FALSE

\* The call i is in the events, and only tool events have come since.
CallIsOpen(i, k) ==
  \E j \in 1 .. k : /\ events[j] = ToolEvent("tool_call", i)
                    /\ \A l \in j .. k : IsToolEvent(events[l])

\* A client can follow the events of a turn, with its fallbacks (README.md:227):
\* steps are counted from 0 in every attempt and do not overlap, only a
\* retryable error is followed by another attempt, agent_finish counts the
\* steps of the attempt that succeeded, one session_idle comes last, and a tool
\* result belongs to a call of the same step.
EventsFollow ==
  /\ \A j, k \in Milestones :
       j < k /\ (\A l \in j + 1 .. k - 1 : IsToolEvent(events[l]))
         => Follows(events[j], events[k])
  /\ \A k \in DOMAIN events :
       events[k].type = "tool_result" => CallIsOpen(events[k].id, k)

\* The tool results the client has seen of the last attempt, and the place of
\* each among them.
Shown ==
  {k \in DOMAIN events : /\ events[k].type = "tool_result"
                         /\ \A l \in k .. Len(events) : events[l].type # "agent_error"}
Place(k) == Cardinality({j \in Shown : j <= k})

Finished == \E k \in DOMAIN events : events[k].type = "agent_finish"
OnlySteers(n) == \A k \in 1 .. n : memory[k].role = "steer"

\* A turn enters working memory whole or not at all: when it succeeds its
\* prompt and the results of the attempt that succeeded, in the order the
\* client saw them and with their metadata; when it fails nothing but steer
\* messages (handlePromptStream, main.go:1382-1391).  And the spans of its
\* steps have all ended, those of failed attempts too (main.go:977).
TurnIsWhole ==
  /\ IF Finished
     THEN \E n \in DOMAIN memory :
            /\ OnlySteers(n - 1) /\ memory[n].role = "prompt"
            /\ Len(memory) = n + Cardinality(Shown)
            /\ \A k \in Shown : /\ memory[n + Place(k)] = Result(events[k].id)
                                /\ events[k].id \in meta
     ELSE OnlySteers(Len(memory))
  /\ phase \in {"idle", "done"} => spans = {}

-----------------------------------------------------------------------------
(* The inductive invariants, beside that of the hooks.                     *)

\* The last milestone is one of these.
LastIsIn(es) ==
  \E k \in Milestones : /\ events[k] \in es
                        /\ \A l \in k + 1 .. Len(events) : IsToolEvent(events[l])

\* What the events say is where the turn is.
EventsTellPhase ==
  /\ phase = "start" => events = <<>> /\ nsteps = 0
  /\ phase = "agent" /\ nsteps > 0 =>
       /\ nsteps = step + 1
       /\ LastIsIn({StepEvent(IF inStep THEN "step_start" ELSE "step_finish", step)})
  /\ phase = "agent" /\ nsteps = 0 =>
       ~inStep /\ LastIsIn({[type |-> "agent_start"], AgentError(TRUE)})
  /\ phase = "succeeded" => LastIsIn({StepEvent("step_finish", step)})
  /\ phase = "failed" => events # <<>> /\ Last(events).type = "agent_error"
  /\ phase = "idle" => LastIsIn({e \in Event : e.type \in {"agent_finish", "agent_error"}})

\* Tools run within a step, and their calls are the last thing in the events.
ToolsAreOfStep ==
  /\ inStep => phase = "agent"
  /\ ~inStep => stage = "idle" /\ served = Len(asked)
  /\ \A i \in served + 1 .. Len(asked) : CallIsOpen(i, Len(events))

SpansAreActive ==
  /\ spans \subseteq active
  /\ active = {} \/ \E span \in Span : active = {span}
  /\ phase \in {"idle", "done"} => active = {}

\* Until the turn ends, the results carried are those shown.
ResultsAreShown ==
  /\ phase \in {"start", "agent", "succeeded"} =>
       /\ Len(produced) = Cardinality(Shown)
       /\ \A k \in Shown : produced[Place(k)] = events[k].id /\ events[k].id \in meta
  /\ phase \notin {"idle", "done"} => ~Finished

SInv ==
  /\ TypeOK /\ EventsTellPhase /\ ToolsAreOfStep /\ SpansAreActive /\ ResultsAreShown
  /\ EventsFollow /\ TurnIsWhole
=============================================================================
