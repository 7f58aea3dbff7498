----------------------------- MODULE Conversation -----------------------------
(***************************************************************************)
(* The daemon's single conversation (main.go): sessionContext with its     *)
(* busy flag, cancel function, steer slot and emitter, the context         *)
(* injector, and the handlers that share them: handlePrompt,               *)
(* handlePromptStream, handleInternalPrompt behind the delegation trigger, *)
(* handleSteer and handleAbort.                                            *)
(*                                                                         *)
(* Every handler invocation is a goroutine with its own program counter;   *)
(* its steps are the critical sections of sessionContext.mu, of the        *)
(* injector and of WorkingMemory.mu.  Working memory appears as the list   *)
(* of messages appended in this lifetime: trimming its front is no subject *)
(* here.  A model call is an interval between two steps that ends in more  *)
(* steps, in success or in an error.                                       *)
(***************************************************************************)
EXTENDS Integers, Sequences, FiniteSets

CONSTANTS
  Turn,      \* handler invocations; an internal one is also its prompt
  Steer,     \* messages users post to /steer, each once
  MaxSteps,  \* bound on the steps of one agent call
  HasNATS,   \* newNATSOnlyEmitter returns an emitter
  none       \* no turn, no message

ASSUME ConversationAssumption ==
  /\ MaxSteps \in Nat \ {0}
  /\ HasNATS \in BOOLEAN
  /\ Turn \cap Steer = {}
  /\ none \notin Turn \cup Steer

VARIABLES
  busy,       \* sc.busy
  cancel,     \* the turn whose cancel function sc.cancel holds
  steerMsg,   \* sc.steerMsg: one message at most
  emitter,    \* the turn whose emitter sc.emitter is
  injector,   \* the turn whose per-turn context the injector holds
  pc,         \* control point of each handler
  kind,       \* which handler the invocation runs
  cancelled,  \* turns whose context is done
  steps,      \* steps of the turn's agent call so far
  hand,       \* steer message popped and not yet appended
  seen,       \* length of the working memory snapshot in the agent call
  log,        \* messages appended to working memory
  sent,       \* user steer messages already posted
  aborted     \* whether /abort was called (history)

session == <<busy, cancel, steerMsg, emitter>>
clients == <<sent, aborted>>
vars == <<busy, cancel, steerMsg, emitter, injector, pc, kind, cancelled,
          steps, hand, seen, log, sent, aborted>>

Message == Turn \cup Steer

Entry == ({"user", "reply"} \X Turn) \cup ({"steer"} \X Message)

\* Control points of a handler that holds the conversation, in their order
HoldingPC ==
  {"admitted", "cancelSet", "emitterSet", "snapshot", "context", "stepping",
   "inject", "model", "append", "reply", "count", "failed", "finished",
   "announced", "injectorCleared", "emitterCleared"}

OtherPC == {"idle", "spawned", "refused", "steered", "done"}

Points == HoldingPC \cup OtherPC

Holding(t) == pc[t] \in HoldingPC

\* Turns with an emitter of their own
HasEmitter(t) == kind[t] = "stream" \/ (kind[t] = "internal" /\ HasNATS)

\* Turns that run the stream callbacks
Streams(t) == kind[t] \in {"stream", "internal"}

TypeOK ==
  /\ busy \in BOOLEAN
  /\ cancel \in Turn \cup {none}
  /\ steerMsg \in Message \cup {none}
  /\ emitter \in Turn \cup {none}
  /\ injector \in Turn \cup {none}
  /\ pc \in [Turn -> Points]
  /\ kind \in [Turn -> {"none", "prompt", "stream", "internal"}]
  /\ cancelled \in SUBSET Turn
  /\ steps \in [Turn -> 0 .. MaxSteps]
  /\ hand \in [Turn -> Message \cup {none}]
  /\ seen \in [Turn -> Nat]
  /\ log \in Seq(Entry)
  /\ sent \in SUBSET Steer
  /\ aborted \in BOOLEAN

Init ==
  /\ busy = FALSE
  /\ cancel = none
  /\ steerMsg = none
  /\ emitter = none
  /\ injector = none
  /\ pc = [t \in Turn |-> "idle"]
  /\ kind = [t \in Turn |-> "none"]
  /\ cancelled = {}
  /\ steps = [t \in Turn |-> 0]
  /\ hand = [t \in Turn |-> none]
  /\ seen = [t \in Turn |-> 0]
  /\ log = <<>>
  /\ sent = {}
  /\ aborted = FALSE

Goto(t, from, to) ==
  /\ pc[t] = from
  /\ pc' = [pc EXCEPT ![t] = to]

-------------------------------------------------------------------------------
(* Admission *)

\* Mutant: a handler enters whether or not the conversation is busy
AdmitAlways(t) ==
  /\ \E k \in {"prompt", "stream"} : kind' = [kind EXCEPT ![t] = k]
  /\ Goto(t, "idle", "admitted")
  /\ busy' = TRUE
  /\ UNCHANGED <<cancel, steerMsg, emitter, injector, cancelled, steps, hand,
                 seen, log, clients>>

\* POST /prompt and /prompt/stream: 429 while busy
Admit(t) ==
  /\ \E k \in {"prompt", "stream"} : kind' = [kind EXCEPT ![t] = k]
  /\ \/ busy /\ Goto(t, "idle", "refused") /\ UNCHANGED busy
     \/ ~busy /\ Goto(t, "idle", "admitted") /\ busy' = TRUE
  /\ UNCHANGED <<cancel, steerMsg, emitter, injector, cancelled, steps, hand,
                 seen, log, clients>>

\* The delegation trigger: steer when busy, else start a goroutine; the lock
\* is released in between
Trigger(t) ==
  /\ kind' = [kind EXCEPT ![t] = "internal"]
  /\ \/ busy /\ Goto(t, "idle", "steered") /\ steerMsg' = t
     \/ ~busy /\ Goto(t, "idle", "spawned") /\ UNCHANGED steerMsg
  /\ UNCHANGED <<busy, cancel, emitter, injector, cancelled, steps, hand, seen,
                 log, clients>>

\* Mutant: the goroutine relies on what the trigger saw
StartInternalAnyway(t) ==
  /\ Goto(t, "spawned", "admitted")
  /\ busy' = TRUE
  /\ UNCHANGED <<cancel, steerMsg, emitter, injector, kind, cancelled, steps,
                 hand, seen, log, clients>>

\* handleInternalPrompt looks again
StartInternal(t) ==
  /\ \/ busy /\ Goto(t, "spawned", "steered") /\ steerMsg' = t /\ UNCHANGED busy
     \/ ~busy /\ Goto(t, "spawned", "admitted") /\ busy' = TRUE /\ UNCHANGED steerMsg
  /\ UNCHANGED <<cancel, emitter, injector, kind, cancelled, steps, hand, seen,
                 log, clients>>

-------------------------------------------------------------------------------
(* A turn *)

SetCancel(t) ==
  /\ Goto(t, "admitted", "cancelSet")
  /\ cancel' = t
  /\ UNCHANGED <<busy, steerMsg, emitter, injector, kind, cancelled, steps,
                 hand, seen, log, clients>>

SetEmitter(t) ==
  /\ Goto(t, "cancelSet", "emitterSet")
  /\ emitter' = IF HasEmitter(t) THEN t ELSE emitter
  /\ UNCHANGED <<busy, cancel, steerMsg, injector, kind, cancelled, steps,
                 hand, seen, log, clients>>

\* messages := memory.Messages()
Snapshot(t) ==
  /\ Goto(t, "emitterSet", "snapshot")
  /\ seen' = [seen EXCEPT ![t] = Len(log)]
  /\ UNCHANGED <<session, injector, kind, cancelled, steps, hand, log, clients>>

\* After FetchContext, an HTTP call
SetInjector(t) ==
  /\ Goto(t, "snapshot", "context")
  /\ injector' = t
  /\ UNCHANGED <<session, kind, cancelled, steps, hand, seen, log, clients>>

\* TrimToTokenBudget: a trim takes a new snapshot
Fit(t) ==
  /\ Goto(t, "context", "stepping")
  /\ \E n \in {seen[t], Len(log)} : seen' = [seen EXCEPT ![t] = n]
  /\ UNCHANGED <<session, injector, kind, cancelled, steps, hand, log, clients>>

\* OnStepStart pops the steer slot; the non-streaming call has no callbacks
StepStart(t) ==
  /\ steps[t] < MaxSteps
  /\ steps' = [steps EXCEPT ![t] = @ + 1]
  /\ \/ /\ Streams(t)
        /\ Goto(t, "stepping", "inject")
        /\ hand' = [hand EXCEPT ![t] = steerMsg]
        /\ steerMsg' = none
     \/ /\ ~Streams(t)
        /\ Goto(t, "stepping", "model")
        /\ UNCHANGED <<hand, steerMsg>>
  /\ UNCHANGED <<busy, cancel, emitter, injector, kind, cancelled, seen, log, clients>>

\* Mutant: an empty slot is appended too
InjectAnything(t) ==
  /\ Goto(t, "inject", "model")
  /\ log' = Append(log, <<"steer", hand[t]>>)
  /\ hand' = [hand EXCEPT ![t] = none]
  /\ UNCHANGED <<session, injector, kind, cancelled, steps, seen, clients>>

\* ... and appends it to working memory
InjectSteer(t) ==
  /\ Goto(t, "inject", "model")
  /\ log' = IF hand[t] = none THEN log ELSE Append(log, <<"steer", hand[t]>>)
  /\ hand' = [hand EXCEPT ![t] = none]
  /\ UNCHANGED <<session, injector, kind, cancelled, steps, seen, clients>>

\* Mutant: the error path leaves the handler without its deferred calls
StepEndLeaves(t) ==
  /\ \/ Goto(t, "model", "stepping") /\ steps[t] < MaxSteps /\ t \notin cancelled
     \/ Goto(t, "model", "append")
     \/ Goto(t, "model", "done")
  /\ UNCHANGED <<session, injector, kind, cancelled, steps, hand, seen, log, clients>>

\* The step ends: another one follows, the call returns, or it fails, as it
\* does when its context is done before the model has answered
StepEnd(t) ==
  /\ \/ Goto(t, "model", "stepping") /\ steps[t] < MaxSteps /\ t \notin cancelled
     \/ Goto(t, "model", "append")
     \/ Goto(t, "model", "failed")
  /\ UNCHANGED <<session, injector, kind, cancelled, steps, hand, seen, log, clients>>

AppendUser(t) ==
  /\ Goto(t, "append", "reply")
  /\ log' = Append(log, <<"user", t>>)
  /\ UNCHANGED <<session, injector, kind, cancelled, steps, hand, seen, clients>>

Replies(t) == Cardinality({i \in DOMAIN log : log[i] = <<"reply", t>>})

\* One Append per step of the result
AppendReply(t) ==
  /\ Replies(t) < steps[t]
  /\ Goto(t, "reply", IF Replies(t) + 1 = steps[t] THEN "count" ELSE "reply")
  /\ log' = Append(log, <<"reply", t>>)
  /\ UNCHANGED <<session, injector, kind, cancelled, steps, hand, seen, clients>>

\* CompleteTurn, model and step counts
CompleteTurn(t) ==
  /\ Goto(t, "count", "finished")
  /\ UNCHANGED <<session, injector, kind, cancelled, steps, hand, seen, log, clients>>

\* Mutant: busy is cleared together with the announcement
AnnounceAndFree(t) ==
  /\ Goto(t, "finished", "announced") \/ Goto(t, "failed", "announced")
  /\ busy' = FALSE
  /\ UNCHANGED <<cancel, steerMsg, emitter, injector, kind, cancelled, steps,
                 hand, seen, log, clients>>

\* session_idle, or the HTTP answer of /prompt
Announce(t) ==
  /\ Goto(t, "finished", "announced") \/ Goto(t, "failed", "announced")
  /\ UNCHANGED <<session, injector, kind, cancelled, steps, hand, seen, log, clients>>

\* The deferred calls, last deferred first
ClearInjector(t) ==
  /\ Goto(t, "announced", "injectorCleared")
  /\ injector' = none
  /\ UNCHANGED <<session, kind, cancelled, steps, hand, seen, log, clients>>

ClearEmitter(t) ==
  /\ Goto(t, "injectorCleared", "emitterCleared")
  /\ emitter' = IF HasEmitter(t) THEN none ELSE emitter
  /\ UNCHANGED <<busy, cancel, steerMsg, injector, kind, cancelled, steps,
                 hand, seen, log, clients>>

\* Mutant: the cancel function stays behind
ReleaseKeepingCancel(t) ==
  /\ Goto(t, "emitterCleared", "done")
  /\ cancelled' = cancelled \cup {t}
  /\ busy' = FALSE
  /\ UNCHANGED <<cancel, steerMsg, emitter, injector, kind, steps, hand, seen, log, clients>>

Release(t) ==
  /\ Goto(t, "emitterCleared", "done")
  /\ cancelled' = cancelled \cup {t}
  /\ busy' = FALSE
  /\ cancel' = none
  /\ UNCHANGED <<steerMsg, emitter, injector, kind, steps, hand, seen, log, clients>>

-------------------------------------------------------------------------------
(* Users *)

\* POST /steer overwrites the slot
PostSteer(m) ==
  /\ m \notin sent
  /\ sent' = sent \cup {m}
  /\ steerMsg' = m
  /\ UNCHANGED <<busy, cancel, emitter, injector, pc, kind, cancelled, steps,
                 hand, seen, log, aborted>>

\* DELETE /abort: cancel what sc.cancel holds, and clear busy
Abort ==
  /\ aborted' = TRUE
  /\ cancelled' = IF cancel = none THEN cancelled ELSE cancelled \cup {cancel}
  /\ busy' = FALSE
  /\ UNCHANGED <<cancel, steerMsg, emitter, injector, pc, kind, steps, hand,
                 seen, log, sent>>

-------------------------------------------------------------------------------
\* What the turn's goroutine does once its handler has been entered
Run(t) ==
  \/ StartInternal(t) \/ SetCancel(t) \/ SetEmitter(t) \/ Snapshot(t)
  \/ SetInjector(t) \/ Fit(t) \/ StepStart(t) \/ InjectSteer(t) \/ StepEnd(t)
  \/ AppendUser(t) \/ AppendReply(t) \/ CompleteTurn(t) \/ Announce(t)
  \/ ClearInjector(t) \/ ClearEmitter(t) \/ Release(t)

Next ==
  \/ \E t \in Turn : Admit(t) \/ Trigger(t) \/ Run(t)
  \/ \E m \in Steer : PostSteer(m)
  \/ Abort

Spec == Init /\ [][Next]_vars

\* The Go scheduler runs every handler, and every model call ends
FairSpec == Spec /\ \A t \in Turn : WF_vars(Run(t))

-------------------------------------------------------------------------------
(* Properties *)

\* "Returns 429 if busy": one turn holds the conversation at a time, and busy
\* says whether one does.
Exclusive ==
  /\ \A t, u \in Turn : Holding(t) /\ Holding(u) => t = u
  /\ busy <=> \E t \in Turn : Holding(t)

\* Until a client calls /abort the conversation is exclusive: the internal
\* handler's second look at busy closes the gap between the trigger's look
\* and the goroutine's start.
OneTurnAtATime == ~aborted => Exclusive

\* Until then, between SetInjector and the deferred Clear a turn's steps find
\* the turn's own memory and resource context in the injector.
OwnContext ==
  ~aborted => \A t \in Turn :
    pc[t] \in {"context", "stepping", "inject", "model"} => injector = t

\* Until then, "current SSE emitter (set during streaming)": from the moment a
\* turn sets its emitter until its last step ends, permission and question
\* gates find that emitter.
OwnEmitter ==
  ~aborted => \A t \in Turn :
    HasEmitter(t) /\ pc[t] \in {"emitterSet", "snapshot", "context", "stepping", "inject", "model"}
      => emitter = t

\* Until then a turn finds its own context and its own emitter.
OwnSession == OwnContext /\ OwnEmitter

\* Until then, working memory holds every turn as one block: its prompt and
\* then its replies, with no steer message or other turn in between.
TurnsAreContiguous ==
  ~aborted => \A i \in DOMAIN log : log[i][1] = "reply" =>
    i > 1 /\ log[i - 1] \in {<<"user", log[i][2]>>, <<"reply", log[i][2]>>}

\* When no handler holds the conversation, whatever was aborted or overlapped,
\* the next prompt is admitted and finds no cancel function, emitter or
\* injected context of an earlier turn.
QuietMeansClean ==
  (\A t \in Turn : ~Holding(t)) =>
    ~busy /\ cancel = none /\ emitter = none /\ injector = none

\* What the session holds belongs to a turn that has yet to give it back
CancelPC == HoldingPC \ {"admitted"}
EmitterPC == CancelPC \ {"cancelSet", "emitterCleared"}
InjectorPC == EmitterPC \ {"emitterSet", "snapshot", "injectorCleared"}

HeldIsOwned ==
  /\ busy => \E t \in Turn : Holding(t)
  /\ cancel # none => pc[cancel] \in CancelPC
  /\ emitter # none => pc[emitter] \in EmitterPC /\ HasEmitter(emitter)
  /\ injector # none => pc[injector] \in InjectorPC

\* The conversation does not stay busy: no interleaving of handlers, callbacks
\* and aborts leaves the daemon answering 429 for ever.
NeverStuckBusy == busy ~> ~busy

\* A callback that was queued as a steer message is in the slot, on its way
\* into working memory, or there.
QueuedCallbackKept ==
  \A t \in Turn : pc[t] = "steered" =>
    \/ steerMsg = t
    \/ \E u \in Turn : hand[u] = t
    \/ \E i \in DOMAIN log : log[i] = <<"steer", t>>

===============================================================================
