---------------------------- MODULE WorkingMemory ----------------------------
(***************************************************************************)
(* The conversation's working memory (memory.go) with the pre-flight       *)
(* budget it is trimmed to (budget.go) and its checkpoint file             *)
(* (checkpoint.go), over several lifetimes of the daemon.                  *)
(*                                                                         *)
(* Turns follow one another here: Conversation says when they do.  A turn  *)
(* trims the memory, runs steps of the agent call, which may bring tool    *)
(* metadata and steer messages, and is appended when the call succeeds.    *)
(* A message is its role, the tool calls it makes or answers, and its      *)
(* estimated tokens; what else a part holds the checkpoint carries along.  *)
(***************************************************************************)
EXTENDS Integers, Sequences

CONSTANTS
  Call,          \* tool call IDs
  Tokens,        \* estimates of a message, by role; each has an overhead
  BudgetTokens,  \* usable part of the context window
  FixedTokens,   \* system prompt and tool definitions
  TurnTokens,    \* estimates of memory context plus prompt
  MaxTurns,      \* bound on the turns begun
  MaxSteps,      \* bound on the steps of a turn
  MaxLives       \* bound on the lifetimes

Safe == {"user", "assistant"}

Role == Safe \cup {"tool"}

ASSUME WorkingMemoryAssumption ==
  /\ Tokens \in [Role -> SUBSET (Nat \ {0})] /\ TurnTokens \subseteq Nat
  /\ BudgetTokens \in Nat /\ FixedTokens \in Nat
  /\ MaxTurns \in Nat /\ MaxSteps \in Nat /\ MaxLives \in Nat \ {0}

VARIABLES
  messages,  \* wm.messages
  toolMeta,  \* keys of wm.toolMeta
  turnNum,   \* wm.turnNum
  file,      \* the checkpoint: at most one record
  up,        \* the daemon runs
  stage,     \* of the turn
  given,     \* messages the agent call got
  cost,      \* memory context and prompt of the turn
  steps,     \* steps the agent call has made
  made,      \* call IDs used so far
  stored,    \* calls whose metadata has come (history)
  turns,     \* turns begun (bound)
  lives      \* lifetimes begun (bound)

turnVars == <<stage, given, cost, steps>>
vars == <<messages, toolMeta, turnNum, file, up, stage, given, cost, steps,
          made, stored, turns, lives>>

Message ==
  {x \in [role : Role, calls : SUBSET Call, size : Nat \ {0}] :
     (x.role = "user" => x.calls = {}) /\ (x.role = "tool" => x.calls # {})}

\* One step of an agent call: its text and tool calls, and their results
Step == [calls : SUBSET Call, size : Tokens["assistant"], results : Tokens["tool"]]

Checkpoint == [messages : Seq(Message), toolMeta : SUBSET Call, turnNum : Nat]

TypeOK ==
  /\ messages \in Seq(Message)
  /\ toolMeta \in SUBSET Call
  /\ turnNum \in Nat
  /\ file \subseteq Checkpoint /\ \A c, d \in file : c = d
  /\ up \in BOOLEAN
  /\ stage \in {"idle", "running", "step", "append"}
  /\ given \in Seq(Message)
  /\ cost \in TurnTokens \cup {0}
  /\ steps \in Seq(Step)
  /\ made \in SUBSET Call
  /\ stored \in SUBSET Call
  /\ turns \in 0 .. MaxTurns
  /\ lives \in 1 .. MaxLives

Init ==
  /\ messages = <<>> /\ toolMeta = {} /\ turnNum = 0
  /\ file = {} /\ up = TRUE
  /\ stage = "idle" /\ given = <<>> /\ cost = 0 /\ steps = <<>>
  /\ made = {} /\ stored = {} /\ turns = 0 /\ lives = 1

-------------------------------------------------------------------------------
(* Estimates and trimming *)

EstimateMessageTokens(m) ==
  LET total[n \in 0 .. Len(m)] == IF n = 0 THEN 0 ELSE total[n - 1] + m[n].size
  IN  total[Len(m)]

\* What the fixed layers and the turn's own leave, clamped at zero
ConversationBudget(turnCost) ==
  LET rest == BudgetTokens - FixedTokens - turnCost IN IF rest < 0 THEN 0 ELSE rest

From(m, i) == SubSeq(m, i, Len(m))

CallsIn(m) == UNION {m[i].calls : i \in DOMAIN m}

\* Mutant: any message is a safe start
CutAnywhere(m) == DOMAIN m

\* Where the loop may leave the start of the window: at user and assistant
\* messages and, behind the last of them, anywhere
CutPoints(m) ==
  {i \in DOMAIN m : i = 1 \/ m[i].role \in Safe \/ \A j \in i .. Len(m) : m[j].role \notin Safe}

\* Mutant: one cut instead of a loop
TrimmedOnce(m, budget) ==
  IF m = <<>> \/ Len(m) = 1 \/ EstimateMessageTokens(m) <= budget THEN m
  ELSE From(m, CHOOSE i \in CutPoints(m) \ {1} : \A j \in CutPoints(m) \ {1} : i <= j)

\* The first of them from which on the messages fit; the last message stays
Trimmed(m, budget) ==
  LET fits(i) == i = Len(m) \/ EstimateMessageTokens(From(m, i)) <= budget
  IN  IF m = <<>> THEN m
      ELSE From(m, CHOOSE i \in CutPoints(m) :
                     fits(i) /\ \A j \in CutPoints(m) : fits(j) => i <= j)

\* The loop as it is written, by the index the window starts at
LoopTrim(m, budget) ==
  LET safeAfter(i) == {j \in i + 1 .. Len(m) : m[j].role \in Safe}
      next(i) == IF safeAfter(i) = {} THEN i + 1
                 ELSE CHOOSE j \in safeAfter(i) : \A k \in safeAfter(i) : j <= k
      start[i \in 1 .. Len(m)] ==
        IF EstimateMessageTokens(From(m, i)) > budget /\ i < Len(m)
        THEN start[next(i)] ELSE i
  IN  IF m = <<>> THEN m ELSE From(m, start[1])

\* pruneToolMeta, called when a message was dropped
Pruned(meta, m, was) == IF Len(m) < Len(was) THEN meta \cap CallsIn(m) ELSE meta

-------------------------------------------------------------------------------
(* A turn *)

UserMessage(n) == [role |-> "user", calls |-> {}, size |-> n]

\* Messages, UpdatePerTurn, TrimToTokenBudget, Messages again
BeginTurn ==
  /\ up /\ stage = "idle" /\ turns < MaxTurns
  /\ \E c \in TurnTokens :
       /\ cost' = c
       /\ messages' = Trimmed(messages, ConversationBudget(c))
  /\ toolMeta' = Pruned(toolMeta, messages', messages)
  /\ given' = messages'
  /\ steps' = <<>>
  /\ stage' = "running"
  /\ turns' = turns + 1
  /\ UNCHANGED <<turnNum, file, up, made, stored, lives>>

\* OnStepStart, with a steer message in the slot or without
StepStart ==
  /\ up /\ stage = "running" /\ Len(steps) < MaxSteps
  /\ \/ \E n \in Tokens["user"] : messages' = Append(messages, UserMessage(n))
     \/ UNCHANGED messages
  /\ stage' = "step"
  /\ UNCHANGED <<toolMeta, turnNum, file, up, given, cost, steps, made, stored, turns, lives>>

\* External: the model answers.  OnToolResult stores the metadata of those of
\* its tool calls that have some.
ModelAnswers ==
  /\ up /\ stage = "step"
  /\ \E x \in Step : \E withMeta \in SUBSET x.calls :
       /\ x.calls \cap made = {}
       /\ steps' = Append(steps, x)
       /\ made' = made \cup x.calls
       /\ stored' = stored \cup withMeta
       /\ toolMeta' = toolMeta \cup withMeta
  /\ stage' = "running"
  /\ UNCHANGED <<messages, turnNum, file, up, given, cost, turns, lives>>

EndTurn == stage' = "idle" /\ given' = <<>> /\ cost' = 0 /\ steps' = <<>>

\* The call fails: nothing is appended
FailTurn ==
  /\ up /\ stage \in {"running", "step"}
  /\ EndTurn
  /\ UNCHANGED <<messages, toolMeta, turnNum, file, up, made, stored, turns, lives>>

\* It succeeds: the prompt is appended first,
AppendUser ==
  /\ up /\ stage = "running" /\ steps # <<>>
  /\ \E n \in Tokens["user"] : messages' = Append(messages, UserMessage(n))
  /\ stage' = "append"
  /\ UNCHANGED <<toolMeta, turnNum, file, up, given, cost, steps, made, stored,
                 turns, lives>>

\* Mutant: a message for the results, also when there are none
StepMessagesAlways(x) ==
  <<[role |-> "assistant", calls |-> x.calls, size |-> x.size],
    [role |-> "tool", calls |-> x.calls, size |-> x.results]>>

\* step.Messages: the assistant's, and one with the results of its calls
StepMessages(x) ==
  LET answer == [role |-> "assistant", calls |-> x.calls, size |-> x.size]
      result == [role |-> "tool", calls |-> x.calls, size |-> x.results]
  IN  IF x.calls = {} THEN <<answer>> ELSE <<answer, result>>

\* then every step with one Append
AppendStep ==
  /\ up /\ stage = "append" /\ steps # <<>>
  /\ messages' = messages \o StepMessages(Head(steps))
  /\ steps' = Tail(steps)
  /\ UNCHANGED <<toolMeta, turnNum, file, up, stage, given, cost, made, stored,
                 turns, lives>>

CompleteTurn ==
  /\ up /\ stage = "append" /\ steps = <<>>
  /\ turnNum' = turnNum + 1
  /\ EndTurn
  /\ UNCHANGED <<messages, toolMeta, file, up, made, stored, turns, lives>>

-------------------------------------------------------------------------------
(* Lifetimes *)

\* On a signal, at any point of a turn: replace the file, or remove it when
\* there is nothing to keep; a failed write leaves it as it is.
SaveCheckpoint ==
  /\ up /\ lives < MaxLives    \* no lifetime reads the last one's file
  /\ file' \in {file, IF messages = <<>> THEN {}
                      ELSE {[messages |-> messages, toolMeta |-> toolMeta, turnNum |-> turnNum]}}
  /\ UNCHANGED <<messages, toolMeta, turnNum, up, turnVars, made, stored, turns, lives>>

\* The process ends, after a save or not
Exit ==
  /\ up /\ up' = FALSE
  /\ messages' = <<>> /\ toolMeta' = {} /\ turnNum' = 0
  /\ EndTurn
  /\ UNCHANGED <<file, made, stored, turns, lives>>

\* Mutant: the metadata is not taken over
RestoreMessagesOnly ==
  /\ ~up /\ lives < MaxLives
  /\ up' = TRUE /\ lives' = lives + 1
  /\ \A c \in file : messages' = c.messages /\ turnNum' = c.turnNum
  /\ file = {} => UNCHANGED <<messages, turnNum>>
  /\ file' = {}
  /\ UNCHANGED <<toolMeta, turnVars, made, stored, turns>>

\* A daemon with a memory section restores the checkpoint and removes it
RestoreCheckpoint ==
  /\ ~up /\ lives < MaxLives
  /\ up' = TRUE /\ lives' = lives + 1
  /\ \A c \in file : messages' = c.messages /\ toolMeta' = c.toolMeta /\ turnNum' = c.turnNum
  /\ file = {} => UNCHANGED <<messages, toolMeta, turnNum>>
  /\ file' = {}
  /\ UNCHANGED <<turnVars, made, stored, turns>>

-------------------------------------------------------------------------------
Next ==
  \/ BeginTurn \/ StepStart \/ ModelAnswers \/ FailTurn
  \/ AppendUser \/ AppendStep \/ CompleteTurn
  \/ SaveCheckpoint \/ Exit \/ RestoreCheckpoint

Spec == Init /\ [][Next]_vars

-------------------------------------------------------------------------------
(* Properties *)

\* What goes to the model fits the budget by the estimates, the fixed layers
\* included, unless a single message is left (the two layers of budget.go's
\* header: trim before sending, stop afterwards).
PreflightFits ==
  stage \in {"running", "step"} =>
    \/ EstimateMessageTokens(given) + FixedTokens + cost <= BudgetTokens
    \/ Len(given) <= 1

\* The result of message i answers calls of an earlier assistant message
Answers(m, i) == \E j \in 1 .. i - 1 : m[j].role = "assistant" /\ m[i].calls \subseteq m[j].calls

Orphans(m) == {i \in DOMAIN m : m[i].role = "tool" /\ ~Answers(m, i)}

\* A trim leaves a tool result without its call only when that result is all
\* it can keep.
OrphanedOnlyAlone ==
  [][Len(messages') < Len(messages) /\ Orphans(messages') # {} => Len(messages') = 1]_vars

\* The window kept is the one the loop of TrimToTokenBudget arrives at
TrimMatchesLoop ==
  [][BeginTurn => messages' = LoopTrim(messages, ConversationBudget(cost'))]_vars

\* A tool result in the conversation keeps the metadata its tool has given,
\* through trims, saves and restores: GET /working-memory shows it with it.
ResultsKeepMeta ==
  \A i \in DOMAIN messages : messages[i].role = "tool" => messages[i].calls \cap stored \subseteq toolMeta

-------------------------------------------------------------------------------
(* The inductive invariant *)

\* A result comes right behind the message that makes its calls, unless a trim
\* has cut between them: then it is the first.
ResultsFollowCalls(m) ==
  \A i \in DOMAIN m : m[i].role = "tool" =>
    i = 1 \/ (m[i - 1].role = "assistant" /\ m[i].calls = m[i - 1].calls)

\* What the metadata has to cover of messages or steps: the calls are used ones,
\* so that none of them gets metadata later.
CallsCovered(m, meta) == CallsIn(m) \subseteq made /\ CallsIn(m) \cap stored \subseteq meta

IInv ==
  /\ TypeOK
  /\ ~up => messages = <<>> /\ steps = <<>>
  /\ stored \subseteq made
  /\ ResultsFollowCalls(messages) /\ CallsCovered(messages, toolMeta)
  /\ CallsCovered(steps, toolMeta)
  /\ \A c \in file : ResultsFollowCalls(c.messages) /\ CallsCovered(c.messages, c.toolMeta)
  /\ PreflightFits

===============================================================================
