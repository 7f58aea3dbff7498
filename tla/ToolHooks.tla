------------------------------ MODULE ToolHooks -------------------------------
(***************************************************************************)
(* The wrapper around every tool (hookWrappedTool.Run in src/hooks.go):    *)
(* it refuses blocked commands and paths, runs the tool, truncates its     *)
(* answer, and records violations, audits and captured results in the      *)
(* memory service.  Each record is posted by a goroutine of its own that   *)
(* nobody waits for, so posts arrive in any order, late, or never.         *)
(*                                                                         *)
(* The wrapped tools run one after the other, in the order of the calls.   *)
(* Looking up context before a call changes nothing but its span.          *)
(***************************************************************************)
EXTENDS Naturals, Sequences, FiniteSets

CONSTANTS
  Tool,          \* names of tools
  Bash,          \* the tool whose command is inspected
  Audited,       \* toolHooks.auditTools
  Captured,      \* tools with one of toolHooks.memorySaveRules
  HasMemory,     \* engram # nil
  Asks,          \* the calls the model makes: a tool and what its input holds
  MaxToolCalls,  \* bound on the tool calls
  NoTopic        \* an observation without topic_key

\* What the arguments of a call hold: a pattern of blockedCommands as the
\* command, a path outside allowedPaths, or neither.
Input == {"plain", "blocked_command", "path_denied"}

Id == 1 .. MaxToolCalls
ToolCall == [tool : Tool, input : Input]

AuditTopic(tool) == <<"audit", tool>>
SecurityTopic(violation) == <<"security", violation>>
Topic == {AuditTopic(t) : t \in Audited}
         \cup {SecurityTopic(v) : v \in Input \ {"plain"}}
Post == [topic : Topic \cup {NoTopic}, call : Id]

ASSUME ToolHooksAssumption ==
  /\ Bash \in Tool /\ Audited \subseteq Tool /\ Captured \subseteq Tool
  /\ Asks \subseteq ToolCall
  /\ HasMemory \in BOOLEAN
  /\ MaxToolCalls \in Nat
  /\ NoTopic \notin Topic

VARIABLES
  asked,    \* the tool calls of the model, in order
  served,   \* how many of them are over
  stage,    \* where the wrapper of the next one is
  ran,      \* calls whose inner tool ran
  refused,  \* calls that were refused
  flying,   \* posts on their way to the memory service
  stored,   \* the call each topic of the memory service is a record of
  saved,    \* calls recorded without a topic
  raced,    \* topics posted to while an earlier post was on its way (history)
  lost      \* topics of posts that failed (history)

storeVars == <<stored, saved, lost>>
hookVars == <<asked, served, stage, ran, refused, flying, stored, saved,
              raced, lost>>

HookTypeOK ==
  /\ asked \in Seq(ToolCall) /\ Len(asked) <= MaxToolCalls
  /\ served \in 0 .. Len(asked)
  /\ stage \in {"idle", "ran", "returned"}
  /\ ran \subseteq Id /\ refused \subseteq Id /\ saved \subseteq Id
  /\ flying \subseteq Post
  /\ stored \in [Topic -> Id \cup {0}]
  /\ raced \subseteq Topic /\ lost \subseteq Topic

HookInit ==
  /\ asked = <<>> /\ served = 0 /\ stage = "idle"
  /\ ran = {} /\ refused = {} /\ flying = {}
  /\ stored = [t \in Topic |-> 0]
  /\ saved = {} /\ raced = {} /\ lost = {}

Current == served + 1
Pending == served < Len(asked)

\* Starts a goroutine for each post; without memory there is none.
Send(topics) ==
  IF HasMemory
  THEN /\ flying' = flying \cup {[topic |-> t, call |-> Current] : t \in topics}
       /\ raced' = raced \cup {t \in topics \ {NoTopic} :
                                 \E p \in flying : p.topic = t}
  ELSE UNCHANGED <<flying, raced>>

\* The violation the first failing check finds: the command of bash is looked
\* at before the path of any tool.
Violation(c) ==
  IF c.input = "blocked_command" /\ c.tool # Bash THEN "plain" ELSE c.input

\* Mutant: a violation is refused without a record
RefuseWithoutRecord ==
  /\ stage = "idle" /\ Pending
  /\ Violation(asked[Current]) # "plain"
  /\ refused' = refused \cup {Current}
  /\ stage' = "returned"
  /\ UNCHANGED <<asked, served, ran, flying, raced, storeVars>>

\* Run, up to an early return with an error for the model.
RefuseCall ==
  /\ stage = "idle" /\ Pending
  /\ Violation(asked[Current]) # "plain"
  /\ Send({SecurityTopic(Violation(asked[Current]))})
  /\ refused' = refused \cup {Current}
  /\ stage' = "returned"
  /\ UNCHANGED <<asked, served, ran, storeVars>>

\* Run, up to the return of the inner tool, whatever it answers.
RunInner ==
  /\ stage = "idle" /\ Pending
  /\ Violation(asked[Current]) = "plain"
  /\ ran' = ran \cup {Current}
  /\ stage' = "ran"
  /\ UNCHANGED <<asked, served, refused, flying, raced, storeVars>>

\* Mutant: only calls that match the rule of the tool are audited
AuditIfMatched ==
  /\ stage = "ran"
  /\ LET tool == asked[Current].tool
     IN \E matches \in BOOLEAN :
          Send(IF matches /\ tool \in Audited THEN {AuditTopic(tool)} ELSE {})
  /\ stage' = "returned"
  /\ UNCHANGED <<asked, served, ran, refused, storeVars>>

\* The rule of a tool captures a result when it matches the arguments and the
\* truncated output; what is captured has no topic key.
Capture(tool, matches) == IF matches /\ tool \in Captured THEN {NoTopic} ELSE {}

\* The audit of a call, failed or not, and the capture of its result.
AfterHooks ==
  /\ stage = "ran"
  /\ LET tool == asked[Current].tool
         audit == IF tool \in Audited THEN {AuditTopic(tool)} ELSE {}
     IN \E matches \in BOOLEAN : Send(audit \cup Capture(tool, matches))
  /\ stage' = "returned"
  /\ UNCHANGED <<asked, served, ran, refused, storeVars>>

\* A post is applied: an observation with a topic replaces the last one.
Deliver(p) ==
  /\ p \in flying
  /\ flying' = flying \ {p}
  /\ IF p.topic = NoTopic
     THEN saved' = saved \cup {p.call} /\ UNCHANGED stored
     ELSE stored' = [stored EXCEPT ![p.topic] = p.call] /\ UNCHANGED saved
  /\ UNCHANGED <<asked, served, stage, ran, refused, raced, lost>>

\* A post fails, with or without effect; the warning in the log is all.
LosePost(p) ==
  /\ p \in flying
  /\ flying' = flying \ {p}
  /\ IF p.topic = NoTopic THEN UNCHANGED <<stored, lost>>
     ELSE /\ lost' = lost \cup {p.topic}
          /\ stored' \in {stored, [stored EXCEPT ![p.topic] = p.call]}
  /\ UNCHANGED <<asked, served, stage, ran, refused, saved, raced>>

Wrapper == RefuseCall \/ RunInner \/ AfterHooks
Posts == \E p \in flying : Deliver(p) \/ LosePost(p)

-----------------------------------------------------------------------------
(* Properties.                                                             *)

\* A call that violates the hooks never reaches its tool, nothing is audited
\* or captured of it, and with a memory service its violation is on record, on
\* its way or reported lost (hooks.go:109-150).
RefusedNeverRuns ==
  \A i \in refused :
    LET topic == SecurityTopic(Violation(asked[i]))
    IN /\ i \notin ran \cup saved
       /\ \A t \in Audited : stored[AuditTopic(t)] # i
       /\ HasMemory => \/ stored[topic] # 0 \/ topic \in lost
                       \/ [topic |-> topic, call |-> i] \in flying

AuditedCalls(t) ==
  {i \in ran : asked[i].tool = t /\ (i > served => stage = "returned")}

\* The audit of a tool is that of its latest call (hooks.go:284: "so the latest
\* call upserts"), once its posts have arrived, unless one was lost or two of
\* them were on their way at once: goroutines keep no order.
AuditLatest ==
  HasMemory =>
    \A t \in Audited :
      \/ AuditTopic(t) \in raced \cup lost
      \/ \E p \in flying : p.topic = AuditTopic(t)
      \/ \A i \in AuditedCalls(t) : i <= stored[AuditTopic(t)]
                                    /\ asked[stored[AuditTopic(t)]].tool = t
=============================================================================
