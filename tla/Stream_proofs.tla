----------------------------- MODULE Stream_proofs -----------------------------
(***************************************************************************)
(* Proofs about a streamed turn, for any tools, hooks, calls, steps and    *)
(* fallback models.  Of the hooks: what is refused stays refused and on    *)
(* record, and which call the audit of a tool shows.  Of the turn: its     *)
(* events can be followed, and it enters working memory whole or not at    *)
(* all, with the results the client saw.                                   *)
(***************************************************************************)
EXTENDS Stream, FiniteSetTheorems, SequenceTheorems, TLAPS

-----------------------------------------------------------------------------
(* The steps of a turn, as the hooks see them.                             *)

restVars == <<ran, refused, flying, raced, storeVars>>

\* The model asks for one more call.
Ask ==
  /\ Len(asked) < MaxToolCalls
  /\ \E c \in Asks : asked' = Append(asked, c)
  /\ UNCHANGED <<served, stage, restVars>>

\* The call that has returned is over.
Over ==
  /\ stage = "returned" /\ stage' = "idle"
  /\ served' = Current
  /\ UNCHANGED <<asked, restVars>>

\* The calls that have not begun are dropped.
Dropped ==
  /\ stage = "idle" /\ stage' = stage
  /\ served' = Len(asked)
  /\ UNCHANGED <<asked, restVars>>

HookSteps ==
  \/ Ask \/ Over \/ Dropped
  \/ RefuseCall \/ RunInner \/ AfterHooks
  \/ \E p \in flying : Deliver(p)
  \/ \E p \in flying : LosePost(p)
  \/ UNCHANGED hookVars

LEMMA NextIsHookStep ==
  ASSUME [Next]_vars
  PROVE  HookSteps
<1>1. CASE UNCHANGED vars
  BY <1>1 DEF vars, HookSteps
<1>2. CASE emitAgentStart \/ OnStepStart \/ OnStepFinish \/ AgentSucceeds
  BY <1>2 DEF emitAgentStart, OnStepStart, OnStepFinish, AgentSucceeds, HookSteps
<1>3. CASE TurnFails \/ TurnSucceeds \/ emitSessionIdle \/ Steer
  BY <1>3 DEF TurnFails, TurnSucceeds, emitSessionIdle, Steer, HookSteps
<1>4. CASE OnToolCall
  BY <1>4 DEF OnToolCall, HookSteps, Ask, restVars
<1>5. CASE RunTool
  BY <1>5 DEF RunTool, Wrapper, HookSteps
<1>6. CASE OnToolResult
  BY <1>6 DEF OnToolResult, HookSteps, Over, restVars
<1>7. CASE FallBack \/ \E r \in BOOLEAN : GiveUp(r)
  BY <1>7 DEF FallBack, GiveUp, AgentFails, HookSteps, Dropped, restVars
<1>8. CASE Deliveries
  BY <1>8 DEF Deliveries, Posts, HookSteps
<1> QED
  BY <1>1, <1>2, <1>3, <1>4, <1>5, <1>6, <1>7, <1>8 DEF Next

-----------------------------------------------------------------------------
(* Types, and where the calls are.                                         *)

\* A call has been refused or run only if it is over or is the one in the
\* wrapper.
Progress ==
  /\ stage # "idle" => Pending
  /\ \A i \in ran \cup refused : i <= served \/ (i = Current /\ stage # "idle")
  /\ stage = "ran" => Current \in ran

HInv == HookTypeOK /\ Progress

LEMMA TopicsDiffer ==
  /\ \A t \in Audited : AuditTopic(t) \in Topic /\ AuditTopic(t) # NoTopic
  /\ \A v \in Input \ {"plain"} : SecurityTopic(v) \in Topic /\ SecurityTopic(v) # NoTopic
  /\ \A t, v : AuditTopic(t) # SecurityTopic(v)
  /\ \A t, u : AuditTopic(t) = AuditTopic(u) => t = u
BY ToolHooksAssumption DEF Topic, AuditTopic, SecurityTopic

LEMMA CallsAreKnown ==
  ASSUME HInv
  PROVE  /\ ran \cup refused \subseteq DOMAIN asked
         /\ ran \cup refused \subseteq Nat \ {0}
         /\ Pending => Current \in DOMAIN asked /\ Current \in Id
         /\ served \in Nat /\ Len(asked) \in Nat
<1>1. /\ asked \in Seq(ToolCall) /\ served \in 0 .. Len(asked) /\ Len(asked) <= MaxToolCalls
      /\ Len(asked) \in Nat /\ DOMAIN asked = 1 .. Len(asked)
  BY DEF HInv, HookTypeOK
<1>2. Pending => Current \in 1 .. Len(asked) /\ Current \in Id
  BY <1>1, ToolHooksAssumption DEF Pending, Current, Id
<1>3. ran \cup refused \subseteq Nat \ {0}
  BY DEF HInv, HookTypeOK, Id
<1>4. ASSUME NEW i \in ran \cup refused PROVE i \in 1 .. Len(asked)
  BY <1>1, <1>2, <1>3 DEF HInv, Progress
<1> QED
  BY <1>1, <1>2, <1>3, <1>4

\* What Send does, for topics of the current call.
LEMMA SendIsTyped ==
  ASSUME HInv, Pending, NEW topics \in SUBSET (Topic \cup {NoTopic}), Send(topics)
  PROVE  flying' \subseteq Post /\ raced' \subseteq Topic
<1>1. Current \in Id
  BY CallsAreKnown
<1> QED
  BY <1>1 DEF Send, HInv, HookTypeOK, Post

LEMMA HInvInitially ==
  ASSUME Init
  PROVE  HInv
<1>1. <<>> \in Seq(ToolCall) /\ Len(<<>>) = 0
  OBVIOUS
<1> QED
  BY <1>1, ToolHooksAssumption
  DEF Init, HookInit, HInv, HookTypeOK, Progress, Post, Topic, Pending, Id

LEMMA HInvPreserved ==
  ASSUME HInv, HookSteps
  PROVE  HInv'
<1> USE DEF HInv
<1>0. /\ asked \in Seq(ToolCall) /\ served \in 0 .. Len(asked)
      /\ Len(asked) \in Nat /\ served \in Nat
      /\ Pending => Current \in Id /\ Current <= Len(asked)
  <2>1. asked \in Seq(ToolCall) /\ served \in 0 .. Len(asked)
    BY DEF HookTypeOK
  <2>2. Pending => Current <= Len(asked)
    BY <2>1 DEF Pending, Current
  <2> QED
    BY <2>1, <2>2, CallsAreKnown
<1>1. CASE Ask
  <2>1. PICK c \in ToolCall : asked' = Append(asked, c)
    BY <1>1, ToolHooksAssumption DEF Ask
  <2>2. asked' \in Seq(ToolCall) /\ Len(asked') = Len(asked) + 1
    BY <1>0, <2>1
  <2> QED
    BY <1>0, <1>1, <2>2, ToolHooksAssumption
    DEF Ask, restVars, storeVars, HookTypeOK, Progress, Pending, Current
<1>2. CASE Over
  BY <1>0, <1>2 DEF Over, restVars, storeVars, HookTypeOK, Progress, Pending, Current, Id
<1>3. CASE Dropped
  BY <1>0, <1>3 DEF Dropped, restVars, storeVars, HookTypeOK, Progress, Pending, Current, Id
<1>4. CASE RefuseCall
  <2>1. Pending /\ Violation(asked[Current]) \in Input \ {"plain"}
    <3>1. asked[Current] \in ToolCall
      BY <1>0, <1>4, CallsAreKnown DEF RefuseCall
    <3> QED
      BY <1>4, <3>1 DEF RefuseCall, Violation, ToolCall, Input
  <2>2. flying' \subseteq Post /\ raced' \subseteq Topic
    BY <1>4, <2>1, SendIsTyped, TopicsDiffer DEF RefuseCall
  <2> QED
    BY <1>0, <1>4, <2>1, <2>2 DEF RefuseCall, storeVars, HookTypeOK, Progress, Pending, Current
<1>5. CASE RunInner
  BY <1>0, <1>5 DEF RunInner, storeVars, HookTypeOK, Progress, Pending, Current
<1>6. CASE AfterHooks
  <2>1. Pending
    BY <1>6 DEF AfterHooks, Progress
  <2>2. PICK topics \in SUBSET (Topic \cup {NoTopic}) : Send(topics)
    BY <1>6, TopicsDiffer DEF AfterHooks, Capture
  <2>3. flying' \subseteq Post /\ raced' \subseteq Topic
    BY <2>1, <2>2, SendIsTyped
  <2> QED
    BY <1>0, <1>6, <2>1, <2>3 DEF AfterHooks, storeVars, HookTypeOK, Progress, Pending, Current
<1>7. ASSUME NEW p \in flying, Deliver(p) \/ LosePost(p) PROVE HInv'
  <2>1. p.call \in Id /\ p.topic \in Topic \cup {NoTopic}
    BY DEF HookTypeOK, Post
  <2>2. /\ stored' \in [Topic -> Id \cup {0}] /\ saved' \subseteq Id /\ lost' \subseteq Topic
        /\ flying' \subseteq Post
    BY <1>7, <2>1 DEF Deliver, LosePost, HookTypeOK
  <2> QED
    BY <1>7, <2>2 DEF Deliver, LosePost, HookTypeOK, Progress, Pending, Current
<1>8. CASE UNCHANGED hookVars
  BY <1>8 DEF hookVars, HookTypeOK, Progress, Pending, Current
<1> QED
  BY <1>1, <1>2, <1>3, <1>4, <1>5, <1>6, <1>7, <1>8 DEF HookSteps

-----------------------------------------------------------------------------
(* Refusals.                                                               *)

\* The wrapper has decided by the violation of the call.
Judged ==
  /\ \A i \in refused : Violation(asked[i]) \in Input \ {"plain"}
  /\ \A i \in ran : Violation(asked[i]) = "plain"

\* Audits and captures are of calls that ran, on their way and at the service.
RecordsAreOfRan ==
  /\ saved \subseteq ran
  /\ \A t \in Audited : stored[AuditTopic(t)] \in ran \cup {0}
  /\ \A p \in flying : /\ p.call \in ran \cup refused
                       /\ \/ p.call \in ran
                          \/ \E v \in Input \ {"plain"} : p.topic = SecurityTopic(v)

\* Each violation is on record, on its way or reported lost.
ViolationsAreRecorded ==
  HasMemory =>
    \A i \in refused :
      LET topic == SecurityTopic(Violation(asked[i]))
      IN \/ stored[topic] # 0 \/ topic \in lost
         \/ [topic |-> topic, call |-> i] \in flying

RInv == HInv /\ Judged /\ RecordsAreOfRan /\ ViolationsAreRecorded

\* A new call changes nothing about those before it.
LEMMA AskKeepsCalls ==
  ASSUME HInv, Ask
  PROVE  /\ \A i \in ran \cup refused : asked'[i] = asked[i]
         /\ UNCHANGED <<served, stage, restVars>>
<1>1. PICK c : asked' = Append(asked, c)
  BY DEF Ask
<1>2. asked \in Seq(ToolCall)
  BY DEF HInv, HookTypeOK
<1>3. \A i \in DOMAIN asked : asked'[i] = asked[i]
  BY <1>1, <1>2
<1> QED
  BY <1>3, CallsAreKnown DEF Ask

LEMMA JudgedPreserved ==
  ASSUME RInv, HookSteps
  PROVE  Judged'
<1> USE DEF RInv
<1>1. CASE Ask
  BY <1>1, AskKeepsCalls DEF Judged, restVars, Violation
<1>2. CASE Over \/ Dropped \/ UNCHANGED hookVars
  BY <1>2 DEF Over, Dropped, hookVars, restVars, Judged, Violation
<1>3. CASE RefuseCall
  <2>1. asked[Current] \in ToolCall
    BY <1>3, CallsAreKnown DEF RefuseCall, HInv, HookTypeOK
  <2>2. Violation(asked[Current]) \in Input \ {"plain"}
    BY <1>3, <2>1 DEF RefuseCall, Violation, ToolCall, Input
  <2> QED
    BY <1>3, <2>2 DEF RefuseCall, Judged, Violation
<1>4. CASE RunInner
  BY <1>4 DEF RunInner, Judged, Violation
<1>5. CASE AfterHooks
  BY <1>5 DEF AfterHooks, Judged, Violation
<1>6. ASSUME NEW p \in flying, Deliver(p) \/ LosePost(p) PROVE Judged'
  BY <1>6 DEF Deliver, LosePost, Judged, Violation
<1> QED
  BY <1>1, <1>2, <1>3, <1>4, <1>5, <1>6 DEF HookSteps

\* A post is either new or was on its way.
LEMMA NewPosts ==
  ASSUME NEW topics, Send(topics)
  PROVE  /\ flying \subseteq flying'
         /\ \A p \in flying' \ flying : p.call = Current /\ p.topic \in topics
         /\ HasMemory => \A t \in topics : [topic |-> t, call |-> Current] \in flying'
BY DEF Send

LEMMA RecordsPreserved ==
  ASSUME RInv, HookSteps
  PROVE  RecordsAreOfRan'
<1> USE DEF RInv
<1>1. CASE Ask \/ Over \/ Dropped \/ UNCHANGED hookVars
  BY <1>1, Zenon DEF Ask, Over, Dropped, hookVars, restVars, storeVars, RecordsAreOfRan
<1>2. CASE RefuseCall
  <2>1. asked[Current] \in ToolCall
    BY <1>2, CallsAreKnown DEF RefuseCall, HInv, HookTypeOK
  <2>2. Violation(asked[Current]) \in Input \ {"plain"}
    BY <1>2, <2>1 DEF RefuseCall, Violation, ToolCall, Input
  <2>3. \A p \in flying' \ flying :
          p.call = Current /\ p.topic = SecurityTopic(Violation(asked[Current]))
    BY <1>2, NewPosts DEF RefuseCall
  <2> QED
    BY <1>2, <2>2, <2>3 DEF RefuseCall, storeVars, RecordsAreOfRan
<1>3. CASE RunInner
  BY <1>3 DEF RunInner, storeVars, RecordsAreOfRan
<1>4. CASE AfterHooks
  <2>1. Current \in ran
    BY <1>4 DEF AfterHooks, HInv, Progress
  <2>2. PICK topics : Send(topics)
    BY <1>4 DEF AfterHooks
  <2>3. \A p \in flying' \ flying : p.call = Current
    BY <2>2, NewPosts
  <2> QED
    BY <1>4, <2>1, <2>3 DEF AfterHooks, storeVars, RecordsAreOfRan
<1>5. ASSUME NEW p \in flying, Deliver(p) \/ LosePost(p) PROVE RecordsAreOfRan'
  <2>1. /\ flying' \subseteq flying /\ ran' = ran /\ refused' = refused
        /\ saved' = saved \/ (p.topic = NoTopic /\ saved' = saved \cup {p.call})
        /\ stored' = stored \/ stored' = [stored EXCEPT ![p.topic] = p.call]
    BY <1>5 DEF Deliver, LosePost
  <2>2. p.topic = NoTopic => p.call \in ran
    BY TopicsDiffer DEF RecordsAreOfRan
  <2>3. ASSUME NEW t \in Audited PROVE stored'[AuditTopic(t)] \in ran \cup {0}
    <3>1. AuditTopic(t) \in DOMAIN stored
      BY TopicsDiffer DEF HInv, HookTypeOK
    <3>2. p.topic = AuditTopic(t) => p.call \in ran
      BY TopicsDiffer DEF RecordsAreOfRan
    <3> QED
      BY <2>1, <3>1, <3>2 DEF RecordsAreOfRan
  <2> QED
    BY <2>1, <2>2, <2>3 DEF RecordsAreOfRan
<1> QED
  BY <1>1, <1>2, <1>3, <1>4, <1>5 DEF HookSteps

LEMMA ViolationsPreserved ==
  ASSUME RInv, HookSteps
  PROVE  ViolationsAreRecorded'
<1> USE DEF RInv
<1> SUFFICES ASSUME HasMemory PROVE ViolationsAreRecorded'
  BY DEF ViolationsAreRecorded
<1> DEFINE topicOf(i) == SecurityTopic(Violation(asked[i]))
           known(i) == \/ stored[topicOf(i)] # 0 \/ topicOf(i) \in lost
                       \/ [topic |-> topicOf(i), call |-> i] \in flying
<1>0. \A i \in refused : known(i) /\ topicOf(i) \in Topic
  BY TopicsDiffer DEF ViolationsAreRecorded, Judged
<1>1. CASE Ask
  BY <1>0, <1>1, AskKeepsCalls DEF restVars, storeVars, ViolationsAreRecorded
<1>2. CASE Over \/ Dropped \/ UNCHANGED hookVars
  BY <1>0, <1>2 DEF Over, Dropped, hookVars, restVars, storeVars, ViolationsAreRecorded
<1>3. CASE RefuseCall
  <2>1. flying \subseteq flying' /\ [topic |-> topicOf(Current), call |-> Current] \in flying'
    BY <1>3, NewPosts DEF RefuseCall
  <2> QED
    BY <1>0, <1>3, <2>1 DEF RefuseCall, storeVars, ViolationsAreRecorded
<1>4. CASE RunInner
  BY <1>0, <1>4 DEF RunInner, storeVars, ViolationsAreRecorded
<1>5. CASE AfterHooks
  <2>1. flying \subseteq flying'
    BY <1>5, NewPosts DEF AfterHooks
  <2> QED
    BY <1>0, <1>5, <2>1 DEF AfterHooks, storeVars, ViolationsAreRecorded
<1>6. ASSUME NEW p \in flying, Deliver(p) \/ LosePost(p) PROVE ViolationsAreRecorded'
  <2>1. SUFFICES ASSUME NEW i \in refused
                 PROVE  \/ stored'[topicOf(i)] # 0 \/ topicOf(i) \in lost'
                        \/ [topic |-> topicOf(i), call |-> i] \in flying'
    BY <1>6 DEF Deliver, LosePost, ViolationsAreRecorded
  <2>2. /\ topicOf(i) \in Topic /\ topicOf(i) # NoTopic /\ p.call # 0
        /\ stored \in [Topic -> Id \cup {0}]
    <3>1. topicOf(i) \in Topic /\ topicOf(i) # NoTopic
      BY <1>0, ToolHooksAssumption
    <3>2. p.call # 0
      BY CallsAreKnown DEF RecordsAreOfRan
    <3> QED
      BY <3>1, <3>2 DEF HInv, HookTypeOK
  <2>3. /\ lost \subseteq lost' /\ flying' = flying \ {p}
        /\ stored' = stored \/ stored' = [stored EXCEPT ![p.topic] = p.call]
    BY <1>6 DEF Deliver, LosePost
  <2>4. stored[topicOf(i)] # 0 => stored'[topicOf(i)] # 0
    BY <2>2, <2>3
  <2>5. CASE p = [topic |-> topicOf(i), call |-> i]
    BY <1>6, <2>2, <2>5 DEF Deliver, LosePost
  <2> QED
    BY <1>0, <2>3, <2>4, <2>5
<1> QED
  BY <1>1, <1>2, <1>3, <1>4, <1>5, <1>6 DEF HookSteps

\* A call that violates the hooks never reaches its tool, nothing is audited or
\* captured of it, and its violation is recorded (hooks.go:109-150).
THEOREM RefusalsHold == Spec => []RefusedNeverRuns
<1>1. Init => RInv
  BY HInvInitially, TopicsDiffer
  DEF Init, HookInit, RInv, Judged, RecordsAreOfRan, ViolationsAreRecorded
<1>2. RInv /\ [Next]_vars => RInv'
  BY NextIsHookStep, HInvPreserved, JudgedPreserved, RecordsPreserved,
     ViolationsPreserved DEF RInv
<1>3. RInv => RefusedNeverRuns
  BY CallsAreKnown
  DEF RInv, Judged, RecordsAreOfRan, ViolationsAreRecorded, RefusedNeverRuns
<1> QED
  BY <1>1, <1>2, <1>3, PTL DEF Spec

-----------------------------------------------------------------------------
(* Audits.                                                                 *)

\* One post of a tool's topic is on its way at most, and it is of the tool's
\* latest call.
InOrder(t) ==
  /\ \A p, q \in flying : p.topic = AuditTopic(t) /\ q.topic = AuditTopic(t) => p = q
  /\ \A p \in flying : p.topic = AuditTopic(t) =>
       /\ p.call \in ran /\ asked[p.call].tool = t
       /\ \A i \in AuditedCalls(t) : i <= p.call

\* What AuditLatest says about one tool.
Latest(t) ==
  \/ AuditTopic(t) \in lost
  \/ \E p \in flying : p.topic = AuditTopic(t)
  \/ \A i \in AuditedCalls(t) : i <= stored[AuditTopic(t)]
                                /\ asked[stored[AuditTopic(t)]].tool = t

AuditsInOrder ==
  HasMemory => \A t \in Audited : AuditTopic(t) \in raced \/ (InOrder(t) /\ Latest(t))

AInv == RInv /\ AuditsInOrder

\* A step that posts nothing and delivers nothing keeps both, if it does not
\* change which calls of the tool are audited.
LEMMA SameAudits ==
  ASSUME RInv, NEW t \in Audited, InOrder(t), Latest(t),
         AuditedCalls(t)' = AuditedCalls(t),
         \A i \in ran : asked'[i] = asked[i],
         ran \subseteq ran', flying' = flying, UNCHANGED storeVars
  PROVE  InOrder(t)' /\ Latest(t)'
<1>1. InOrder(t)'
  BY DEF InOrder
<1>2. stored[AuditTopic(t)] \in ran \cup {0}
  BY DEF RInv, RecordsAreOfRan
<1>3. \A i \in AuditedCalls(t) : i <= stored[AuditTopic(t)] => stored[AuditTopic(t)] \in ran
  BY <1>2, CallsAreKnown DEF RInv, AuditedCalls
<1>4. Latest(t)'
  BY <1>3 DEF Latest, storeVars
<1> QED
  BY <1>1, <1>4

LEMMA AuditStep ==
  ASSUME RInv, HookSteps, HasMemory, NEW t \in Audited, InOrder(t), Latest(t)
  PROVE  AuditTopic(t) \in raced' \/ (InOrder(t)' /\ Latest(t)')
<1>0. /\ HInv /\ Progress /\ served \in Nat /\ Len(asked) \in Nat
      /\ served <= Len(asked)
      /\ \A i \in ran : i \in Nat /\ i <= Current
      /\ stage = "idle" => \A i \in ran : i <= served
  <2>1. HInv /\ served \in 0 .. Len(asked)
    BY DEF RInv, HInv, HookTypeOK
  <2> QED
    BY <2>1, CallsAreKnown DEF HInv, Progress, Current
<1>1. CASE Ask
  <2>1. /\ \A i \in ran : asked'[i] = asked[i]
        /\ ran' = ran /\ flying' = flying /\ UNCHANGED storeVars
        /\ served' = served /\ stage' = stage
    BY <1>0, <1>1, AskKeepsCalls DEF restVars
  <2>2. AuditedCalls(t)' = AuditedCalls(t)
    BY <2>1 DEF AuditedCalls
  <2> QED
    BY <2>1, <2>2, SameAudits
<1>2. CASE Over \/ Dropped
  <2>1. /\ asked' = asked /\ ran' = ran /\ flying' = flying /\ UNCHANGED storeVars
    BY <1>2 DEF Over, Dropped, restVars
  <2>2. AuditedCalls(t)' = AuditedCalls(t)
    <3>1. AuditedCalls(t) = {i \in ran : asked[i].tool = t}
      BY <1>0, <1>2 DEF Over, Dropped, AuditedCalls
    <3>2. served' \in Nat /\ \A i \in ran : i <= served'
      BY <1>0, <1>2 DEF Over, Dropped, Current
    <3>3. AuditedCalls(t)' = {i \in ran : asked[i].tool = t}
      BY <1>0, <2>1, <3>2 DEF AuditedCalls
    <3> QED
      BY <3>1, <3>3
  <2> QED
    BY <2>1, <2>2, SameAudits
<1>3. CASE UNCHANGED hookVars
  BY <1>3, SameAudits DEF hookVars, storeVars, AuditedCalls
<1>4. CASE RunInner
  <2>1. AuditedCalls(t)' = AuditedCalls(t)
    <3>1. Current \notin ran
      BY <1>0, <1>4 DEF RunInner, Current
    <3> QED
      BY <1>0, <1>4, <3>1 DEF RunInner, AuditedCalls, Current
  <2> QED
    BY <1>4, <2>1, SameAudits DEF RunInner
<1>5. CASE RefuseCall
  <2>1. AuditedCalls(t)' = AuditedCalls(t)
    BY <1>0, <1>5 DEF RefuseCall, AuditedCalls
  <2>2. /\ flying \subseteq flying'
        /\ \A p \in flying' : p.topic = AuditTopic(t) => p \in flying
    BY <1>5, NewPosts, TopicsDiffer DEF RefuseCall
  <2>3. InOrder(t)'
    BY <1>5, <2>1, <2>2 DEF InOrder, RefuseCall
  <2>4. Latest(t)'
    BY <1>5, <2>1, <2>2 DEF Latest, RefuseCall, storeVars
  <2> QED
    BY <2>3, <2>4
<1>6. CASE AfterHooks
  <2> DEFINE tool == asked[Current].tool
             new == [topic |-> AuditTopic(t), call |-> Current]
  <2>1. PICK matches \in BOOLEAN :
          Send((IF tool \in Audited THEN {AuditTopic(tool)} ELSE {}) \cup Capture(tool, matches))
    BY <1>6 DEF AfterHooks
  <2>2. /\ asked' = asked /\ ran' = ran /\ served' = served /\ UNCHANGED storeVars
        /\ stage = "ran" /\ stage' = "returned" /\ Current \in ran
    BY <1>0, <1>6 DEF AfterHooks, Progress
  <2>3. CASE tool # t
    <3>1. AuditedCalls(t)' = AuditedCalls(t)
      BY <1>0, <2>2, <2>3 DEF AuditedCalls, Current
    <3>2. /\ flying \subseteq flying'
          /\ \A p \in flying' : p.topic = AuditTopic(t) => p \in flying
      BY <2>1, <2>3, NewPosts, TopicsDiffer DEF Capture
    <3>3. InOrder(t)'
      BY <2>2, <3>1, <3>2 DEF InOrder
    <3>4. Latest(t)'
      BY <2>2, <3>1, <3>2 DEF Latest, storeVars
    <3> QED
      BY <3>3, <3>4
  <2>4. CASE tool = t /\ \E p \in flying : p.topic = AuditTopic(t)
    <3>1. PICK topics : AuditTopic(t) \in topics \ {NoTopic} /\ Send(topics)
      BY <2>1, <2>4, TopicsDiffer
    <3>2. AuditTopic(t) \in raced'
      BY <2>4, <3>1 DEF Send
    <3> QED
      BY <3>2
  <2>5. CASE tool = t /\ \A p \in flying : p.topic # AuditTopic(t)
    <3>1. new \in flying' /\ \A p \in flying' : p.topic = AuditTopic(t) => p = new
      BY <2>1, <2>5, TopicsDiffer DEF Send, Capture
    <3>2. \A i \in AuditedCalls(t)' : i <= Current
      BY <1>0, <2>2 DEF AuditedCalls
    <3>3. InOrder(t)'
      BY <2>2, <2>5, <3>1, <3>2 DEF InOrder
    <3>4. Latest(t)'
      BY <3>1 DEF Latest
    <3> QED
      BY <3>3, <3>4
  <2> QED
    BY <2>3, <2>4, <2>5
<1>7. ASSUME NEW p \in flying, Deliver(p) \/ LosePost(p)
      PROVE  InOrder(t)' /\ Latest(t)'
  <2>1. /\ asked' = asked /\ ran' = ran /\ served' = served /\ stage' = stage
        /\ flying' = flying \ {p} /\ lost \subseteq lost'
        /\ AuditTopic(t) \in DOMAIN stored /\ AuditTopic(t) # NoTopic
    BY <1>0, <1>7, TopicsDiffer DEF Deliver, LosePost, HInv, HookTypeOK
  <2>2. AuditedCalls(t)' = AuditedCalls(t)
    BY <2>1 DEF AuditedCalls
  <2>3. InOrder(t)'
    BY <2>1, <2>2 DEF InOrder
  <2>4. CASE p.topic = AuditTopic(t)
    <3>1. CASE LosePost(p)
      BY <2>1, <2>3, <2>4, <3>1 DEF LosePost, Latest
    <3>2. CASE Deliver(p)
      <4>1. stored'[AuditTopic(t)] = p.call
        BY <2>1, <2>4, <3>2 DEF Deliver
      <4> QED
        BY <2>1, <2>2, <2>3, <2>4, <4>1 DEF InOrder, Latest
    <3> QED
      BY <1>7, <3>1, <3>2
  <2>5. CASE p.topic # AuditTopic(t)
    <3>1. stored'[AuditTopic(t)] = stored[AuditTopic(t)]
      BY <1>7, <2>1, <2>5 DEF Deliver, LosePost
    <3>2. Latest(t)'
      BY <2>1, <2>2, <2>5, <3>1 DEF Latest
    <3> QED
      BY <2>3, <3>2
  <2> QED
    BY <2>3, <2>4, <2>5
<1> QED
  BY <1>1, <1>2, <1>3, <1>4, <1>5, <1>6, <1>7, Zenon DEF HookSteps

\* A topic that was posted to twice at once stays known for it.
LEMMA RacedStays ==
  ASSUME HookSteps
  PROVE  raced \subseteq raced'
BY DEF HookSteps, Ask, Over, Dropped, restVars, RefuseCall, RunInner, AfterHooks, Send,
       Deliver, LosePost, hookVars

\* The audit of a tool shows its latest call once its posts have arrived, unless
\* one was lost or two were on their way at once (hooks.go:283-314).
THEOREM AuditsAreLatest == Spec => []AuditLatest
<1>1. Init => AInv
  <2>1. Init => RInv
    BY HInvInitially, TopicsDiffer
    DEF Init, HookInit, RInv, Judged, RecordsAreOfRan, ViolationsAreRecorded
  <2>2. Init => AuditsInOrder
    BY DEF Init, HookInit, AuditsInOrder, InOrder, Latest, AuditedCalls
  <2> QED
    BY <2>1, <2>2 DEF AInv
<1>2. AInv /\ [Next]_vars => AInv'
  <2> SUFFICES ASSUME AInv, [Next]_vars PROVE AInv'
    OBVIOUS
  <2>1. HookSteps /\ RInv /\ RInv'
    BY NextIsHookStep, HInvPreserved, JudgedPreserved, RecordsPreserved,
       ViolationsPreserved DEF RInv, AInv
  <2>2. AuditsInOrder'
    BY <2>1, AuditStep, RacedStays DEF AInv, AuditsInOrder
  <2> QED
    BY <2>1, <2>2 DEF AInv
<1>3. AInv => AuditLatest
  BY DEF AInv, AuditsInOrder, Latest, AuditLatest
<1> QED
  BY <1>1, <1>2, <1>3, PTL DEF Spec

-----------------------------------------------------------------------------
(* What one more event does to what the events say.                        *)

LEMMA Emitted ==
  ASSUME events \in Seq(Event), NEW e, emit(e)
  PROVE  /\ Len(events) \in Nat /\ DOMAIN events = 1 .. Len(events)
         /\ Len(events') = Len(events) + 1
         /\ DOMAIN events' = 1 .. Len(events) + 1
         /\ \A k \in 1 .. Len(events) : events'[k] = events[k]
         /\ events'[Len(events) + 1] = e
BY DEF emit

\* The last milestone, if it is followed by e, is what comes right before e.
LEMMA EmitMilestone ==
  ASSUME events \in Seq(Event), EventsFollow,
         NEW e, emit(e), ~IsToolEvent(e),
         NEW es, events = <<>> \/ LastIsIn(es), \A a \in es : Follows(a, e)
  PROVE  /\ EventsFollow'
         /\ \E k \in Milestones' : /\ events'[k] = e
                                   /\ \A l \in k + 1 .. Len(events') : IsToolEvent(events'[l])
<1> PICK n : n = Len(events)
  OBVIOUS
<1>1. /\ n \in Nat /\ DOMAIN events = 1 .. n /\ Len(events') = n + 1
      /\ DOMAIN events' = 1 .. n + 1
      /\ \A k \in 1 .. n : events'[k] = events[k]
      /\ events'[n + 1] = e
  BY Emitted
<1>2. \A k \in Milestones' : k = n + 1 \/ (k \in Milestones /\ k \in 1 .. n)
  BY <1>1 DEF Milestones
<1>3. ASSUME NEW j \in Milestones', NEW k \in Milestones', j < k,
             \A l \in j + 1 .. k - 1 : IsToolEvent(events'[l])
      PROVE  Follows(events'[j], events'[k])
  <2>1. j \in Milestones /\ j \in 1 .. n
    BY <1>1, <1>2, <1>3
  <2>2. CASE k # n + 1
    <3>1. k \in Milestones /\ k \in 1 .. n
      BY <1>2, <2>2
    <3>2. \A l \in j + 1 .. k - 1 : l \in 1 .. n /\ IsToolEvent(events[l])
      BY <1>1, <1>3, <2>1, <3>1
    <3> QED
      BY <1>1, <1>3, <2>1, <3>1, <3>2 DEF EventsFollow
  <2>3. CASE k = n + 1
    <3>1. PICK m \in Milestones : /\ events[m] \in es
                                  /\ \A l \in m + 1 .. n : IsToolEvent(events[l])
      BY <1>1, <2>1 DEF LastIsIn
    <3>2. m \in 1 .. n /\ ~IsToolEvent(events[m]) /\ ~IsToolEvent(events[j])
      BY <1>1, <2>1, <3>1 DEF Milestones
    <3>3. ~ (j < m)
      <4> SUFFICES ASSUME j < m PROVE FALSE
        OBVIOUS
      <4>1. m \in j + 1 .. k - 1
        BY <1>1, <2>1, <2>3, <3>2
      <4> QED
        BY <1>1, <1>3, <3>2, <4>1
    <3>4. ~ (m < j)
      <4> SUFFICES ASSUME m < j PROVE FALSE
        OBVIOUS
      <4>1. j \in m + 1 .. n
        BY <1>1, <2>1, <3>2
      <4> QED
        BY <3>1, <3>2, <4>1
    <3>5. j = m
      BY <2>1, <3>2, <3>3, <3>4
    <3> QED
      BY <1>1, <2>1, <2>3, <3>1, <3>5
  <2> QED
    BY <2>2, <2>3
<1>4. ASSUME NEW k \in DOMAIN events', events'[k].type = "tool_result"
      PROVE  CallIsOpen(events[k].id, k)'
  <2>1. k \in 1 .. n
    BY <1>1, <1>4 DEF IsToolEvent
  <2>2. CallIsOpen(events[k].id, k)
    BY <1>1, <1>4, <2>1 DEF EventsFollow
  <2> QED
    BY <1>1, <2>1, <2>2 DEF CallIsOpen
<1>5. n + 1 \in Milestones' /\ events'[n + 1] = e
  BY <1>1 DEF Milestones
<1> QED
  BY <1>1, <1>3, <1>4, <1>5 DEF EventsFollow

\* A tool event is no milestone, and the open calls stay open.
LEMMA EmitTool ==
  ASSUME events \in Seq(Event), EventsFollow,
         NEW e, emit(e), IsToolEvent(e),
         e.type = "tool_result" => CallIsOpen(e.id, Len(events))
  PROVE  /\ EventsFollow'
         /\ \A es : LastIsIn(es) =>
              \E k \in Milestones' : /\ events'[k] \in es
                                     /\ \A l \in k + 1 .. Len(events') : IsToolEvent(events'[l])
         /\ \A i : CallIsOpen(i, Len(events)) => CallIsOpen(i, Len(events))'
<1> PICK n : n = Len(events)
  OBVIOUS
<1>1. /\ n \in Nat /\ DOMAIN events = 1 .. n /\ Len(events') = n + 1
      /\ DOMAIN events' = 1 .. n + 1
      /\ \A k \in 1 .. n : events'[k] = events[k]
      /\ events'[n + 1] = e
  BY Emitted
<1>2. Milestones' = Milestones /\ Milestones \subseteq 1 .. n
  BY <1>1 DEF Milestones
<1>3. ASSUME NEW i, NEW k \in 1 .. n, CallIsOpen(i, k) PROVE CallIsOpen(i, k)'
  BY <1>1, <1>3 DEF CallIsOpen
<1>4. ASSUME NEW i, CallIsOpen(i, n) PROVE CallIsOpen(i, n + 1)'
  <2>1. PICK j \in 1 .. n : /\ events[j] = ToolEvent("tool_call", i)
                            /\ \A l \in j .. n : IsToolEvent(events[l])
    BY <1>4 DEF CallIsOpen
  <2>2. \A l \in j .. n + 1 : IsToolEvent(events'[l])
    <3>1. \A l \in j .. n + 1 : l = n + 1 \/ (l \in j .. n /\ l \in 1 .. n)
      BY <1>1, <2>1
    <3> QED
      BY <1>1, <2>1, <3>1
  <2>3. j \in 1 .. n + 1 /\ events'[j] = ToolEvent("tool_call", i)
    BY <1>1, <2>1
  <2> QED
    BY <2>2, <2>3 DEF CallIsOpen
<1>5. EventsFollow'
  <2>1. ASSUME NEW j \in Milestones', NEW k \in Milestones', j < k,
               \A l \in j + 1 .. k - 1 : IsToolEvent(events'[l])
        PROVE  Follows(events'[j], events'[k])
    <3>1. \A l \in j + 1 .. k - 1 : l \in 1 .. n /\ IsToolEvent(events[l])
      BY <1>1, <1>2, <2>1
    <3> QED
      BY <1>1, <1>2, <2>1, <3>1 DEF EventsFollow
  <2>2. ASSUME NEW k \in DOMAIN events', events'[k].type = "tool_result"
        PROVE  CallIsOpen(events[k].id, k)'
    <3>1. CASE k \in 1 .. n
      BY <1>1, <1>3, <2>2, <3>1 DEF EventsFollow
    <3>2. CASE k = n + 1
      BY <1>1, <1>4, <2>2, <3>2
    <3> QED
      BY <1>1, <3>1, <3>2
  <2> QED
    BY <2>1, <2>2 DEF EventsFollow
<1>6. ASSUME NEW es, LastIsIn(es)
      PROVE  \E k \in Milestones' : /\ events'[k] \in es
                                    /\ \A l \in k + 1 .. Len(events') : IsToolEvent(events'[l])
  <2>1. PICK k \in Milestones : /\ events[k] \in es
                                /\ \A l \in k + 1 .. n : IsToolEvent(events[l])
    BY <1>6 DEF LastIsIn
  <2>2. \A l \in k + 1 .. n + 1 : IsToolEvent(events'[l])
    <3>1. \A l \in k + 1 .. n + 1 : l = n + 1 \/ (l \in k + 1 .. n /\ l \in 1 .. n)
      BY <1>1, <1>2
    <3> QED
      BY <1>1, <2>1, <3>1
  <2> QED
    BY <1>1, <1>2, <2>1, <2>2
<1>7. ASSUME NEW i, CallIsOpen(i, Len(events)) PROVE CallIsOpen(i, Len(events))'
  <2>1. CallIsOpen(i, n + 1)'
    BY <1>4, <1>7
  <2> QED
    BY <1>1, <2>1 DEF CallIsOpen
<1> QED
  BY <1>5, <1>6, <1>7

LEMMA ShownIsFinite ==
  ASSUME events \in Seq(Event)
  PROVE  /\ Shown \subseteq 1 .. Len(events) /\ IsFiniteSet(Shown)
         /\ Cardinality(Shown) \in Nat
         /\ \A k \in Shown : Place(k) \in 1 .. Cardinality(Shown)
<1>1. Shown \subseteq 1 .. Len(events) /\ Len(events) \in Nat
  BY DEF Shown
<1>2. IsFiniteSet(1 .. Len(events))
  BY <1>1, FS_Interval
<1>3. IsFiniteSet(Shown) /\ Cardinality(Shown) \in Nat
  BY <1>1, <1>2, FS_Subset, FS_CardinalityType
<1>4. ASSUME NEW k \in Shown PROVE Place(k) \in 1 .. Cardinality(Shown)
  <2> DEFINE before == {j \in Shown : j <= k}
  <2>1. before \subseteq Shown /\ k \in before
    BY <1>1
  <2>2. IsFiniteSet(before) /\ Cardinality(before) <= Cardinality(Shown)
    BY <1>3, <2>1, FS_Subset
  <2>3. Cardinality(before) \in Nat /\ Cardinality(before) # 0
    BY <2>1, <2>2, FS_CardinalityType, FS_EmptySet
  <2> QED
    BY <1>3, <2>2, <2>3 DEF Place
<1> QED
  BY <1>1, <1>3, <1>4

\* An event that is neither a result nor an error leaves the results shown.
LEMMA EmitOther ==
  ASSUME events \in Seq(Event), NEW e, emit(e), e.type \notin {"tool_result", "agent_error"}
  PROVE  /\ Shown' = Shown
         /\ \A k \in Shown : events'[k] = events[k]
         /\ \A k : Place(k)' = Place(k)
         /\ Finished' <=> Finished \/ e.type = "agent_finish"
<1> PICK n : n = Len(events)
  OBVIOUS
<1>1. /\ n \in Nat /\ DOMAIN events = 1 .. n /\ Len(events') = n + 1
      /\ DOMAIN events' = 1 .. n + 1
      /\ \A k \in 1 .. n : events'[k] = events[k]
      /\ events'[n + 1] = e
  BY Emitted
<1>2. ASSUME NEW k PROVE k \in Shown' <=> k \in Shown
  <2>1. CASE k \in 1 .. n
    <3>1. \A l \in k .. n + 1 : l = n + 1 \/ (l \in k .. n /\ l \in 1 .. n)
      BY <1>1, <2>1
    <3>2. \A l \in k .. n : l \in k .. n + 1 /\ l \in 1 .. n
      BY <1>1, <2>1
    <3> QED
      BY <1>1, <2>1, <3>1, <3>2 DEF Shown
  <2>2. CASE k \notin 1 .. n
    BY <1>1, <2>2 DEF Shown
  <2> QED
    BY <2>1, <2>2
<1>3. Shown' = Shown
  BY <1>2
<1>4. \A k \in Shown : events'[k] = events[k]
  BY <1>1 DEF Shown
<1>5. Finished' <=> Finished \/ e.type = "agent_finish"
  <2>1. \A k \in 1 .. n + 1 : k \in 1 .. n \/ k = n + 1
    BY <1>1
  <2>2. n + 1 \in 1 .. n + 1 /\ \A k \in 1 .. n : k \in 1 .. n + 1
    BY <1>1
  <2> QED
    BY <1>1, <2>1, <2>2 DEF Finished
<1> QED
  BY <1>3, <1>4, <1>5 DEF Place

\* After an error nothing counts as shown.
LEMMA EmitError ==
  ASSUME events \in Seq(Event), NEW e, emit(e), e.type = "agent_error"
  PROVE  Shown' = {} /\ (Finished' <=> Finished)
<1> PICK n : n = Len(events)
  OBVIOUS
<1>1. /\ n \in Nat /\ DOMAIN events = 1 .. n /\ Len(events') = n + 1
      /\ DOMAIN events' = 1 .. n + 1
      /\ \A k \in 1 .. n : events'[k] = events[k]
      /\ events'[n + 1] = e
  BY Emitted
<1>2. ASSUME NEW k \in Shown' PROVE FALSE
  <2>1. k \in 1 .. n + 1
    BY <1>1 DEF Shown
  <2>2. n + 1 \in k .. n + 1
    BY <1>1, <2>1
  <2> QED
    BY <1>1, <2>2 DEF Shown
<1>3. Finished' <=> Finished
  <2>1. \A k \in 1 .. n + 1 : k \in 1 .. n \/ k = n + 1
    BY <1>1
  <2>2. \A k \in 1 .. n : k \in 1 .. n + 1
    BY <1>1
  <2> QED
    BY <1>1, <2>1, <2>2 DEF Finished
<1> QED
  BY <1>2, <1>3

\* A result is shown after those before it.
LEMMA EmitResult ==
  ASSUME events \in Seq(Event), NEW e, emit(e), e.type = "tool_result"
  PROVE  /\ Shown' = Shown \cup {Len(events) + 1}
         /\ Cardinality(Shown') = Cardinality(Shown) + 1
         /\ \A k \in Shown : Place(k)' = Place(k) /\ events'[k] = events[k]
         /\ \A k : k = Len(events) + 1 => Place(k)' = Cardinality(Shown) + 1
         /\ events'[Len(events) + 1] = e
         /\ (Finished' <=> Finished)
<1> PICK n : n = Len(events)
  OBVIOUS
<1>1. /\ n \in Nat /\ DOMAIN events = 1 .. n /\ Len(events') = n + 1
      /\ DOMAIN events' = 1 .. n + 1
      /\ \A k \in 1 .. n : events'[k] = events[k]
      /\ events'[n + 1] = e
  BY Emitted
<1>2. ASSUME NEW k PROVE k \in Shown' <=> k \in Shown \/ k = n + 1
  <2>1. CASE k \in 1 .. n
    <3>1. \A l \in k .. n + 1 : l = n + 1 \/ (l \in k .. n /\ l \in 1 .. n)
      BY <1>1, <2>1
    <3>2. \A l \in k .. n : l \in k .. n + 1 /\ l \in 1 .. n
      BY <1>1, <2>1
    <3>3. k # n + 1
      BY <1>1, <2>1
    <3> QED
      BY <1>1, <2>1, <3>1, <3>2, <3>3 DEF Shown
  <2>2. CASE k = n + 1
    BY <1>1, <2>2 DEF Shown
  <2>3. CASE k \notin 1 .. n /\ k # n + 1
    BY <1>1, <2>3 DEF Shown
  <2> QED
    BY <2>1, <2>2, <2>3
<1>3. Shown' = Shown \cup {n + 1}
  BY <1>2
<1>4. Shown \subseteq 1 .. n /\ IsFiniteSet(Shown) /\ n + 1 \notin Shown
  BY <1>1, ShownIsFinite
<1>5. Cardinality(Shown') = Cardinality(Shown) + 1
  BY <1>3, <1>4, FS_AddElement
<1>6. ASSUME NEW k \in Shown PROVE Place(k)' = Place(k) /\ events'[k] = events[k]
  <2>1. {j \in Shown' : j <= k} = {j \in Shown : j <= k}
    BY <1>1, <1>3, <1>4
  <2> QED
    BY <1>1, <1>4, <2>1 DEF Place
<1>7. Place(n + 1)' = Cardinality(Shown) + 1
  <2>1. \A j \in Shown' : j <= n + 1
    BY <1>1, <1>3, <1>4
  <2>2. {j \in Shown' : j <= n + 1} = Shown'
    BY <2>1
  <2> QED
    BY <1>5, <2>2 DEF Place
<1>8. Finished' <=> Finished
  <2>1. \A k \in 1 .. n + 1 : k \in 1 .. n \/ k = n + 1
    BY <1>1
  <2>2. \A k \in 1 .. n : k \in 1 .. n + 1
    BY <1>1
  <2> QED
    BY <1>1, <2>1, <2>2 DEF Finished
<1>9. ASSUME NEW k, k = n + 1 PROVE Place(k)' = Cardinality(Shown) + 1
  BY <1>7, <1>9
<1> QED
  BY <1>1, <1>3, <1>5, <1>6, <1>8, <1>9

-----------------------------------------------------------------------------
(* The inductive invariant of the turn.                                    *)

IInv == HInv /\ SInv

\* The steps that emit nothing.
LEMMA Silent ==
  ASSUME UNCHANGED events
  PROVE  /\ EventsFollow' = EventsFollow /\ Milestones' = Milestones
         /\ Shown' = Shown /\ Finished' = Finished
         /\ \A k : Place(k)' = Place(k)
         /\ \A i : CallIsOpen(i, Len(events))' = CallIsOpen(i, Len(events))
BY DEF EventsFollow, Milestones, Shown, Finished, Place, CallIsOpen

LEMMA InvInitially ==
  ASSUME Init
  PROVE  IInv
<1> USE DEF Init
<1>1. events = <<>> /\ DOMAIN events = {} /\ events \in Seq(Event) /\ Len(events) = 0
  OBVIOUS
<1>2. HInv
  BY HInvInitially
<1>3. Shown = {} /\ ~Finished /\ Milestones = {} /\ Cardinality(Shown) = 0
  BY <1>1, FS_EmptySet DEF Shown, Finished, Milestones
<1>4. TypeOK
  <2>1. HookTypeOK /\ Cardinality(active) <= 1
    BY <1>2, FS_EmptySet DEF HInv
  <2>2. memory \in Seq(Message) /\ produced \in Seq(Id)
    OBVIOUS
  <2>3. attempt \in 0 .. Fallbacks /\ step \in 0 .. MaxSteps - 1 /\ nsteps \in 0 .. MaxSteps
        /\ nsteers \in 0 .. MaxSteers
    BY StreamAssumption
  <2> QED
    BY <1>1, <2>1, <2>2, <2>3 DEF TypeOK
<1>5. EventsTellPhase /\ SpansAreActive
  BY DEF EventsTellPhase, SpansAreActive
<1>6. ToolsAreOfStep
  BY DEF ToolsAreOfStep, HookInit
<1>7. ResultsAreShown /\ EventsFollow
  BY <1>1, <1>3 DEF ResultsAreShown, EventsFollow
<1>8. TurnIsWhole
  BY <1>3 DEF TurnIsWhole, OnlySteers
<1> QED
  BY <1>2, <1>4, <1>5, <1>6, <1>7, <1>8 DEF IInv, SInv

\* At most one span is active, and none is left behind.
LEMMA SpansPreserved ==
  ASSUME IInv, [Next]_vars
  PROVE  SpansAreActive' /\ Cardinality(active)' <= 1
<1> USE DEF IInv, SInv
<1>1. CASE OnStepStart
  <2>1. <<attempt, nsteps>> \in Span
    BY <1>1, StreamAssumption DEF OnStepStart, TypeOK, Span
  <2>2. active' = {<<attempt, nsteps>>} /\ spans' \subseteq active' /\ phase' = "agent"
    BY <1>1 DEF OnStepStart, SpansAreActive
  <2>3. Cardinality({<<attempt, nsteps>>}) = 1
    BY FS_Singleton, Zenon
  <2> QED
    BY <2>1, <2>2, <2>3 DEF SpansAreActive
<1>2. CASE OnStepFinish \/ TurnFails \/ TurnSucceeds
  <2>1. active' = {} /\ spans' = {}
    BY <1>2 DEF OnStepFinish, TurnFails, TurnSucceeds, cleanup, SpansAreActive
  <2> QED
    BY <2>1, FS_EmptySet DEF SpansAreActive
<1>3. ASSUME UNCHANGED <<active, spans>>, phase' \in {"idle", "done"} => phase \in {"idle", "done"}
      PROVE  SpansAreActive' /\ Cardinality(active)' <= 1
  <2>1. Cardinality(active) <= 1
    BY DEF TypeOK
  <2>2. Cardinality(active)' <= 1
    BY <1>3, <2>1
  <2>3. SpansAreActive'
    BY <1>3 DEF SpansAreActive
  <2> QED
    BY <2>2, <2>3
<1>4. CASE UNCHANGED vars \/ emitAgentStart \/ OnToolCall \/ RunTool \/ OnToolResult
  BY <1>3, <1>4 DEF vars, streamVars, spanVars, turnVars, emitAgentStart, OnToolCall, RunTool, OnToolResult
<1>5. CASE AgentSucceeds \/ FallBack \/ (\E r \in BOOLEAN : GiveUp(r)) \/ emitSessionIdle \/ Steer \/ Deliveries
  BY <1>3, <1>5 DEF streamVars, spanVars, turnVars, AgentSucceeds, FallBack, GiveUp, AgentFails, emitSessionIdle, Steer, Deliveries
<1> QED
  BY <1>1, <1>2, <1>4, <1>5 DEF Next

\* What is emitted is an event.
LEMMA EventsTyped ==
  ASSUME IInv, [Next]_vars
  PROVE  events' \in Seq(Event)
<1> USE DEF IInv, SInv
<1>1. ASSUME NEW e \in Event, emit(e) PROVE events' \in Seq(Event)
  BY <1>1 DEF emit, TypeOK
<1>2. /\ step \in 0 .. MaxSteps - 1 /\ nsteps \in 0 .. MaxSteps /\ MaxSteps \in Nat \ {0}
      /\ events \in Seq(Event) /\ Len(events) \in Nat
  BY StreamAssumption DEF TypeOK
<1>3. CASE emitAgentStart \/ emitSessionIdle
  BY <1>1, <1>3 DEF emitAgentStart, emitSessionIdle, Event
<1>4. CASE OnStepStart \/ OnStepFinish \/ TurnSucceeds
  <2>1. \A n \in 0 .. MaxSteps - 1, t \in {"step_start", "step_finish", "agent_finish"} :
          StepEvent(t, n) \in Event
    BY DEF StepEvent, Event
  <2> QED
    BY <1>1, <1>2, <1>4, <2>1 DEF OnStepStart, OnStepFinish, TurnSucceeds
<1>5. CASE OnToolCall \/ OnToolResult
  <2>1. \A i \in Id, t \in {"tool_call", "tool_result"} : ToolEvent(t, i) \in Event
    BY DEF ToolEvent, Event
  <2>2. OnToolCall => Len(asked) + 1 \in Id
    BY ToolHooksAssumption DEF OnToolCall, TypeOK, HookTypeOK, Id
  <2>3. OnToolResult => Current \in Id
    BY CallsAreKnown DEF OnToolResult, HInv, Progress
  <2> QED
    BY <1>1, <1>5, <2>1, <2>2, <2>3 DEF OnToolCall, OnToolResult
<1>6. CASE FallBack \/ \E r \in BOOLEAN : GiveUp(r)
  <2>1. \A r \in BOOLEAN : AgentError(r) \in Event
    BY DEF AgentError, Event
  <2> QED
    BY <1>1, <1>6, <2>1 DEF FallBack, GiveUp, AgentFails
<1>7. CASE TurnFails
  <2>1. events # <<>>
    BY <1>7 DEF TurnFails, EventsTellPhase
  <2>2. Last(events) \in Event
    BY <1>2, <2>1 DEF Last
  <2> QED
    BY <1>1, <1>7, <2>2 DEF TurnFails
<1>8. CASE UNCHANGED vars \/ RunTool \/ AgentSucceeds \/ Steer \/ Deliveries
  BY <1>2, <1>8 DEF vars, streamVars, RunTool, AgentSucceeds, Steer, Deliveries
<1> QED
  BY <1>3, <1>4, <1>5, <1>6, <1>7, <1>8 DEF Next

\* Working memory holds messages, and the results carried are of calls.
LEMMA MemoryTyped ==
  ASSUME IInv, [Next]_vars
  PROVE  produced' \in Seq(Id) /\ meta' \subseteq Id /\ memory' \in Seq(Message)
<1> USE DEF IInv, SInv
<1>0. produced \in Seq(Id) /\ meta \subseteq Id /\ memory \in Seq(Message)
  BY DEF TypeOK
<1>1. CASE OnToolResult
  <2>1. Current \in Id
    BY <1>1, CallsAreKnown DEF OnToolResult, HInv, Progress
  <2> QED
    BY <1>0, <1>1, <2>1 DEF OnToolResult
<1>2. CASE OnStepStart
  <2>1. [role |-> "steer"] \in Message
    BY DEF Message
  <2> QED
    BY <1>0, <1>2, <2>1 DEF OnStepStart
<1>3. CASE TurnSucceeds
  <2> DEFINE results == [k \in DOMAIN produced |-> Result(produced[k])]
  <2>1. \A i \in Id : Result(i) \in Message
    BY DEF Result, Message
  <2>2. results \in Seq(Message)
    BY <1>0, <2>1
  <2>3. <<[role |-> "prompt"]>> \in Seq(Message)
    BY DEF Message
  <2>4. memory' = memory \o <<[role |-> "prompt"]>> \o results
    BY <1>3 DEF TurnSucceeds
  <2>5. memory' \in Seq(Message)
    BY <1>0, <2>2, <2>3, <2>4
  <2> QED
    BY <1>0, <1>3, <2>5 DEF TurnSucceeds
<1>4. CASE FallBack
  BY <1>0, <1>4 DEF FallBack, AgentFails
<1>5. CASE UNCHANGED vars \/ emitAgentStart \/ OnToolCall \/ RunTool \/ OnStepFinish \/ AgentSucceeds
  BY <1>0, <1>5 DEF vars, streamVars, turnVars, emitAgentStart, OnToolCall, RunTool, OnStepFinish,
                    AgentSucceeds
<1>6. CASE (\E r \in BOOLEAN : GiveUp(r)) \/ TurnFails \/ emitSessionIdle \/ Steer \/ Deliveries
  BY <1>0, <1>6 DEF streamVars, turnVars, GiveUp, AgentFails, TurnFails, emitSessionIdle, Steer,
                    Deliveries
<1> QED
  BY <1>1, <1>2, <1>3, <1>4, <1>5, <1>6 DEF Next

\* The counters of the turn stay in their ranges.
CountersOK ==
  /\ phase \in {"start", "agent", "failed", "succeeded", "idle", "done"}
  /\ attempt \in 0 .. Fallbacks
  /\ step \in 0 .. MaxSteps - 1 /\ nsteps \in 0 .. MaxSteps
  /\ inStep \in BOOLEAN
  /\ steer \in BOOLEAN /\ nsteers \in 0 .. MaxSteers

LEMMA CountersPreserved ==
  ASSUME CountersOK, [Next]_vars
  PROVE  CountersOK'
<1> USE StreamAssumption DEF CountersOK
<1>1. ASSUME UNCHANGED <<step, steerVars, attempt, nsteps>>, inStep' = inStep \/ inStep' = FALSE,
             phase' \in {phase, "agent", "succeeded", "done"}
      PROVE  CountersOK'
  BY <1>1 DEF steerVars
<1>2. CASE UNCHANGED vars \/ emitAgentStart \/ OnToolCall \/ RunTool \/ OnToolResult \/ Deliveries
  BY <1>1, <1>2 DEF vars, streamVars, turnVars, spanVars, emitAgentStart, OnToolCall, RunTool,
              OnToolResult, Deliveries
<1>3. CASE OnStepStart
  <2>1. /\ phase' = phase /\ attempt' = attempt /\ nsteps < MaxSteps
        /\ nsteps' = nsteps + 1 /\ step' = nsteps /\ nsteps \in Nat
    BY <1>3 DEF OnStepStart
  <2>2. inStep' = TRUE /\ steer' = FALSE /\ nsteers' = nsteers
    BY <1>3 DEF OnStepStart
  <2>3. nsteps' \in 0 .. MaxSteps /\ step' \in 0 .. MaxSteps - 1
    BY <2>1
  <2> QED
    BY <2>1, <2>2, <2>3
<1>4. CASE OnStepFinish \/ AgentSucceeds \/ emitSessionIdle
  BY <1>1, <1>4 DEF OnStepFinish, AgentSucceeds, emitSessionIdle, spanVars
<1>5. CASE FallBack
  <2>1. /\ phase' = phase /\ attempt' \in attempt + 1 .. Fallbacks /\ attempt \in Nat
        /\ nsteps' = 0 /\ step' = step
    BY <1>5 DEF FallBack, AgentFails, spanVars
  <2>2. inStep' = FALSE /\ steer' = steer /\ nsteers' = nsteers
    BY <1>5 DEF FallBack, AgentFails, steerVars
  <2>3. attempt' \in 0 .. Fallbacks /\ nsteps' \in 0 .. MaxSteps
    BY <2>1
  <2> QED
    BY <2>1, <2>2, <2>3
<1>6. CASE \E r \in BOOLEAN : GiveUp(r)
  BY <1>6 DEF GiveUp, AgentFails, spanVars, steerVars
<1>7. CASE TurnFails \/ TurnSucceeds
  BY <1>7 DEF TurnFails, TurnSucceeds, steerVars
<1>8. CASE Steer
  BY <1>8 DEF Steer, turnVars, spanVars
<1> QED
  BY <1>2, <1>3, <1>4, <1>5, <1>6, <1>7, <1>8 DEF Next

LEMMA TypePreserved ==
  ASSUME IInv, [Next]_vars
  PROVE  TypeOK'
<1>1. CountersOK'
  BY CountersPreserved DEF IInv, SInv, TypeOK, CountersOK
<1>2. HookTypeOK'
  BY NextIsHookStep, HInvPreserved DEF IInv, HInv
<1>3. spans' \subseteq Span /\ active' \subseteq Span /\ Cardinality(active)' <= 1
  BY SpansPreserved DEF SpansAreActive
<1> QED
  BY <1>1, <1>2, <1>3, EventsTyped, MemoryTyped DEF TypeOK, CountersOK

TellEvents == EventsFollow /\ EventsTellPhase /\ ToolsAreOfStep

\* Outside a step no call is pending.
LEMMA NoToolsOutside ==
  ASSUME ~inStep', stage' = "idle", served' = Len(asked'), asked' \in Seq(ToolCall)
  PROVE  ToolsAreOfStep'
<1>1. \A i \in served' + 1 .. Len(asked') : FALSE
  OBVIOUS
<1> QED
  BY <1>1 DEF ToolsAreOfStep

LEMMA EventsOfStart ==
  ASSUME IInv, emitAgentStart
  PROVE  TellEvents'
<1> USE DEF IInv, SInv
<1> DEFINE e == [type |-> "agent_start"]
<1>1. events \in Seq(Event) /\ events = <<>> /\ nsteps = 0 /\ ~inStep /\ emit(e)
  BY DEF TypeOK, emitAgentStart, EventsTellPhase, ToolsAreOfStep
<1>2. EventsFollow' /\ \E k \in Milestones' : /\ events'[k] = e
                          /\ \A l \in k + 1 .. Len(events') : IsToolEvent(events'[l])
  <2>1. ~IsToolEvent(e)
    BY DEF IsToolEvent
  <2> DEFINE es == {}
  <2>2. \A a \in es : Follows(a, e)
    OBVIOUS
  <2> HIDE DEF e, es
  <2> QED
    BY <1>1, <2>1, <2>2, EmitMilestone
<1>3. UNCHANGED <<stage, served, asked, inStep, nsteps>> /\ phase' = "agent"
  BY DEF emitAgentStart, hookVars
<1>4. LastIsIn({[type |-> "agent_start"], AgentError(TRUE)})'
  BY <1>2 DEF LastIsIn
<1>5. EventsTellPhase'
  BY <1>1, <1>3, <1>4 DEF EventsTellPhase
<1>6. ToolsAreOfStep'
  BY <1>1, <1>3, NoToolsOutside DEF TypeOK, HookTypeOK, ToolsAreOfStep
<1> QED
  BY <1>2, <1>5, <1>6 DEF TellEvents

LEMMA EventsOfStepStart ==
  ASSUME IInv, OnStepStart, asked' \in Seq(ToolCall)
  PROVE  TellEvents'
<1> USE DEF IInv, SInv
<1> DEFINE e == StepEvent("step_start", nsteps)
           es == IF nsteps > 0 THEN {StepEvent("step_finish", step)}
                               ELSE {[type |-> "agent_start"], AgentError(TRUE)}
<1>1. /\ events \in Seq(Event) /\ emit(e) /\ ~inStep /\ phase = "agent"
      /\ nsteps \in Nat /\ step \in Nat
      /\ UNCHANGED <<phase, stage, served, asked>>
      /\ inStep' = TRUE /\ nsteps' = nsteps + 1 /\ step' = nsteps
  BY StreamAssumption DEF TypeOK, OnStepStart, hookVars
<1>2. LastIsIn(es)
  BY <1>1 DEF EventsTellPhase
<1>3. EventsFollow' /\ \E k \in Milestones' : /\ events'[k] = e
                          /\ \A l \in k + 1 .. Len(events') : IsToolEvent(events'[l])
  <2>1. ~IsToolEvent(e)
    BY DEF IsToolEvent, StepEvent
  <2>2. \A a \in es : Follows(a, e)
    <3>1. CASE nsteps > 0
      <4>1. nsteps = step + 1 /\ es = {StepEvent("step_finish", step)}
        BY <1>1, <3>1 DEF EventsTellPhase
      <4>2. e.type = "step_start" /\ e.n # 0 /\ e.n - 1 = step
        BY <1>1, <4>1 DEF StepEvent
      <4> QED
        BY <4>1, <4>2 DEF Follows
    <3>2. CASE nsteps = 0
      <4>1. es = {[type |-> "agent_start"], AgentError(TRUE)}
        BY <3>2
      <4>2. e.type = "step_start" /\ e.n = 0
        BY <3>2 DEF StepEvent
      <4>3. \A a : a = [type |-> "agent_start"] => a.type = "agent_start"
        OBVIOUS
      <4> HIDE DEF e, es
      <4> QED
        BY <4>1, <4>2, <4>3 DEF Follows
    <3>3. nsteps > 0 \/ nsteps = 0
      BY <1>1
    <3> HIDE DEF e, es
    <3> QED
      BY <3>1, <3>2, <3>3
  <2> HIDE DEF e, es
  <2> QED
    BY <1>1, <1>2, <2>1, <2>2, EmitMilestone
<1>4. LastIsIn({StepEvent("step_start", step)})'
  BY <1>1, <1>3 DEF LastIsIn
<1>5. EventsTellPhase'
  BY <1>1, <1>4 DEF EventsTellPhase
<1>6. ToolsAreOfStep'
  <2>1. served' = Len(asked')
    BY <1>1 DEF ToolsAreOfStep
  <2>2. \A i \in served' + 1 .. Len(asked') : FALSE
    BY <1>1, <2>1
  <2> QED
    BY <1>1, <2>2 DEF ToolsAreOfStep
<1> QED
  BY <1>3, <1>5, <1>6 DEF TellEvents

LEMMA EventsOfStepFinish ==
  ASSUME IInv, OnStepFinish, asked' \in Seq(ToolCall)
  PROVE  TellEvents'
<1> USE DEF IInv, SInv
<1> DEFINE e == StepEvent("step_finish", step)
           es == {StepEvent("step_start", step)}
<1>1. /\ events \in Seq(Event) /\ emit(e) /\ inStep /\ phase = "agent" /\ stage = "idle"
      /\ nsteps \in Nat /\ step \in Nat
      /\ UNCHANGED <<phase, stage, served, asked, nsteps, step>>
      /\ inStep' = FALSE
  BY StreamAssumption DEF TypeOK, OnStepFinish, hookVars
<1>2. nsteps > 0 /\ nsteps = step + 1 /\ LastIsIn(es)
  BY <1>1 DEF EventsTellPhase
<1>3. EventsFollow' /\ \E k \in Milestones' : /\ events'[k] = e
                          /\ \A l \in k + 1 .. Len(events') : IsToolEvent(events'[l])
  <2>1. ~IsToolEvent(e)
    BY DEF IsToolEvent, StepEvent
  <2>2. \A a \in es : Follows(a, e)
    BY DEF Follows, StepEvent
  <2> HIDE DEF e, es
  <2> QED
    BY <1>1, <1>2, <2>1, <2>2, EmitMilestone
<1>4. LastIsIn({StepEvent("step_finish", step)})'
  BY <1>1, <1>3 DEF LastIsIn
<1>5. EventsTellPhase'
  BY <1>1, <1>2, <1>4 DEF EventsTellPhase
<1>6. ToolsAreOfStep'
  <2>1. served' = Len(asked')
    BY <1>1 DEF OnStepFinish, Pending, TypeOK, HookTypeOK
  <2> QED
    BY <1>1, <2>1, NoToolsOutside
<1> QED
  BY <1>3, <1>5, <1>6 DEF TellEvents

\* A tool event within a step.
LEMMA EventsOfTool ==
  ASSUME IInv, NEW e, emit(e), IsToolEvent(e),
         e.type = "tool_result" => CallIsOpen(e.id, Len(events)),
         phase = "agent", inStep, UNCHANGED <<phase, inStep, nsteps, step>>
  PROVE  EventsFollow' /\ EventsTellPhase'
<1> USE DEF IInv, SInv
<1>1. events \in Seq(Event) /\ nsteps \in Nat
  BY StreamAssumption DEF TypeOK
<1> DEFINE es == {StepEvent("step_start", step)}
<1>2. nsteps > 0 /\ nsteps = step + 1 /\ LastIsIn(es)
  BY <1>1 DEF EventsTellPhase
<1>3. EventsFollow' /\ \E k \in Milestones' : /\ events'[k] \in es
                          /\ \A l \in k + 1 .. Len(events') : IsToolEvent(events'[l])
  <2> HIDE DEF es
  <2> QED
    BY <1>1, <1>2, EmitTool
<1>4. LastIsIn({StepEvent("step_start", step)})'
  BY <1>3 DEF LastIsIn
<1> QED
  BY <1>1, <1>2, <1>3, <1>4 DEF EventsTellPhase

LEMMA EventsOfToolCall ==
  ASSUME IInv, OnToolCall
  PROVE  TellEvents'
<1> USE DEF IInv, SInv
<1> DEFINE e == ToolEvent("tool_call", Len(asked) + 1)
<1>1. /\ events \in Seq(Event) /\ emit(e) /\ inStep /\ phase = "agent"
      /\ asked \in Seq(ToolCall) /\ served \in Nat
      /\ UNCHANGED <<phase, stage, served, nsteps, step, inStep>>
  BY StreamAssumption DEF TypeOK, HookTypeOK, OnToolCall, turnVars, spanVars
<1>2. IsToolEvent(e) /\ e.type # "tool_result"
  BY DEF IsToolEvent, ToolEvent
<1>3. EventsFollow' /\ EventsTellPhase'
  BY <1>1, <1>2, EventsOfTool
<1>4. ToolsAreOfStep'
  <2>1. Len(asked') = Len(asked) + 1 /\ Len(asked) \in Nat
    BY <1>1 DEF OnToolCall
  <2>2. ASSUME NEW i \in served + 1 .. Len(asked) PROVE CallIsOpen(i, Len(events))'
    <3>1. CallIsOpen(i, Len(events))
      BY <2>2 DEF ToolsAreOfStep
    <3> HIDE DEF e
    <3> QED
      BY <1>1, <1>2, <3>1, EmitTool
  <2>3. ASSUME NEW i, i = Len(asked) + 1 PROVE CallIsOpen(i, Len(events))'
    <3>1. Len(events') \in Nat \ {0} /\ events'[Len(events')] = e
      BY <1>1, Emitted
    <3> QED
      BY <1>2, <2>3, <3>1 DEF CallIsOpen
  <2>4. \A i \in served' + 1 .. Len(asked') : i \in served + 1 .. Len(asked) \/ i = Len(asked) + 1
    BY <1>1, <2>1
  <2> QED
    BY <1>1, <2>2, <2>3, <2>4 DEF ToolsAreOfStep
<1> QED
  BY <1>3, <1>4 DEF TellEvents

LEMMA EventsOfToolResult ==
  ASSUME IInv, OnToolResult
  PROVE  TellEvents'
<1> USE DEF IInv, SInv
<1> DEFINE e == ToolEvent("tool_result", Current)
<1>1. /\ events \in Seq(Event) /\ emit(e) /\ phase = "agent" /\ stage = "returned"
      /\ asked \in Seq(ToolCall) /\ served \in Nat /\ inStep \in BOOLEAN
      /\ UNCHANGED <<phase, asked, nsteps, step, inStep>>
      /\ served' = Current
  BY StreamAssumption DEF TypeOK, HookTypeOK, OnToolResult, spanVars
<1>2. IsToolEvent(e) /\ e.id = Current
  BY DEF IsToolEvent, ToolEvent
<1>3. inStep /\ Pending
  BY <1>1 DEF ToolsAreOfStep, HInv, Progress
<1>4. CallIsOpen(Current, Len(events))
  <2>1. Current \in served + 1 .. Len(asked)
    BY <1>1, <1>3 DEF Pending, Current
  <2> QED
    BY <2>1 DEF ToolsAreOfStep
<1>5. EventsFollow' /\ EventsTellPhase'
  <2> HIDE DEF e
  <2> QED
    BY <1>1, <1>2, <1>3, <1>4, EventsOfTool
<1>6. ToolsAreOfStep'
  <2>1. ASSUME NEW i \in served' + 1 .. Len(asked') PROVE CallIsOpen(i, Len(events))'
    <3>1. i \in served + 1 .. Len(asked)
      BY <1>1, <2>1 DEF Current
    <3>2. CallIsOpen(i, Len(events))
      BY <3>1 DEF ToolsAreOfStep
    <3> HIDE DEF e
    <3> QED
      BY <1>1, <1>2, <1>4, <3>2, EmitTool
  <2> QED
    BY <1>1, <1>3, <2>1 DEF ToolsAreOfStep
<1> QED
  BY <1>5, <1>6 DEF TellEvents

\* An agent call may fail at any time.
LEMMA EventsOfFailure ==
  ASSUME IInv, NEW r \in BOOLEAN, AgentFails(r), phase = "agent"
  PROVE  /\ EventsFollow'
         /\ \E k \in Milestones' : /\ events'[k] = AgentError(r)
                                   /\ \A l \in k + 1 .. Len(events') : IsToolEvent(events'[l])
         /\ events' # <<>> /\ Last(events') = AgentError(r)
<1> USE DEF IInv, SInv
<1> DEFINE e == AgentError(r)
           es == {StepEvent("step_start", step), StepEvent("step_finish", step),
                  [type |-> "agent_start"], AgentError(TRUE)}
<1>1. events \in Seq(Event) /\ emit(e) /\ nsteps \in Nat
  BY StreamAssumption DEF TypeOK, AgentFails
<1>2. LastIsIn(es)
  <2>1. nsteps > 0 \/ nsteps = 0
    BY <1>1
  <2>2. StepEvent(IF inStep THEN "step_start" ELSE "step_finish", step)
          \in {StepEvent("step_start", step), StepEvent("step_finish", step)}
    OBVIOUS
  <2> QED
    BY <2>1, <2>2 DEF EventsTellPhase, LastIsIn
<1>3. ~IsToolEvent(e) /\ e.type = "agent_error"
  BY DEF IsToolEvent, AgentError
<1>4. \A a \in es : Follows(a, e)
  <2>1. \A a \in es : a.type = "agent_error" => a.retryable
    BY DEF StepEvent, AgentError
  <2> HIDE DEF e, es
  <2> QED
    BY <1>3, <2>1 DEF Follows
<1> HIDE DEF e, es
<1>5. EventsFollow' /\ \E k \in Milestones' : /\ events'[k] = e
                          /\ \A l \in k + 1 .. Len(events') : IsToolEvent(events'[l])
  BY <1>1, <1>2, <1>3, <1>4, EmitMilestone
<1>6. events' # <<>> /\ Last(events') = e
  BY <1>1, Emitted DEF Last
<1> QED
  BY <1>5, <1>6 DEF e

LEMMA EventsOfFallBack ==
  ASSUME IInv, FallBack, asked' \in Seq(ToolCall)
  PROVE  TellEvents'
<1>1. /\ AgentFails(TRUE) /\ phase = "agent" /\ phase' = "agent" /\ nsteps' = 0
      /\ ~inStep' /\ stage' = "idle" /\ served' = Len(asked')
  BY DEF FallBack, AgentFails
<1>2. /\ EventsFollow'
      /\ \E k \in Milestones' : /\ events'[k] = AgentError(TRUE)
                                /\ \A l \in k + 1 .. Len(events') : IsToolEvent(events'[l])
  BY <1>1, EventsOfFailure
<1>3. LastIsIn({[type |-> "agent_start"], AgentError(TRUE)})'
  BY <1>2 DEF LastIsIn
<1>4. EventsTellPhase'
  BY <1>1, <1>3 DEF EventsTellPhase
<1> QED
  BY <1>1, <1>2, <1>4, NoToolsOutside DEF TellEvents

LEMMA EventsOfGiveUp ==
  ASSUME IInv, NEW r \in BOOLEAN, GiveUp(r), asked' \in Seq(ToolCall)
  PROVE  TellEvents'
<1>1. /\ AgentFails(r) /\ phase = "agent" /\ phase' = "failed"
      /\ ~inStep' /\ stage' = "idle" /\ served' = Len(asked')
  BY DEF GiveUp, AgentFails
<1>2. EventsFollow' /\ events' # <<>> /\ Last(events') = AgentError(r)
  BY <1>1, EventsOfFailure
<1>3. EventsTellPhase'
  BY <1>1, <1>2 DEF EventsTellPhase, AgentError
<1> QED
  BY <1>1, <1>2, <1>3, NoToolsOutside DEF TellEvents

\* The end of the turn.
LEMMA EventsOfEnd ==
  ASSUME IInv, asked' \in Seq(ToolCall), events' \in Seq(Event),
         TurnFails \/ TurnSucceeds \/ emitSessionIdle
  PROVE  TellEvents'
<1> USE DEF IInv, SInv
<1>1. /\ events \in Seq(Event) /\ asked' \in Seq(ToolCall) /\ events' \in Seq(Event)
      /\ UNCHANGED <<asked, served, stage, inStep>>
  BY DEF TypeOK, TurnFails, TurnSucceeds, emitSessionIdle, hookVars
<1>2. ToolsAreOfStep'
  <2>1. ~inStep
    BY DEF ToolsAreOfStep, TurnFails, TurnSucceeds, emitSessionIdle
  <2> QED
    BY <1>1, <2>1, NoToolsOutside DEF ToolsAreOfStep
<1>3. ASSUME NEW e, emit(e), e.type \in {"agent_finish", "agent_error"}, phase' = "idle",
             NEW es, LastIsIn(es), \A a \in es : Follows(a, e)
      PROVE  EventsFollow' /\ EventsTellPhase'
  <2>1. ~IsToolEvent(e)
    BY <1>3 DEF IsToolEvent
  <2>2. EventsFollow' /\ \E k \in Milestones' : /\ events'[k] = e
                            /\ \A l \in k + 1 .. Len(events') : IsToolEvent(events'[l])
    BY <1>1, <1>3, <2>1, EmitMilestone
  <2>3. \A k \in Milestones' : events'[k] \in Event
    BY <1>1 DEF Milestones
  <2>4. LastIsIn({a \in Event : a.type \in {"agent_finish", "agent_error"}})'
    BY <1>3, <2>2, <2>3 DEF LastIsIn
  <2> QED
    BY <1>3, <2>2, <2>4 DEF EventsTellPhase
<1>4. CASE TurnFails
  <2> DEFINE e == Last(events)
             es == {Last(events)}
  <2>1. events # <<>> /\ e.type = "agent_error" /\ emit(e) /\ phase' = "idle"
    BY <1>4 DEF TurnFails, EventsTellPhase
  <2>2. Len(events) \in Milestones /\ events[Len(events)] = e
    BY <1>1, <2>1 DEF Milestones, IsToolEvent, Last
  <2>3. LastIsIn(es)
    BY <1>1, <2>2 DEF LastIsIn
  <2>4. \A a \in es : Follows(a, e)
    BY <2>1 DEF Follows
  <2> HIDE DEF e, es
  <2>5. EventsFollow' /\ EventsTellPhase'
    BY <1>3, <2>1, <2>3, <2>4
  <2> QED
    BY <1>2, <2>5 DEF TellEvents
<1>5. CASE TurnSucceeds
  <2> DEFINE e == StepEvent("agent_finish", step)
             es == {StepEvent("step_finish", step)}
  <2>1. emit(e) /\ phase' = "idle" /\ LastIsIn(es)
    BY <1>5 DEF TurnSucceeds, EventsTellPhase
  <2>2. e.type = "agent_finish" /\ \A a \in es : Follows(a, e)
    BY DEF Follows, StepEvent
  <2> HIDE DEF e, es
  <2>3. EventsFollow' /\ EventsTellPhase'
    BY <1>3, <2>1, <2>2
  <2> QED
    BY <1>2, <2>3 DEF TellEvents
<1>6. CASE emitSessionIdle
  <2> DEFINE e == [type |-> "session_idle"]
             es == {a \in Event : a.type \in {"agent_finish", "agent_error"}}
  <2>1. emit(e) /\ phase' = "done" /\ LastIsIn(es)
    BY <1>6 DEF emitSessionIdle, EventsTellPhase
  <2>2. e.type = "session_idle" /\ ~IsToolEvent(e)
    BY DEF IsToolEvent
  <2>3. \A a \in es : Follows(a, e)
    BY DEF Follows
  <2> HIDE DEF e, es
  <2>4. EventsFollow'
    BY <1>1, <2>1, <2>2, <2>3, EmitMilestone
  <2>5. EventsTellPhase'
    BY <2>1 DEF EventsTellPhase
  <2> QED
    BY <1>2, <2>4, <2>5 DEF TellEvents
<1> QED
  BY <1>4, <1>5, <1>6

LEMMA EventsPreserved ==
  ASSUME IInv, [Next]_vars
  PROVE  TellEvents'
<1>0. asked' \in Seq(ToolCall) /\ events' \in Seq(Event)
  BY TypePreserved DEF TypeOK, HookTypeOK
<1>1. ASSUME UNCHANGED <<events, step, nsteps, inStep, asked, served>>,
             stage' = stage \/ inStep,
             phase' = phase \/ (phase = "agent" /\ phase' = "succeeded" /\ ~inStep /\ nsteps > 0)
      PROVE  TellEvents'
  <2>1. EventsFollow'
    BY <1>1, Silent DEF IInv, SInv
  <2>2. EventsTellPhase'
    <3>1. CASE phase' = phase
      BY <1>1, <3>1 DEF EventsTellPhase, LastIsIn, Milestones, IInv, SInv
    <3>2. CASE phase = "agent" /\ phase' = "succeeded" /\ ~inStep /\ nsteps > 0
      BY <1>1, <3>2 DEF EventsTellPhase, LastIsIn, Milestones, IInv, SInv
    <3> QED
      BY <1>1, <3>1, <3>2
  <2>3. ToolsAreOfStep'
    BY <1>1, Silent DEF ToolsAreOfStep, IInv, SInv
  <2> QED
    BY <2>1, <2>2, <2>3 DEF TellEvents
<1>2. CASE UNCHANGED vars \/ Steer
  BY <1>1, <1>2 DEF vars, streamVars, turnVars, spanVars, hookVars, Steer
<1>3. CASE RunTool
  <2>1. UNCHANGED <<asked, served>>
    BY <1>3 DEF RunTool, Wrapper, RefuseCall, RunInner, AfterHooks
  <2> QED
    BY <1>1, <1>3, <2>1 DEF RunTool, streamVars, turnVars, spanVars
<1>4. CASE Deliveries
  <2>1. UNCHANGED <<asked, served, stage>>
    BY <1>4 DEF Deliveries, Posts, Deliver, LosePost
  <2> QED
    BY <1>1, <1>4, <2>1 DEF Deliveries, streamVars, turnVars, spanVars
<1>5. CASE AgentSucceeds
  BY <1>1, <1>5 DEF AgentSucceeds, spanVars, hookVars
<1> QED
  BY <1>0, <1>2, <1>3, <1>4, <1>5, EventsOfStart, EventsOfStepStart, EventsOfStepFinish,
     EventsOfToolCall, EventsOfToolResult, EventsOfFallBack, EventsOfGiveUp, EventsOfEnd
  DEF Next

\* While the turn runs nothing but steer messages is in memory.
LEMMA SteersStay ==
  ASSUME IInv, phase \notin {"idle", "done"}, memory' = memory \/ OnStepStart
  PROVE  OnlySteers(Len(memory))'
<1> USE DEF IInv, SInv
<1> PICK m : m = Len(memory)
  OBVIOUS
<1>1. memory \in Seq(Message) /\ m \in Nat
  BY DEF TypeOK
<1>2. \A k \in 1 .. m : memory[k].role = "steer"
  BY DEF ResultsAreShown, TurnIsWhole, OnlySteers
<1>3. CASE memory' = memory
  BY <1>2, <1>3 DEF OnlySteers
<1>4. CASE memory' = Append(memory, [role |-> "steer"])
  <2>1. /\ Len(memory') = m + 1 /\ memory'[m + 1] = [role |-> "steer"]
        /\ \A k \in 1 .. m : memory'[k] = memory[k]
    BY <1>1, <1>4
  <2>2. \A k \in 1 .. m + 1 : k \in 1 .. m \/ k = m + 1
    BY <1>1
  <2> QED
    BY <1>2, <2>1, <2>2 DEF OnlySteers
<1> QED
  BY <1>3, <1>4 DEF OnStepStart

\* The steps that neither show nor drop a result.
LEMMA ResultsStay ==
  ASSUME IInv, phase \notin {"idle", "done"}, phase' \notin {"idle", "done"},
         phase = "failed" => phase' = "failed",
         UNCHANGED <<produced, meta, Shown>>, Finished' => Finished,
         \A k \in Shown : events'[k] = events[k], \A k : Place(k)' = Place(k),
         memory' = memory \/ OnStepStart
  PROVE  ResultsAreShown' /\ TurnIsWhole'
<1> USE DEF IInv, SInv
<1>1. ~Finished'
  BY DEF ResultsAreShown
<1>2. ASSUME phase' \in {"start", "agent", "succeeded"}
      PROVE  /\ Len(produced') = Cardinality(Shown)'
             /\ \A k \in Shown' : produced'[Place(k)'] = events'[k].id /\ events'[k].id \in meta'
  <2>1. phase \in {"start", "agent", "succeeded"}
    BY <1>2 DEF TypeOK
  <2> QED
    BY <2>1 DEF ResultsAreShown
<1>3. ResultsAreShown'
  BY <1>1, <1>2 DEF ResultsAreShown
<1>4. OnlySteers(Len(memory))'
  BY SteersStay
<1> QED
  BY <1>1, <1>3, <1>4 DEF TurnIsWhole

LEMMA ResultsOfToolResult ==
  ASSUME IInv, OnToolResult
  PROVE  ResultsAreShown' /\ TurnIsWhole'
<1> USE DEF IInv, SInv
<1> DEFINE e == ToolEvent("tool_result", Current)
<1> PICK n, c : n = Len(events) /\ c = Cardinality(Shown)
  OBVIOUS
<1>1. /\ events \in Seq(Event) /\ emit(e) /\ e.type = "tool_result" /\ e.id = Current
      /\ produced \in Seq(Id) /\ phase = "agent" /\ phase' = "agent"
      /\ produced' = Append(produced, Current)
      /\ meta' = meta \cup {Current} /\ memory' = memory
  BY DEF TypeOK, OnToolResult, ToolEvent
<1>2. /\ Len(produced) = c
      /\ \A k \in Shown : produced[Place(k)] = events[k].id /\ events[k].id \in meta
      /\ ~Finished
  BY <1>1 DEF ResultsAreShown
<1>3. c \in Nat /\ \A k \in Shown : Place(k) \in 1 .. c
  BY <1>1, ShownIsFinite
<1>4. /\ Len(produced') = c + 1 /\ produced'[c + 1] = Current
      /\ \A k \in 1 .. c : produced'[k] = produced[k]
  BY <1>1, <1>2, <1>3
<1>5. /\ Shown' = Shown \cup {n + 1} /\ Cardinality(Shown') = c + 1
      /\ \A k \in Shown : Place(k)' = Place(k) /\ events'[k] = events[k]
      /\ \A k : k = n + 1 => Place(k)' = c + 1 /\ events'[k] = e
      /\ ~Finished'
  <2> HIDE DEF e
  <2> QED
    BY <1>1, <1>2, EmitResult
<1>6. ASSUME NEW k \in Shown'
      PROVE  produced'[Place(k)'] = events'[k].id /\ events'[k].id \in meta'
  <2>1. CASE k \in Shown
    BY <1>1, <1>2, <1>3, <1>4, <1>5, <2>1
  <2>2. CASE k = n + 1
    <3>1. Place(k)' = c + 1 /\ events'[k] = e
      BY <1>5, <2>2
    <3> QED
      BY <1>1, <1>4, <3>1
  <2> QED
    BY <1>5, <2>1, <2>2
<1>7. OnlySteers(Len(memory))'
  BY <1>1, SteersStay
<1>8. Len(produced)' = Cardinality(Shown)'
  BY <1>4, <1>5
<1> QED
  BY <1>1, <1>5, <1>6, <1>7, <1>8 DEF ResultsAreShown, TurnIsWhole

LEMMA ResultsOfFailure ==
  ASSUME IInv, TypeOK',
         FallBack \/ (\E r \in BOOLEAN : GiveUp(r)) \/ TurnFails,
         SpansAreActive'
  PROVE  ResultsAreShown' /\ TurnIsWhole'
<1> USE DEF IInv, SInv
<1>1. \E e : emit(e) /\ e.type = "agent_error"
  <2>1. ASSUME NEW r \in BOOLEAN, emit(AgentError(r)) PROVE \E e : emit(e) /\ e.type = "agent_error"
    BY <2>1 DEF AgentError
  <2>2. CASE TurnFails
    BY <2>2 DEF TurnFails, EventsTellPhase
  <2>3. CASE FallBack \/ \E r \in BOOLEAN : GiveUp(r)
    BY <2>1, <2>3 DEF FallBack, GiveUp, AgentFails
  <2> QED
    BY <2>2, <2>3
<1>2. Shown' = {} /\ (Finished' <=> Finished)
  BY <1>1, EmitError DEF TypeOK
<1>3. phase \in {"agent", "failed"} /\ ~Finished /\ memory' = memory
  BY DEF FallBack, GiveUp, AgentFails, TurnFails, ResultsAreShown
<1>4. OnlySteers(Len(memory))'
  BY <1>3, SteersStay
<1>5. TurnIsWhole'
  BY <1>2, <1>3, <1>4 DEF TurnIsWhole, SpansAreActive
<1>6. ResultsAreShown'
  <2>1. CASE FallBack
    <3>1. Len(produced') = 0 /\ Cardinality(Shown') = 0
      BY <1>2, <2>1, FS_EmptySet DEF FallBack
    <3> QED
      BY <1>2, <1>3, <3>1 DEF ResultsAreShown
  <2>2. CASE phase' \in {"failed", "idle"}
    BY <1>2, <1>3, <2>2 DEF ResultsAreShown
  <2> QED
    BY <2>1, <2>2 DEF GiveUp, TurnFails
<1> QED
  BY <1>5, <1>6

LEMMA ResultsOfSuccess ==
  ASSUME IInv, TurnSucceeds, SpansAreActive'
  PROVE  ResultsAreShown' /\ TurnIsWhole'
<1> USE DEF IInv, SInv
<1> DEFINE e == StepEvent("agent_finish", step)
           results == [k \in DOMAIN produced |-> Result(produced[k])]
<1> PICK m, c : m = Len(memory) /\ c = Cardinality(Shown)
  OBVIOUS
<1>1. /\ events \in Seq(Event) /\ emit(e) /\ e.type = "agent_finish"
      /\ produced \in Seq(Id) /\ memory \in Seq(Message) /\ m \in Nat
      /\ phase = "succeeded" /\ phase' = "idle" /\ meta' = meta
      /\ memory' = memory \o <<[role |-> "prompt"]>> \o results
  BY DEF TypeOK, TurnSucceeds, StepEvent
<1>2. /\ Len(produced) = c
      /\ \A k \in Shown : produced[Place(k)] = events[k].id /\ events[k].id \in meta
      /\ ~Finished
  BY <1>1 DEF ResultsAreShown
<1>3. c \in Nat /\ \A k \in Shown : Place(k) \in 1 .. c
  BY <1>1, ShownIsFinite
<1>4. /\ Shown' = Shown /\ Finished'
      /\ \A k \in Shown : events'[k] = events[k]
      /\ \A k : Place(k)' = Place(k)
  <2> HIDE DEF e
  <2> QED
    BY <1>1, EmitOther
<1>5. \A k \in 1 .. m : memory[k].role = "steer"
  BY <1>1, <1>2 DEF TurnIsWhole, OnlySteers
<1>6. /\ Len(memory') = m + 1 + c
      /\ \A k \in 1 .. m : memory'[k] = memory[k]
      /\ memory'[m + 1] = [role |-> "prompt"]
      /\ \A j \in 1 .. c : memory'[m + 1 + j] = Result(produced[j])
  <2> DEFINE before == memory \o <<[role |-> "prompt"]>>
  <2>1. /\ before \in Seq(Message) /\ Len(before) = m + 1
        /\ \A k \in 1 .. m : before[k] = memory[k]
        /\ before[m + 1] = [role |-> "prompt"]
    BY <1>1 DEF Message
  <2>2. results \in Seq(Message) /\ Len(results) = c /\ \A j \in 1 .. c : results[j] = Result(produced[j])
    <3>1. DOMAIN produced = 1 .. c
      BY <1>1, <1>2
    <3>2. \A i \in Id : Result(i) \in Message
      BY DEF Result, Message
    <3>3. \A j \in 1 .. c : produced[j] \in Id
      BY <1>1, <1>2
    <3>4. results = [j \in 1 .. c |-> Result(produced[j])]
      BY <3>1
    <3> QED
      BY <1>3, <3>2, <3>3, <3>4
  <2>3. memory' = before \o results
    BY <1>1
  <2> HIDE DEF before, results
  <2>4. /\ Len(memory') = Len(before) + Len(results)
        /\ \A k \in 1 .. Len(before) : memory'[k] = before[k]
        /\ \A j \in 1 .. Len(results) : memory'[Len(before) + j] = results[j]
    <3>1. Len(memory') = Len(before) + Len(results)
      BY <2>1, <2>2, <2>3, ConcatProperties
    <3>2. \A k \in 1 .. Len(before) + Len(results) :
            memory'[k] = IF k <= Len(before) THEN before[k] ELSE results[k - Len(before)]
      BY <2>1, <2>2, <2>3, ConcatProperties
    <3>3. Len(before) \in Nat /\ Len(results) \in Nat
      BY <2>1, <2>2
    <3> QED
      BY <3>1, <3>2, <3>3
  <2>5. m + 1 \in 1 .. Len(before) /\ \A k \in 1 .. m : k \in 1 .. Len(before)
    BY <1>1, <2>1
  <2> QED
    BY <1>1, <1>3, <2>1, <2>2, <2>4, <2>5
<1>7. /\ m + 1 \in DOMAIN memory' /\ OnlySteers(m)' /\ memory'[m + 1].role = "prompt"
      /\ Len(memory') = m + 1 + Cardinality(Shown')
  <2>1. DOMAIN memory' = 1 .. Len(memory')
    BY <1>1, TypePreserved DEF TypeOK, TurnSucceeds
  <2>2. OnlySteers(m)'
    BY <1>5, <1>6 DEF OnlySteers
  <2> QED
    BY <1>1, <1>3, <1>4, <1>6, <2>1, <2>2
<1>8. ASSUME NEW k \in Shown'
      PROVE  memory'[m + 1 + Place(k)'] = Result(events'[k].id) /\ events'[k].id \in meta'
  BY <1>1, <1>2, <1>3, <1>4, <1>6
<1>9. \E n \in DOMAIN memory' :
        /\ \A k \in 1 .. n - 1 : memory'[k].role = "steer"
        /\ memory'[n].role = "prompt"
        /\ Len(memory') = n + Cardinality(Shown')
        /\ \A k \in Shown' : /\ memory'[n + Place(k)'] = Result(events'[k].id)
                             /\ events'[k].id \in meta'
  <2>1. (m + 1) - 1 = m
    BY <1>1
  <2> QED
    BY <1>7, <1>8, <2>1 DEF OnlySteers
<1>10. phase' \in {"idle", "done"} => spans' = {}
  BY DEF SpansAreActive
<1> QED
  BY <1>1, <1>4, <1>9, <1>10 DEF ResultsAreShown, TurnIsWhole, OnlySteers

\* Once the turn has ended nothing of it changes.
LEMMA ResultsAfter ==
  ASSUME IInv, SpansAreActive', phase \in {"idle", "done"}, phase' \in {"idle", "done"},
         UNCHANGED <<memory, meta, Shown>>, Finished' <=> Finished,
         \A k \in Shown : events'[k] = events[k], \A k : Place(k)' = Place(k)
  PROVE  ResultsAreShown' /\ TurnIsWhole'
<1>1. ResultsAreShown'
  BY DEF ResultsAreShown
<1>2. phase' \in {"idle", "done"} => spans' = {}
  BY DEF SpansAreActive
<1>3. CASE Finished
  <2>1. PICK n \in DOMAIN memory :
          /\ OnlySteers(n - 1) /\ memory[n].role = "prompt"
          /\ Len(memory) = n + Cardinality(Shown)
          /\ \A k \in Shown : /\ memory[n + Place(k)] = Result(events[k].id)
                              /\ events[k].id \in meta
    BY <1>3 DEF IInv, SInv, TurnIsWhole
  <2>2. OnlySteers(n - 1)' /\ n \in DOMAIN memory'
    BY <2>1 DEF OnlySteers
  <2>3. \A k \in Shown' : /\ memory'[n + Place(k)'] = Result(events'[k].id)
                          /\ events'[k].id \in meta'
    BY <2>1
  <2>4. Len(memory') = n + Cardinality(Shown')
    BY <2>1
  <2> QED
    BY <1>1, <1>2, <1>3, <2>1, <2>2, <2>3, <2>4 DEF TurnIsWhole, OnlySteers
<1>4. CASE ~Finished
  <2>1. OnlySteers(Len(memory))
    BY <1>4 DEF IInv, SInv, TurnIsWhole
  <2>2. OnlySteers(Len(memory))'
    BY <2>1 DEF OnlySteers
  <2>3. TurnIsWhole'
    BY <1>2, <1>4, <2>2 DEF TurnIsWhole
  <2> QED
    BY <1>1, <2>3
<1> QED
  BY <1>3, <1>4

LEMMA ResultsPreserved ==
  ASSUME IInv, [Next]_vars
  PROVE  ResultsAreShown' /\ TurnIsWhole'
<1>0. /\ TypeOK' /\ SpansAreActive' /\ events \in Seq(Event) /\ (inStep => phase = "agent")
      /\ phase \in {"start", "agent", "failed", "succeeded", "idle", "done"}
  BY TypePreserved, SpansPreserved DEF IInv, SInv, TypeOK, ToolsAreOfStep
<1>1. ASSUME NEW e, emit(e), e.type \notin {"tool_result", "agent_error", "agent_finish"}
      PROVE  /\ UNCHANGED Shown /\ (Finished' <=> Finished)
             /\ \A k \in Shown : events'[k] = events[k]
             /\ \A k : Place(k)' = Place(k)
  BY <1>0, <1>1, EmitOther
<1>2. CASE emitAgentStart
  <2>1. emit([type |-> "agent_start"])
    BY <1>2 DEF emitAgentStart
  <2> QED
    BY <1>1, <1>2, <2>1, ResultsStay DEF emitAgentStart
<1>3. CASE OnStepStart
  <2>1. emit(StepEvent("step_start", nsteps)) /\ StepEvent("step_start", nsteps).type = "step_start"
    BY <1>3 DEF OnStepStart, StepEvent
  <2> QED
    BY <1>1, <1>3, <2>1, ResultsStay DEF OnStepStart
<1>4. CASE OnToolCall
  <2>1. emit(ToolEvent("tool_call", Len(asked) + 1))
        /\ ToolEvent("tool_call", Len(asked) + 1).type = "tool_call"
    BY <1>4 DEF OnToolCall, ToolEvent
  <2> QED
    BY <1>1, <1>4, <2>1, ResultsStay DEF OnToolCall, turnVars
<1>5. CASE OnStepFinish
  <2>1. emit(StepEvent("step_finish", step)) /\ StepEvent("step_finish", step).type = "step_finish"
    BY <1>5 DEF OnStepFinish, StepEvent
  <2> QED
    BY <1>1, <1>5, <2>1, ResultsStay DEF OnStepFinish
<1>6. CASE emitSessionIdle
  <2>1. emit([type |-> "session_idle"])
    BY <1>6 DEF emitSessionIdle
  <2> QED
    BY <1>0, <1>1, <1>6, <2>1, ResultsAfter DEF emitSessionIdle
<1>7. ASSUME UNCHANGED <<events, produced, meta, memory>>,
             phase' = phase \/ (phase = "agent" /\ phase' = "succeeded")
      PROVE  ResultsAreShown' /\ TurnIsWhole'
  <2>1. /\ UNCHANGED Shown /\ (Finished' <=> Finished)
        /\ \A k \in Shown : events'[k] = events[k]
        /\ \A k : Place(k)' = Place(k)
    BY <1>7, Silent
  <2>2. CASE phase \in {"idle", "done"}
    BY <1>0, <1>7, <2>1, <2>2, ResultsAfter
  <2>3. CASE phase \notin {"idle", "done"}
    BY <1>7, <2>1, <2>3, ResultsStay
  <2> QED
    BY <2>2, <2>3
<1>8. CASE UNCHANGED vars \/ RunTool \/ AgentSucceeds \/ Steer \/ Deliveries
  BY <1>7, <1>8 DEF vars, streamVars, turnVars, RunTool, AgentSucceeds, Steer, Deliveries
<1>9. CASE FallBack \/ (\E r \in BOOLEAN : GiveUp(r)) \/ TurnFails
  BY <1>0, <1>9, ResultsOfFailure
<1>10. CASE TurnSucceeds
  BY <1>0, <1>10, ResultsOfSuccess
<1>11. CASE OnToolResult
  BY <1>11, ResultsOfToolResult
<1> QED
  BY <1>2, <1>3, <1>4, <1>5, <1>6, <1>8, <1>9, <1>10, <1>11 DEF Next

LEMMA InvHolds == Spec => []IInv
<1>1. IInv /\ [Next]_vars => IInv'
  BY NextIsHookStep, HInvPreserved, TypePreserved, SpansPreserved, EventsPreserved,
     ResultsPreserved DEF IInv, SInv, TellEvents
<1> QED
  BY InvInitially, <1>1, PTL DEF Spec

\* The state of a turn has its types, and one span at most is active.
THEOREM TypeCorrect == Spec => []TypeOK
<1>1. IInv => TypeOK
  BY DEF IInv, SInv
<1> QED
  BY InvHolds, <1>1, PTL

\* A client can follow the events of a turn through steps, tools and fallbacks
\* (README.md:227): no step overlaps another, only a retryable error is followed
\* by another attempt, and every tool result belongs to a call of its step.
THEOREM ClientCanFollow == Spec => []EventsFollow
<1>1. IInv => EventsFollow
  BY DEF IInv, SInv
<1> QED
  BY InvHolds, <1>1, PTL

\* A turn enters working memory whole, with the results the client saw of the
\* attempt that succeeded, or not at all, and leaves no span open
\* (main.go:1382-1391, main.go:977).
THEOREM TurnsAreWhole == Spec => []TurnIsWhole
<1>1. IInv => TurnIsWhole
  BY DEF IInv, SInv
<1> QED
  BY InvHolds, <1>1, PTL
=============================================================================
