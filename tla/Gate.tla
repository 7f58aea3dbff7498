--------------------------------- MODULE Gate ---------------------------------
(***************************************************************************)
(* The permission gate (permission.go) and the question gate (question.go) *)
(* with the HTTP handlers that reply to them (main.go).                    *)
(*                                                                         *)
(* A call of a gated tool, or of the question tool, puts a channel of one  *)
(* place into the gate's pending map, emits an event with its ID and waits *)
(* for a reply, a timeout or the end of its context.  A reply looks the    *)
(* channel up under the lock and sends to it after the unlock.             *)
(*                                                                         *)
(* The tools are not marked parallel, so that the calls of one turn follow *)
(* one another; a turn that was aborted may still be in a call when the    *)
(* next one begins (Conversation), and the HTTP handlers run in parallel.  *)
(* Here any calls may overlap.                                             *)
(*                                                                         *)
(* The daemon builds its agent with the wrapped tools and then, again,     *)
(* with the tools as they were: which of two tools of one name runs is the *)
(* library's rule, and either may (offered).                               *)
(*                                                                         *)
(* The two gates are alike up to what a call does with the answer; IDs are *)
(* unique, so that one map stands for both.                                *)
(***************************************************************************)
EXTENDS Integers, FiniteSets

CONSTANTS
  Call,      \* tool calls that go through a gate
  Question,  \* those of the question tool
  Tool,      \* names of gated tools
  ToolOf,    \* the tool of each call that is no question
  Reply      \* requests to the reply endpoints

\* What a request to the reply endpoints may say
Permissions == {"once", "always", "deny", "other"}
Sayings(c) == IF c \in Question THEN {"answers"} ELSE Permissions

\* What a call may hold instead of a reply: nothing yet, or the "deny" (the
\* error, for a question) of a timeout or an ended context
none == "none"
noReply == "noReply"

\* The tool sets of the rebuilt agent, in the order its options name them: the
\* wrapped one, and the one every option of the first build brings along
ToolOptions == <<"gated", "base">>

ASSUME GateAssumption ==
  /\ Question \subseteq Call
  /\ ToolOf \in [Call \ Question -> Tool]
  /\ none \notin Reply /\ noReply \notin Reply

VARIABLES
  offered,        \* the set a gated tool is taken from, of two with its name
  stage,          \* program counter of a call
  pending,        \* keys of the pending maps
  slot,           \* the content of a call's channel: at most one reply
  got,            \* what the call's select received
  seen,           \* calls whose event has reached the console
  alwaysAllowed,  \* g.alwaysAllowed
  progress,       \* program counter of a reply handler, and its verdict
  target,         \* the call a reply names, once it has come
  says            \* what it says

callVars  == <<offered, stage, pending, got, seen, alwaysAllowed>>
replyVars == <<offered, progress, target, says>>
vars == <<offered, stage, pending, slot, got, seen, alwaysAllowed, progress, target, says>>

Ended == {"ran", "denied"}

TypeOK ==
  /\ offered \in {"gated", "base"}
  /\ stage \in [Call -> {"idle", "ask", "wait", "leave", "decide"} \cup Ended]
  /\ pending \in SUBSET Call
  /\ slot \in [Call -> SUBSET Reply] /\ \A c \in Call : \A r, s \in slot[c] : r = s
  /\ got \in [Call -> Reply \cup {none, noReply}]
  /\ seen \in SUBSET Call
  /\ alwaysAllowed \in SUBSET Tool
  /\ progress \in [Reply -> {"idle", "found", "ok", "refused"}]
  /\ target \in [Reply -> Call \cup {none}]
  /\ says \in [Reply -> Permissions \cup {"answers", none}]

Init ==
  /\ \E i \in DOMAIN ToolOptions : offered = ToolOptions[i]
  /\ stage = [c \in Call |-> "idle"]
  /\ pending = {}
  /\ slot = [c \in Call |-> {}]
  /\ got = [c \in Call |-> none]
  /\ seen = {}
  /\ alwaysAllowed = {}
  /\ progress = [r \in Reply |-> "idle"]
  /\ target = [r \in Reply |-> none]
  /\ says = [r \in Reply |-> none]

Goto(c, from, to) == stage[c] = from /\ stage' = [stage EXCEPT ![c] = to]

-------------------------------------------------------------------------------
(* A gated call.  What it does between two critical sections is part of the  *)
(* second one, and the tool it runs is left out.                             *)

\* Call c goes through the wrapper
Wrapped(c) == c \notin Question /\ offered = "gated"

\* The wrapper looks at the allow-list; a tool that is not wrapped runs; the
\* question tool always asks
Begin(c) ==
  /\ \/ Wrapped(c) /\ ToolOf[c] \in alwaysAllowed /\ Goto(c, "idle", "ran")
     \/ Wrapped(c) /\ ToolOf[c] \notin alwaysAllowed /\ Goto(c, "idle", "ask")
     \/ c \notin Question /\ ~Wrapped(c) /\ Goto(c, "idle", "ran")
     \/ c \in Question /\ Goto(c, "idle", "ask")
  /\ UNCHANGED <<pending, slot, got, seen, alwaysAllowed, replyVars>>

\* Enter the map, then emit the event through the session's emitter; without
\* one it is dropped.  Nobody knows the ID in between.
EmitEvent(c) ==
  /\ Goto(c, "ask", "wait")
  /\ pending' = pending \cup {c}
  /\ seen' \in {seen, seen \cup {c}}
  /\ UNCHANGED <<slot, got, alwaysAllowed, replyVars>>

\* The select: any branch that is open may be taken
ReceiveReply(c) ==
  /\ Goto(c, "wait", "leave")
  /\ \E r \in slot[c] : got' = [got EXCEPT ![c] = r]
  /\ slot' = [slot EXCEPT ![c] = {}]
  /\ UNCHANGED <<pending, seen, alwaysAllowed, replyVars>>

\* Mutant: the timer runs for an event that was sent only
GiveUpIfSeen(c) ==
  /\ c \in seen
  /\ Goto(c, "wait", "leave")
  /\ got' = [got EXCEPT ![c] = noReply]
  /\ UNCHANGED <<pending, slot, seen, alwaysAllowed, replyVars>>

\* The timer has fired, or the turn's context is done: at any time, as seen
\* by the other actors
GiveUp(c) ==
  /\ Goto(c, "wait", "leave")
  /\ got' = [got EXCEPT ![c] = noReply]
  /\ UNCHANGED <<pending, slot, seen, alwaysAllowed, replyVars>>

\* Mutant: the entry is removed when a reply has come only
LeaveIfReplied(c) ==
  /\ Goto(c, "leave", "decide")
  /\ pending' = IF got[c] = noReply THEN pending ELSE pending \ {c}
  /\ UNCHANGED <<slot, got, seen, alwaysAllowed, replyVars>>

\* The deferred delete
Leave(c) ==
  /\ Goto(c, "leave", "decide")
  /\ pending' = pending \ {c}
  /\ UNCHANGED <<slot, got, seen, alwaysAllowed, replyVars>>

\* The response the gate returns: a reply's, or "deny"
Response(c) == IF got[c] \in Reply THEN says[got[c]] ELSE "deny"

\* Mutant: what is no "deny" lets the tool run
DecideByDeny(c) ==
  /\ \/ Response(c) = "deny" /\ Goto(c, "decide", "denied") /\ UNCHANGED alwaysAllowed
     \/ Response(c) # "deny" /\ Goto(c, "decide", "ran") /\ UNCHANGED alwaysAllowed
  /\ UNCHANGED <<pending, slot, got, seen, replyVars>>

\* The switch over the response; a question returns the answers or an error
Decide(c) ==
  /\ \/ /\ Response(c) \in {"deny", "other"}
        /\ Goto(c, "decide", "denied")
        /\ UNCHANGED alwaysAllowed
     \/ /\ Response(c) \in {"once", "answers"}
        /\ Goto(c, "decide", "ran")
        /\ UNCHANGED alwaysAllowed
     \/ /\ c \notin Question /\ Response(c) = "always"
        /\ Goto(c, "decide", "ran")
        /\ alwaysAllowed' = alwaysAllowed \cup {ToolOf[c]}
  /\ UNCHANGED <<pending, slot, got, seen, replyVars>>

-------------------------------------------------------------------------------
(* The reply handlers.  A malformed request changes nothing and is left out. *)

\* The lookup under the lock, for an ID the console has seen
LookUp(r) ==
  /\ progress[r] = "idle"
  /\ \E c \in seen : \E p \in Sayings(c) :
       /\ target' = [target EXCEPT ![r] = c]
       /\ says' = [says EXCEPT ![r] = p]
       /\ progress' = [progress EXCEPT ![r] = IF c \in pending THEN "found" ELSE "refused"]
  /\ UNCHANGED <<callVars, slot>>

\* Mutant: any pending request will do
SendToAny(r) ==
  /\ progress[r] = "found"
  /\ \E c \in pending :
       /\ slot[c] = {}
       /\ slot' = [slot EXCEPT ![c] = {r}]
       /\ progress' = [progress EXCEPT ![r] = "ok"]
  /\ UNCHANGED <<callVars, target, says>>

\* Mutant: the channel takes every reply
SendAlways(r) ==
  /\ progress[r] = "found"
  /\ slot' = [slot EXCEPT ![target[r]] = @ \cup {r}]
  /\ progress' = [progress EXCEPT ![r] = "ok"]
  /\ UNCHANGED <<callVars, target, says>>

\* The send that does not block, whether or not anyone waits any more
Send(r) ==
  LET c == target[r] IN
  /\ progress[r] = "found"
  /\ \/ /\ slot[c] = {}
        /\ slot' = [slot EXCEPT ![c] = {r}]
        /\ progress' = [progress EXCEPT ![r] = "ok"]
     \/ /\ slot[c] # {}
        /\ progress' = [progress EXCEPT ![r] = "refused"]
        /\ UNCHANGED slot
  /\ UNCHANGED <<callVars, target, says>>

-------------------------------------------------------------------------------
Ask(c) ==
  Begin(c) \/ EmitEvent(c) \/ ReceiveReply(c) \/ GiveUp(c) \/ Leave(c) \/ Decide(c)

Next ==
  \/ \E c \in Call : Ask(c)
  \/ \E r \in Reply : LookUp(r) \/ Send(r)

Spec == Init /\ [][Next]_vars

\* Goroutines run, and time.After fires
FairSpec ==
  /\ Spec
  /\ \A c \in Call : WF_vars(EmitEvent(c)) /\ WF_vars(GiveUp(c)) /\ WF_vars(Leave(c)) /\ WF_vars(Decide(c))

-------------------------------------------------------------------------------
(* Properties *)

\* Reply r was accepted for call c
Accepted(r, c) == progress[r] = "ok" /\ target[r] = c

\* The user has let call c run, by an answer to it or to an earlier call
Approved(c) ==
  \/ \E r \in Reply : Accepted(r, c) /\ says[r] \in {"once", "always"}
  \/ \E r \in Reply, d \in Call \ Question :
       Accepted(r, d) /\ says[r] = "always" /\ ToolOf[d] = ToolOf[c]

\* "Wraps tools to require user approval before execution" (permission.go): a
\* gated tool runs only on an accepted approval.  The agent as the daemon
\* rebuilds it has the tools without their wrappers too, so that this fails.
RunsOnlyApproved ==
  \A c \in Call \ Question : stage[c] = "ran" => Approved(c)

\* Where the wrapped tools are the ones that run, they run on an accepted
\* approval only: neither a timeout, a cancelled turn, an unknown answer nor a
\* reply to another call or a refused one lets a tool run, however calls and
\* replies interleave.
WrapperRunsOnlyApproved == offered = "gated" => RunsOnlyApproved

\* The answer a call goes on with was given to that very call and accepted:
\* no user decides by it on a request that he has not seen.
AnswerIsOwn ==
  \A c \in Call : got[c] \in Reply => Accepted(got[c], c) /\ c \in seen

\* A call is in the pending map only from its registration to its deferred
\* delete: on every way out the map is left, and a later reply is refused.
NothingLeftPending ==
  \A c \in pending : stage[c] \in {"wait", "leave"}

\* Of the replies a call gets while it waits, the first accepted one counts:
\* a reply in the channel is never replaced.
FirstReplyStays ==
  [][\A c \in Call : slot[c] # {} => slot'[c] \in {slot[c], {}}]_vars

\* Every call that has begun comes to its end, also when the event was dropped
\* for want of an emitter or nobody ever replies.
EveryCallEnds ==
  \A c \in Call : stage[c] # "idle" ~> stage[c] \in Ended

-------------------------------------------------------------------------------
(* The inductive invariant behind the safety properties *)

\* A reply on its way names a call whose event was seen, and says what that
\* call's endpoint takes
RepliesAreAddressed ==
  \A r \in Reply :
    progress[r] # "idle" => target[r] \in seen /\ says[r] \in Sayings(target[r])

\* A channel holds an accepted reply to its own call
ChannelsHoldOwn ==
  \A c \in Call : \A r \in slot[c] : Accepted(r, c)

\* Every entry of the allow-list goes back to an accepted "always"
AllowedByUser ==
  \A t \in alwaysAllowed : \E r \in Reply, d \in Call \ Question :
    Accepted(r, d) /\ says[r] = "always" /\ ToolOf[d] = t

IInv ==
  /\ TypeOK
  /\ RepliesAreAddressed
  /\ ChannelsHoldOwn
  /\ AnswerIsOwn
  /\ AllowedByUser
  /\ WrapperRunsOnlyApproved
  /\ NothingLeftPending

===============================================================================
