----------------------------- MODULE Gate_proofs ------------------------------
(***************************************************************************)
(* Proofs about the gates, for any number of calls, tools and replies.     *)
(***************************************************************************)
EXTENDS Gate, TLAPS

-------------------------------------------------------------------------------
(* Types *)

LEMMA InitTypeOK == Init => TypeOK
BY GateAssumption DEF Init, TypeOK, Ended, ToolOptions

LEMMA GotoType ==
  ASSUME TypeOK, NEW c \in Call, NEW from,
         NEW to \in {"ask", "wait", "leave", "decide", "ran", "denied"}, Goto(c, from, to)
  PROVE  stage' \in [Call -> {"idle", "ask", "wait", "leave", "decide"} \cup Ended]
BY DEF TypeOK, Goto, Ended

LEMMA AskTypeOK ==
  ASSUME TypeOK, NEW c \in Call, Ask(c)
  PROVE  TypeOK'
<1>1. stage' \in [Call -> {"idle", "ask", "wait", "leave", "decide"} \cup Ended]
  BY GotoType DEF Ask, Begin, EmitEvent, ReceiveReply, GiveUp, Leave, Decide
<1>2. /\ offered' \in {"gated", "base"}
      /\ progress' \in [Reply -> {"idle", "found", "ok", "refused"}]
      /\ target' \in [Reply -> Call \cup {none}]
      /\ says' \in [Reply -> Permissions \cup {"answers", none}]
  BY DEF Ask, Begin, EmitEvent, ReceiveReply, GiveUp, Leave, Decide, TypeOK, replyVars
<1>3. pending' \in SUBSET Call /\ seen' \in SUBSET Call
  BY DEF Ask, Begin, EmitEvent, ReceiveReply, GiveUp, Leave, Decide, TypeOK
<1>4. /\ slot' \in [Call -> SUBSET Reply]
      /\ \A d \in Call : \A r, s \in slot'[d] : r = s
  BY DEF Ask, Begin, EmitEvent, ReceiveReply, GiveUp, Leave, Decide, TypeOK
<1>5. got' \in [Call -> Reply \cup {none, noReply}]
  BY DEF Ask, Begin, EmitEvent, ReceiveReply, GiveUp, Leave, Decide, TypeOK
<1>6. alwaysAllowed' \in SUBSET Tool
  BY GateAssumption DEF Ask, Begin, EmitEvent, ReceiveReply, GiveUp, Leave, Decide, TypeOK
<1> QED
  BY <1>1, <1>2, <1>3, <1>4, <1>5, <1>6 DEF TypeOK

LEMMA ReplyTypeOK ==
  ASSUME TypeOK, NEW r \in Reply, LookUp(r) \/ Send(r)
  PROVE  TypeOK'
<1>1. CASE LookUp(r)
  BY <1>1 DEF LookUp, Sayings, TypeOK, callVars
<1>2. CASE Send(r)
  <2>1. target[r] \in Call => /\ slot' \in [Call -> SUBSET Reply]
                             /\ \A d \in Call : \A q, s \in slot'[d] : q = s
    BY <1>2 DEF Send, TypeOK
  <2>2. target[r] \notin Call => slot' = slot
    BY <1>2 DEF Send, TypeOK
  <2>3. progress' \in [Reply -> {"idle", "found", "ok", "refused"}]
    BY <1>2 DEF Send, TypeOK
  <2> QED
    BY <1>2, <2>1, <2>2, <2>3 DEF Send, TypeOK, callVars
<1> QED
  BY <1>1, <1>2

LEMMA NextTypeOK == TypeOK /\ [Next]_vars => TypeOK'
<1> SUFFICES ASSUME TypeOK, [Next]_vars
             PROVE  TypeOK'
  OBVIOUS
<1>1. CASE UNCHANGED vars
  BY <1>1 DEF vars, TypeOK
<1>2. CASE Next
  BY <1>2, AskTypeOK, ReplyTypeOK DEF Next
<1> QED
  BY <1>1, <1>2

\* Every state of the gates has the declared types.
THEOREM TypeCorrect == Spec => []TypeOK
BY InitTypeOK, NextTypeOK, PTL DEF Spec

-------------------------------------------------------------------------------
(* What steps leave alone *)

\* A call does not touch the replies, a reply does not touch the calls
LEMMA AskKeepsReplies ==
  ASSUME NEW c \in Call, Ask(c)
  PROVE  /\ progress' = progress /\ target' = target /\ says' = says
         /\ seen \subseteq seen' /\ offered' = offered
BY DEF Ask, Begin, EmitEvent, ReceiveReply, GiveUp, Leave, Decide, replyVars

LEMMA ReplyKeepsCalls ==
  ASSUME NEW r \in Reply, LookUp(r) \/ Send(r)
  PROVE  UNCHANGED <<offered, stage, pending, got, seen, alwaysAllowed>>
BY DEF LookUp, Send, callVars

\* An accepted reply keeps its target and what it says
LEMMA AcceptedStays ==
  ASSUME TypeOK, [Next]_vars, NEW r \in Reply, NEW c \in Call, Accepted(r, c)
  PROVE  Accepted(r, c)' /\ says'[r] = says[r]
<1>1. CASE UNCHANGED vars
  BY <1>1 DEF vars, Accepted
<1>2. ASSUME NEW d \in Call, Ask(d)
      PROVE  Accepted(r, c)' /\ says'[r] = says[r]
  BY <1>2, AskKeepsReplies DEF Accepted
<1>3. ASSUME NEW q \in Reply, LookUp(q) \/ Send(q)
      PROVE  Accepted(r, c)' /\ says'[r] = says[r]
  <2>1. q # r
    BY <1>3 DEF LookUp, Send, Accepted
  <2> QED
    BY <1>3, <2>1 DEF LookUp, Send, Accepted, TypeOK
<1> QED
  BY <1>1, <1>2, <1>3 DEF Next

\* What the agent was built with stays
LEMMA OfferedStays == [Next]_vars => offered' = offered
BY AskKeepsReplies, ReplyKeepsCalls DEF Next, vars

LEMMA SeenStays == [Next]_vars => seen \subseteq seen'
BY AskKeepsReplies, ReplyKeepsCalls DEF Next, vars

-------------------------------------------------------------------------------
(* Replies *)

LEMMA NextAddressed == TypeOK /\ RepliesAreAddressed /\ [Next]_vars => RepliesAreAddressed'
<1> SUFFICES ASSUME TypeOK, RepliesAreAddressed, [Next]_vars
             PROVE  RepliesAreAddressed'
  OBVIOUS
<1>1. CASE UNCHANGED vars
  BY <1>1 DEF vars, RepliesAreAddressed, Sayings
<1>2. ASSUME NEW c \in Call, Ask(c)
      PROVE  RepliesAreAddressed'
  BY <1>2, AskKeepsReplies DEF RepliesAreAddressed, Sayings
<1>3. ASSUME NEW q \in Reply, LookUp(q)
      PROVE  RepliesAreAddressed'
  BY <1>3 DEF LookUp, callVars, RepliesAreAddressed, Sayings, TypeOK
<1>4. ASSUME NEW q \in Reply, Send(q)
      PROVE  RepliesAreAddressed'
  BY <1>4 DEF Send, callVars, RepliesAreAddressed, Sayings, TypeOK
<1> QED
  BY <1>1, <1>2, <1>3, <1>4 DEF Next

LEMMA NextHoldOwn == TypeOK /\ RepliesAreAddressed /\ ChannelsHoldOwn /\ [Next]_vars => ChannelsHoldOwn'
<1> SUFFICES ASSUME TypeOK, RepliesAreAddressed, ChannelsHoldOwn, [Next]_vars,
                    NEW c \in Call, NEW r \in slot'[c]
             PROVE  Accepted(r, c)'
  BY DEF ChannelsHoldOwn
<1>0. CASE r \in slot[c]
  BY <1>0, AcceptedStays DEF ChannelsHoldOwn, TypeOK
<1>1. CASE r \notin slot[c]
  <2>1. PICK q \in Reply : Send(q)
    <3>1. \A d \in Call : Ask(d) => r \in slot[c]
      BY DEF Ask, Begin, EmitEvent, ReceiveReply, GiveUp, Leave, Decide, TypeOK
    <3>2. \A q \in Reply : LookUp(q) => r \in slot[c]
      BY DEF LookUp
    <3> QED
      BY <1>1, <3>1, <3>2 DEF Next, vars
  <2>2. target[q] \in Call
    BY <2>1 DEF Send, RepliesAreAddressed, TypeOK
  <2>3. q = r /\ target[q] = c /\ progress'[q] = "ok" /\ target' = target
    BY <1>1, <2>1, <2>2 DEF Send, TypeOK
  <2> QED
    BY <2>3 DEF Accepted
<1> QED
  BY <1>0, <1>1

LEMMA NextAnswerIsOwn ==
  TypeOK /\ RepliesAreAddressed /\ ChannelsHoldOwn /\ AnswerIsOwn /\ [Next]_vars => AnswerIsOwn'
<1> SUFFICES ASSUME TypeOK, RepliesAreAddressed, ChannelsHoldOwn, AnswerIsOwn, [Next]_vars,
                    NEW c \in Call, NEW r \in Reply, got'[c] = r
             PROVE  Accepted(r, c)' /\ c \in seen'
  BY DEF AnswerIsOwn, Accepted
<1>1. got[c] = r \/ r \in slot[c]
  <2>1. \A d \in Call : Ask(d) => got[c] = r \/ r \in slot[c]
    BY GateAssumption DEF Ask, Begin, EmitEvent, ReceiveReply, GiveUp, Leave, Decide, TypeOK
  <2> QED
    BY <2>1, ReplyKeepsCalls DEF Next, vars
<1>2. Accepted(r, c) /\ c \in seen
  BY <1>1 DEF AnswerIsOwn, ChannelsHoldOwn, RepliesAreAddressed, Accepted
<1> QED
  BY <1>2, AcceptedStays, SeenStays

-------------------------------------------------------------------------------
(* Approvals *)

LEMMA ApprovedStays ==
  ASSUME TypeOK, [Next]_vars, NEW c \in Call, Approved(c)
  PROVE  Approved(c)'
BY AcceptedStays DEF Approved

LEMMA NextAllowed ==
  TypeOK /\ AnswerIsOwn /\ AllowedByUser /\ [Next]_vars => AllowedByUser'
<1> SUFFICES ASSUME TypeOK, AnswerIsOwn, AllowedByUser, [Next]_vars, NEW t \in alwaysAllowed'
             PROVE  \E r \in Reply, d \in Call \ Question :
                      Accepted(r, d)' /\ says'[r] = "always" /\ ToolOf[d] = t
  BY DEF AllowedByUser
<1>1. \E r \in Reply, d \in Call \ Question : Accepted(r, d) /\ says[r] = "always" /\ ToolOf[d] = t
  <2>1. CASE t \in alwaysAllowed
    BY <2>1 DEF AllowedByUser
  <2>2. CASE t \notin alwaysAllowed
    <3>1. PICK c \in Call : Decide(c)
      BY <2>2, ReplyKeepsCalls DEF Next, Ask, Begin, EmitEvent, ReceiveReply, GiveUp, Leave, vars
    <3>2. c \notin Question /\ Response(c) = "always" /\ t = ToolOf[c]
      BY <2>2, <3>1 DEF Decide
    <3> QED
      BY <3>2 DEF Response, AnswerIsOwn
  <2> QED
    BY <2>1, <2>2
<1> QED
  BY <1>1, AcceptedStays

LEMMA NextApproved ==
  TypeOK /\ RepliesAreAddressed /\ AnswerIsOwn /\ AllowedByUser /\ WrapperRunsOnlyApproved /\ [Next]_vars
    => WrapperRunsOnlyApproved'
<1> SUFFICES ASSUME TypeOK, RepliesAreAddressed, AnswerIsOwn, AllowedByUser,
                    offered = "gated" => RunsOnlyApproved, offered = "gated",
                    [Next]_vars, NEW c \in Call \ Question, stage'[c] = "ran"
             PROVE  Approved(c)'
  BY OfferedStays DEF WrapperRunsOnlyApproved, RunsOnlyApproved
<1>1. CASE stage[c] = "ran"
  BY <1>1, ApprovedStays DEF RunsOnlyApproved
<1>2. CASE stage[c] # "ran"
  <2>1. Begin(c) \/ Decide(c)
    BY <1>2, ReplyKeepsCalls
    DEF Next, Ask, Begin, EmitEvent, ReceiveReply, GiveUp, Leave, Decide, Goto, vars, TypeOK
  <2>2. CASE Begin(c)
    <3>1. ToolOf[c] \in alwaysAllowed
      BY <2>2 DEF Begin, Wrapped, Goto, TypeOK
    <3>2. Approved(c)
      BY <3>1 DEF AllowedByUser, Approved
    <3> QED
      BY <3>2, ApprovedStays
  <2>3. CASE Decide(c)
    <3>1. Response(c) \in {"once", "answers", "always"}
      BY <2>3 DEF Decide, Goto, TypeOK
    <3>2. got[c] \in Reply /\ says[got[c]] = Response(c)
      BY <3>1 DEF Response
    <3>3. Accepted(got[c], c) /\ says[got[c]] \in Sayings(c)
      BY <3>2 DEF AnswerIsOwn, RepliesAreAddressed, Accepted
    <3>4. says[got[c]] \in {"once", "always"}
      BY <3>1, <3>2, <3>3 DEF Sayings, Permissions
    <3>5. Approved(c)
      BY <3>2, <3>3, <3>4 DEF Approved
    <3> QED
      BY <3>5, ApprovedStays
  <2> QED
    BY <2>1, <2>2, <2>3
<1> QED
  BY <1>1, <1>2

LEMMA NextNothingLeft == TypeOK /\ NothingLeftPending /\ [Next]_vars => NothingLeftPending'
<1> SUFFICES ASSUME TypeOK, NothingLeftPending, [Next]_vars, NEW c \in pending'
             PROVE  stage'[c] \in {"wait", "leave"}
  BY DEF NothingLeftPending
<1>1. CASE UNCHANGED <<stage, pending>>
  BY <1>1 DEF NothingLeftPending
<1>2. ASSUME NEW d \in Call, Ask(d)
      PROVE  stage'[c] \in {"wait", "leave"}
  <2>1. CASE c = d
    BY <1>2, <2>1
    DEF Ask, Begin, EmitEvent, ReceiveReply, GiveUp, Leave, Decide, Goto, NothingLeftPending, TypeOK
  <2>2. CASE c # d
    BY <1>2, <2>2
    DEF Ask, Begin, EmitEvent, ReceiveReply, GiveUp, Leave, Decide, Goto, NothingLeftPending, TypeOK
  <2> QED
    BY <2>1, <2>2
<1> QED
  BY <1>1, <1>2, ReplyKeepsCalls DEF Next, vars

-------------------------------------------------------------------------------
(* The theorems *)

LEMMA InitIInv == Init => IInv
BY InitTypeOK, GateAssumption
DEF Init, IInv, RepliesAreAddressed, ChannelsHoldOwn, AnswerIsOwn, AllowedByUser,
    WrapperRunsOnlyApproved, RunsOnlyApproved, NothingLeftPending, Ended

LEMMA NextIInv == IInv /\ [Next]_vars => IInv'
BY NextTypeOK, NextAddressed, NextHoldOwn, NextAnswerIsOwn, NextAllowed, NextApproved, NextNothingLeft
DEF IInv

\* Replies find their own calls, and approvals are accepted ones, in every
\* state: the inductive invariant of the gates.
THEOREM Invariance == Spec => []IInv
BY InitIInv, NextIInv, PTL DEF Spec

\* The wrapper does its part: where the wrapped tools are the ones that run,
\* none runs without the user's accepted approval, of this call or of its tool
\* for good.  The agent as main.go builds it need not have them run: the run
\* Gate_wiring shows a call without an approval.
THEOREM WrapperAsks == Spec => []WrapperRunsOnlyApproved
<1>1. IInv => WrapperRunsOnlyApproved
  BY DEF IInv
<1> QED
  BY <1>1, Invariance, PTL

\* A call goes on with a reply that was addressed to it, and accepted.
THEOREM AnswerBelongs == Spec => []AnswerIsOwn
<1>1. IInv => AnswerIsOwn
  BY DEF IInv
<1> QED
  BY <1>1, Invariance, PTL

\* The pending maps hold waiting calls only.
THEOREM MapIsClean == Spec => []NothingLeftPending
<1>1. IInv => NothingLeftPending
  BY DEF IInv
<1> QED
  BY <1>1, Invariance, PTL

\* A reply in a channel is received or stays.
THEOREM FirstReplyWins == Spec => FirstReplyStays
<1>1. TypeOK /\ [Next]_vars => [\A c \in Call : slot[c] # {} => slot'[c] \in {slot[c], {}}]_vars
  <2> SUFFICES ASSUME TypeOK, Next, NEW c \in Call, slot[c] # {}
               PROVE  slot'[c] \in {slot[c], {}}
    OBVIOUS
  <2>1. \A d \in Call : Ask(d) => slot'[c] \in {slot[c], {}}
    BY DEF Ask, Begin, EmitEvent, ReceiveReply, GiveUp, Leave, Decide, TypeOK
  <2>2. \A r \in Reply : LookUp(r) \/ Send(r) => slot'[c] \in {slot[c], {}}
    BY DEF LookUp, Send, TypeOK
  <2> QED
    BY <2>1, <2>2 DEF Next
<1> QED
  BY <1>1, TypeCorrect, PTL DEF Spec, FirstReplyStays

===============================================================================
