------------------------- MODULE Conversation_proofs -------------------------
(***************************************************************************)
(* Proofs about the conversation's session state, for any number of turns  *)
(* and steer messages.                                                     *)
(***************************************************************************)
EXTENDS Conversation, SequenceTheorems, TLAPS

-------------------------------------------------------------------------------
(* Types *)

\* The types of all variables but pc
DataOK ==
  /\ busy \in BOOLEAN
  /\ cancel \in Turn \cup {none}
  /\ steerMsg \in Message \cup {none}
  /\ emitter \in Turn \cup {none}
  /\ injector \in Turn \cup {none}
  /\ kind \in [Turn -> {"none", "prompt", "stream", "internal"}]
  /\ cancelled \in SUBSET Turn
  /\ steps \in [Turn -> 0 .. MaxSteps]
  /\ hand \in [Turn -> Message \cup {none}]
  /\ seen \in [Turn -> Nat]
  /\ log \in Seq(Entry)
  /\ sent \in SUBSET Steer
  /\ aborted \in BOOLEAN

LEMMA TypeOKSplit == TypeOK <=> DataOK /\ pc \in [Turn -> Points]
BY DEF TypeOK, DataOK

LEMMA InitTypeOK == Init => TypeOK
<1> SUFFICES ASSUME Init
             PROVE  TypeOK
  OBVIOUS
<1>1. pc \in [Turn -> Points]
  BY DEF Init, Points, OtherPC
<1>2. /\ steps \in [Turn -> 0 .. MaxSteps]
      /\ seen \in [Turn -> Nat]
  BY ConversationAssumption DEF Init
<1>3. kind \in [Turn -> {"none", "prompt", "stream", "internal"}]
  BY DEF Init
<1>4. hand \in [Turn -> Message \cup {none}]
  BY DEF Init
<1>5. log \in Seq(Entry)
  BY EmptySeq DEF Init
<1> QED
  BY <1>1, <1>2, <1>3, <1>4, <1>5 DEF Init, TypeOK

LEMMA GotoType ==
  ASSUME pc \in [Turn -> Points], NEW t \in Turn, NEW a, NEW b \in Points, Goto(t, a, b)
  PROVE  pc' \in [Turn -> Points]
BY DEF Goto

LEMMA NextPc ==
  ASSUME pc \in [Turn -> Points], [Next]_vars
  PROVE  pc' \in [Turn -> Points]
<1> USE GotoType DEF Points, HoldingPC, OtherPC
<1>1. ASSUME NEW t \in Turn, Admit(t) \/ Trigger(t)
      PROVE  pc' \in [Turn -> Points]
  BY <1>1 DEF Admit, Trigger
<1>2. ASSUME NEW t \in Turn, Run(t)
      PROVE  pc' \in [Turn -> Points]
  BY <1>2
  DEF Run, StartInternal, SetCancel, SetEmitter, Snapshot, SetInjector, Fit, StepStart,
      InjectSteer, StepEnd, AppendUser, AppendReply, CompleteTurn, Announce, ClearInjector,
      ClearEmitter, Release
<1>3. ASSUME NEW m \in Steer, PostSteer(m)
      PROVE  pc' \in [Turn -> Points]
  BY <1>3 DEF PostSteer
<1>4. CASE Abort \/ UNCHANGED vars
  BY <1>4 DEF Abort, vars
<1> QED
  BY <1>1, <1>2, <1>3, <1>4 DEF Next

LEMMA LogGrows ==
  ASSUME log \in Seq(Entry), NEW e \in Entry
  PROVE  Append(log, e) \in Seq(Entry)
BY AppendProperties

LEMMA StepDataOK ==
  ASSUME DataOK, NEW t \in Turn, Run(t)
  PROVE  DataOK'
<1> USE ConversationAssumption DEF DataOK, session, clients
<1>1. CASE StartInternal(t)
  BY <1>1 DEF StartInternal, Message
<1>2. CASE SetCancel(t) \/ SetEmitter(t) \/ SetInjector(t)
  BY <1>2 DEF SetCancel, SetEmitter, SetInjector
<1>3. CASE Snapshot(t) \/ Fit(t)
  <2>1. Len(log) \in Nat
    BY LenProperties
  <2>2. seen[t] \in Nat
    OBVIOUS
  <2>3. CASE Snapshot(t)
    BY <2>1, <2>3 DEF Snapshot
  <2>4. CASE Fit(t)
    BY <2>1, <2>2, <2>4 DEF Fit
  <2> QED
    BY <1>3, <2>3, <2>4
<1>4. CASE StepStart(t)
  <2>1. steps' \in [Turn -> 0 .. MaxSteps]
    BY <1>4 DEF StepStart
  <2>2. hand' \in [Turn -> Message \cup {none}]
    <3>1. hand' = hand \/ hand' = [hand EXCEPT ![t] = steerMsg]
      BY <1>4, Zenon DEF StepStart
    <3> QED
      BY <3>1
  <2>3. steerMsg' \in Message \cup {none}
    BY <1>4 DEF StepStart
  <2> QED
    BY <1>4, <2>1, <2>2, <2>3 DEF StepStart
<1>5. CASE InjectSteer(t)
  <2>1. hand[t] # none => <<"steer", hand[t]>> \in Entry
    BY DEF Entry
  <2>2. CASE hand[t] = none
    BY <1>5, <2>2 DEF InjectSteer
  <2>3. CASE hand[t] # none
    <3>1. Append(log, <<"steer", hand[t]>>) \in Seq(Entry)
      BY <2>1, <2>3, LogGrows
    <3> QED
      BY <1>5, <2>3, <3>1 DEF InjectSteer
  <2> QED
    BY <2>2, <2>3
<1>6. CASE AppendUser(t) \/ AppendReply(t)
  <2>1. <<"user", t>> \in Entry /\ <<"reply", t>> \in Entry
    BY DEF Entry
  <2>2. /\ Append(log, <<"user", t>>) \in Seq(Entry)
        /\ Append(log, <<"reply", t>>) \in Seq(Entry)
    BY <2>1, LogGrows
  <2> QED
    BY <1>6, <2>2 DEF AppendUser, AppendReply
<1>7. CASE StepEnd(t) \/ CompleteTurn(t) \/ Announce(t)
  BY <1>7 DEF StepEnd, CompleteTurn, Announce
<1>8. CASE ClearInjector(t) \/ ClearEmitter(t) \/ Release(t)
  BY <1>8 DEF ClearInjector, ClearEmitter, Release
<1> QED
  BY <1>1, <1>2, <1>3, <1>4, <1>5, <1>6, <1>7, <1>8 DEF Run

LEMMA NextTypeOK == TypeOK /\ [Next]_vars => TypeOK'
<1> SUFFICES ASSUME TypeOK, [Next]_vars
             PROVE  TypeOK'
  OBVIOUS
<1>0. DataOK /\ pc \in [Turn -> Points]
  BY TypeOKSplit
<1>1. ASSUME NEW t \in Turn, Admit(t) \/ Trigger(t)
      PROVE  DataOK'
  <2>1. CASE Admit(t)
    BY <1>0, <2>1 DEF Admit, DataOK, clients
  <2>2. CASE Trigger(t)
    BY <1>0, <2>2 DEF Trigger, DataOK, Message, clients
  <2> QED
    BY <1>1, <2>1, <2>2
<1>2. ASSUME NEW t \in Turn, Run(t)
      PROVE  DataOK'
  BY <1>0, <1>2, StepDataOK, Zenon
<1>3. ASSUME NEW m \in Steer, PostSteer(m)
      PROVE  DataOK'
  BY <1>0, <1>3 DEF PostSteer, DataOK, Message
<1>4. ASSUME Abort
      PROVE  DataOK'
  BY <1>0, <1>4 DEF Abort, DataOK
<1>5. ASSUME UNCHANGED vars
      PROVE  DataOK'
  BY <1>0, <1>5 DEF vars, DataOK
<1>6. DataOK'
  BY <1>1, <1>2, <1>3, <1>4, <1>5, Zenon DEF Next
<1>7. pc' \in [Turn -> Points]
  BY <1>0, NextPc
<1> QED
  BY <1>6, <1>7 DEF TypeOK, DataOK

\* Type correctness of the conversation's state.
THEOREM TypeCorrect == Spec => []TypeOK
BY InitTypeOK, NextTypeOK, PTL DEF Spec

-------------------------------------------------------------------------------
(* Clean-up, with or without aborts *)

LEMMA NextHeldIsOwned == TypeOK /\ HeldIsOwned /\ [Next]_vars => HeldIsOwned'
<1> SUFFICES ASSUME TypeOK, HeldIsOwned, [Next]_vars
             PROVE  HeldIsOwned'
  OBVIOUS
<1> USE ConversationAssumption
    DEF TypeOK, HeldIsOwned, Goto, Holding, HoldingPC, OtherPC, CancelPC, EmitterPC,
        InjectorPC, HasEmitter, session, clients
<1>1. ASSUME NEW t \in Turn, Admit(t) \/ Trigger(t) \/ StartInternal(t)
      PROVE  HeldIsOwned'
  <2>1. CASE Admit(t)
    BY <2>1 DEF Admit
  <2>2. CASE Trigger(t)
    BY <2>2 DEF Trigger
  <2>3. CASE StartInternal(t)
    BY <2>3 DEF StartInternal
  <2> QED
    BY <1>1, <2>1, <2>2, <2>3, Zenon
<1>2. ASSUME NEW t \in Turn, SetCancel(t) \/ SetEmitter(t) \/ Snapshot(t) \/ SetInjector(t) \/ Fit(t)
      PROVE  HeldIsOwned'
  <2>1. CASE SetCancel(t)
    BY <2>1 DEF SetCancel
  <2>2. CASE SetEmitter(t)
    BY <2>2 DEF SetEmitter
  <2>3. CASE Snapshot(t) \/ Fit(t)
    BY <2>3 DEF Snapshot, Fit
  <2>4. CASE SetInjector(t)
    BY <2>4 DEF SetInjector
  <2> QED
    BY <1>2, <2>1, <2>2, <2>3, <2>4
<1>3. ASSUME NEW t \in Turn, StepStart(t) \/ InjectSteer(t) \/ StepEnd(t)
      PROVE  HeldIsOwned'
  BY <1>3 DEF StepStart, InjectSteer, StepEnd
<1>4. ASSUME NEW t \in Turn, AppendUser(t) \/ AppendReply(t) \/ CompleteTurn(t) \/ Announce(t)
      PROVE  HeldIsOwned'
  BY <1>4 DEF AppendUser, AppendReply, CompleteTurn, Announce
<1>5. ASSUME NEW t \in Turn, ClearInjector(t)
      PROVE  HeldIsOwned'
  BY <1>5 DEF ClearInjector
<1>6. ASSUME NEW t \in Turn, ClearEmitter(t)
      PROVE  HeldIsOwned'
  BY <1>6 DEF ClearEmitter
<1>7. ASSUME NEW t \in Turn, Release(t)
      PROVE  HeldIsOwned'
  BY <1>7 DEF Release
<1>8. ASSUME NEW m \in Steer, PostSteer(m)
      PROVE  HeldIsOwned'
  BY <1>8 DEF PostSteer
<1>9. CASE Abort
  BY <1>9 DEF Abort
<1>10. CASE UNCHANGED vars
  BY <1>10 DEF vars
<1> QED
  BY <1>1, <1>2, <1>3, <1>4, <1>5, <1>6, <1>7, <1>8, <1>9, <1>10 DEF Next, Run

\* However turns overlap after aborts, once no handler holds the conversation
\* it is free, and nothing of an earlier turn is left in the session.
THEOREM QuietIsClean == Spec => []QuietMeansClean
<1>1. Init => HeldIsOwned
  BY DEF Init, HeldIsOwned
<1>2. TypeOK /\ HeldIsOwned => QuietMeansClean
  BY DEF TypeOK, HeldIsOwned, QuietMeansClean, Holding, CancelPC, EmitterPC, InjectorPC
<1> QED
  BY <1>1, <1>2, TypeCorrect, NextHeldIsOwned, PTL DEF Spec

-------------------------------------------------------------------------------
(* Exclusion, until a client aborts *)

\* The steps in which a turn counts on its context, and on its emitter
ContextUse == {"context", "stepping", "inject", "model"}
EmitterUse == ContextUse \cup {"emitterSet", "snapshot"}

Owned ==
  /\ Exclusive
  /\ \A t \in Turn : pc[t] \in ContextUse => injector = t
  /\ \A t \in Turn : HasEmitter(t) /\ pc[t] \in EmitterUse => emitter = t

\* A step of the turn that holds the conversation, and goes on holding it, has
\* only that turn's context and emitter to look after.
LEMMA HolderSteps ==
  ASSUME Owned, NEW t \in Turn, Holding(t), Holding(t)',
         \A u \in Turn \ {t} : pc'[u] = pc[u],
         busy' = busy, kind' = kind,
         pc'[t] \in ContextUse => injector' = t,
         HasEmitter(t) /\ pc'[t] \in EmitterUse => emitter' = t
  PROVE  Owned'
<1>1. \A u \in Turn \ {t} : pc'[u] \notin HoldingPC
  BY DEF Owned, Exclusive, Holding
<1>2. Exclusive'
  BY <1>1 DEF Owned, Exclusive, Holding
<1>3. ContextUse \subseteq HoldingPC /\ EmitterUse \subseteq HoldingPC
  BY DEF ContextUse, EmitterUse, HoldingPC
<1> QED
  BY <1>1, <1>2, <1>3 DEF Owned, HasEmitter

\* A step outside the conversation
LEMMA OutsiderSteps ==
  ASSUME Owned, NEW t \in Turn, ~Holding(t), ~Holding(t)',
         \A u \in Turn \ {t} : pc'[u] = pc[u] /\ kind'[u] = kind[u],
         busy' = busy, emitter' = emitter, injector' = injector
  PROVE  Owned'
<1>1. Exclusive'
  BY DEF Owned, Exclusive, Holding
<1>2. ContextUse \subseteq HoldingPC /\ EmitterUse \subseteq HoldingPC
  BY DEF ContextUse, EmitterUse, HoldingPC
<1> QED
  BY <1>1, <1>2 DEF Owned, HasEmitter, Holding

\* A handler that finds the conversation free takes it
LEMMA AdmittedAlone ==
  ASSUME Owned, NEW t \in Turn, ~busy, busy', pc'[t] = "admitted",
         \A u \in Turn \ {t} : pc'[u] = pc[u]
  PROVE  Owned'
<1>1. \A u \in Turn \ {t} : pc'[u] \notin HoldingPC
  BY DEF Owned, Exclusive, Holding
<1>2. Exclusive'
  BY <1>1 DEF Exclusive, Holding, HoldingPC
<1>3. \A u \in Turn : pc'[u] \notin EmitterUse
  BY <1>1 DEF ContextUse, EmitterUse, HoldingPC
<1> QED
  BY <1>2, <1>3 DEF Owned, EmitterUse

LEMMA GotoMoves ==
  ASSUME pc \in [Turn -> Points], NEW t \in Turn, NEW a, NEW b, Goto(t, a, b)
  PROVE  pc[t] = a /\ pc'[t] = b /\ \A u \in Turn \ {t} : pc'[u] = pc[u]
BY DEF Goto

LEMMA NextOwned == TypeOK /\ Owned /\ Next /\ ~Abort => Owned'
<1> SUFFICES ASSUME TypeOK, Owned, Next, ~Abort
             PROVE  Owned'
  OBVIOUS
<1>0. pc \in [Turn -> Points]
  BY DEF TypeOK
<1>1. ASSUME NEW t \in Turn, Admit(t) \/ Trigger(t) \/ StartInternal(t)
      PROVE  Owned'
  <2>1. \A u \in Turn \ {t} : pc'[u] = pc[u] /\ kind'[u] = kind[u]
    BY <1>0, <1>1, GotoMoves DEF Admit, Trigger, StartInternal, TypeOK
  <2>2. CASE ~busy /\ busy' /\ pc'[t] = "admitted"
    BY <2>1, <2>2, AdmittedAlone
  <2>3. CASE ~(~busy /\ busy' /\ pc'[t] = "admitted")
    <3>1. pc[t] \in OtherPC /\ pc'[t] \in OtherPC /\ busy' = busy
      BY <1>0, <1>1, <2>3, GotoMoves DEF Admit, Trigger, StartInternal, OtherPC
    <3>2. ~Holding(t) /\ ~Holding(t)'
      BY <3>1 DEF Holding, HoldingPC, OtherPC
    <3>3. emitter' = emitter /\ injector' = injector
      BY <1>1 DEF Admit, Trigger, StartInternal
    <3> QED
      BY <2>1, <3>1, <3>2, <3>3, OutsiderSteps
  <2> QED
    BY <2>2, <2>3
<1>2. ASSUME NEW t \in Turn, Run(t), ~StartInternal(t), ~Release(t)
      PROVE  Owned'
  <2>1. /\ pc[t] \in HoldingPC /\ pc'[t] \in HoldingPC
        /\ \A u \in Turn \ {t} : pc'[u] = pc[u]
    BY <1>0, <1>2, GotoMoves
    DEF Run, SetCancel, SetEmitter, Snapshot, SetInjector, Fit, StepStart, InjectSteer,
        StepEnd, AppendUser, AppendReply, CompleteTurn, Announce, ClearInjector,
        ClearEmitter, HoldingPC
  <2>2. busy' = busy /\ kind' = kind
    BY <1>2
    DEF Run, SetCancel, SetEmitter, Snapshot, SetInjector, Fit, StepStart, InjectSteer,
        StepEnd, AppendUser, AppendReply, CompleteTurn, Announce, ClearInjector,
        ClearEmitter, session
  <2>3. pc'[t] \in ContextUse => injector' = t
    BY <1>0, <1>2, GotoMoves
    DEF Run, SetCancel, SetEmitter, Snapshot, SetInjector, Fit, StepStart, InjectSteer,
        StepEnd, AppendUser, AppendReply, CompleteTurn, Announce, ClearInjector,
        ClearEmitter, session, ContextUse, Owned
  <2>4. HasEmitter(t) /\ pc'[t] \in EmitterUse => emitter' = t
    BY <1>0, <1>2, GotoMoves
    DEF Run, SetCancel, SetEmitter, Snapshot, SetInjector, Fit, StepStart, InjectSteer,
        StepEnd, AppendUser, AppendReply, CompleteTurn, Announce, ClearInjector,
        ClearEmitter, session, ContextUse, EmitterUse, Owned
  <2> QED
    BY <1>0, <2>1, <2>2, <2>3, <2>4, HolderSteps DEF Holding
<1>3. ASSUME NEW t \in Turn, Release(t)
      PROVE  Owned'
  <2>1. /\ pc[t] = "emitterCleared" /\ pc'[t] = "done" /\ ~busy'
        /\ \A u \in Turn \ {t} : pc'[u] = pc[u]
    BY <1>0, <1>3, GotoMoves DEF Release
  <2>2. \A u \in Turn : pc'[u] \notin HoldingPC
    BY <2>1 DEF Owned, Exclusive, Holding, HoldingPC
  <2>3. \A u \in Turn : pc'[u] \notin EmitterUse
    BY <2>2 DEF ContextUse, EmitterUse, HoldingPC
  <2> QED
    BY <2>1, <2>2, <2>3 DEF Owned, Exclusive, Holding, EmitterUse
<1>4. ASSUME NEW m \in Steer, PostSteer(m)
      PROVE  Owned'
  BY <1>4 DEF PostSteer, Owned, Exclusive, Holding, HasEmitter
<1> QED
  BY <1>1, <1>2, <1>3, <1>4 DEF Next, Run

LEMMA OwnedUntilAbort == Spec => [](aborted \/ Owned)
<1>1. Init => Owned
  BY DEF Init, Owned, Exclusive, Holding, HoldingPC, ContextUse, EmitterUse
<1>2. TypeOK /\ (aborted \/ Owned) /\ [Next]_vars => (aborted \/ Owned)'
  <2> SUFFICES ASSUME TypeOK, aborted \/ Owned, [Next]_vars
               PROVE  aborted' \/ Owned'
    OBVIOUS
  <2>1. CASE aborted /\ Next
    BY <2>1
    DEF Next, Run, Admit, Trigger, StartInternal, SetCancel, SetEmitter, Snapshot,
        SetInjector, Fit, StepStart, InjectSteer, StepEnd, AppendUser, AppendReply,
        CompleteTurn, Announce, ClearInjector, ClearEmitter, Release, PostSteer, Abort,
        clients
  <2>2. CASE Owned /\ Next /\ ~Abort
    BY <2>2, NextOwned
  <2>3. CASE Abort
    BY <2>3 DEF Abort
  <2>4. CASE UNCHANGED vars
    BY <2>4 DEF vars, Owned, Exclusive, Holding, HasEmitter
  <2> QED
    BY <2>1, <2>2, <2>3, <2>4
<1> QED
  BY <1>1, <1>2, TypeCorrect, PTL DEF Spec

\* Until a client aborts no two handlers hold the conversation, and busy says
\* whether one does: the second look of the internal handler closes the gap
\* that the trigger leaves between its look at busy and the goroutine's.
THEOREM NoOverlap == Spec => []OneTurnAtATime
<1>1. aborted \/ Owned => OneTurnAtATime
  BY DEF Owned, OneTurnAtATime
<1> QED
  BY <1>1, OwnedUntilAbort, PTL

\* Until a client aborts the steps of a turn find its own memory context in
\* the injector.
THEOREM ContextIsOwn == Spec => []OwnContext
<1>1. aborted \/ Owned => OwnContext
  BY DEF Owned, OwnContext, ContextUse
<1> QED
  BY <1>1, OwnedUntilAbort, PTL

\* Until a client aborts permission and question gates find the emitter of the
\* turn that runs.
THEOREM EmitterIsOwn == Spec => []OwnEmitter
<1>1. aborted \/ Owned => OwnEmitter
  BY DEF Owned, OwnEmitter, ContextUse, EmitterUse
<1> QED
  BY <1>1, OwnedUntilAbort, PTL

\* Until a client aborts, a turn finds its own context and its own emitter in
\* the session.
THEOREM SessionIsOwn == Spec => []OwnSession
<1>1. OwnContext /\ OwnEmitter => OwnSession
  BY DEF OwnSession
<1> QED
  BY <1>1, ContextIsOwn, EmitterIsOwn, PTL

-------------------------------------------------------------------------------
(* Turns in working memory *)

RepliesFollow(s) ==
  \A i \in DOMAIN s : s[i][1] = "reply" =>
    i > 1 /\ s[i - 1] \in {<<"user", s[i][2]>>, <<"reply", s[i][2]>>}

\* A turn that has begun to append finds its own last message at the end
Blocks ==
  /\ RepliesFollow(log)
  /\ \A t \in Turn : pc[t] = "reply" =>
       Len(log) > 0 /\ log[Len(log)] \in {<<"user", t>>, <<"reply", t>>}

\* A sequence whose replies follow stays so when an entry is appended that is
\* no reply, or a reply to what is last
LEMMA AppendedReplyFollows ==
  ASSUME NEW s \in Seq(Entry), RepliesFollow(s), NEW e \in Entry,
         e[1] = "reply" =>
           Len(s) > 0 /\ s[Len(s)] \in {<<"user", e[2]>>, <<"reply", e[2]>>}
  PROVE  RepliesFollow(Append(s, e))
<1> DEFINE a == Append(s, e)
<1>1. /\ Len(s) \in Nat /\ DOMAIN s = 1 .. Len(s)
      /\ DOMAIN a = 1 .. Len(s) + 1
      /\ a[Len(s) + 1] = e
      /\ \A i \in 1 .. Len(s) : a[i] = s[i]
  BY AppendProperties, LenProperties
<1> SUFFICES ASSUME NEW i \in 1 .. Len(s) + 1, a[i][1] = "reply"
             PROVE  i > 1 /\ a[i - 1] \in {<<"user", a[i][2]>>, <<"reply", a[i][2]>>}
  BY <1>1 DEF RepliesFollow
<1>2. CASE i = Len(s) + 1
  <2>1. a[i] = e
    BY <1>1, <1>2
  <2>2. Len(s) > 0 /\ s[Len(s)] \in {<<"user", e[2]>>, <<"reply", e[2]>>}
    BY <2>1
  <2>3. i > 1 /\ i - 1 = Len(s) /\ Len(s) \in 1 .. Len(s)
    BY <1>1, <1>2, <2>2
  <2>4. a[i - 1] = s[Len(s)]
    BY <1>1, <2>3
  <2> QED
    BY <2>1, <2>2, <2>3, <2>4
<1>3. CASE i # Len(s) + 1
  <2>1. i \in 1 .. Len(s) /\ a[i] = s[i]
    BY <1>1, <1>3
  <2>2. i > 1 /\ s[i - 1] \in {<<"user", s[i][2]>>, <<"reply", s[i][2]>>}
    BY <1>1, <2>1 DEF RepliesFollow
  <2>3. i - 1 \in 1 .. Len(s)
    BY <1>1, <2>1, <2>2
  <2> QED
    BY <1>1, <2>1, <2>2, <2>3
<1> QED
  BY <1>2, <1>3

\* The last entry of a log that has grown
LEMMA LastAppended ==
  ASSUME NEW s \in Seq(Entry), NEW e \in Entry
  PROVE  Len(Append(s, e)) > 0 /\ Append(s, e)[Len(Append(s, e))] = e
BY AppendProperties, LenProperties

LEMMA NextBlocks == TypeOK /\ Owned /\ Blocks /\ [Next]_vars => Blocks'
<1> SUFFICES ASSUME TypeOK, Owned, Blocks, [Next]_vars
             PROVE  Blocks'
  OBVIOUS
<1>0. pc \in [Turn -> Points] /\ log \in Seq(Entry)
  BY DEF TypeOK
\* The turn that appends is the only one that holds the conversation
<1>1. ASSUME NEW t \in Turn, pc[t] \in {"append", "reply", "inject"}
      PROVE  \A u \in Turn \ {t} : pc[u] # "reply"
  BY <1>1 DEF Owned, Exclusive, Holding, HoldingPC
<1>2. ASSUME NEW t \in Turn, InjectSteer(t)
      PROVE  Blocks'
  <2>1. /\ pc[t] = "inject" /\ pc'[t] = "model"
        /\ \A u \in Turn \ {t} : pc'[u] = pc[u]
    BY <1>0, <1>2, GotoMoves DEF InjectSteer
  <2>2. \A u \in Turn : pc'[u] # "reply"
    BY <1>1, <2>1
  <2>3. RepliesFollow(log')
    <3>1. CASE hand[t] = none
      BY <1>2, <3>1 DEF InjectSteer, Blocks
    <3>2. CASE hand[t] # none
      <4>1. log' = Append(log, <<"steer", hand[t]>>)
        BY <1>2, <3>2 DEF InjectSteer
      <4>2. <<"steer", hand[t]>> \in Entry
        BY <3>2 DEF Entry, TypeOK
      <4> QED
        BY <1>0, <4>1, <4>2, AppendedReplyFollows DEF Blocks
    <3> QED
      BY <3>1, <3>2
  <2> QED
    BY <2>2, <2>3 DEF Blocks
<1>3. ASSUME NEW t \in Turn, AppendUser(t)
      PROVE  Blocks'
  <2>1. /\ pc[t] = "append" /\ pc'[t] = "reply"
        /\ \A u \in Turn \ {t} : pc'[u] = pc[u]
        /\ log' = Append(log, <<"user", t>>) /\ <<"user", t>> \in Entry
    BY <1>0, <1>3, GotoMoves DEF AppendUser, Entry
  <2>2. RepliesFollow(log')
    BY <1>0, <2>1, AppendedReplyFollows DEF Blocks
  <2>3. Len(log') > 0 /\ log'[Len(log')] = <<"user", t>>
    BY <1>0, <2>1, LastAppended
  <2> QED
    BY <1>1, <2>1, <2>2, <2>3 DEF Blocks
<1>4. ASSUME NEW t \in Turn, AppendReply(t)
      PROVE  Blocks'
  <2>1. /\ pc[t] = "reply"
        /\ \A u \in Turn \ {t} : pc'[u] = pc[u]
        /\ log' = Append(log, <<"reply", t>>) /\ <<"reply", t>> \in Entry
    BY <1>0, <1>4, GotoMoves DEF AppendReply, Entry
  <2>2. Len(log) > 0 /\ log[Len(log)] \in {<<"user", t>>, <<"reply", t>>}
    BY <2>1 DEF Blocks
  <2>3. RepliesFollow(log')
    BY <1>0, <2>1, <2>2, AppendedReplyFollows DEF Blocks
  <2>4. Len(log') > 0 /\ log'[Len(log')] = <<"reply", t>>
    BY <1>0, <2>1, LastAppended
  <2> QED
    BY <1>1, <2>1, <2>3, <2>4 DEF Blocks
\* No other step appends, or moves a turn to its replies
<1>5. ASSUME UNCHANGED log, \A t \in Turn : pc'[t] = "reply" => pc[t] = "reply"
      PROVE  Blocks'
  BY <1>5 DEF Blocks
<1>6. \/ \E t \in Turn : InjectSteer(t) \/ AppendUser(t) \/ AppendReply(t)
      \/ UNCHANGED log /\ \A t \in Turn : pc'[t] = "reply" => pc[t] = "reply"
  <2>1. ASSUME NEW t \in Turn, Admit(t) \/ Trigger(t) \/ StartInternal(t)
        PROVE  UNCHANGED log /\ \A u \in Turn : pc'[u] = "reply" => pc[u] = "reply"
    BY <1>0, <2>1, GotoMoves DEF Admit, Trigger, StartInternal
  <2>2. ASSUME NEW t \in Turn, Run(t), ~StartInternal(t), ~InjectSteer(t), ~AppendUser(t),
               ~AppendReply(t)
        PROVE  UNCHANGED log /\ \A u \in Turn : pc'[u] = "reply" => pc[u] = "reply"
    BY <1>0, <2>2, GotoMoves
    DEF Run, SetCancel, SetEmitter, Snapshot, SetInjector, Fit, StepStart, StepEnd,
        CompleteTurn, Announce, ClearInjector, ClearEmitter, Release
  <2>3. CASE Abort \/ UNCHANGED vars \/ \E m \in Steer : PostSteer(m)
    BY <2>3 DEF Abort, vars, PostSteer
  <2> QED
    BY <2>1, <2>2, <2>3 DEF Next, Run
<1> QED
  BY <1>2, <1>3, <1>4, <1>5, <1>6

\* Until a client aborts, working memory holds every turn as one block: the
\* handler appends its prompt and its replies message by message, without a
\* lock over the whole, and the exclusion of turns keeps others out.
THEOREM TurnsStayWhole == Spec => []TurnsAreContiguous
<1>1. Init => Blocks
  BY DEF Init, Blocks, RepliesFollow
<1>2. TypeOK /\ (aborted \/ Owned) /\ (aborted \/ Blocks) /\ [Next]_vars => (aborted \/ Blocks)'
  <2>1. aborted /\ [Next]_vars => aborted'
    BY DEF Next, Run, Admit, Trigger, StartInternal, SetCancel, SetEmitter, Snapshot,
           SetInjector, Fit, StepStart, InjectSteer, StepEnd, AppendUser, AppendReply,
           CompleteTurn, Announce, ClearInjector, ClearEmitter, Release, PostSteer, Abort,
           clients, vars
  <2> QED
    BY <2>1, NextBlocks
<1>3. aborted \/ Blocks => TurnsAreContiguous
  BY DEF Blocks, RepliesFollow, TurnsAreContiguous
<1> QED
  BY <1>1, <1>2, <1>3, TypeCorrect, OwnedUntilAbort, PTL DEF Spec

===============================================================================
