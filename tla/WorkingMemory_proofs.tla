-------------------------- MODULE WorkingMemory_proofs -------------------------
(***************************************************************************)
(* Proofs about WorkingMemory for any tool calls, estimates, budget and    *)
(* bounds: what a trim keeps, and what the conversation and its checkpoint *)
(* hold after any number of turns, shutdowns and restarts.                 *)
(***************************************************************************)
EXTENDS WorkingMemory, WellFoundedInduction, TLAPS

LEMMA LeastNumber ==
  ASSUME NEW S \in SUBSET Nat, S # {}
  PROVE  \E n \in S : \A k \in S : n <= k
<1>1. PICK n \in S : \A k \in S : ~ (<<k, n>> \in OpToRel(<, Nat))
  BY WFMin, NatLessThanWellFounded
<1>2. \A k \in S : k < n => <<k, n>> \in OpToRel(<, Nat)
  BY DEF OpToRel
<1>3. \A k \in S : ~ (k < n)
  BY <1>1, <1>2, Zenon
<1> QED
  BY <1>3

-----------------------------------------------------------------------------
(* Estimates.                                                              *)

\* total adds up the sizes of the first messages of m, one by one.
Adds(total, m, n) ==
  total = [k \in 0 .. n |-> IF k = 0 THEN 0 ELSE total[k - 1] + m[k].size]

\* There is such a sum over any prefix: it is that of a shorter one and one more.
LEMMA SumExists ==
  ASSUME NEW m \in Seq(Message), NEW n \in 0 .. Len(m)
  PROVE  \E total : Adds(total, m, n)
<1> DEFINE without == {k \in 0 .. Len(m) : ~ \E total : Adds(total, m, k)}
<1> SUFFICES ASSUME without # {} PROVE FALSE
  OBVIOUS
<1>1. PICK k \in without : \A j \in without : k <= j
  <2>1. without \in SUBSET Nat
    OBVIOUS
  <2> QED
    BY <2>1, LeastNumber, Zenon
<1>2. CASE k = 0
  <2> DEFINE zero == [j \in 0 .. 0 |-> 0]
  <2>1. Adds(zero, m, 0)
    BY DEF Adds
  <2> QED
    BY <1>2, <2>1
<1>3. CASE k # 0
  <2>1. k - 1 \in 0 .. Len(m) /\ k - 1 \notin without
    BY <1>1, <1>3
  <2>2. PICK total : Adds(total, m, k - 1)
    BY <2>1
  <2> DEFINE more == [j \in 0 .. k |-> IF j = k THEN total[k - 1] + m[k].size ELSE total[j]]
  <2>3. \A j \in 0 .. k : more[j] = IF j = 0 THEN 0 ELSE more[j - 1] + m[j].size
    <3>1. total = [i \in 0 .. k - 1 |-> IF i = 0 THEN 0 ELSE total[i - 1] + m[i].size]
      BY <2>2 DEF Adds
    <3> SUFFICES ASSUME NEW j \in 0 .. k
                 PROVE  more[j] = IF j = 0 THEN 0 ELSE more[j - 1] + m[j].size
      OBVIOUS
    <3>2. CASE j = k
      BY <1>3, <3>2
    <3>3. CASE j # k
      <4>1. more[j] = total[j] /\ j \in 0 .. k - 1
        BY <3>3
      <4>2. j # 0 => more[j - 1] = total[j - 1]
        BY <3>3
      <4>3. total[j] = IF j = 0 THEN 0 ELSE total[j - 1] + m[j].size
        BY <3>1, <4>1
      <4> QED
        BY <4>1, <4>2, <4>3
    <3> QED
      BY <3>2, <3>3
  <2>4. Adds(more, m, k)
    BY <2>3 DEF Adds
  <2> QED
    BY <2>4
<1> QED
  BY <1>2, <1>3

\* Messages are not free: more than none cost more than nothing.
LEMMA EstimateIsPositive ==
  ASSUME NEW m \in Seq(Message), m # <<>>
  PROVE  EstimateMessageTokens(m) \in Nat \ {0}
<1> DEFINE total == CHOOSE t : Adds(t, m, Len(m))
<1>1. Adds(total, m, Len(m))
  BY SumExists
<1>2. EstimateMessageTokens(m) = total[Len(m)]
  BY DEF EstimateMessageTokens, Adds
<1>3. \A k \in 0 .. Len(m) : total[k] = IF k = 0 THEN 0 ELSE total[k - 1] + m[k].size
  <2> HIDE DEF total
  <2> QED
    BY <1>1 DEF Adds
<1> HIDE DEF total
<1> DEFINE bad == {k \in 0 .. Len(m) : ~ (total[k] \in Nat /\ (k > 0 => total[k] > 0))}
<1>4. bad = {}
  <2> SUFFICES ASSUME bad # {} PROVE FALSE
    OBVIOUS
  <2>1. PICK k \in bad : \A j \in bad : k <= j
    <3>1. bad \in SUBSET Nat
      OBVIOUS
    <3> QED
      BY <3>1, LeastNumber, Zenon
  <2>2. k # 0
    BY <1>3
  <2>3. k - 1 \in 0 .. Len(m) /\ k - 1 \notin bad
    BY <2>1, <2>2
  <2>4. m[k].size \in Nat \ {0}
    BY <2>2 DEF Message
  <2> QED
    BY <1>3, <2>2, <2>3, <2>4
<1> QED
  BY <1>2, <1>4

-----------------------------------------------------------------------------
(* What a trim keeps.                                                      *)

Fits(m, budget, i) == i = Len(m) \/ EstimateMessageTokens(From(m, i)) <= budget

\* Where a window that fits may begin.
FitCuts(m, budget) == {i \in CutPoints(m) : Fits(m, budget, i)}

Least(k, S) == k \in S /\ \A j \in S : k <= j

LEMMA OneLeast ==
  ASSUME NEW S \in SUBSET Nat, NEW k, NEW l, Least(k, S), Least(l, S)
  PROVE  k = l
BY DEF Least

LEMMA LastIsCut ==
  ASSUME NEW m \in Seq(Message), m # <<>>
  PROVE  Len(m) \in CutPoints(m)
BY DEF CutPoints

LEMMA FirstFitExists ==
  ASSUME NEW m \in Seq(Message), m # <<>>, NEW budget
  PROVE  \E k : Least(k, FitCuts(m, budget))
<1>1. Len(m) \in FitCuts(m, budget)
  BY LastIsCut DEF FitCuts, Fits
<1>2. FitCuts(m, budget) \in SUBSET Nat
  BY DEF FitCuts, CutPoints
<1>3. PICK k \in FitCuts(m, budget) : \A j \in FitCuts(m, budget) : k <= j
  BY <1>1, <1>2, LeastNumber, Zenon
<1> QED
  BY <1>3 DEF Least

LEMMA TrimIsWindow ==
  ASSUME NEW m \in Seq(Message), m # <<>>, NEW budget
  PROVE  \E k : Least(k, FitCuts(m, budget)) /\ Trimmed(m, budget) = From(m, k)
<1> DEFINE fits(i) == i = Len(m) \/ EstimateMessageTokens(From(m, i)) <= budget
           first(i) == fits(i) /\ \A j \in CutPoints(m) : fits(j) => i <= j
           k == CHOOSE i \in CutPoints(m) : first(i)
<1>1. Trimmed(m, budget) = From(m, k)
  BY DEF Trimmed
<1>2. \E i \in CutPoints(m) : first(i)
  BY FirstFitExists DEF Least, FitCuts, Fits
<1>3. k \in CutPoints(m) /\ first(k)
  <2> HIDE DEF first
  <2> QED
    BY <1>2
<1>4. Least(k, FitCuts(m, budget))
  BY <1>3 DEF Least, FitCuts, Fits
<1> QED
  BY <1>1, <1>4

\* The window that begins at k.
LEMMA WindowOf ==
  ASSUME NEW m \in Seq(Message), NEW k \in DOMAIN m
  PROVE  /\ From(m, k) \in Seq(Message)
         /\ Len(From(m, k)) = Len(m) - k + 1
         /\ DOMAIN From(m, k) = 1 .. Len(m) - k + 1
         /\ \A i \in 1 .. Len(m) - k + 1 : k + i - 1 \in DOMAIN m /\ From(m, k)[i] = m[k + i - 1]
BY DEF From

\* Trimming takes messages away from the front and nothing else: what is left is
\* covered by what covered all, and a result keeps the call in front of it.
LEMMA TrimKeeps ==
  ASSUME NEW m \in Seq(Message), NEW budget, ResultsFollowCalls(m)
  PROVE  /\ Trimmed(m, budget) \in Seq(Message)
         /\ Len(Trimmed(m, budget)) <= Len(m)
         /\ Len(Trimmed(m, budget)) = Len(m) => Trimmed(m, budget) = m
         /\ CallsIn(Trimmed(m, budget)) \subseteq CallsIn(m)
         /\ ResultsFollowCalls(Trimmed(m, budget))
<1>1. CASE m = <<>>
  BY <1>1 DEF Trimmed
<1>2. CASE m # <<>>
  <2>1. PICK k : k \in DOMAIN m /\ Trimmed(m, budget) = From(m, k)
    BY <1>2, TrimIsWindow DEF Least, FitCuts, CutPoints
  <2>2. CallsIn(From(m, k)) \subseteq CallsIn(m)
    <3>1. \A i \in DOMAIN From(m, k) : \E j \in DOMAIN m : From(m, k)[i] = m[j]
      BY <2>1, WindowOf
    <3> QED
      BY <3>1 DEF CallsIn
  <2>3. ResultsFollowCalls(From(m, k))
    <3> SUFFICES ASSUME NEW i \in DOMAIN From(m, k), From(m, k)[i].role = "tool", i # 1
                 PROVE  /\ From(m, k)[i - 1].role = "assistant"
                        /\ From(m, k)[i].calls = From(m, k)[i - 1].calls
      BY DEF ResultsFollowCalls
    <3>1. i \in 1 .. Len(m) - k + 1 /\ i - 1 \in 1 .. Len(m) - k + 1
      <4>1. DOMAIN From(m, k) = 1 .. Len(m) - k + 1
        BY <2>1, WindowOf
      <4> QED
        BY <2>1, <4>1
    <3>2. /\ From(m, k)[i] = m[k + i - 1] /\ From(m, k)[i - 1] = m[k + i - 2]
          /\ k + i - 1 \in DOMAIN m /\ k + i - 1 # 1 /\ (k + i - 1) - 1 = k + i - 2
      <4>1. k + (i - 1) - 1 = k + i - 2 /\ (k + i - 1) - 1 = k + i - 2 /\ k + i - 1 # 1
        BY <2>1, <3>1
      <4> QED
        BY <2>1, <3>1, <4>1, WindowOf
    <3> QED
      BY <3>2 DEF ResultsFollowCalls
  <2>4. Len(From(m, k)) = Len(m) => From(m, k) = m
    <3> SUFFICES ASSUME Len(From(m, k)) = Len(m) PROVE From(m, k) = m
      OBVIOUS
    <3>1. k = 1
      BY <2>1, WindowOf
    <3> QED
      BY <3>1 DEF From
  <2> QED
    BY <2>1, <2>2, <2>3, <2>4, WindowOf
<1> QED
  BY <1>1, <1>2

\* What is kept fits, or it is one message.
LEMMA TrimFits ==
  ASSUME NEW m \in Seq(Message), NEW c \in Nat
  PROVE  LET window == Trimmed(m, ConversationBudget(c))
         IN  \/ EstimateMessageTokens(window) + FixedTokens + c <= BudgetTokens
             \/ Len(window) <= 1
<1>1. CASE m = <<>>
  BY <1>1 DEF Trimmed
<1>2. CASE m # <<>>
  <2> DEFINE budget == ConversationBudget(c)
  <2>1. PICK k : /\ k \in DOMAIN m /\ Fits(m, budget, k)
                 /\ Trimmed(m, budget) = From(m, k)
    BY <1>2, TrimIsWindow DEF Least, FitCuts, CutPoints
  <2>2. CASE k = Len(m)
    BY <2>1, <2>2, WindowOf
  <2>3. CASE k # Len(m)
    <3>1. From(m, k) # <<>>
      BY <2>1, WindowOf
    <3>2. EstimateMessageTokens(From(m, k)) \in Nat \ {0}
      BY <2>1, <3>1, WindowOf, EstimateIsPositive
    <3>3. EstimateMessageTokens(From(m, k)) <= budget
      BY <2>1, <2>3 DEF Fits
    <3> QED
      BY <2>1, <3>2, <3>3, WorkingMemoryAssumption DEF ConversationBudget
  <2> QED
    BY <2>2, <2>3
<1> QED
  BY <1>1, <1>2

\* Behind a cut that is neither at the start nor at a user or assistant message
\* there are only results, and each of them follows a call: there is one.
LEMMA TrimOrphansOne ==
  ASSUME NEW m \in Seq(Message), NEW budget, ResultsFollowCalls(m),
         Len(Trimmed(m, budget)) < Len(m), Orphans(Trimmed(m, budget)) # {}
  PROVE  Len(Trimmed(m, budget)) = 1
<1>1. m # <<>>
  BY DEF Trimmed
<1>2. PICK k : k \in CutPoints(m) /\ Trimmed(m, budget) = From(m, k)
  BY <1>1, TrimIsWindow DEF Least, FitCuts
<1>3. k \in DOMAIN m /\ k # 1
  BY <1>2, WindowOf DEF CutPoints
<1> DEFINE window == From(m, k)
<1>4. PICK i \in DOMAIN window : window[i].role = "tool" /\ ~ Answers(window, i)
  BY <1>2 DEF Orphans
<1>5. i = 1
  <2>1. ResultsFollowCalls(window)
    BY <1>2, TrimKeeps
  <2>2. i # 1 => i - 1 \in 1 .. i - 1
    BY <1>3, WindowOf
  <2> QED
    BY <1>4, <2>1, <2>2 DEF ResultsFollowCalls, Answers
<1>6. m[k].role = "tool"
  <2>1. k + 1 - 1 = k /\ 1 \in 1 .. Len(m) - k + 1
    BY <1>3
  <2>2. window[1] = m[k]
    BY <1>3, <2>1, WindowOf
  <2> QED
    BY <1>4, <1>5, <2>2
<1>7. \A j \in k .. Len(m) : m[j].role \notin Safe
  BY <1>2, <1>3, <1>6 DEF CutPoints, Safe
<1>8. k = Len(m)
  <2> SUFFICES ASSUME k + 1 \in k .. Len(m) PROVE FALSE
    BY <1>3
  <2>1. m[k + 1].role = "tool" /\ k + 1 \in DOMAIN m
    BY <1>3, <1>7 DEF Message, Role, Safe
  <2>2. m[(k + 1) - 1].role = "assistant"
    BY <1>3, <2>1 DEF ResultsFollowCalls
  <2> QED
    BY <1>3, <1>6, <2>2
<1>9. Len(m) - k + 1 = 1
  BY <1>3, <1>8
<1> QED
  BY <1>2, <1>3, <1>9, WindowOf

-----------------------------------------------------------------------------
(* What is appended.                                                       *)

LEMMA CallsInAppend ==
  ASSUME NEW S, NEW s \in Seq(S), NEW x
  PROVE  CallsIn(Append(s, x)) = CallsIn(s) \cup x.calls
<1> DEFINE t == Append(s, x)
<1>1. /\ DOMAIN t = (DOMAIN s) \cup {Len(s) + 1}
      /\ t[Len(s) + 1] = x /\ \A i \in DOMAIN s : t[i] = s[i]
  OBVIOUS
<1>2. ASSUME NEW e PROVE e \in CallsIn(t) <=> e \in CallsIn(s) \/ e \in x.calls
  <2>1. e \in CallsIn(t) <=> \E i \in DOMAIN t : e \in t[i].calls
    BY DEF CallsIn
  <2>2. e \in CallsIn(s) <=> \E i \in DOMAIN s : e \in s[i].calls
    BY DEF CallsIn
  <2> HIDE DEF t
  <2> QED
    BY <1>1, <2>1, <2>2, Zenon
<1> QED
  BY <1>2

\* A message that makes calls or none may follow any other.
LEMMA AppendSafe ==
  ASSUME NEW m \in Seq(Message), ResultsFollowCalls(m), NEW x \in Message, x.role # "tool"
  PROVE  /\ Append(m, x) \in Seq(Message)
         /\ ResultsFollowCalls(Append(m, x))
BY DEF ResultsFollowCalls

LEMMA AppendUserMessage ==
  ASSUME NEW m \in Seq(Message), ResultsFollowCalls(m), NEW n \in Tokens["user"]
  PROVE  /\ Append(m, UserMessage(n)) \in Seq(Message)
         /\ CallsIn(Append(m, UserMessage(n))) = CallsIn(m)
         /\ ResultsFollowCalls(Append(m, UserMessage(n)))
<1>1. UserMessage(n) \in Message /\ UserMessage(n).role # "tool" /\ UserMessage(n).calls = {}
  <2>1. n \in Nat \ {0}
    BY WorkingMemoryAssumption DEF Role, Safe
  <2> QED
    BY <2>1 DEF UserMessage, Message, Role, Safe
<1> QED
  BY <1>1, AppendSafe, CallsInAppend

\* A step is appended as its message and, if it makes calls, their results.
LEMMA AppendStepMessages ==
  ASSUME NEW m \in Seq(Message), ResultsFollowCalls(m), NEW x \in Step
  PROVE  /\ m \o StepMessages(x) \in Seq(Message)
         /\ CallsIn(m \o StepMessages(x)) = CallsIn(m) \cup x.calls
         /\ ResultsFollowCalls(m \o StepMessages(x))
<1> DEFINE answer == [role |-> "assistant", calls |-> x.calls, size |-> x.size]
           result == [role |-> "tool", calls |-> x.calls, size |-> x.results]
           n == Append(m, answer)
<1>1. /\ answer \in Message /\ answer.role # "tool" /\ answer.calls = x.calls
      /\ x.calls # {} => result \in Message
  <2>1. x.calls \in SUBSET Call /\ x.size \in Nat \ {0} /\ x.results \in Nat \ {0}
    BY WorkingMemoryAssumption DEF Step, Role, Safe
  <2> QED
    BY <2>1 DEF Message, Role, Safe
<1>2. n \in Seq(Message) /\ CallsIn(n) = CallsIn(m) \cup x.calls /\ ResultsFollowCalls(n)
  BY <1>1, AppendSafe, CallsInAppend
<1>3. CASE x.calls = {}
  <2>1. m \o StepMessages(x) = n
    BY <1>3 DEF StepMessages
  <2> QED
    BY <1>2, <2>1
<1>4. CASE x.calls # {}
  <2>1. m \o StepMessages(x) = Append(n, result)
    <3>1. StepMessages(x) = <<answer, result>>
      BY <1>4 DEF StepMessages
    <3>2. m \o <<answer, result>> = Append(Append(m, answer), result)
      OBVIOUS
    <3> QED
      BY <3>1, <3>2
  <2>2. n[Len(n)] = answer /\ Len(n) > 0
    OBVIOUS
  <2> HIDE DEF n
  <2>3. CallsIn(Append(n, result)) = CallsIn(n) \cup x.calls
    BY <1>2, CallsInAppend
  <2>4. ResultsFollowCalls(Append(n, result))
    <3> DEFINE t == Append(n, result)
    <3>1. \A i \in DOMAIN n : t[i] = n[i] /\ (i # 1 => i - 1 \in DOMAIN n)
      BY <1>2
    <3>2. \A i \in DOMAIN n : t[i].role = "tool" =>
            i = 1 \/ (t[i - 1].role = "assistant" /\ t[i].calls = t[i - 1].calls)
      BY <1>2, <3>1 DEF ResultsFollowCalls
    <3>3. t[Len(n) + 1] = result /\ t[Len(n)] = answer
      BY <1>2, <2>2
    <3>4. DOMAIN t = (DOMAIN n) \cup {Len(n) + 1} /\ (Len(n) + 1) - 1 = Len(n)
      BY <1>2
    <3> HIDE DEF t
    <3>5. t[Len(n) + 1].calls = t[(Len(n) + 1) - 1].calls /\ t[(Len(n) + 1) - 1].role = "assistant"
      <4>1. t[(Len(n) + 1) - 1] = answer
        BY <3>3, <3>4, Zenon
      <4> QED
        BY <3>3, <4>1
    <3>6. \A i \in DOMAIN t : t[i].role = "tool" =>
            i = 1 \/ (t[i - 1].role = "assistant" /\ t[i].calls = t[i - 1].calls)
      BY <3>2, <3>4, <3>5, Zenon
    <3>7. ResultsFollowCalls(t)
      BY <3>6 DEF ResultsFollowCalls
    <3> QED
      BY <3>7 DEF t
  <2> QED
    BY <1>1, <1>2, <1>4, <2>1, <2>3, <2>4
<1> QED
  BY <1>3, <1>4

LEMMA CallsOfSteps ==
  ASSUME NEW s \in Seq(Step), s # <<>>
  PROVE  /\ Head(s) \in Step /\ Head(s).calls \subseteq CallsIn(s)
         /\ Tail(s) \in Seq(Step) /\ CallsIn(Tail(s)) \subseteq CallsIn(s)
<1>1. 1 \in DOMAIN s /\ Head(s) = s[1]
  OBVIOUS
<1>2. \A i \in DOMAIN Tail(s) : i + 1 \in DOMAIN s /\ Tail(s)[i] = s[i + 1]
  OBVIOUS
<1>3. CallsIn(Tail(s)) \subseteq CallsIn(s)
  <2>1. \A i \in DOMAIN Tail(s) : \E j \in DOMAIN s : Tail(s)[i] = s[j]
    BY <1>2
  <2> QED
    BY <2>1 DEF CallsIn
<1> QED
  BY <1>1, <1>3 DEF CallsIn

-----------------------------------------------------------------------------
(* The invariant.                                                          *)

LEMMA IInvInitially ==
  ASSUME Init
  PROVE  IInv
<1>1. TypeOK
  <2>1. 0 \in 0 .. MaxTurns /\ 1 \in 1 .. MaxLives
    BY WorkingMemoryAssumption
  <2> QED
    BY <2>1 DEF Init, TypeOK
<1>2. CallsIn(<<>>) = {} /\ ResultsFollowCalls(<<>>)
  BY DEF CallsIn, ResultsFollowCalls
<1> QED
  BY <1>1, <1>2 DEF Init, IInv, CallsCovered, PreflightFits

\* What an action leaves alone stays covered while no call gets metadata.
LEMMA SavedStaysCovered ==
  ASSUME IInv, file' \subseteq file, UNCHANGED <<made, stored>>
  PROVE  /\ file' \subseteq Checkpoint /\ \A c, d \in file' : c = d
         /\ \A c \in file' : ResultsFollowCalls(c.messages)' /\ CallsCovered(c.messages, c.toolMeta)'
BY DEF IInv, TypeOK, ResultsFollowCalls, CallsCovered, CallsIn

LEMMA BeginTurnKeeps ==
  ASSUME IInv, BeginTurn
  PROVE  IInv'
<1> USE DEF IInv
<1>1. PICK c \in TurnTokens :
        cost' = c /\ messages' = Trimmed(messages, ConversationBudget(c))
  BY DEF BeginTurn
<1>2. /\ messages' \in Seq(Message) /\ ResultsFollowCalls(messages')
      /\ CallsIn(messages') \subseteq CallsIn(messages)
  BY <1>1, TrimKeeps DEF TypeOK
<1>3. toolMeta' \in SUBSET Call /\ CallsCovered(messages, toolMeta)
      /\ CallsIn(messages') \cap toolMeta \subseteq toolMeta'
  BY DEF BeginTurn, Pruned, TypeOK
<1>4. CallsCovered(messages', toolMeta')
  BY <1>2, <1>3 DEF CallsCovered
<1>5. TypeOK'
  <2>1. turns' \in 0 .. MaxTurns
    BY WorkingMemoryAssumption DEF BeginTurn, TypeOK
  <2>2. /\ given' \in Seq(Message) /\ cost' \in TurnTokens \cup {0} /\ steps' \in Seq(Step)
        /\ stage' \in {"idle", "running", "step", "append"}
    BY <1>1, <1>2 DEF BeginTurn
  <2> QED
    BY <1>2, <1>3, <2>1, <2>2 DEF BeginTurn, TypeOK
<1>6. CallsCovered(steps, toolMeta)'
  BY DEF BeginTurn, CallsCovered, CallsIn
<1>7. PreflightFits'
  <2>1. c \in Nat
    BY WorkingMemoryAssumption
  <2> QED
    BY <1>1, <2>1, TrimFits DEF BeginTurn, TypeOK, PreflightFits
<1> QED
  BY <1>2, <1>4, <1>5, <1>6, <1>7, SavedStaysCovered
  DEF BeginTurn, CallsCovered, ResultsFollowCalls, CallsIn

LEMMA StepStartKeeps ==
  ASSUME IInv, StepStart
  PROVE  IInv'
<1> USE DEF IInv
<1>1. /\ messages' \in Seq(Message) /\ ResultsFollowCalls(messages')
      /\ CallsIn(messages') = CallsIn(messages)
  BY AppendUserMessage DEF StepStart, TypeOK
<1>2. TypeOK'
  BY <1>1 DEF StepStart, TypeOK
<1>3. PreflightFits'
  BY DEF StepStart, PreflightFits
<1>4. CallsCovered(messages, toolMeta)' /\ CallsCovered(steps, toolMeta)'
  BY <1>1 DEF StepStart, CallsCovered
<1> QED
  BY <1>1, <1>2, <1>3, <1>4, SavedStaysCovered DEF StepStart, ResultsFollowCalls

\* The calls of the step are new, so that no message, no earlier step and no
\* checkpoint waits for their metadata.
LEMMA ModelAnswersKeeps ==
  ASSUME IInv, ModelAnswers
  PROVE  IInv'
<1> USE DEF IInv
<1> PICK x \in Step : \E withMeta \in SUBSET x.calls :
        /\ x.calls \cap made = {}
        /\ steps' = Append(steps, x) /\ made' = made \cup x.calls
        /\ stored' = stored \cup withMeta /\ toolMeta' = toolMeta \cup withMeta
  BY DEF ModelAnswers
<1>1. PICK withMeta \in SUBSET x.calls :
        /\ x.calls \cap made = {}
        /\ steps' = Append(steps, x) /\ made' = made \cup x.calls
        /\ stored' = stored \cup withMeta /\ toolMeta' = toolMeta \cup withMeta
  OBVIOUS
<1>2. UNCHANGED <<messages, turnNum, file, up, given, cost, turns, lives>> /\ stage' = "running"
  BY DEF ModelAnswers
<1>3. steps \in Seq(Step) /\ x.calls \in SUBSET Call
  BY DEF TypeOK, Step
<1>4. \A m, meta : CallsCovered(m, meta) => CallsCovered(m, meta)'
  BY <1>1 DEF CallsCovered, CallsIn
<1>5. CallsCovered(messages, toolMeta)'
  BY <1>1, <1>2 DEF CallsCovered, CallsIn
<1>6. CallsCovered(steps, toolMeta)'
  <2>1. CallsIn(steps') = CallsIn(steps) \cup x.calls
    BY <1>1, <1>3, CallsInAppend
  <2> QED
    BY <1>1, <2>1 DEF CallsCovered
<1>7. TypeOK'
  <2>1. steps' \in Seq(Step)
    BY <1>1, <1>3
  <2> QED
    BY <1>1, <1>2, <1>3, <2>1 DEF TypeOK
<1>8. PreflightFits'
  BY <1>2 DEF ModelAnswers, PreflightFits
<1>9. ResultsFollowCalls(messages)'
  BY <1>2 DEF ResultsFollowCalls
<1>10. \A c \in file' : ResultsFollowCalls(c.messages)' /\ CallsCovered(c.messages, c.toolMeta)'
  BY <1>2, <1>4 DEF ResultsFollowCalls
<1>11. stored' \subseteq made' /\ (~up' => messages' = <<>> /\ steps' = <<>>)
  BY <1>1, <1>2 DEF ModelAnswers
<1> QED
  BY <1>5, <1>6, <1>7, <1>8, <1>9, <1>10, <1>11

\* Without steps there is nothing to cover.
LEMMA NoSteps ==
  ASSUME EndTurn
  PROVE  /\ CallsIn(steps)' = {} /\ steps' = <<>> /\ steps' \in Seq(Step) /\ given' \in Seq(Message)
         /\ stage' = "idle" /\ cost' = 0
BY DEF EndTurn, CallsIn

LEMMA FailOrCompleteKeeps ==
  ASSUME IInv, FailTurn \/ CompleteTurn
  PROVE  IInv'
<1> USE DEF IInv
<1>1. EndTurn /\ turnNum' \in Nat
      /\ UNCHANGED <<messages, toolMeta, file, up, made, stored, turns, lives>>
  BY DEF FailTurn, CompleteTurn, TypeOK
<1>2. TypeOK'
  BY <1>1, NoSteps DEF TypeOK
<1>3. CallsCovered(messages, toolMeta)' /\ CallsCovered(steps, toolMeta)'
  BY <1>1, NoSteps DEF CallsCovered
<1> QED
  BY <1>1, <1>2, <1>3, NoSteps, SavedStaysCovered DEF ResultsFollowCalls, PreflightFits

LEMMA AppendUserKeeps ==
  ASSUME IInv, AppendUser
  PROVE  IInv'
<1> USE DEF IInv
<1>1. /\ messages' \in Seq(Message) /\ ResultsFollowCalls(messages')
      /\ CallsIn(messages') = CallsIn(messages)
  BY AppendUserMessage DEF AppendUser, TypeOK
<1>2. TypeOK'
  BY <1>1 DEF AppendUser, TypeOK
<1>3. CallsCovered(messages, toolMeta)' /\ CallsCovered(steps, toolMeta)'
  BY <1>1 DEF AppendUser, CallsCovered
<1> QED
  BY <1>1, <1>2, <1>3, SavedStaysCovered DEF AppendUser, ResultsFollowCalls, PreflightFits

LEMMA AppendStepKeeps ==
  ASSUME IInv, AppendStep
  PROVE  IInv'
<1> USE DEF IInv
<1>1. /\ steps \in Seq(Step) /\ steps # <<>> /\ messages \in Seq(Message)
      /\ messages' = messages \o StepMessages(Head(steps)) /\ steps' = Tail(steps)
      /\ UNCHANGED <<toolMeta, turnNum, file, up, stage, given, cost, made, stored,
                     turns, lives>>
      /\ stage = "append" /\ up
  BY DEF AppendStep, TypeOK
<1>2. /\ Head(steps) \in Step /\ Head(steps).calls \subseteq CallsIn(steps)
      /\ steps' \in Seq(Step) /\ CallsIn(steps') \subseteq CallsIn(steps)
  BY <1>1, CallsOfSteps
<1>3. /\ messages' \in Seq(Message) /\ ResultsFollowCalls(messages')
      /\ CallsIn(messages') = CallsIn(messages) \cup Head(steps).calls
  BY <1>1, <1>2, AppendStepMessages
<1>4. TypeOK'
  BY <1>1, <1>2, <1>3 DEF TypeOK
<1>5. CallsCovered(messages, toolMeta)' /\ CallsCovered(steps, toolMeta)'
  BY <1>1, <1>2, <1>3 DEF CallsCovered
<1>6. ResultsFollowCalls(messages)'
  BY <1>3 DEF ResultsFollowCalls
<1> QED
  BY <1>1, <1>4, <1>5, <1>6, SavedStaysCovered DEF PreflightFits

LEMMA SaveCheckpointKeeps ==
  ASSUME IInv, SaveCheckpoint
  PROVE  IInv'
<1> USE DEF IInv
<1> DEFINE now == [messages |-> messages, toolMeta |-> toolMeta, turnNum |-> turnNum]
<1>1. file' \in {file, {}, {now}}
      /\ UNCHANGED <<messages, toolMeta, turnNum, up, turnVars, made, stored, turns, lives>>
  BY DEF SaveCheckpoint
<1>2. now \in Checkpoint
  BY DEF TypeOK, Checkpoint
<1>3. TypeOK'
  BY <1>1, <1>2 DEF TypeOK, turnVars
<1>4. \A c \in file' : ResultsFollowCalls(c.messages)' /\ CallsCovered(c.messages, c.toolMeta)'
  <2>1. \A c \in file' : c \in file \/ (c.messages = messages /\ c.toolMeta = toolMeta)
    BY <1>1
  <2> QED
    BY <1>1, <2>1 DEF ResultsFollowCalls, CallsCovered, CallsIn
<1>5. CallsCovered(messages, toolMeta)' /\ CallsCovered(steps, toolMeta)'
      /\ ResultsFollowCalls(messages)'
  BY <1>1 DEF CallsCovered, turnVars, CallsIn, ResultsFollowCalls
<1> QED
  BY <1>1, <1>3, <1>4, <1>5 DEF PreflightFits, turnVars

LEMMA ExitKeeps ==
  ASSUME IInv, Exit
  PROVE  IInv'
<1> USE DEF IInv
<1>1. EndTurn /\ messages' = <<>> /\ toolMeta' = {} /\ turnNum' = 0 /\ ~up' /\ up' \in BOOLEAN
      /\ UNCHANGED <<file, made, stored, turns, lives>>
  BY DEF Exit
<1>2. TypeOK'
  BY <1>1, NoSteps DEF TypeOK
<1>3. CallsIn(messages)' = {} /\ ResultsFollowCalls(messages)'
  BY <1>1 DEF CallsIn, ResultsFollowCalls
<1> QED
  BY <1>1, <1>2, <1>3, NoSteps, SavedStaysCovered DEF CallsCovered, PreflightFits

LEMMA RestoreCheckpointKeeps ==
  ASSUME IInv, RestoreCheckpoint
  PROVE  IInv'
<1> USE DEF IInv
<1>1. /\ up' = TRUE /\ lives' = lives + 1 /\ lives < MaxLives /\ file' = {}
      /\ UNCHANGED <<turnVars, made, stored, turns>>
      /\ \A c \in file : messages' = c.messages /\ toolMeta' = c.toolMeta
                         /\ turnNum' = c.turnNum
      /\ file = {} => UNCHANGED <<messages, toolMeta, turnNum>>
  BY DEF RestoreCheckpoint
<1>2. /\ messages' \in Seq(Message) /\ toolMeta' \in SUBSET Call /\ turnNum' \in Nat
      /\ ResultsFollowCalls(messages') /\ CallsCovered(messages', toolMeta')
  <2>1. CASE file = {}
    BY <1>1, <2>1 DEF TypeOK
  <2>2. ASSUME NEW c \in file
        PROVE  /\ messages' \in Seq(Message) /\ toolMeta' \in SUBSET Call /\ turnNum' \in Nat
               /\ ResultsFollowCalls(messages') /\ CallsCovered(messages', toolMeta')
    <3>1. c \in Checkpoint
      BY DEF TypeOK
    <3> QED
      BY <1>1, <3>1 DEF Checkpoint
  <2> QED
    BY <2>1, <2>2
<1>3. TypeOK'
  <2>1. lives' \in 1 .. MaxLives
    BY <1>1, WorkingMemoryAssumption DEF TypeOK
  <2> QED
    BY <1>1, <1>2, <2>1 DEF TypeOK, turnVars
<1>4. ResultsFollowCalls(messages)' /\ CallsCovered(messages, toolMeta)'
  BY <1>1, <1>2 DEF ResultsFollowCalls, CallsCovered, CallsIn
<1>5. CallsCovered(steps, toolMeta)'
  BY <1>1 DEF RestoreCheckpoint, turnVars, CallsCovered, CallsIn
<1> QED
  BY <1>1, <1>3, <1>4, <1>5 DEF PreflightFits, turnVars

LEMMA IInvPreserved ==
  ASSUME IInv, [Next]_vars
  PROVE  IInv'
<1>1. CASE UNCHANGED vars
  BY <1>1 DEF vars, IInv, TypeOK, ResultsFollowCalls, CallsCovered, CallsIn, PreflightFits
<1> QED
  BY <1>1, BeginTurnKeeps, StepStartKeeps, ModelAnswersKeeps, FailOrCompleteKeeps,
     AppendUserKeeps, AppendStepKeeps, SaveCheckpointKeeps, ExitKeeps,
     RestoreCheckpointKeeps, Zenon DEF Next

LEMMA IInvCorrect == Spec => []IInv
BY IInvInitially, IInvPreserved, PTL DEF Spec

-----------------------------------------------------------------------------
(* The theorems.                                                           *)

\* The conversation's state keeps its types, and with them that no message is a
\* result of no call (memory.go, checkpoint.go).
THEOREM TypeCorrect == Spec => []TypeOK
<1>1. IInv => TypeOK
  BY DEF IInv
<1> QED
  BY <1>1, IInvCorrect, PTL

\* A turn never sends more than the estimates allow, fixed layers included,
\* unless it sends one message (memory.go:142-190, budget.go:191-212).
THEOREM SentFitsBudget == Spec => []PreflightFits
<1>1. IInv => PreflightFits
  BY DEF IInv
<1> QED
  BY <1>1, IInvCorrect, PTL

\* A result in the conversation has the metadata of its calls, whatever was
\* trimmed, saved and restored before (memory.go:117-128, 192-210).
THEOREM MetadataIsKept == Spec => []ResultsKeepMeta
<1>1. IInv => ResultsKeepMeta
  BY DEF IInv, CallsCovered, CallsIn, ResultsKeepMeta
<1> QED
  BY <1>1, IInvCorrect, PTL

\* Only a trim and the end of the process make the conversation shorter.
LEMMA ShorterByTrim ==
  ASSUME IInv, [Next]_vars, Len(messages') < Len(messages)
  PROVE  BeginTurn \/ messages' = <<>>
<1> USE DEF IInv, TypeOK
<1>1. CASE UNCHANGED vars \/ ModelAnswers \/ FailTurn \/ CompleteTurn \/ SaveCheckpoint
  BY <1>1 DEF vars, ModelAnswers, FailTurn, CompleteTurn, SaveCheckpoint
<1>2. CASE StepStart \/ AppendUser
  BY <1>2 DEF StepStart, AppendUser
<1>3. CASE AppendStep
  BY <1>3 DEF AppendStep, StepMessages
<1>4. CASE Exit \/ RestoreCheckpoint
  BY <1>4 DEF Exit, RestoreCheckpoint
<1> QED
  BY <1>1, <1>2, <1>3, <1>4 DEF Next

\* Trimming never leaves a tool result without its call, unless that result is
\* all that is left (memory.go:135, 150-170).
THEOREM OrphansStandAlone == Spec => OrphanedOnlyAlone
<1>1. ASSUME IInv, [Next]_vars, Len(messages') < Len(messages), Orphans(messages') # {}
      PROVE  Len(messages') = 1
  <2>1. CASE BeginTurn
    <3>1. messages \in Seq(Message) /\ ResultsFollowCalls(messages)
      BY <1>1 DEF IInv, TypeOK
    <3>2. PICK c : messages' = Trimmed(messages, ConversationBudget(c))
      BY <2>1 DEF BeginTurn
    <3> QED
      BY <1>1, <3>1, <3>2, TrimOrphansOne
  <2>2. CASE messages' = <<>>
    BY <1>1, <2>2 DEF Orphans
  <2> QED
    BY <1>1, <2>1, <2>2, ShorterByTrim
<1> QED
  BY <1>1, IInvCorrect, PTL DEF Spec, OrphanedOnlyAlone

-----------------------------------------------------------------------------
(* The loop of TrimToTokenBudget.                                          *)

SafeAfter(m, i) == {j \in i + 1 .. Len(m) : m[j].role \in Safe}

NextStart(m, i) ==
  IF SafeAfter(m, i) = {} THEN i + 1
  ELSE CHOOSE j \in SafeAfter(m, i) : \A k \in SafeAfter(m, i) : j <= k

TooLarge(m, budget, i) == EstimateMessageTokens(From(m, i)) > budget /\ i < Len(m)

\* start says for every index where the loop ends up from there.
Loops(start, m, budget) ==
  start = [i \in 1 .. Len(m) |->
             IF TooLarge(m, budget, i) THEN start[NextStart(m, i)] ELSE i]

LEMMA LoopIsChosen ==
  ASSUME NEW m \in Seq(Message), m # <<>>, NEW budget
  PROVE  LoopTrim(m, budget) = From(m, (CHOOSE start : Loops(start, m, budget))[1])
BY DEF LoopTrim, Loops, TooLarge, NextStart, SafeAfter

LEMMA TooLargeIsUnfit ==
  ASSUME NEW m \in Seq(Message), NEW budget \in Nat, NEW i \in 1 .. Len(m)
  PROVE  TooLarge(m, budget, i) <=> ~ Fits(m, budget, i)
<1>1. From(m, i) \in Seq(Message) /\ From(m, i) # <<>>
  BY WindowOf
<1>2. EstimateMessageTokens(From(m, i)) \in Nat
  BY <1>1, EstimateIsPositive
<1> QED
  BY <1>2 DEF TooLarge, Fits

\* The loop goes on to the next cut.
LEMMA NextStartIsNextCut ==
  ASSUME NEW m \in Seq(Message), NEW i \in 1 .. Len(m), i < Len(m)
  PROVE  Least(NextStart(m, i), {j \in CutPoints(m) : j > i})
<1>1. CASE SafeAfter(m, i) = {}
  <2>1. NextStart(m, i) = i + 1
    BY <1>1 DEF NextStart
  <2>2. \A j \in i + 1 .. Len(m) : m[j].role \notin Safe
    BY <1>1 DEF SafeAfter
  <2>3. i + 1 \in CutPoints(m)
    BY <2>2 DEF CutPoints
  <2> QED
    BY <2>1, <2>3 DEF Least, CutPoints
<1>2. CASE SafeAfter(m, i) # {}
  <2>1. SafeAfter(m, i) \in SUBSET Nat
    BY DEF SafeAfter
  <2> DEFINE n == NextStart(m, i)
  <2>2. n \in SafeAfter(m, i) /\ \A k \in SafeAfter(m, i) : n <= k
    <3>1. \E j \in SafeAfter(m, i) : \A k \in SafeAfter(m, i) : j <= k
      BY <1>2, <2>1, LeastNumber, Zenon
    <3> QED
      BY <1>2, <3>1, Zenon DEF NextStart
  <2> HIDE DEF n
  <2>3. n \in i + 1 .. Len(m) /\ m[n].role \in Safe
    BY <2>2 DEF SafeAfter
  <2>4. n \in CutPoints(m)
    BY <2>3 DEF CutPoints
  <2>5. ASSUME NEW j \in CutPoints(m), j > i PROVE n <= j
    <3> SUFFICES ASSUME j < n PROVE FALSE
      BY <2>3 DEF CutPoints
    <3>1. j \in i + 1 .. Len(m) /\ j # 1 /\ n \in j .. Len(m)
      BY <2>3, <2>5 DEF CutPoints
    <3>2. m[j].role \in Safe
      BY <2>3, <3>1 DEF CutPoints
    <3>3. j \in SafeAfter(m, i)
      BY <3>1, <3>2 DEF SafeAfter
    <3> QED
      BY <2>2, <2>3, <3>1, <3>3
  <2>6. Least(n, {j \in CutPoints(m) : j > i})
    BY <2>3, <2>4, <2>5 DEF Least
  <2> QED
    BY <2>6 DEF n
<1> QED
  BY <1>1, <1>2

FitAfter(m, budget, i) == {j \in FitCuts(m, budget) : j > i}

\* Where the loop ends up from i: there, or at the next cut that fits.
Settles(m, budget) ==
  [i \in 1 .. Len(m) |->
     IF TooLarge(m, budget, i)
     THEN CHOOSE k : Least(k, FitAfter(m, budget, i)) ELSE i]

LEMMA LeastFitAfter ==
  ASSUME NEW m \in Seq(Message), NEW budget, NEW i \in 1 .. Len(m), i < Len(m)
  PROVE  /\ \E k : Least(k, FitAfter(m, budget, i))
         /\ FitAfter(m, budget, i) \in SUBSET Nat
<1>1. Len(m) \in FitAfter(m, budget, i)
  BY LastIsCut DEF FitAfter, FitCuts, Fits
<1>2. FitAfter(m, budget, i) \in SUBSET Nat
  BY DEF FitAfter, FitCuts, CutPoints
<1>3. PICK k \in FitAfter(m, budget, i) : \A j \in FitAfter(m, budget, i) : k <= j
  BY <1>1, <1>2, LeastNumber, Zenon
<1> QED
  BY <1>2, <1>3 DEF Least

LEMMA SettlesLoops ==
  ASSUME NEW m \in Seq(Message), NEW budget \in Nat
  PROVE  Loops(Settles(m, budget), m, budget)
<1> DEFINE end == Settles(m, budget)
<1>1. ASSUME NEW i \in 1 .. Len(m), TooLarge(m, budget, i)
      PROVE  end[NextStart(m, i)] = CHOOSE k : Least(k, FitAfter(m, budget, i))
  <2> DEFINE n == NextStart(m, i)
             l == CHOOSE k : Least(k, FitAfter(m, budget, i))
  <2>1. i < Len(m)
    BY <1>1 DEF TooLarge
  <2>2. n \in CutPoints(m) /\ n > i /\ \A j \in CutPoints(m) : j > i => n <= j
    BY <2>1, NextStartIsNextCut DEF Least
  <2>3. Least(l, FitAfter(m, budget, i)) /\ FitAfter(m, budget, i) \in SUBSET Nat
    BY <2>1, LeastFitAfter
  <2>4. n \in 1 .. Len(m)
    BY <2>2 DEF CutPoints
  <2> HIDE DEF n, l
  <2>5. CASE TooLarge(m, budget, n)
    <3>1. FitAfter(m, budget, n) = FitAfter(m, budget, i)
      <4>1. n \notin FitCuts(m, budget)
        BY <2>4, <2>5, TooLargeIsUnfit DEF FitCuts
      <4>2. FitCuts(m, budget) \subseteq CutPoints(m) /\ CutPoints(m) \subseteq Nat
        BY DEF FitCuts, CutPoints
      <4> QED
        BY <2>2, <2>4, <4>1, <4>2 DEF FitAfter
    <3> QED
      BY <2>4, <2>5, <3>1 DEF Settles, l, n
  <2>6. CASE ~ TooLarge(m, budget, n)
    <3>1. n \in FitAfter(m, budget, i)
      BY <2>2, <2>4, <2>6, TooLargeIsUnfit DEF FitAfter, FitCuts
    <3>2. Least(n, FitAfter(m, budget, i))
      BY <2>2, <3>1 DEF Least, FitAfter, FitCuts
    <3>3. n = l
      BY <2>3, <3>2, OneLeast
    <3>4. end[n] = n
      BY <2>4, <2>6 DEF Settles
    <3> QED
      BY <3>3, <3>4 DEF l, n
  <2> QED
    BY <2>5, <2>6
<1>2. \A i \in 1 .. Len(m) :
        end[i] = IF TooLarge(m, budget, i) THEN end[NextStart(m, i)] ELSE i
  BY <1>1 DEF Settles
<1>3. end = [i \in 1 .. Len(m) |-> end[i]]
  BY DEF Settles
<1> QED
  BY <1>2, <1>3 DEF Loops

\* No other function does: where two differ, they differ further on as well.
LEMMA LoopEndsThere ==
  ASSUME NEW m \in Seq(Message), NEW budget \in Nat,
         NEW f, Loops(f, m, budget), NEW g, Loops(g, m, budget)
  PROVE  \A i \in 1 .. Len(m) : f[i] = g[i]
<1> DEFINE differ == {d \in Nat : d < Len(m) /\ f[Len(m) - d] # g[Len(m) - d]}
<1>1. differ = {}
  <2> SUFFICES ASSUME differ # {} PROVE FALSE
    OBVIOUS
  <2>1. PICK d \in differ : \A e \in differ : d <= e
    <3>1. differ \in SUBSET Nat
      OBVIOUS
    <3> QED
      BY <3>1, LeastNumber, Zenon
  <2> DEFINE i == Len(m) - d
             n == NextStart(m, i)
  <2>2. i \in 1 .. Len(m) /\ f[i] # g[i]
    BY <2>1
  <2>3. /\ f[i] = IF TooLarge(m, budget, i) THEN f[n] ELSE i
        /\ g[i] = IF TooLarge(m, budget, i) THEN g[n] ELSE i
    BY <2>2 DEF Loops
  <2>4. TooLarge(m, budget, i) /\ i < Len(m) /\ f[n] # g[n]
    BY <2>2, <2>3 DEF TooLarge
  <2>5. n \in 1 .. Len(m) /\ n > i
    BY <2>2, <2>4, NextStartIsNextCut DEF Least, CutPoints
  <2> HIDE DEF n
  <2>6. Len(m) - n \in differ /\ Len(m) - n < d
    <3>1. Len(m) - (Len(m) - n) = n /\ Len(m) - n \in Nat /\ Len(m) - n < Len(m)
      BY <2>5
    <3> QED
      BY <2>1, <2>4, <2>5, <3>1
  <2> QED
    BY <2>1, <2>6
<1>2. ASSUME NEW i \in 1 .. Len(m) PROVE f[i] = g[i]
  <2>1. Len(m) - i \in Nat /\ Len(m) - i < Len(m) /\ Len(m) - (Len(m) - i) = i
    OBVIOUS
  <2> QED
    BY <1>1, <2>1
<1> QED
  BY <1>2

\* The loop as it is written finds the first cut from which on the messages fit.
LEMMA LoopIsFirstFit ==
  ASSUME NEW m \in Seq(Message), NEW budget \in Nat
  PROVE  LoopTrim(m, budget) = Trimmed(m, budget)
<1>1. CASE m = <<>>
  BY <1>1 DEF LoopTrim, Trimmed
<1>2. CASE m # <<>>
  <2> DEFINE start == CHOOSE f : Loops(f, m, budget)
  <2>1. Loops(start, m, budget)
    BY SettlesLoops
  <2> HIDE DEF start
  <2>2. 1 \in 1 .. Len(m)
    BY <1>2
  <2>3. start[1] = Settles(m, budget)[1]
    BY <2>1, <2>2, SettlesLoops, LoopEndsThere
  <2>4. Least(start[1], FitCuts(m, budget))
    <3>1. 1 \in CutPoints(m) /\ FitCuts(m, budget) \subseteq CutPoints(m)
          /\ CutPoints(m) \subseteq 1 .. Len(m)
      BY <2>2 DEF CutPoints, FitCuts
    <3>2. CASE TooLarge(m, budget, 1)
      <4>1. 1 \notin FitCuts(m, budget)
        BY <2>2, <3>2, TooLargeIsUnfit DEF FitCuts
      <4>2. FitAfter(m, budget, 1) = FitCuts(m, budget)
        BY <3>1, <4>1 DEF FitAfter
      <4>3. start[1] = CHOOSE k : Least(k, FitCuts(m, budget))
        BY <2>2, <2>3, <3>2, <4>2 DEF Settles
      <4> QED
        BY <1>2, <4>3, FirstFitExists
    <3>3. CASE ~ TooLarge(m, budget, 1)
      <4>1. start[1] = 1
        BY <2>2, <2>3, <3>3 DEF Settles
      <4>2. 1 \in FitCuts(m, budget)
        BY <2>2, <3>1, <3>3, TooLargeIsUnfit DEF FitCuts
      <4> QED
        BY <3>1, <4>1, <4>2 DEF Least
    <3> QED
      BY <3>2, <3>3
  <2>5. PICK k : Least(k, FitCuts(m, budget)) /\ Trimmed(m, budget) = From(m, k)
    BY <1>2, TrimIsWindow
  <2>6. FitCuts(m, budget) \in SUBSET Nat
    BY DEF FitCuts, CutPoints
  <2>7. k = start[1]
    BY <2>4, <2>5, <2>6, OneLeast
  <2> QED
    BY <1>2, <2>5, <2>7, LoopIsChosen DEF start
<1> QED
  BY <1>1, <1>2

\* A turn begins with the window at which the loop of TrimToTokenBudget stops,
\* for any conversation and budget (memory.go:142-173).
THEOREM TrimIsTheLoop == Spec => TrimMatchesLoop
<1>1. ASSUME IInv, BeginTurn
      PROVE  messages' = LoopTrim(messages, ConversationBudget(cost'))
  <2>1. messages \in Seq(Message)
    BY <1>1 DEF IInv, TypeOK
  <2>2. cost' \in Nat /\ messages' = Trimmed(messages, ConversationBudget(cost'))
    BY <1>1, WorkingMemoryAssumption DEF BeginTurn
  <2>3. ConversationBudget(cost') \in Nat
    <3>1. \A c \in Nat : ConversationBudget(c) \in Nat
      BY WorkingMemoryAssumption DEF ConversationBudget
    <3> QED
      BY <2>2, <3>1
  <2> QED
    BY <2>1, <2>2, <2>3, LoopIsFirstFit
<1> QED
  BY <1>1, IInvCorrect, PTL DEF Spec, TrimMatchesLoop
=============================================================================
