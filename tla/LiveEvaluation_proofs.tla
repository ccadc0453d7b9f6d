------------------------ MODULE LiveEvaluation_proofs ------------------------
(***************************************************************************)
(* What a conversation with the model signs, what it may cost and how long *)
(* it may go on, and which drafts an evaluation uses, for every set of     *)
(* answers the model may give, every ceiling and any number of rounds.     *)
(***************************************************************************)
EXTENDS LiveEvaluation, TLAPS, WellFoundedInduction, FiniteSetTheorems, SequenceTheorems

-----------------------------------------------------------------------------
(* The greatest and the least of a finite set. *)

LEMMA LeastNat ==
  ASSUME NEW T, T \subseteq Nat, T # {}
  PROVE  \E m \in T : \A n \in T : m <= n
<1>1. \E m \in T : \A n \in T : ~(<<n, m>> \in OpToRel(<, Nat))
  BY NatLessThanWellFounded, WFMin
<1>2. PICK m \in T : \A n \in T : ~(<<n, m>> \in OpToRel(<, Nat))
  BY <1>1
<1>3. \A n \in T : ~(n < m)
  BY <1>2 DEF OpToRel
<1>4. QED
  BY <1>3

LEMMA MinIsLeast ==
  ASSUME NEW T, T \subseteq Nat, T # {}
  PROVE  Min(T) \in T /\ \A n \in T : Min(T) <= n
<1>1. \E m \in T : \A n \in T : m <= n
  BY LeastNat
<1>2. QED
  BY <1>1 DEF Min

\* What the first k values of a sequence do not exceed.
Bound(s, k, b) == b \in Nat /\ \A i \in 1..k : s[i] <= b

\* A finite set of naturals is bounded: were there a shortest initial part of
\* its enumeration without a bound, one element less would have one.
LEMMA FiniteIsBounded ==
  ASSUME NEW T, T \subseteq Nat, IsFiniteSet(T)
  PROVE  \E b \in Nat : \A t \in T : t <= b
<1>1. PICK s \in Seq(T) : \A t \in T : \E i \in 1..Len(s) : s[i] = t
  BY DEF IsFiniteSet
<1> DEFINE n == Len(s)
           Bad == {k \in Nat : k <= n /\ ~\E b : Bound(s, k, b)}
<1>2. n \in Nat /\ \A i \in 1..n : s[i] \in Nat
  BY LenProperties, ElementOfSeq
<1>3. Bad = {}
  <2> SUFFICES ASSUME Bad # {} PROVE FALSE
    OBVIOUS
  <2>1. PICK m \in Bad : \A k \in Bad : m <= k
    <3>1. Bad \subseteq Nat
      OBVIOUS
    <3> HIDE DEF Bad
    <3>2. QED
      BY <3>1, LeastNat
  <2>2. m \in Nat /\ m <= n /\ ~\E b : Bound(s, m, b)
    BY <2>1
  <2>3. \A k \in Nat : k <= n /\ k < m => \E b : Bound(s, k, b)
    <3> SUFFICES ASSUME NEW k \in Nat, k <= n, k < m, ~\E b : Bound(s, k, b)
                 PROVE  FALSE
      OBVIOUS
    <3>1. k \in Bad
      OBVIOUS
    <3> HIDE DEF Bad
    <3>2. QED
      BY <2>1, <2>2, <3>1
  <2> HIDE DEF Bad, n
  <2>4. m # 0
    <3>1. Bound(s, 0, 0)
      BY DEF Bound
    <3>2. QED
      BY <2>2, <3>1
  <2>5. m - 1 \in Nat /\ m - 1 <= n /\ m - 1 < m /\ m \in 1..n
    BY <1>2, <2>2, <2>4
  <2>6. PICK b : Bound(s, m - 1, b)
    BY <2>3, <2>5
  <2>7. PICK c \in Nat : b <= c /\ s[m] <= c
    <3>1. b \in Nat /\ s[m] \in Nat
      BY <1>2, <2>5, <2>6 DEF Bound
    <3>2. b <= s[m] \/ s[m] <= b
      BY <3>1
    <3>3. QED
      BY <3>1, <3>2
  <2>8. Bound(s, m, c)
    <3> SUFFICES ASSUME NEW i \in 1..m PROVE s[i] <= c
      BY DEF Bound
    <3>1. CASE i = m
      BY <2>7, <3>1
    <3>2. CASE i # m
      <4>1. i \in 1..(m - 1) /\ i \in 1..n
        BY <1>2, <2>2, <2>5, <3>2
      <4>2. s[i] \in Nat /\ s[i] <= b /\ b \in Nat
        BY <1>2, <2>6, <4>1 DEF Bound
      <4>3. QED
        BY <2>7, <4>2
    <3>3. QED
      BY <3>1, <3>2
  <2>9. QED
    BY <2>2, <2>8
<1>4. PICK b : Bound(s, n, b)
  BY <1>2, <1>3
<1>5. QED
  BY <1>1, <1>4 DEF Bound

LEMMA MaxIsGreatest ==
  ASSUME NEW T, T \subseteq Nat, T # {}, IsFiniteSet(T)
  PROVE  Max(T) \in T /\ \A n \in T : n <= Max(T)
<1> DEFINE Bounds == {b \in Nat : \A t \in T : t <= b}
<1>1. Bounds # {} /\ Bounds \subseteq Nat
  BY FiniteIsBounded
<1>2. PICK b \in Bounds : \A c \in Bounds : b <= c
  <2> HIDE DEF Bounds
  <2>1. QED
    BY <1>1, LeastNat
<1>3. b \in T
  <2> SUFFICES ASSUME b \notin T PROVE FALSE
    OBVIOUS
  <2>1. b \in Nat /\ \A t \in T : t \in Nat /\ t <= b /\ t # b
    BY <1>2
  <2>2. b - 1 \in Nat /\ \A t \in T : t <= b - 1
    <3>1. PICK t \in T : TRUE
      OBVIOUS
    <3>2. b # 0
      BY <2>1, <3>1
    <3>3. QED
      BY <2>1, <3>2
  <2>3. b - 1 \in Bounds
    BY <2>2
  <2> HIDE DEF Bounds
  <2>4. b <= b - 1
    BY <1>2, <2>3
  <2>5. QED
    BY <2>1, <2>4
<1>4. \E m \in T : \A n \in T : m >= n
  BY <1>2, <1>3
<1>5. Max(T) \in T /\ \A n \in T : Max(T) >= n
  BY <1>4 DEF Max
<1>6. QED
  BY <1>5

-----------------------------------------------------------------------------
(* The provider among the steps of the programs that use it. *)

ProviderNext == (\E request_text : Complete(request_text)) \/ Consumed \/ CallProceeds

LEMMA ProviderStepsOnly ==
  ASSUME [Next]_vars
  PROVE  [ProviderNext]_providerVars
<1>1. CASE InterviewProceeds
  <2>1. CASE StartInterview \/ MainReads
    BY <2>1 DEF StartInterview, MainReads, Ask, ProviderNext
  <2>2. CASE Resolve \/ Clarify \/ Raises
    BY <2>2 DEF Resolve, Clarify, Raises, ProviderNext
  <2>3. CASE Review \/ ProviderSteps
    BY <2>3 DEF Review, ProviderSteps, ProviderNext
  <2>4. QED
    BY <1>1, <2>1, <2>2, <2>3 DEF InterviewProceeds
<1>2. CASE EvaluationProceeds
  <2>1. CASE StartEvaluation \/ MeasureFidelity
    BY <2>1 DEF StartEvaluation, MeasureFidelity, Ask, ProviderNext
  <2>2. CASE MeasureAmbiguity
    BY <2>2 DEF MeasureAmbiguity, Ask, ProviderNext
  <2>3. CASE EvaluationRaises \/ PickIntents
    BY <2>3 DEF EvaluationRaises, PickIntents, ProviderNext
  <2>4. QED
    BY <1>2, <2>1, <2>2, <2>3 DEF EvaluationProceeds
<1>3. CASE PersonAnswers \/ NoAnswer
  BY <1>3 DEF PersonAnswers, NoAnswer, Ask, ProviderNext
<1>4. CASE UNCHANGED vars
  BY <1>4 DEF vars, interviewVars
<1>5. QED
  BY <1>1, <1>2, <1>3, <1>4 DEF Next, Proceeds

-----------------------------------------------------------------------------
(* The ceiling. *)

Dearest == Max(Costs)
Cheapest == Min(Projections)

LEMMA Prices ==
  /\ Dearest \in Nat /\ \A c \in Costs : c \in Nat /\ c <= Dearest
  /\ Cheapest \in Nat /\ \A p \in Projections : p \in Nat /\ Cheapest <= p
<1>1. /\ Costs \subseteq Nat /\ Costs # {} /\ IsFiniteSet(Costs)
      /\ Projections \subseteq Nat /\ Projections # {}
  BY ProviderAssumption
<1>2. QED
  BY <1>1, MaxIsGreatest, MinIsLeast DEF Dearest, Cheapest

\* A call under way was found to fit under the ceiling; what was spent when
\* anything was is over it by one call's cost at most; and the guard is off by
\* what it was not told of.
BillInv ==
  /\ spent \in Nat /\ billed \in Nat /\ unmetered \in Nat
  /\ ~guarded => billed = 0
  /\ guarded /\ asking # None => spent + Cheapest <= Ceiling
  /\ billed > 0 => spent + Cheapest <= Ceiling + Dearest
  /\ billed <= spent + Dearest * unmetered

LEMMA ChargeKeepsBill ==
  ASSUME BillInv, asking # None, NEW cost \in Costs \cup {0}, NEW metered,
         Charged(cost, metered), guarded' = guarded, asking' = None
  PROVE  BillInv'
<1>1. CASE ~guarded
  <2>1. UNCHANGED <<spent, billed, unmetered>>
    BY <1>1 DEF Charged, bill
  <2>2. QED
    BY <1>1, <2>1 DEF BillInv, Dearest, Cheapest
<1>2. CASE guarded
  <2>1. /\ cost \in Nat /\ cost <= Dearest /\ Dearest \in Nat /\ Cheapest \in Nat
        /\ Ceiling \in Nat
    BY Prices, ProviderAssumption
  <2>2. Dearest * (unmetered + 1) = Dearest * unmetered + Dearest
    BY <2>1 DEF BillInv
  <2>3. Dearest * unmetered \in Nat
    BY <2>1 DEF BillInv
  <2>4. /\ billed' = billed + cost
        /\ spent' = IF metered THEN spent + cost ELSE spent
        /\ unmetered' = IF metered THEN unmetered ELSE unmetered + 1
    BY <1>2 DEF Charged
  <2>5. CASE metered
    <3>1. Dearest * unmetered' = Dearest * unmetered
      BY <2>4, <2>5
    <3> HIDE DEF Dearest, Cheapest
    <3>2. QED
      BY <1>2, <2>1, <2>3, <2>4, <2>5, <3>1 DEF BillInv
  <2>6. CASE ~metered
    <3>1. Dearest * unmetered' = Dearest * unmetered + Dearest
      BY <2>2, <2>4, <2>6
    <3> HIDE DEF Dearest, Cheapest
    <3>2. QED
      BY <1>2, <2>1, <2>3, <2>4, <2>6, <3>1 DEF BillInv
  <2>7. QED
    BY <2>5, <2>6
<1>3. QED
  BY <1>1, <1>2

LEMMA NextBillInv ==
  ASSUME BillInv, [ProviderNext]_providerVars
  PROVE  BillInv'
<1>1. ASSUME NEW request_text, Complete(request_text)
      PROVE  BillInv'
  <2>1. UNCHANGED <<guarded, spent, billed, unmetered>>
    BY <1>1 DEF Complete, configuration, bill
  <2>2. asking' = asking \/ (guarded => \E p \in Projections : ~Breaches(p))
    BY <1>1 DEF Complete
  <2>3. (\E p \in Projections : ~Breaches(p)) => spent + Cheapest <= Ceiling
    <3>1. Cheapest \in Nat /\ spent \in Nat /\ Ceiling \in Nat
      BY Prices, ProviderAssumption DEF BillInv
    <3>2. \A p \in Projections : p \in Nat /\ Cheapest <= p
      BY Prices
    <3> HIDE DEF Cheapest
    <3>3. QED
      BY <3>1, <3>2 DEF Breaches
  <2> HIDE DEF Cheapest, Dearest
  <2>4. QED
    BY <2>1, <2>2, <2>3 DEF BillInv, Cheapest, Dearest
<1>2. CASE Answers
  <2>1. PICK cost \in Costs, metered \in BOOLEAN : Charged(cost, metered)
    BY <1>2 DEF Answers
  <2>2. asking # None /\ asking' = None /\ guarded' = guarded
    BY <1>2 DEF Answers, Ends, configuration
  <2>3. QED
    BY <2>1, <2>2, ChargeKeepsBill
<1>3. CASE TimesOut \/ Fails
  <2>1. PICK cost \in Costs \cup {0} : Charged(cost, FALSE)
    BY <1>3 DEF TimesOut, Fails
  <2>2. asking # None /\ asking' = None /\ guarded' = guarded
    BY <1>3 DEF TimesOut, Fails, Ends, configuration
  <2>3. QED
    BY <2>1, <2>2, ChargeKeepsBill
<1>4. CASE RateLimited \/ Consumed \/ UNCHANGED providerVars
  <2>1. /\ UNCHANGED <<guarded, spent, billed, unmetered>>
        /\ asking' = asking \/ asking' = None
    BY <1>4
       DEF RateLimited, Consumed, Ends, providerVars, configuration, call,
           meter, bill
  <2>2. QED
    BY <2>1 DEF BillInv, Cheapest, Dearest
<1>5. QED
  BY <1>1, <1>2, <1>3, <1>4 DEF ProviderNext, CallProceeds

\* The bill of a live evaluation passes BudgetGuard's ceiling by at most what
\* one estimate can be off, and by the calls whose usage never arrived: those
\* given up at a timeout or failed, and those answered without metadata.
THEOREM CeilingHolds == Spec => []BillBounded
<1>1. Init => BillInv
  <2>1. Dearest \in Nat /\ Dearest * 0 = 0
    BY Prices
  <2>2. QED
    BY <2>1 DEF Init, InterviewInit, ProviderInit, BillInv
<1>2. BillInv /\ [Next]_vars => BillInv'
  BY ProviderStepsOnly, NextBillInv
<1>3. BillInv => BillBounded
  <2> SUFFICES ASSUME BillInv, billed > 0
               PROVE  billed <= Ceiling + (Dearest - Cheapest) + Dearest * unmetered
    BY DEF BillBounded, Dearest, Cheapest
  <2>1. /\ Dearest \in Nat /\ Cheapest \in Nat /\ Ceiling \in Nat
        /\ Dearest * unmetered \in Nat
    BY Prices, ProviderAssumption DEF BillInv
  <2> HIDE DEF Dearest, Cheapest
  <2>2. QED
    BY <2>1 DEF BillInv
<1>4. QED
  BY <1>1, <1>2, <1>3, PTL DEF Spec

-----------------------------------------------------------------------------
(* The conversation. *)

\* What a reply that did not raise brings is an answer of the model.
ReplyInv == reply # None /\ reply.error = None => reply.response \in Responses

DraftFields ==
  {"request_text", "total_paise", "per_item_paise", "max_quantity",
   "escalate_above_paise", "substitutions_preapproved", "needs_clarification"}

\* A draft has the text and the budget of the latest reading that had one.
ReadOff(d) ==
  /\ latest[1] = d.request_text
  /\ \/ d.total_paise = latest[2].budget_total
     \/ d.max_quantity * d.total_paise = latest[2].budget_per_item

\* A draft is a whole reading, and its tripwire is its total.
WholeReading(d) ==
  /\ DraftFields \subseteq DOMAIN d
  /\ ReadOff(d)
  /\ d.total_paise \in Int /\ d.per_item_paise <= d.total_paise
  /\ d.escalate_above_paise = d.total_paise

\* What is still unclear has been asked about, as often as it may be.
Exhausted(d) ==
  \/ rounds = MaxRounds
  \/ text = rounds + 1 /\ d.request_text = rounds
  \/ job = "interactive" /\ text = 0

Conversing ==
  {"reading request", "resolving", "clarifying", "reviewing"} \cup Prompts

\* Where the text and the rounds are at each await point.
RoundsInv ==
  /\ text \in Nat /\ rounds \in Nat
  /\ stage \in {"started", "reading request"} => text = 0 /\ rounds = 0
  /\ stage = "resolving" =>
       \/ text = 0 /\ rounds = 0
       \/ text = rounds + 1 /\ rounds < MaxRounds
  /\ stage = "clarifying" => text = rounds + 1 /\ rounds < MaxRounds
  /\ stage \in Prompts => text = rounds /\ rounds < MaxRounds

\* Whose draft it is at each await point.
DraftInv ==
  /\ stage \in {"asked for a detail", "clarifying", "reviewing"} => WholeReading(draft)
  /\ stage \in {"asked for a detail", "clarifying"} => draft.request_text = rounds
  /\ stage = "reviewing" =>
       /\ \/ draft.request_text = text
          \/ text = rounds + 1 /\ draft.request_text = rounds
       /\ draft.needs_clarification => Exhausted(draft)

\* The AIReviewer goes by the first reading, which is the one that is reviewed
\* when it had a budget.
RawInv ==
  /\ raw \in Responses /\ earliest = raw
  /\ BudgetStated(raw) => stage = "reviewing" /\ latest = <<0, raw>>

\* Who is talking, and the answer the AIReviewer goes by.
JobInv ==
  /\ job \in {"interactive", "scripted", "evaluation"}
  /\ stage \in Conversing => job # "evaluation"
  /\ stage = "reading request" => job = "interactive"
  /\ stage \in {"started", "reading request"} => earliest = None
  /\ stage \in Conversing \ {"reading request"} /\ job = "interactive" => RawInv

\* Nothing is signed before the conversation is over.
SignedInv ==
  /\ stage \in Conversing \cup {"started"} => signed = None
  /\ LastGoodsFirstSettings
  /\ ClarifiedOrExhausted

ConversationInv == RoundsInv /\ DraftInv /\ JobInv /\ SignedInv

Failures == {Raised(error) : error \in Errors}

LEMMA NextReplyInv ==
  ASSUME ReplyInv, [ProviderNext]_providerVars
  PROVE  ReplyInv'
<1>1. \A failure \in Failures : failure.error # None
  BY ProviderAssumption DEF Failures, Raised
<1>2. ASSUME NEW request_text, Complete(request_text)
      PROVE  ReplyInv'
  <2>1. reply' = None \/ reply' \in Failures
    BY <1>2 DEF Complete, Failures, Errors
  <2>2. QED
    BY <1>1, <2>1 DEF ReplyInv
<1>3. CASE Answers
  <2>1. \/ \E response \in Responses : reply' = Returned(response)
        \/ reply' \in Failures
    BY <1>3 DEF Answers, Ends, Failures, Errors
  <2>2. QED
    BY <1>1, <2>1 DEF ReplyInv, Returned
<1>4. CASE RateLimited \/ TimesOut \/ Fails
  <2>1. reply' = reply \/ reply' \in Failures
    BY <1>4 DEF RateLimited, TimesOut, Fails, Ends, Failures, Errors
  <2>2. QED
    BY <1>1, <2>1 DEF ReplyInv
<1>5. CASE Consumed \/ UNCHANGED providerVars
  BY <1>5 DEF Consumed, ReplyInv, providerVars, call
<1>6. QED
  BY <1>2, <1>3, <1>4, <1>5 DEF ProviderNext, CallProceeds

LEMMA DraftOfAResponse ==
  ASSUME NEW r \in Responses, BudgetStated(r), ~Unreadable(r), NEW t
  PROVE  LET d == DraftOf(r, t)
         IN  /\ d.total_paise \in Int /\ d.per_item_paise <= d.total_paise
             /\ d.escalate_above_paise = d.total_paise
             /\ \/ d.total_paise = r.budget_total
                \/ d.max_quantity * d.total_paise = r.budget_per_item
<1> DEFINE total == BudgetTotal(r)
           item  == r.budget_per_item
<1>1. /\ r.budget_total \in Int \cup {None} /\ item \in Int \cup {None}
      /\ r.max_quantity \in Int \cup {None}
  BY InterviewAssumption
<1>2. total \in Int
  BY <1>1 DEF BudgetTotal, BudgetStated
<1>3. /\ DraftOf(r, t).total_paise = total
      /\ DraftOf(r, t).escalate_above_paise = total
      /\ DraftOf(r, t).max_quantity = Quantity(r)
      /\ DraftOf(r, t).per_item_paise =
           IF item \in {None, 0} THEN total ELSE Lesser(item, total)
  BY DEF DraftOf
<1>4. total = r.budget_total \/ Quantity(r) * total = item
  <2>1. CASE r.budget_total = None /\ Quantity(r) <= 1
    <3>1. Quantity(r) \in Int /\ ~(Quantity(r) < 1)
      BY <1>1 DEF Quantity, Unreadable
    <3>2. Quantity(r) = 1 /\ total = item
      BY <2>1, <3>1 DEF BudgetTotal
    <3> HIDE DEF total, item
    <3>3. QED
      BY <1>2, <3>2
  <2>2. CASE ~(r.budget_total = None /\ Quantity(r) <= 1)
    BY <2>2 DEF BudgetTotal
  <2>3. QED
    BY <2>1, <2>2
<1>5. (IF item \in {None, 0} THEN total ELSE Lesser(item, total)) <= total
  <2> HIDE DEF total
  <2>1. QED
    BY <1>1, <1>2 DEF Lesser
<1> HIDE DEF total, item
<1>6. QED
  BY <1>2, <1>3, <1>4, <1>5 DEF item

\* interpret makes a draft, or none when there is no budget.
LEMMA InterpretedIsADraft ==
  ASSUME ReplyInv, reply # None, ~InterpretRaises, NEW t \in Nat
  PROVE  /\ Interpreted(t) \in Drafts \cup {None}
         /\ BudgetStated(reply.response) => Interpreted(t) # None
<1> DEFINE r == reply.response
           total == BudgetTotal(r)
           item  == r.budget_per_item
           least == IF item \in {None, 0} THEN total ELSE Lesser(item, total)
<1> SUFFICES ASSUME BudgetStated(r) PROVE DraftOf(r, t) \in Drafts
  BY InterviewAssumption DEF Interpreted
<1>1. /\ r.budget_total \in Int \cup {None} /\ item \in Int \cup {None}
      /\ r.max_quantity \in Int \cup {None} /\ r.needs_clarification \in BOOLEAN
  BY InterviewAssumption DEF ReplyInv, InterpretRaises
<1>2. total \in Int
  BY <1>1 DEF BudgetTotal, BudgetStated
<1>3. Quantity(r) \in Int
  BY <1>1 DEF Quantity
<1>4. least \in Int
  <2> HIDE DEF total, item
  <2>1. QED
    BY <1>1, <1>2 DEF item, Lesser
<1>5. DraftOf(r, t) =
        [request_text |-> t, total_paise |-> total, per_item_paise |-> least,
         max_quantity |-> Quantity(r), escalate_above_paise |-> total,
         substitutions_preapproved |-> FALSE,
         needs_clarification |-> r.needs_clarification]
  BY DEF DraftOf
<1> HIDE DEF total, item, least
<1>6. QED
  BY <1>1, <1>2, <1>3, <1>4, <1>5 DEF Drafts

\* What interpret makes of a reply to the text in hand is a whole reading of it.
LEMMA InterpretedIsWhole ==
  ASSUME ReplyInv, reply # None, ~InterpretRaises, Read,
         draft' = Interpreted(text), draft' # None
  PROVE  WholeReading(draft)' /\ draft'.request_text = text
<1> DEFINE r == reply.response
<1>1. r \in Responses /\ ~Unreadable(r) /\ BudgetStated(r) /\ draft' = DraftOf(r, text)
  BY DEF ReplyInv, InterpretRaises, Interpreted
<1>2. latest' = <<text, r>>
  BY DEF Read
<1> HIDE DEF r
<1>3. DOMAIN draft' = DraftFields /\ draft'.request_text = text
  BY <1>1 DEF DraftOf, DraftFields
<1>4. /\ draft'.total_paise \in Int /\ draft'.per_item_paise <= draft'.total_paise
      /\ draft'.escalate_above_paise = draft'.total_paise
      /\ \/ draft'.total_paise = r.budget_total
         \/ draft'.max_quantity * draft'.total_paise = r.budget_per_item
  BY <1>1, DraftOfAResponse
<1>5. ReadOff(draft)'
  BY <1>2, <1>3, <1>4 DEF ReadOff
<1>6. QED
  BY <1>3, <1>4, <1>5 DEF WholeReading

LEMMA WholeReadingStays ==
  ASSUME WholeReading(draft), draft' = draft, latest' = latest
  PROVE  WholeReading(draft)'
BY DEF WholeReading, ReadOff

\* A step that says nothing, and does not go on with the conversation.
LEMMA QuietStep ==
  ASSUME ConversationInv, UNCHANGED conversation,
         stage' = stage \/ stage' \notin Conversing \cup {"started", "signed"}
  PROVE  ConversationInv'
<1>1. /\ UNCHANGED <<job, text, rounds, draft, raw, signed, earliest, latest>>
  BY DEF conversation, readings
<1>2. LastGoodsFirstSettings' /\ ClarifiedOrExhausted'
  BY <1>1 DEF ConversationInv, SignedInv, LastGoodsFirstSettings, ClarifiedOrExhausted
<1>3. CASE stage' = stage
  <2>1. RoundsInv' /\ JobInv'
    BY <1>1, <1>3
       DEF ConversationInv, RoundsInv, JobInv, RawInv, BudgetStated, BudgetTotal, Quantity
  <2>2. DraftInv'
    BY <1>1, <1>3 DEF ConversationInv, DraftInv, WholeReading, ReadOff, Exhausted
  <2>3. QED
    BY <1>1, <1>2, <1>3, <2>1, <2>2 DEF ConversationInv, SignedInv
<1>4. CASE stage' \notin Conversing \cup {"started", "signed"}
  <2>1. RoundsInv' /\ JobInv' /\ DraftInv'
    BY <1>1, <1>4 DEF ConversationInv, RoundsInv, JobInv, DraftInv, Conversing, Prompts
  <2>2. QED
    BY <1>1, <1>2, <1>4, <2>1 DEF ConversationInv, SignedInv
<1>5. QED
  BY <1>3, <1>4

\* Nothing is signed and nobody has read anything wrong: what remains to be
\* shown of a step that goes on with the conversation.
LEMMA UnsignedStep ==
  ASSUME ConversationInv, stage \in Conversing \cup {"started"}, signed' = signed
  PROVE  SignedInv'
BY DEF ConversationInv, SignedInv, LastGoodsFirstSettings, ClarifiedOrExhausted

LEMMA StartInterviewKeeps ==
  ASSUME ConversationInv, StartInterview
  PROVE  ConversationInv'
<1>1. /\ UNCHANGED <<job, text, rounds, draft, raw, signed, earliest, latest>>
      /\ stage = "started" /\ job # "evaluation"
      /\ stage' = IF job = "interactive" THEN "reading request" ELSE "resolving"
  BY DEF StartInterview, Ask, conversation, readings
<1>2. SignedInv'
  BY <1>1, UnsignedStep
<1>3. RoundsInv' /\ DraftInv' /\ JobInv'
  BY <1>1 DEF ConversationInv, RoundsInv, DraftInv, JobInv, Conversing, Prompts
<1>4. QED
  BY <1>2, <1>3 DEF ConversationInv

LEMMA MainReadsKeeps ==
  ASSUME ReplyInv, ConversationInv, MainReads
  PROVE  ConversationInv'
<1>1. /\ UNCHANGED <<job, text, rounds, signed>>
      /\ stage = "reading request" /\ raw' = reply.response /\ Read
      /\ reply # None /\ ~InterpretRaises
  BY DEF MainReads
<1>2. text = 0 /\ rounds = 0 /\ job = "interactive"
  BY <1>1 DEF ConversationInv, RoundsInv, JobInv
<1>3. raw' \in Responses
  BY <1>1 DEF ReplyInv, InterpretRaises
<1>4. SignedInv'
  BY <1>1, UnsignedStep DEF Conversing
<1>5. \/ /\ draft' = Interpreted(text) /\ draft' # None /\ stage' = "reviewing"
      \/ stage' = "resolving"
  BY <1>2 DEF MainReads, Ask
<1>6. JobInv'
  <2>1. earliest' = raw'
    BY <1>1 DEF ConversationInv, JobInv, Read
  <2>2. BudgetStated(raw') => stage' = "reviewing" /\ latest' = <<0, raw'>>
    <3>1. BudgetStated(reply.response) => Interpreted(0) # None
      BY <1>1, InterpretedIsADraft DEF Interpreted
    <3>2. QED
      BY <1>1, <1>2, <3>1 DEF MainReads, Read
  <2>3. RawInv'
    BY <1>3, <2>1, <2>2 DEF RawInv, BudgetStated, BudgetTotal, Quantity
  <2>4. QED
    BY <1>1, <1>2, <1>5, <2>3 DEF JobInv, Conversing, Prompts
<1>7. RoundsInv'
  BY <1>1, <1>2, <1>5 DEF RoundsInv, Prompts
<1>8. DraftInv'
  <2>1. CASE draft' = Interpreted(text) /\ draft' # None /\ stage' = "reviewing"
    <3>1. WholeReading(draft)' /\ draft'.request_text = text
      BY <1>1, <2>1, InterpretedIsWhole
    <3>2. QED
      BY <1>1, <1>2, <2>1, <3>1 DEF DraftInv, Exhausted
  <2>2. CASE stage' = "resolving"
    BY <2>2 DEF DraftInv
  <2>3. QED
    BY <1>5, <2>1, <2>2
<1>9. QED
  BY <1>4, <1>6, <1>7, <1>8 DEF ConversationInv

LEMMA InterviewBounds ==
  MaxRounds \in Nat /\ MaxAnswers \in Nat /\ MaxRounds <= MaxAnswers
BY InterviewAssumption

\* Where conduct_review stands once it has drafted again.
LEMMA DraftedAgain ==
  ASSUME ReplyInv, reply # None, ~InterpretRaises, Read,
         draft' = Interpreted(text), draft' # None, text' = text, rounds' = text,
         text \in Nat, text <= MaxRounds, stage' = AfterDraft(draft', rounds')
  PROVE  RoundsInv' /\ DraftInv'
<1>1. WholeReading(draft)' /\ draft'.request_text = text
  BY InterpretedIsWhole
<1>2. \/ stage' = "asked for a detail" /\ rounds' < MaxRounds
      \/ stage' = "reviewing" /\ (draft'.needs_clarification => rounds' = MaxRounds)
  <2>1. rounds' < MaxRounds \/ rounds' = MaxRounds
    BY InterviewBounds
  <2>2. QED
    BY <2>1, Zenon DEF AfterDraft, AsksAgain
<1>3. RoundsInv'
  BY <1>2 DEF RoundsInv, Prompts
<1>4. DraftInv'
  BY <1>1, <1>2 DEF DraftInv, Exhausted
<1>5. QED
  BY <1>3, <1>4

\* conduct_review starts when the first reading had no budget, and what it reads
\* changes nothing for the reviewer.
LEMMA ReviewerStays ==
  ASSUME JobInv, stage \in {"resolving", "clarifying"}, Read, UNCHANGED <<job, raw>>,
         NEW next, stage' = next
  PROVE  job = "interactive" => RawInv'
<1> SUFFICES ASSUME job = "interactive" PROVE RawInv'
  OBVIOUS
<1>1. raw \in Responses /\ earliest = raw /\ ~BudgetStated(raw)
  BY DEF JobInv, RawInv, Conversing
<1>2. earliest' = earliest
  BY <1>1, InterviewAssumption DEF Read
<1>3. QED
  BY <1>1, <1>2 DEF RawInv, BudgetStated, BudgetTotal, Quantity

LEMMA ResolveKeeps ==
  ASSUME ReplyInv, ConversationInv, Resolve
  PROVE  ConversationInv'
<1>1. /\ UNCHANGED <<job, text, raw, signed>>
      /\ stage = "resolving" /\ Read /\ reply # None /\ ~InterpretRaises
      /\ draft' = Interpreted(text) /\ rounds' = RoundsSoFar
      /\ stage' = IF draft' # None THEN AfterDraft(draft', rounds')
                  ELSE IF rounds' >= MaxRounds THEN "declined"
                  ELSE "asked for the budget"
  BY DEF Resolve
<1>2. /\ rounds' = text /\ text \in Nat /\ text <= MaxRounds /\ MaxRounds \in Nat
      /\ rounds \in Nat
  <2>1. /\ rounds \in Nat /\ text \in Nat
        /\ \/ text = 0 /\ rounds = 0
           \/ text = rounds + 1 /\ rounds < MaxRounds
    BY <1>1 DEF ConversationInv, RoundsInv
  <2>2. rounds' = IF text = 0 THEN rounds ELSE rounds + 1
    BY <1>1 DEF RoundsSoFar
  <2>3. QED
    BY <2>1, <2>2, InterviewBounds
<1>3. SignedInv'
  BY <1>1, UnsignedStep DEF Conversing
<1>4. stage' \in {"asked for a detail", "reviewing", "declined", "asked for the budget"}
  BY <1>1 DEF AfterDraft
<1>5. JobInv'
  BY <1>1, <1>4, ReviewerStays DEF ConversationInv, JobInv, Conversing, Prompts
<1>6. CASE draft' # None
  BY <1>1, <1>2, <1>3, <1>5, <1>6, DraftedAgain DEF ConversationInv
<1>7. CASE draft' = None
  <2>1. \/ stage' = "declined"
        \/ stage' = "asked for the budget" /\ rounds' < MaxRounds
    <3>1. stage' = IF rounds' >= MaxRounds THEN "declined" ELSE "asked for the budget"
      BY <1>1, <1>7, Zenon
    <3>2. rounds' >= MaxRounds \/ rounds' < MaxRounds
      BY <1>2
    <3>3. QED
      BY <3>1, <3>2, Zenon
  <2>2. RoundsInv' /\ DraftInv'
    BY <1>1, <1>2, <2>1 DEF RoundsInv, DraftInv, Prompts
  <2>3. QED
    BY <1>3, <1>5, <2>2 DEF ConversationInv
<1>8. QED
  BY <1>6, <1>7

LEMMA ClarifyKeeps ==
  ASSUME ReplyInv, ConversationInv, Clarify
  PROVE  ConversationInv'
<1>1. /\ UNCHANGED <<job, text, raw, signed>>
      /\ stage = "clarifying" /\ Read /\ reply # None /\ ~InterpretRaises
      /\ \/ stage' = "reviewing" /\ UNCHANGED <<draft, rounds, latest>>
         \/ /\ draft' = Interpreted(text) /\ draft' # None /\ rounds' = rounds + 1
            /\ stage' = AfterDraft(draft', rounds')
  BY DEF Clarify, Read
<1>2. /\ text = rounds + 1 /\ rounds \in Nat /\ rounds < MaxRounds /\ MaxRounds \in Nat
  BY <1>1, InterviewBounds DEF ConversationInv, RoundsInv
<1>3. SignedInv'
  BY <1>1, UnsignedStep DEF Conversing
<1>4. stage' \in {"asked for a detail", "reviewing"}
  BY <1>1 DEF AfterDraft
<1>5. JobInv'
  BY <1>1, <1>4, ReviewerStays DEF ConversationInv, JobInv, Conversing, Prompts
<1>6. CASE stage' = "reviewing" /\ UNCHANGED <<draft, rounds, latest>>
  <2>1. WholeReading(draft)' /\ draft.request_text = rounds
    <3>1. WholeReading(draft) /\ draft.request_text = rounds
      BY <1>1 DEF ConversationInv, DraftInv
    <3>2. QED
      BY <1>1, <1>6, <3>1, WholeReadingStays
  <2>2. RoundsInv' /\ DraftInv'
    BY <1>1, <1>2, <1>6, <2>1 DEF RoundsInv, DraftInv, Exhausted, Prompts
  <2>3. QED
    BY <1>3, <1>5, <2>2 DEF ConversationInv
<1>7. CASE /\ draft' = Interpreted(text) /\ draft' # None /\ rounds' = rounds + 1
           /\ stage' = AfterDraft(draft', rounds')
  <2>1. rounds' = text /\ text \in Nat /\ text <= MaxRounds
    BY <1>2, <1>7
  <2>2. QED
    BY <1>1, <1>3, <1>5, <1>7, <2>1, DraftedAgain DEF ConversationInv
<1>8. QED
  BY <1>1, <1>6, <1>7

LEMMA PersonAnswersKeeps ==
  ASSUME ConversationInv, PersonAnswers
  PROVE  ConversationInv'
<1>1. /\ UNCHANGED <<job, rounds, draft, raw, signed, earliest, latest>>
      /\ stage \in Prompts /\ text' = Lesser(text + 1, MaxAnswers)
      /\ \/ stage = "asked for the budget" /\ stage' = "resolving"
         \/ stage = "asked for a detail" /\ stage' = "clarifying"
  BY DEF PersonAnswers, Ask, Prompts, readings
<1>2. text = rounds /\ rounds < MaxRounds /\ rounds \in Nat
  BY <1>1 DEF ConversationInv, RoundsInv
<1>3. text' = rounds + 1
  <2>1. text + 1 <= MaxAnswers
    BY <1>2, InterviewBounds
  <2>2. Lesser(text + 1, MaxAnswers) = text + 1
    BY <1>2, <2>1, InterviewBounds DEF Lesser
  <2>3. QED
    BY <1>1, <1>2, <2>2
<1>4. SignedInv'
  BY <1>1, UnsignedStep DEF Conversing
<1>5. RoundsInv'
  <2>1. text' \in Nat /\ rounds' = rounds /\ text' = rounds' + 1 /\ rounds' < MaxRounds
    <3>1. rounds' = rounds
      BY <1>1
    <3>2. QED
      BY <1>2, <1>3, <3>1
  <2>2. stage' = "resolving" \/ stage' = "clarifying"
    BY <1>1
  <2>3. QED
    BY <1>2, <2>1, <2>2 DEF RoundsInv, Prompts
<1>6. JobInv'
  BY <1>1
     DEF ConversationInv, JobInv, RawInv, Conversing, Prompts, BudgetStated, BudgetTotal,
         Quantity
<1>7. DraftInv'
  <2>1. CASE stage' = "resolving"
    BY <2>1 DEF DraftInv
  <2>2. CASE stage = "asked for a detail" /\ stage' = "clarifying"
    <3>1. WholeReading(draft) /\ draft.request_text = rounds
      BY <2>2 DEF ConversationInv, DraftInv
    <3>2. WholeReading(draft)'
      BY <1>1, <3>1, WholeReadingStays
    <3>3. QED
      BY <1>1, <2>2, <3>1, <3>2 DEF DraftInv
  <2>3. QED
    BY <1>1, <2>1, <2>2
<1>8. QED
  BY <1>4, <1>5, <1>6, <1>7 DEF ConversationInv

\* sign_mandate signs the draft under the answers of the reviewer.
LEMMA ReviewKeeps ==
  ASSUME ConversationInv, Review
  PROVE  ConversationInv'
<1>1. /\ UNCHANGED <<job, text, rounds, draft, raw, earliest, latest>>
      /\ stage = "reviewing" /\ stage' \in {"signed", "declined"}
  BY DEF Review, readings
<1>2. RoundsInv' /\ DraftInv' /\ JobInv'
  BY <1>1 DEF ConversationInv, RoundsInv, DraftInv, JobInv, Conversing, Prompts
<1>3. /\ WholeReading(draft) /\ job # "evaluation"
      /\ \/ draft.request_text = text
         \/ text = rounds + 1 /\ draft.request_text = rounds
      /\ draft.needs_clarification => Exhausted(draft)
      /\ job = "interactive" => RawInv
      /\ text \in Nat /\ rounds \in Nat
  BY <1>1 DEF ConversationInv, DraftInv, JobInv, RoundsInv, Conversing
<1>4. CASE signed' = signed
  BY <1>1, <1>2, <1>4, UnsignedStep DEF ConversationInv, Conversing
<1>5. ASSUME NEW answers, signed' = WithAnswers(answers), stage' = "signed",
             job = "interactive" => answers = AIAnswers
      PROVE  ConversationInv'
  <2>1. /\ signed'.request_text = draft.request_text
        /\ signed'.total_paise = draft.total_paise
        /\ signed'.per_item_paise = draft.per_item_paise
        /\ signed'.max_quantity = draft.max_quantity
        /\ signed'.needs_clarification = draft.needs_clarification
        /\ signed'.escalate_above_paise =
             IF answers.escalate_above_paise = None THEN draft.escalate_above_paise
             ELSE answers.escalate_above_paise
    BY <1>3, <1>5 DEF WithAnswers, WholeReading, DraftFields
  <2>2. ASSUME job = "interactive"
        PROVE  /\ signed'.escalate_above_paise = TripwireOf(earliest, draft.total_paise)
               /\ signed'.substitutions_preapproved = earliest.substitutions_ok
               /\ BudgetStated(earliest) => latest = <<0, earliest>>
    <3>1. earliest = raw /\ raw \in Responses /\ (BudgetStated(raw) => latest = <<0, raw>>)
      BY <1>3, <2>2 DEF RawInv
    <3>2. signed'.substitutions_preapproved = answers.substitutions_preapproved
      BY <1>3, <1>5 DEF WithAnswers, WholeReading, DraftFields
    <3>3. /\ draft.escalate_above_paise = draft.total_paise
          /\ answers.escalate_above_paise =
               IF raw.escalate_above = None THEN None
               ELSE Lesser(raw.escalate_above, draft.total_paise)
          /\ answers.substitutions_preapproved = raw.substitutions_ok
      BY <1>3, <1>5, <2>2 DEF WholeReading, AIAnswers
    <3>4. raw.escalate_above # None => Lesser(raw.escalate_above, draft.total_paise) # None
      <4>1. raw.escalate_above \in Int \cup {None} /\ draft.total_paise \in Int
        BY <1>3, <3>1, InterviewAssumption DEF WholeReading
      <4>2. QED
        BY <4>1, InterviewAssumption DEF Lesser
    <3>5. QED
      BY <2>1, <3>1, <3>2, <3>3, <3>4 DEF TripwireOf
  <2>3. LastGoodsFirstSettings'
    <3>1. signed'.per_item_paise <= signed'.total_paise
      BY <1>3, <2>1 DEF WholeReading
    <3>2. text' - latest'[1] \in {0, 1} /\ signed'.request_text = latest'[1]
      BY <1>1, <1>3, <2>1 DEF WholeReading, ReadOff
    <3>3. \/ signed'.total_paise = latest'[2].budget_total
          \/ signed'.max_quantity * signed'.total_paise = latest'[2].budget_per_item
      BY <1>1, <1>3, <2>1 DEF WholeReading, ReadOff
    <3>4. job' = job /\ earliest' = earliest /\ latest' = latest
      BY <1>1
    <3>5. QED
      BY <2>1, <2>2, <3>1, <3>2, <3>3, <3>4
         DEF LastGoodsFirstSettings, TripwireOf, BudgetStated, BudgetTotal, Quantity
  <2>4. ClarifiedOrExhausted'
    BY <1>1, <1>3, <2>1 DEF ClarifiedOrExhausted, Exhausted
  <2>5. SignedInv'
    BY <1>5, <2>3, <2>4 DEF SignedInv, Conversing, Prompts
  <2>6. QED
    BY <1>2, <2>5 DEF ConversationInv
<1>6. \/ signed' = signed
      \/ \E answers \in IF job = "interactive" THEN {AIAnswers} ELSE Scripts :
           signed' = WithAnswers(answers) /\ stage' = "signed"
  BY DEF Review
<1>7. QED
  BY <1>4, <1>5, <1>6

LEMMA NextConversationInv ==
  ASSUME ReplyInv, ConversationInv, [Next]_vars
  PROVE  ConversationInv'
<1>1. CASE StartInterview \/ MainReads \/ Resolve \/ Clarify \/ Review \/ PersonAnswers
  BY <1>1, StartInterviewKeeps, MainReadsKeeps, ResolveKeeps, ClarifyKeeps, ReviewKeeps,
     PersonAnswersKeeps
<1>2. CASE ProviderSteps \/ UNCHANGED vars
  BY <1>2, QuietStep DEF ProviderSteps, vars, interviewVars
<1>3. CASE Raises \/ NoAnswer
  BY <1>3, QuietStep DEF Raises, NoAnswer, Conversing, Prompts
<1>4. CASE EvaluationProceeds
  <2>1. UNCHANGED conversation
    BY <1>4
       DEF EvaluationProceeds, StartEvaluation, MeasureFidelity, MeasureAmbiguity,
           EvaluationRaises, PickIntents
  <2>2. stage' \in {"measuring fidelity", "measuring ambiguity", "picking", "raised",
                    "evaluated"}
    BY <1>4
       DEF EvaluationProceeds, StartEvaluation, MeasureFidelity, MeasureAmbiguity,
           EvaluationRaises, PickIntents, Ask
  <2>3. QED
    BY <2>1, <2>2, QuietStep DEF Conversing, Prompts
<1>5. QED
  BY <1>1, <1>2, <1>3, <1>4 DEF Next, Proceeds, InterviewProceeds

LEMMA TalkInvariance == Spec => [](ReplyInv /\ ConversationInv)
<1>1. Init => ReplyInv /\ ConversationInv
  BY DEF Init, InterviewInit, ProviderInit, ReplyInv, ConversationInv, RoundsInv, DraftInv,
         JobInv, SignedInv, LastGoodsFirstSettings, ClarifiedOrExhausted, Conversing, Prompts
<1>2. ReplyInv /\ ConversationInv /\ [Next]_vars => (ReplyInv /\ ConversationInv)'
  BY ProviderStepsOnly, NextReplyInv, NextConversationInv
<1>3. QED
  BY <1>1, <1>2, PTL DEF Spec

\* conduct_review, main and sign_mandate: the text and the budget that are signed
\* are those of the latest reading with a budget, behind the conversation by one
\* answer at most; the tripwire and the consent to substitutions that main signs
\* are those of the first reading, which is the same one only when it had a
\* budget.
THEOREM SignedAsRead == Spec => []LastGoodsFirstSettings
<1>1. ReplyInv /\ ConversationInv => LastGoodsFirstSettings
  BY DEF ConversationInv, SignedInv
<1>2. QED
  BY <1>1, TalkInvariance, PTL

\* The second loop of conduct_review: what is signed is clear, or the rounds of
\* questions are used up, or the last answer has lost the budget, or main took
\* the first reading as it was.
THEOREM AskedUntilClear == Spec => []ClarifiedOrExhausted
<1>1. ReplyInv /\ ConversationInv => ClarifiedOrExhausted
  BY DEF ConversationInv, SignedInv
<1>2. QED
  BY <1>1, TalkInvariance, PTL

-----------------------------------------------------------------------------
(* The order in which the results are looked at. *)

\* What the order is made of, before anything is known of the results.
Numbered == results = [n \in 1..Len(results) |-> results[n]]
            /\ Len(results) \in Nat /\ \A n \in DOMAIN results : results[n].k \in Int

Predecessors(n) == {m \in DOMAIN results : Precedes(m, n)}

\* Of two results one comes first, and comes after all that precede it.
LEMMA PrecedesIsAnOrder ==
  ASSUME Numbered, NEW m \in DOMAIN results, NEW n \in DOMAIN results
  PROVE  /\ m = n \/ Precedes(m, n) \/ Precedes(n, m)
         /\ ~(Precedes(m, n) /\ Precedes(n, m))
         /\ Precedes(m, n) =>
              \A l \in DOMAIN results : Precedes(l, m) => Precedes(l, n)
<1>1. DOMAIN results \subseteq Nat /\ \A l \in DOMAIN results : results[l].k \in Int
  BY DEF Numbered
<1>2. QED
  BY <1>1 DEF Precedes

LEMMA RankGrows ==
  ASSUME Numbered, NEW m \in DOMAIN results, NEW n \in DOMAIN results
  PROVE  /\ Rank(n) \in 0..(Len(results) - 1)
         /\ Precedes(m, n) => Rank(m) < Rank(n)
<1>1. DOMAIN results = 1..Len(results) /\ Len(results) \in Nat
  BY DEF Numbered
<1>2. IsFiniteSet(DOMAIN results) /\ Cardinality(DOMAIN results) = Len(results)
  <2>1. IsFiniteSet(1..Len(results)) /\ Cardinality(1..Len(results)) = Len(results)
    <3> DEFINE size == Len(results)
    <3>1. 1 \in Int /\ size \in Int /\ size - 1 + 1 = size /\ (1 > size => size = 0)
      BY <1>1
    <3> HIDE DEF size
    <3>2. IsFiniteSet(1..size) /\ Cardinality(1..size) = size
      BY <3>1, FS_Interval
    <3>3. QED
      BY <3>2 DEF size
  <2>2. QED
    BY <1>1, <2>1
<1>3. \A l \in DOMAIN results :
        /\ IsFiniteSet(Predecessors(l)) /\ Rank(l) = Cardinality(Predecessors(l))
        /\ Rank(l) \in Nat
  BY <1>2, FS_Subset, FS_CardinalityType DEF Predecessors, Rank
<1>4. \A l \in DOMAIN results : l \notin Predecessors(l)
  BY PrecedesIsAnOrder DEF Predecessors
<1>5. Rank(n) < Len(results)
  <2>1. Predecessors(n) \in SUBSET (DOMAIN results) /\ Predecessors(n) # DOMAIN results
    BY <1>4 DEF Predecessors
  <2>2. Cardinality(Predecessors(n)) <= Len(results)
        /\ Cardinality(Predecessors(n)) # Len(results)
    BY <1>2, <2>1, FS_Subset
  <2>3. QED
    BY <1>1, <1>3, <2>2
<1>6. ASSUME Precedes(m, n) PROVE Rank(m) < Rank(n)
  <2>1. Predecessors(m) \in SUBSET Predecessors(n) /\ Predecessors(m) # Predecessors(n)
    <3>1. m \in Predecessors(n) /\ m \notin Predecessors(m)
      BY <1>4, <1>6 DEF Predecessors
    <3>2. Predecessors(m) \subseteq Predecessors(n)
      BY <1>6, PrecedesIsAnOrder DEF Predecessors
    <3>3. QED
      BY <3>1, <3>2
  <2>2. Cardinality(Predecessors(m)) <= Cardinality(Predecessors(n))
        /\ Cardinality(Predecessors(m)) # Cardinality(Predecessors(n))
    BY <1>3, <2>1, FS_Subset
  <2>3. QED
    BY <1>3, <2>2
<1>7. QED
  BY <1>1, <1>3, <1>5, <1>6

\* Where the i-th result looked at stands in the list.
PlaceOf(i) == CHOOSE n \in DOMAIN results : Rank(n) = i - 1

\* Every result is looked at, one after those that precede it.
LEMMA SortedByRank ==
  ASSUME Numbered
  PROVE  /\ \A i \in DOMAIN results :
              PlaceOf(i) \in DOMAIN results /\ Rank(PlaceOf(i)) = i - 1
         /\ \A n \in DOMAIN results : \E i \in DOMAIN results : PlaceOf(i) = n
         /\ \A i, j \in DOMAIN results : i < j => Precedes(PlaceOf(i), PlaceOf(j))
<1> DEFINE places == DOMAIN results
           ranks  == 0..(Len(results) - 1)
           rank   == [n \in places |-> Rank(n)]
<1>1. places = 1..Len(results) /\ Len(results) \in Nat
  BY DEF Numbered
<1>2. \A m, n \in places : Rank(m) = Rank(n) => m = n
  BY <1>1, RankGrows, PrecedesIsAnOrder
<1>3. rank \in [places -> ranks]
  BY RankGrows
<1>4. rank \in Injection(places, ranks)
  BY <1>2, <1>3 DEF Injection, IsInjective
<1>5. IsFiniteSet(ranks) /\ Cardinality(places) = Cardinality(ranks)
  BY <1>1, FS_Interval
<1>6. rank \in Surjection(places, ranks)
  <2> HIDE DEF places, ranks, rank
  <2>1. QED
    BY <1>4, <1>5, FS_Injection
<1>7. \A r \in ranks : \E n \in places : Rank(n) = r
  BY <1>6 DEF Surjection
<1>8. \A i \in places : PlaceOf(i) \in places /\ Rank(PlaceOf(i)) = i - 1
  BY <1>1, <1>7 DEF PlaceOf
<1>9. \A n \in places : \E i \in places : PlaceOf(i) = n
  <2> SUFFICES ASSUME NEW n \in places PROVE \E i \in places : PlaceOf(i) = n
    OBVIOUS
  <2>1. Rank(n) + 1 \in places /\ Rank(n) = (Rank(n) + 1) - 1
    BY <1>1, RankGrows
  <2>2. PlaceOf(Rank(n) + 1) = n
    BY <1>2, <1>8, <2>1
  <2>3. QED
    BY <2>1, <2>2
<1>10. \A i, j \in places : i < j => Precedes(PlaceOf(i), PlaceOf(j))
  <2> SUFFICES ASSUME NEW i \in places, NEW j \in places, i < j
               PROVE  Precedes(PlaceOf(i), PlaceOf(j))
    OBVIOUS
  <2>1. Rank(PlaceOf(i)) = i - 1 /\ Rank(PlaceOf(j)) = j - 1 /\ i \in Int /\ j \in Int
    BY <1>1, <1>8
  <2>2. PlaceOf(i) # PlaceOf(j) /\ ~(Rank(PlaceOf(j)) < Rank(PlaceOf(i)))
    BY <2>1
  <2>3. QED
    BY <1>8, <2>2, RankGrows, PrecedesIsAnOrder
<1>11. QED
  BY <1>8, <1>9, <1>10

-----------------------------------------------------------------------------
(* The loop that picks. *)

\* The recursive function of a fold over the first k of some results.
IsFold(iter, list, k) ==
  iter = [s \in SUBSET (1..k) |->
            IF s = {} THEN <<>> ELSE Pick(iter[s \ {Max(s)}], list[Max(s)])]

LEMMA LastOfPrefix ==
  ASSUME NEW k \in Nat \ {0}
  PROVE  /\ Max(1..k) = k /\ (1..k) \ {k} = 1..(k - 1)
         /\ \A s \in SUBSET (1..k) : s # {} /\ ~(s \subseteq 1..(k - 1)) => Max(s) = k
         /\ \A s \in SUBSET (1..k) : s # {} => Max(s) \in s
<1>1. \A s \in SUBSET (1..k) : s # {} => Max(s) \in s /\ \A n \in s : n <= Max(s)
  <2> SUFFICES ASSUME NEW s \in SUBSET (1..k), s # {}
               PROVE  Max(s) \in s /\ \A n \in s : n <= Max(s)
    OBVIOUS
  <2>1. IsFiniteSet(1..k)
    BY FS_Interval
  <2>2. IsFiniteSet(s)
    BY <2>1, FS_Subset
  <2>3. s \subseteq Nat
    OBVIOUS
  <2>4. QED
    BY <2>2, <2>3, MaxIsGreatest
<1>2. (1..k) \ {k} = 1..(k - 1)
  OBVIOUS
<1>3. \A s \in SUBSET (1..k) : s # {} /\ ~(s \subseteq 1..(k - 1)) => Max(s) = k
  <2> SUFFICES ASSUME NEW s \in SUBSET (1..k), s # {}, ~(s \subseteq 1..(k - 1))
               PROVE  Max(s) = k
    OBVIOUS
  <2>1. k \in s
    OBVIOUS
  <2>2. Max(s) \in 1..k /\ k <= Max(s)
    BY <1>1, <2>1
  <2>3. QED
    BY <2>2
<1>4. Max(1..k) = k
  <2>1. 1..k \in SUBSET (1..k) /\ 1..k # {} /\ ~(1..k \subseteq 1..(k - 1))
    OBVIOUS
  <2>2. QED
    BY <1>3, <2>1
<1>5. QED
  BY <1>1, <1>2, <1>3, <1>4

\* A fold over one element more is an extension.
LEMMA FoldExtends ==
  ASSUME NEW list, NEW k \in Nat \ {0}, NEW f, IsFold(f, list, k - 1)
  PROVE  \E g : IsFold(g, list, k)
<1> DEFINE g == [s \in SUBSET (1..k) |->
                   IF s \subseteq 1..(k - 1) THEN f[s]
                   ELSE Pick(f[s \ {k}], list[k])]
<1>1. \A t \in SUBSET (1..(k - 1)) :
        f[t] = IF t = {} THEN <<>> ELSE Pick(f[t \ {Max(t)}], list[Max(t)])
  BY DEF IsFold
<1>2. \A t \in SUBSET (1..(k - 1)) : t \in SUBSET (1..k) /\ g[t] = f[t]
  OBVIOUS
<1>3. ASSUME NEW s \in SUBSET (1..k)
      PROVE  g[s] = IF s = {} THEN <<>> ELSE Pick(g[s \ {Max(s)}], list[Max(s)])
  <2>1. CASE s \subseteq 1..(k - 1)
    <3>1. s \ {Max(s)} \subseteq 1..(k - 1)
      BY <2>1
    <3>2. g[s \ {Max(s)}] = f[s \ {Max(s)}] /\ g[s] = f[s]
      BY <1>2, <2>1, <3>1
    <3> HIDE DEF g
    <3>3. QED
      BY <1>1, <2>1, <3>2
  <2>2. CASE ~(s \subseteq 1..(k - 1))
    <3>1. s # {} /\ Max(s) = k /\ s \ {k} \subseteq 1..(k - 1)
      BY <1>3, <2>2, LastOfPrefix
    <3>2. g[s] = Pick(f[s \ {k}], list[k]) /\ g[s \ {k}] = f[s \ {k}]
      BY <1>2, <2>2, <3>1
    <3> HIDE DEF g
    <3>3. QED
      BY <3>1, <3>2
  <2>3. QED
    BY <2>1, <2>2
<1>4. g = [s \in SUBSET (1..k) |-> g[s]]
  OBVIOUS
<1> HIDE DEF g
<1>5. IsFold(g, list, k)
  BY <1>3, <1>4 DEF IsFold
<1>6. QED
  BY <1>5

LEMMA FoldExists ==
  ASSUME NEW list, NEW n \in Nat
  PROVE  \E f : IsFold(f, list, n)
<1> DEFINE Bad == {k \in Nat : ~\E f : IsFold(f, list, k)}
<1> SUFFICES ASSUME Bad # {} PROVE FALSE
  OBVIOUS
<1>1. PICK m \in Bad : \A k \in Bad : m <= k
  <2>1. Bad \subseteq Nat
    OBVIOUS
  <2> HIDE DEF Bad
  <2>2. QED
    BY <2>1, LeastNat
<1>2. m # 0
  <2> SUFFICES \E f : IsFold(f, list, 0)
    BY <1>1
  <2> DEFINE f == [s \in SUBSET (1..0) |-> <<>>]
  <2>1. \A s \in SUBSET (1..0) : s = {}
    OBVIOUS
  <2>2. IsFold(f, list, 0)
    BY <2>1 DEF IsFold
  <2>3. QED
    BY <2>2
<1>3. m \in Nat \ {0} /\ m - 1 \in Nat /\ ~(m <= m - 1)
  BY <1>1, <1>2
<1>4. m - 1 \notin Bad
  <2> HIDE DEF Bad
  <2>1. QED
    BY <1>1, <1>3
<1>5. PICK f : IsFold(f, list, m - 1)
  BY <1>3, <1>4
<1>6. \E g : IsFold(g, list, m)
  BY <1>3, <1>5, FoldExtends
<1>7. QED
  BY <1>1, <1>6

\* picked_scenario_ids and live_intents after k turns of the loop.
TurnsOf(p, list) ==
  /\ p[0] = <<>>
  /\ \A k \in DOMAIN list : p[k] = Pick(p[k - 1], list[k])

LEMMA FoldIsALoop ==
  ASSUME NEW list, NEW n \in Nat, DOMAIN list = 1..n
  PROVE  \E p : FoldLeft(Pick, <<>>, list) = p[n] /\ TurnsOf(p, list)
<1> DEFINE iter == CHOOSE f : IsFold(f, list, n)
           p == [k \in 0..n |-> iter[1..k]]
<1>1. IsFold(iter, list, n)
  <2>1. \E f : IsFold(f, list, n)
    BY FoldExists
  <2>2. QED
    BY <2>1
<1>2. FoldLeft(Pick, <<>>, list) = iter[1..n]
  BY DEF FoldLeft, MapThenFoldSet, IsFold
<1> HIDE DEF iter
<1>3. \A s \in SUBSET (1..n) :
        iter[s] = IF s = {} THEN <<>> ELSE Pick(iter[s \ {Max(s)}], list[Max(s)])
  BY <1>1 DEF IsFold
<1>4. iter[1..0] = <<>>
  <2>1. 1..0 = {} /\ 1..0 \in SUBSET (1..n)
    OBVIOUS
  <2>2. QED
    BY <1>3, <2>1
<1>5. ASSUME NEW k \in 1..n
      PROVE  iter[1..k] = Pick(iter[1..(k - 1)], list[k])
  <2>1. 1..k \in SUBSET (1..n) /\ 1..k # {} /\ k \in Nat \ {0}
    BY <1>5
  <2>2. Max(1..k) = k /\ (1..k) \ {k} = 1..(k - 1)
    BY <2>1, LastOfPrefix
  <2>3. QED
    BY <1>3, <2>1, <2>2
<1>6. p[0] = iter[1..0] /\ p[n] = iter[1..n]
      /\ \A k \in 1..n : p[k] = iter[1..k] /\ p[k - 1] = iter[1..(k - 1)]
  OBVIOUS
<1> HIDE DEF p
<1>7. TurnsOf(p, list)
  BY <1>4, <1>5, <1>6 DEF TurnsOf
<1>8. QED
  BY <1>2, <1>6, <1>7

\* A result that the loop may take for a scenario.
Wanted(r, s) == r.scenario = s /\ Signable(r)

\* One turn of the loop, for one scenario.
LEMMA OneTurn ==
  ASSUME NEW q, NEW r, NEW s
  PROVE  /\ s \in DOMAIN Pick(q, r) <=> s \in DOMAIN q \/ Wanted(r, s)
         /\ s \in DOMAIN q => Pick(q, r)[s] = q[s]
         /\ s \notin DOMAIN q /\ Wanted(r, s) => Pick(q, r)[s] = SimulatedReview(r)
<1>1. CASE r.scenario \in DOMAIN q \/ ~Signable(r)
  BY <1>1 DEF Pick, Wanted
<1>2. CASE ~(r.scenario \in DOMAIN q \/ ~Signable(r))
  BY <1>2 DEF Pick, Wanted
<1>3. QED
  BY <1>1, <1>2

\* What is picked for a scenario in k turns is the first that may be.
FirstPicked(p, list, k, s) ==
  /\ s \in DOMAIN p[k] <=> \E i \in 1..k : Wanted(list[i], s)
  /\ \A i \in 1..k :
       Wanted(list[i], s) /\ (\A j \in 1..(i - 1) : ~Wanted(list[j], s))
         => p[k][s] = SimulatedReview(list[i])

LEMMA NextTurnPicksFirst ==
  ASSUME NEW p, NEW list, NEW s, NEW k \in Nat \ {0}, FirstPicked(p, list, k - 1, s),
         p[k] = Pick(p[k - 1], list[k])
  PROVE  FirstPicked(p, list, k, s)
<1>1. /\ s \in DOMAIN p[k] <=> s \in DOMAIN p[k - 1] \/ Wanted(list[k], s)
      /\ s \in DOMAIN p[k - 1] => p[k][s] = p[k - 1][s]
      /\ s \notin DOMAIN p[k - 1] /\ Wanted(list[k], s)
           => p[k][s] = SimulatedReview(list[k])
  BY OneTurn
<1>2. \A i \in 1..k : i = k \/ i \in 1..(k - 1)
  OBVIOUS
<1>3. k \in 1..k /\ 1..(k - 1) \subseteq 1..k
  OBVIOUS
<1>4. s \in DOMAIN p[k] <=> \E i \in 1..k : Wanted(list[i], s)
  BY <1>1, <1>2, <1>3 DEF FirstPicked
<1>5. ASSUME NEW i \in 1..k, Wanted(list[i], s),
             \A j \in 1..(i - 1) : ~Wanted(list[j], s)
      PROVE  p[k][s] = SimulatedReview(list[i])
  <2>1. CASE i = k
    BY <1>1, <1>5, <2>1 DEF FirstPicked
  <2>2. CASE i \in 1..(k - 1)
    BY <1>1, <1>5, <2>2 DEF FirstPicked
  <2>3. QED
    BY <1>2, <2>1, <2>2
<1>6. QED
  BY <1>4, <1>5 DEF FirstPicked

LEMMA LoopPicksFirst ==
  ASSUME NEW p, NEW list, NEW n \in Nat, DOMAIN list = 1..n, TurnsOf(p, list), NEW s
  PROVE  FirstPicked(p, list, n, s)
<1> DEFINE Bad == {k \in 0..n : ~FirstPicked(p, list, k, s)}
<1> SUFFICES ASSUME Bad # {} PROVE FALSE
  OBVIOUS
<1>1. PICK m \in Bad : \A k \in Bad : m <= k
  <2>1. Bad \subseteq Nat
    OBVIOUS
  <2> HIDE DEF Bad
  <2>2. QED
    BY <2>1, LeastNat
<1>2. m # 0
  <2>1. FirstPicked(p, list, 0, s)
    BY DEF FirstPicked, TurnsOf
  <2>2. QED
    BY <1>1, <2>1
<1>3. m \in Nat \ {0} /\ m - 1 \in 0..n /\ m \in 1..n /\ ~(m <= m - 1)
  BY <1>1, <1>2
<1>4. m - 1 \notin Bad
  <2> HIDE DEF Bad
  <2>1. QED
    BY <1>1, <1>3
<1>5. FirstPicked(p, list, m - 1, s)
  BY <1>3, <1>4
<1>6. FirstPicked(p, list, m, s)
  BY <1>3, <1>5, NextTurnPicksFirst DEF TurnsOf
<1>7. QED
  BY <1>1, <1>6

-----------------------------------------------------------------------------
(* The drafts of a scenario. *)

LEMMA DivMod ==
  ASSUME NEW a \in Nat, NEW b \in Nat, b > 0
  PROVE  /\ a \div b \in Nat /\ a % b \in Nat
         /\ a % b = a - b * (a \div b)
  BY SMTT(30)

FidelityResults ==
  [scenario : Nat, k : Nat, draft_intent : Drafts \cup {None},
   needs_clarification : BOOLEAN, budget_correct : BOOLEAN]

\* Which repeat of which scenario a result is, and what it holds.
Measured ==
  /\ results \in Seq(FidelityResults)
  /\ \A n \in DOMAIN results :
       results[n].scenario = ItemOf(n) /\ results[n].k = RepeatOf(n)

LEMMA MeasuredIsNumbered ==
  ASSUME Measured
  PROVE  Numbered /\ DOMAIN results = 1..Len(results)
         /\ \A n \in DOMAIN results : results[n] \in FidelityResults
<1>1. Len(results) \in Nat /\ DOMAIN results = 1..Len(results)
      /\ \A n \in DOMAIN results : results[n] \in FidelityResults
  BY LenProperties, ElementOfSeq DEF Measured
<1>2. results = [n \in 1..Len(results) |-> results[n]]
  BY SeqDef DEF Measured
<1>3. QED
  BY <1>1, <1>2 DEF Numbered, FidelityResults

\* Of the repeats of a scenario the one that precedes was made before.
LEMMA RepeatsInOrder ==
  ASSUME Measured, NEW m \in DOMAIN results, NEW n \in DOMAIN results,
         results[m].scenario = results[n].scenario, Precedes(m, n)
  PROVE  m < n
<1> DEFINE q == (m - 1) \div K
<1>1. m - 1 \in Nat /\ n - 1 \in Nat /\ K \in Nat /\ K > 0
  BY MeasuredIsNumbered, LiveEvaluationAssumption
<1>2. /\ q \in Nat /\ (n - 1) \div K = q
  <2>1. (m - 1) \div K \in Nat /\ (n - 1) \div K \in Nat
    BY <1>1, DivMod
  <2>2. QED
    BY <2>1 DEF Measured, ItemOf
<1>3. /\ (m - 1) % K = (m - 1) - K * q
      /\ (n - 1) % K = (n - 1) - K * q
      /\ K * q \in Nat
  BY <1>1, <1>2, DivMod
<1> DEFINE start == K * q
<1>4. results[m].k = m - 1 - start /\ results[n].k = n - 1 - start
  BY <1>3 DEF Measured, RepeatOf
<1>5. start \in Nat /\ m \in Int /\ n \in Int
  BY <1>1, <1>3, MeasuredIsNumbered
<1> HIDE DEF start, q
<1>6. QED
  BY <1>4, <1>5 DEF Precedes

\* A review keeps the budget, and makes no draft unusable that is clear.
LEMMA ReviewKeepsTotal ==
  ASSUME NEW r \in FidelityResults, r.scenario \in DOMAIN Scenarios, Signable(r)
  PROVE  /\ r.needs_clarification <=> SimulatedReview(r) = None
         /\ ~r.needs_clarification =>
              SimulatedReview(r).total_paise = r.draft_intent.total_paise
<1> DEFINE d == r.draft_intent
           tripwire == Scenarios[r.scenario].escalate_above
<1>1. d \in Drafts /\ d # None /\ None \notin Drafts
  BY InterviewAssumption DEF FidelityResults, Signable
<1>2. tripwire \in Int \cup {None}
  <2> DEFINE Truths == [budget_total : Int \cup {None}, escalate_above : Int \cup {None}]
  <2>1. Scenarios \in Seq(Truths)
    BY LiveEvaluationAssumption
  <2> HIDE DEF Truths
  <2>2. Scenarios[r.scenario] \in Truths
    BY <2>1, LenProperties, ElementOfSeq
  <2>3. QED
    BY <2>2 DEF Truths
<1> HIDE DEF d, tripwire
<1>3. tripwire # None =>
        /\ [d EXCEPT !.escalate_above_paise = tripwire] \in Drafts
        /\ [d EXCEPT !.escalate_above_paise = tripwire].total_paise = d.total_paise
  BY <1>1, <1>2 DEF Drafts
<1>4. SimulatedReview(r) = IF r.needs_clarification THEN None
                           ELSE IF tripwire = None THEN d
                           ELSE [d EXCEPT !.escalate_above_paise = tripwire]
  BY DEF SimulatedReview, d, tripwire
<1>5. r.needs_clarification \in BOOLEAN
  BY DEF FidelityResults
<1>6. QED
  BY <1>1, <1>3, <1>4, <1>5 DEF d

DraftsInv == Measured /\ NoLuckyDraft

\* Among the usable results of a scenario the one looked at first is the
\* first that was made.
LEMMA FirstIsLookedAtFirst ==
  ASSUME Measured, NEW s, NEW i \in DOMAIN results,
         Wanted(InRepeatOrder[i], s),
         PlaceOf(i) = Min({n \in DOMAIN results : Wanted(results[n], s)}),
         NEW j \in 1..(i - 1)
  PROVE  ~Wanted(InRepeatOrder[j], s)
<1> DEFINE signable == {n \in DOMAIN results : Wanted(results[n], s)}
<1>1. Numbered /\ DOMAIN results = 1..Len(results) /\ Len(results) \in Nat
  BY MeasuredIsNumbered DEF Numbered
<1>2. j \in DOMAIN results /\ j < i
  BY <1>1
<1>3. /\ InRepeatOrder[i] = results[PlaceOf(i)] /\ InRepeatOrder[j] = results[PlaceOf(j)]
      /\ PlaceOf(i) \in DOMAIN results /\ PlaceOf(j) \in DOMAIN results
      /\ Precedes(PlaceOf(j), PlaceOf(i))
  BY <1>1, <1>2, SortedByRank DEF InRepeatOrder, PlaceOf
<1> SUFFICES ASSUME Wanted(InRepeatOrder[j], s) PROVE FALSE
  OBVIOUS
<1>4. PlaceOf(j) \in signable
  BY <1>3
<1>5. Min(signable) <= PlaceOf(j)
  <2>1. signable \subseteq Nat /\ signable # {}
    BY <1>1, <1>4
  <2> HIDE DEF signable
  <2>2. QED
    BY <1>4, <2>1, MinIsLeast
<1>6. PlaceOf(j) < PlaceOf(i)
  BY <1>3, RepeatsInOrder DEF Wanted
<1>7. PlaceOf(i) \in Int /\ PlaceOf(j) \in Int
  BY <1>1, <1>3
<1>8. QED
  BY <1>5, <1>6, <1>7

\* What the loop has picked for a scenario in the end.
LEMMA PickedInTheEnd ==
  ASSUME Measured, NEW s
  PROVE  LET signable == {n \in DOMAIN results : Wanted(results[n], s)}
             picked   == FoldLeft(Pick, <<>>, InRepeatOrder)
         IN  /\ s \in DOMAIN picked <=> signable # {}
             /\ signable # {} =>
                  /\ Min(signable) \in signable
                  /\ picked[s] = SimulatedReview(results[Min(signable)])
<1> DEFINE signable == {n \in DOMAIN results : Wanted(results[n], s)}
           picked   == FoldLeft(Pick, <<>>, InRepeatOrder)
           size     == Len(results)
<1>1. Numbered /\ DOMAIN results = 1..size /\ size \in Nat
  BY MeasuredIsNumbered DEF Numbered
<1>2. /\ DOMAIN InRepeatOrder = 1..size
      /\ \A i \in 1..size :
           PlaceOf(i) \in DOMAIN results /\ InRepeatOrder[i] = results[PlaceOf(i)]
      /\ \A n \in DOMAIN results : \E i \in 1..size : PlaceOf(i) = n
  BY <1>1, SortedByRank DEF InRepeatOrder, PlaceOf
<1>3. PICK p : picked = p[size] /\ TurnsOf(p, InRepeatOrder)
  BY <1>1, <1>2, FoldIsALoop
<1>4. FirstPicked(p, InRepeatOrder, size, s)
  BY <1>1, <1>2, <1>3, LoopPicksFirst
<1>5. (\E i \in 1..size : Wanted(InRepeatOrder[i], s)) <=> signable # {}
  BY <1>2
<1>6. ASSUME signable # {}
      PROVE  /\ Min(signable) \in signable
             /\ p[size][s] = SimulatedReview(results[Min(signable)])
  <2>1. Min(signable) \in signable
    <3>1. signable \subseteq Nat
      BY <1>1
    <3> HIDE DEF signable
    <3>2. QED
      BY <1>6, <3>1, MinIsLeast
  <2>2. PICK i \in 1..size : PlaceOf(i) = Min(signable)
    BY <1>2, <2>1
  <2>3. Wanted(InRepeatOrder[i], s) /\ InRepeatOrder[i] = results[Min(signable)]
    BY <1>2, <2>1, <2>2
  <2>4. \A j \in 1..(i - 1) : ~Wanted(InRepeatOrder[j], s)
    BY <1>1, <2>2, <2>3, FirstIsLookedAtFirst
  <2>5. p[size][s] = SimulatedReview(InRepeatOrder[i])
    BY <1>4, <2>3, <2>4 DEF FirstPicked
  <2>6. QED
    BY <2>1, <2>3, <2>5
<1> HIDE DEF picked, size, signable
<1>7. QED
  BY <1>3, <1>4, <1>5, <1>6 DEF FirstPicked, signable, picked

LEMMA PickingKeepsDrafts ==
  ASSUME DraftsInv, PickIntents
  PROVE  DraftsInv'
<1> DEFINE picked == FoldLeft(Pick, <<>>, InRepeatOrder)
<1>1. /\ results' = results
      /\ live_intents' = [s \in {t \in DOMAIN picked : picked[t] # None} |-> picked[s]]
  BY DEF PickIntents
<1>2. Measured'
  BY <1>1 DEF DraftsInv, Measured, ItemOf, RepeatOf
<1> HIDE DEF picked
<1>3. ASSUME NEW s \in DOMAIN Scenarios
      PROVE  LET signable == {n \in DOMAIN results :
                                results[n].scenario = s /\ Signable(results[n])}
                 first    == results[Min(signable)]
             IN  IF signable = {} \/ first.needs_clarification
                 THEN s \notin DOMAIN live_intents'
                 ELSE s \in DOMAIN live_intents'
                      /\ live_intents'[s].total_paise = first.draft_intent.total_paise
  <2> DEFINE signable == {n \in DOMAIN results : Wanted(results[n], s)}
             first    == results[Min(signable)]
  <2>1. signable = {n \in DOMAIN results :
                      results[n].scenario = s /\ Signable(results[n])}
    BY DEF Wanted
  <2>2. /\ s \in DOMAIN picked <=> signable # {}
        /\ signable # {} => Min(signable) \in signable /\ picked[s] = SimulatedReview(first)
    BY PickedInTheEnd DEF DraftsInv, picked
  <2>3. signable # {} => first \in FidelityResults /\ first.scenario = s /\ Signable(first)
    BY <2>2, MeasuredIsNumbered DEF DraftsInv, Wanted
  <2> HIDE DEF signable, first
  <2>4. signable # {} =>
          /\ first.needs_clarification <=> picked[s] = None
          /\ ~first.needs_clarification =>
               picked[s].total_paise = first.draft_intent.total_paise
    BY <2>2, <2>3, ReviewKeepsTotal
  <2>5. IF signable = {} \/ first.needs_clarification
        THEN s \notin DOMAIN live_intents'
        ELSE s \in DOMAIN live_intents'
             /\ live_intents'[s].total_paise = first.draft_intent.total_paise
    BY <1>1, <2>2, <2>4
  <2>6. QED
    BY <2>1, <2>5 DEF first
<1>4. NoLuckyDraft'
  <2> SUFFICES ASSUME NEW s \in DOMAIN Scenarios
               PROVE  LET signable == {n \in DOMAIN results' :
                                         results'[n].scenario = s /\ Signable(results'[n])}
                          first    == results'[Min(signable)]
                      IN  IF signable = {} \/ first.needs_clarification
                          THEN s \notin DOMAIN live_intents'
                          ELSE s \in DOMAIN live_intents'
                               /\ live_intents'[s].total_paise = first.draft_intent.total_paise
    BY DEF NoLuckyDraft, Signable
  <2>1. results' = results
    BY <1>1
  <2>2. QED
    BY <1>3, <2>1
<1>5. QED
  BY <1>2, <1>4 DEF DraftsInv

LEMMA MeasuringKeepsDrafts ==
  ASSUME ReplyInv, DraftsInv, MeasureFidelity
  PROVE  DraftsInv'
<1> DEFINE n == Len(results) + 1
           result == FidelityResult(n)
<1>1. /\ Len(results) \in Nat /\ n \in Nat \ {0} /\ DOMAIN results = 1..Len(results)
      /\ K \in Nat /\ K > 0
  BY MeasuredIsNumbered, LiveEvaluationAssumption DEF DraftsInv, Numbered
<1>2. ItemOf(n) \in Nat /\ RepeatOf(n) \in Nat
  <2>1. n - 1 \in Nat
    BY <1>1
  <2> HIDE DEF n
  <2>2. (n - 1) \div K \in Nat /\ (n - 1) % K \in Nat
    BY <1>1, <2>1, DivMod
  <2>3. QED
    BY <2>2 DEF ItemOf, RepeatOf
<1>3. reply # None /\ ~InterpretRaises /\ results' = Append(results, result)
      /\ stage' # "evaluated"
  BY DEF MeasureFidelity, Ask
<1>4. Interpreted(ItemOf(n)) \in Drafts \cup {None}
  BY <1>2, <1>3, InterpretedIsADraft
<1>5. reply.response.needs_clarification \in BOOLEAN
  BY <1>3, InterviewAssumption DEF ReplyInv, InterpretRaises
<1>6. result \in FidelityResults /\ result.scenario = ItemOf(n) /\ result.k = RepeatOf(n)
  <2> HIDE DEF n
  <2>1. QED
    BY <1>2, <1>4, <1>5 DEF FidelityResult, FidelityResults, BudgetMatches
<1> HIDE DEF result
<1>7. Measured'
  <2>1. /\ results' \in Seq(FidelityResults) /\ DOMAIN results' = 1..n
        /\ \A m \in DOMAIN results' :
             results'[m] = IF m = n THEN result ELSE results[m]
    <3>1. results \in Seq(FidelityResults)
      BY DEF DraftsInv, Measured
    <3>2. /\ Append(results, result) \in Seq(FidelityResults)
          /\ Len(Append(results, result)) = n
          /\ \A m \in 1..Len(results) : Append(results, result)[m] = results[m]
          /\ Append(results, result)[n] = result
      BY <1>6, <3>1, AppendProperties
    <3>3. DOMAIN results' = 1..n
      BY <1>3, <3>2, LenProperties
    <3>4. \A m \in 1..n : m = n \/ m \in 1..Len(results)
      BY <1>1
    <3>5. QED
      BY <1>3, <3>2, <3>3, <3>4
  <2>2. \A m \in DOMAIN results' : m = n \/ m \in DOMAIN results
    BY <1>1, <2>1
  <2>3. \A m \in DOMAIN results' :
          results'[m].scenario = ItemOf(m) /\ results'[m].k = RepeatOf(m)
    BY <1>6, <2>1, <2>2 DEF DraftsInv, Measured
  <2>4. QED
    BY <2>1, <2>3 DEF Measured, ItemOf, RepeatOf
<1>8. QED
  BY <1>3, <1>7 DEF DraftsInv, NoLuckyDraft

LEMMA NextDraftsInv ==
  ASSUME ReplyInv, DraftsInv, [Next]_vars
  PROVE  DraftsInv'
<1>1. ASSUME UNCHANGED <<results, live_intents>>, stage' = stage \/ stage' # "evaluated"
      PROVE  DraftsInv'
  BY <1>1 DEF DraftsInv, Measured, ItemOf, RepeatOf, NoLuckyDraft, Signable
<1>2. CASE InterviewProceeds /\ UNCHANGED <<results, stress, live_intents>>
  <2>1. stage' = stage \/ stage' # "evaluated"
    BY <1>2 DEF InterviewProceeds, StartInterview, MainReads, Resolve, Clarify, Review,
                Raises, ProviderSteps, Ask, AfterDraft
  <2>2. QED
    BY <1>1, <1>2, <2>1
<1>3. CASE PersonAnswers /\ UNCHANGED <<results, stress, live_intents>>
  BY <1>1, <1>3 DEF PersonAnswers, Ask
<1>4. CASE NoAnswer /\ UNCHANGED <<results, stress, live_intents>>
  BY <1>1, <1>4 DEF NoAnswer
<1>5. CASE StartEvaluation
  BY <1>1, <1>5 DEF StartEvaluation, Ask
<1>6. CASE MeasureFidelity
  BY <1>6, MeasuringKeepsDrafts
<1>7. CASE MeasureAmbiguity
  BY <1>1, <1>7 DEF MeasureAmbiguity, Ask
<1>8. CASE EvaluationRaises
  <2>1. results' = <<>> /\ stage' # "evaluated"
    BY <1>8 DEF EvaluationRaises
  <2>2. results' \in Seq(FidelityResults) /\ DOMAIN results' = {}
    BY <2>1, EmptySeq
  <2>3. QED
    BY <2>1, <2>2 DEF DraftsInv, Measured, NoLuckyDraft
<1>9. CASE PickIntents
  BY <1>9, PickingKeepsDrafts
<1>10. CASE UNCHANGED vars
  BY <1>1, <1>10 DEF vars, interviewVars
<1>11. QED
  BY <1>2, <1>3, <1>4, <1>5, <1>6, <1>7, <1>8, <1>9, <1>10
     DEF Next, Proceeds, EvaluationProceeds

LEMMA DraftsInvariance == Spec => []DraftsInv
<1>1. Init => DraftsInv
  <2>1. ASSUME Init PROVE results = <<>> /\ stage # "evaluated"
    BY <2>1 DEF Init, InterviewInit
  <2>2. <<>> \in Seq(FidelityResults) /\ DOMAIN <<>> = {}
    BY EmptySeq
  <2>3. QED
    BY <2>1, <2>2 DEF DraftsInv, Measured, NoLuckyDraft
<1>2. ReplyInv /\ DraftsInv /\ [Next]_vars => DraftsInv'
  BY NextDraftsInv
<1>3. QED
  BY <1>1, <1>2, TalkInvariance, PTL DEF Spec

\* run_full_live_evaluation: of each scenario the first signable draft is used,
\* or none when that one is unclear, whatever order the sort puts the repeats
\* in and whatever later repeats look like; what is used has its budget.
THEOREM FirstDraftOrNone == Spec => []NoLuckyDraft
<1>1. DraftsInv => NoLuckyDraft
  BY DEF DraftsInv
<1>2. QED
  BY <1>1, DraftsInvariance, PTL

-----------------------------------------------------------------------------
(***************************************************************************)
(* How long it can take.  Of ConversationEnds the provers reach what needs *)
(* neither fairness nor ENABLED: a number that every step lowers.          *)
(***************************************************************************)

CallsOfFidelity  == K * Len(Scenarios)
CallsOfAmbiguity == K * Len(Ambiguous)

\* The stages in which the program has asked the model.
Waiting ==
  {"reading request", "resolving", "clarifying", "measuring fidelity", "measuring ambiguity"}

\* How often the program and the person can still take turns, at most.
TurnsLeft ==
  CASE stage = "started" -> IF job = "evaluation"
                            THEN CallsOfFidelity + CallsOfAmbiguity + 3
                            ELSE 2 * MaxRounds + 4
    [] stage = "reading request"             -> 2 * MaxRounds + 3
    [] stage \in {"resolving", "clarifying"} -> 2 * (MaxRounds - text) + 2
    [] stage \in Prompts                     -> 2 * (MaxRounds - text) + 1
    [] stage \in {"reviewing", "picking"}    -> 1
    [] stage = "measuring fidelity" ->
         CallsOfFidelity - Len(results) + CallsOfAmbiguity + 2
    [] stage = "measuring ambiguity"         -> CallsOfAmbiguity - Len(stress) + 1
    [] OTHER                                 -> 0

\* What is left of the call under way: its attempts, and its reply.
StepsInCall ==
  IF asking # None THEN MaxRetries - attempt + 1 ELSE IF reply # None THEN 1 ELSE 0

\* A turn is worth more than all steps of a call.
StepsLeft == (MaxRetries + 2) * TurnsLeft + StepsInCall

AmbiguityResults == [request : Nat, k : Nat, matches_expected : BOOLEAN]

CallInv ==
  /\ attempt \in 0..(MaxRetries - 1)
  /\ asking = None \/ reply = None
  /\ asking # None \/ reply # None => stage \in Waiting

PassesInv ==
  /\ stress \in Seq(AmbiguityResults)
  /\ stage = "started" => results = <<>> /\ stress = <<>>
  /\ stage = "measuring fidelity" => Len(results) < CallsOfFidelity /\ stress = <<>>
  /\ stage = "measuring ambiguity" => Len(stress) < CallsOfAmbiguity

StepsInv == CallInv /\ PassesInv

LEMMA CallCounts ==
  /\ CallsOfFidelity \in Nat \ {0} /\ CallsOfAmbiguity \in Nat \ {0}
  /\ MaxRounds \in Nat /\ MaxRetries \in Nat \ {0}
<1> DEFINE s == Len(Scenarios)
           a == Len(Ambiguous)
<1>1. s \in Nat \ {0} /\ a \in Nat \ {0} /\ K \in Nat \ {0}
  BY LiveEvaluationAssumption, LenProperties
<1> HIDE DEF s, a
<1>2. K * s \in Nat \ {0} /\ K * a \in Nat \ {0}
  BY <1>1
<1>3. QED
  BY <1>2, InterviewAssumption, ProviderAssumption
     DEF CallsOfFidelity, CallsOfAmbiguity, s, a

\* A call is under way, or has replied, only where the program waits for it.
LEMMA CallInvKept ==
  ASSUME CallInv, ConversationInv, [Next]_vars
  PROVE  CallInv'
<1>0. MaxRetries \in Nat \ {0} /\ 0 \in 0..(MaxRetries - 1)
  BY CallCounts
<1>1. ASSUME NEW request_text, Complete(request_text), stage' \in Waiting, asking = None
      PROVE  CallInv'
  BY <1>0, <1>1 DEF Complete, CallInv
<1>2. ASSUME Consumed, asking = None PROVE CallInv'
  BY <1>2 DEF Consumed, CallInv
<1>3. ASSUME UNCHANGED providerVars, (asking = None /\ reply = None) \/ stage' = stage
      PROVE  CallInv'
  BY <1>3 DEF providerVars, call, CallInv
<1>4. CASE ProviderSteps
  <2>1. asking # None /\ stage' = stage /\ stage \in Waiting
    BY <1>4 DEF ProviderSteps, CallProceeds, Answers, RateLimited, TimesOut, Fails, CallInv
  <2>2. \/ asking' = None /\ attempt' = 0
        \/ /\ asking' = asking /\ reply' = reply /\ attempt' = attempt + 1
           /\ attempt < MaxRetries - 1
    BY <1>4 DEF ProviderSteps, CallProceeds, Answers, RateLimited, TimesOut, Fails, Ends,
                Retries
  <2>3. QED
    BY <1>0, <2>1, <2>2 DEF CallInv
<1>5. CASE StartInterview
  <2>1. \E request_text : Complete(request_text)
    BY <1>5 DEF StartInterview, Ask
  <2>2. stage' \in Waiting /\ asking = None
    BY <1>5 DEF StartInterview, Ask, CallInv, Waiting
  <2>3. QED
    BY <1>1, <2>1, <2>2
<1>6. CASE MainReads
  <2>1. asking = None /\ (Consumed \/ (Complete(0) /\ stage' = "resolving"))
    BY <1>6 DEF MainReads, Ask, CallInv
  <2>2. QED
    BY <1>1, <1>2, <2>1 DEF Waiting
<1>7. CASE Resolve \/ Clarify \/ Raises \/ EvaluationRaises
  <2>1. asking = None /\ Consumed
    BY <1>7 DEF Resolve, Clarify, Raises, EvaluationRaises, CallInv
  <2>2. QED
    BY <1>2, <2>1
<1>8. CASE PersonAnswers
  <2>1. /\ Complete(text')
        /\ stage' \in Waiting /\ asking = None
    BY <1>8 DEF PersonAnswers, Ask, CallInv, Waiting, Prompts
  <2>2. QED
    BY <1>1, <2>1
<1>9. CASE NoAnswer \/ Review \/ PickIntents
  <2>1. asking = None /\ reply = None
    BY <1>9 DEF NoAnswer, Review, PickIntents, CallInv, Waiting, Prompts
  <2>2. QED
    BY <1>3, <1>9, <2>1 DEF NoAnswer, Review, PickIntents
<1>10. CASE StartEvaluation
  <2>1. Complete(1) /\ stage' \in Waiting /\ asking = None
    BY <1>10 DEF StartEvaluation, Ask, CallInv, Waiting
  <2>2. QED
    BY <1>1, <2>1
<1>11. CASE MeasureFidelity
  <2>1. /\ asking = None
        /\ \E request_text : Complete(request_text)
        /\ stage' \in Waiting
    BY <1>11 DEF MeasureFidelity, Ask, CallInv, Waiting
  <2>2. QED
    BY <1>1, <2>1
<1>12. CASE MeasureAmbiguity
  <2>1. asking = None /\ (Consumed \/ (Complete(0) /\ stage' \in Waiting))
    BY <1>12 DEF MeasureAmbiguity, Ask, CallInv, Waiting
  <2>2. QED
    BY <1>1, <1>2, <2>1
<1>13. CASE UNCHANGED vars
  BY <1>3, <1>13 DEF vars, interviewVars
<1>14. QED
  BY <1>4, <1>5, <1>6, <1>7, <1>8, <1>9, <1>10, <1>11, <1>12, <1>13
     DEF Next, Proceeds, InterviewProceeds, EvaluationProceeds

LEMMA AppendedIsLonger ==
  ASSUME NEW S, NEW seq \in Seq(S), NEW x \in S
  PROVE  /\ Append(seq, x) \in Seq(S) /\ Len(seq) \in Nat
         /\ Len(Append(seq, x)) = Len(seq) + 1
  BY AppendProperties, LenProperties

LEMMA SameLimits ==
  CallsOfFidelity' = CallsOfFidelity /\ CallsOfAmbiguity' = CallsOfAmbiguity
BY DEF CallsOfFidelity, CallsOfAmbiguity

\* What a turn of the evaluation does to the two lists, and where it leads.
LEMMA FidelityTurn ==
  ASSUME Measured, PassesInv, MeasureFidelity
  PROVE  /\ stage = "measuring fidelity"
         /\ Len(results) \in Nat /\ Len(results) < CallsOfFidelity
         /\ Len(results') = Len(results) + 1 /\ stress' = <<>>
         /\ \/ stage' = "measuring fidelity" /\ Len(results') < CallsOfFidelity
            \/ stage' = "measuring ambiguity"
<1> DEFINE result == FidelityResult(Len(results) + 1)
<1>1. /\ stage = "measuring fidelity" /\ results' = Append(results, result)
      /\ stress' = stress
  BY DEF MeasureFidelity
<1>2. \/ stage' = "measuring fidelity" /\ Len(results') # CallsOfFidelity
      \/ stage' = "measuring ambiguity"
  BY DEF MeasureFidelity, Ask, CallsOfFidelity
<1>3. Len(Append(results, result)) = Len(results) + 1 /\ Len(results) \in Nat
  <2> DEFINE S == FidelityResults \cup {result}
  <2>1. results \in Seq(S) /\ result \in S
    BY DEF Measured
  <2> HIDE DEF result, S
  <2>2. QED
    BY <2>1, AppendedIsLonger
<1> HIDE DEF result
<1>4. Len(results) < CallsOfFidelity /\ stress = <<>>
  BY <1>1 DEF PassesInv
<1>5. Len(results') < CallsOfFidelity \/ Len(results') = CallsOfFidelity
  <2>1. Len(results') = Len(results) + 1
    BY <1>1, <1>3
  <2>2. QED
    BY <1>3, <1>4, <2>1, CallCounts
<1>6. QED
  BY <1>1, <1>2, <1>3, <1>4, <1>5

LEMMA AmbiguityTurn ==
  ASSUME PassesInv, MeasureAmbiguity
  PROVE  /\ stage = "measuring ambiguity"
         /\ Len(stress) \in Nat /\ Len(stress) < CallsOfAmbiguity
         /\ stress' \in Seq(AmbiguityResults) /\ Len(stress') = Len(stress) + 1
         /\ \/ stage' = "measuring ambiguity" /\ Len(stress') < CallsOfAmbiguity
            \/ stage' = "picking"
<1> DEFINE n == Len(stress) + 1
           result == AmbiguityResult(n)
<1>1. stage = "measuring ambiguity" /\ stress' = Append(stress, result)
  BY DEF MeasureAmbiguity
<1>2. \/ stage' = "measuring ambiguity" /\ Len(stress') # CallsOfAmbiguity
      \/ stage' = "picking"
  BY DEF MeasureAmbiguity, Ask, CallsOfAmbiguity
<1>3. Len(stress) \in Nat
  BY LenProperties DEF PassesInv
<1>4. n - 1 \in Nat
  BY <1>3
<1>5. K \in Nat \ {0}
  BY LiveEvaluationAssumption
<1>6. Len(stress) < CallsOfAmbiguity /\ stress \in Seq(AmbiguityResults)
  BY <1>1 DEF PassesInv
<1> HIDE DEF n
<1>7. result \in AmbiguityResults
  <2>1. (n - 1) \div K \in Nat /\ (n - 1) % K \in Nat
    BY <1>4, <1>5, DivMod
  <2>2. ItemOf(n) \in Nat /\ RepeatOf(n) \in Nat
    BY <2>1 DEF ItemOf, RepeatOf
  <2>3. QED
    BY <2>2 DEF AmbiguityResult, AmbiguityResults
<1> HIDE DEF result
<1>8. stress' \in Seq(AmbiguityResults) /\ Len(stress') = Len(stress) + 1
  BY <1>1, <1>6, <1>7, AppendedIsLonger
<1>9. Len(stress') < CallsOfAmbiguity \/ Len(stress') = CallsOfAmbiguity
  BY <1>3, <1>6, <1>8, CallCounts
<1>10. QED
  BY <1>1, <1>2, <1>3, <1>6, <1>8, <1>9

\* Neither pass measures more than its calls.
LEMMA PassesInvKept ==
  ASSUME Measured, PassesInv, [Next]_vars
  PROVE  PassesInv'
<1>1. CallsOfFidelity \in Nat \ {0} /\ CallsOfAmbiguity \in Nat \ {0}
  BY CallCounts
<1>2. Len(results) \in Nat /\ Len(stress) \in Nat
  BY LenProperties DEF Measured, PassesInv
<1>3. Len(<<>>) = 0 /\ <<>> \in Seq(AmbiguityResults)
  BY EmptySeq
<1>4. ASSUME UNCHANGED <<results, stress>>,
             \/ stage' = stage
             \/ stage' \notin {"started", "measuring fidelity", "measuring ambiguity"}
      PROVE  PassesInv'
  BY <1>1, <1>4 DEF PassesInv, AmbiguityResults
<1>5. CASE InterviewProceeds /\ UNCHANGED <<results, stress, live_intents>>
  <2>1. \/ stage' = stage
        \/ stage' \notin {"started", "measuring fidelity", "measuring ambiguity"}
    BY <1>5 DEF InterviewProceeds, StartInterview, MainReads, Resolve, Clarify, Review,
                Raises, ProviderSteps, Ask, AfterDraft
  <2>2. QED
    BY <1>4, <1>5, <2>1
<1>6. CASE (PersonAnswers \/ NoAnswer) /\ UNCHANGED <<results, stress, live_intents>>
  BY <1>4, <1>6 DEF PersonAnswers, NoAnswer, Ask
<1>7. CASE StartEvaluation
  <2>1. stage' = "measuring fidelity" /\ results' = <<>> /\ stress' = <<>>
    BY <1>7 DEF StartEvaluation, Ask, PassesInv
  <2>2. stress' \in Seq(AmbiguityResults)'
    BY <1>3, <2>1 DEF AmbiguityResults
  <2>3. Len(results') < CallsOfFidelity'
    <3>1. Len(results') = 0
      BY <1>3, <2>1
    <3>2. QED
      BY <1>1, <3>1, SameLimits
  <2>4. QED
    BY <2>1, <2>2, <2>3 DEF PassesInv
<1>8. CASE MeasureFidelity
  <2>1. stress' \in Seq(AmbiguityResults)'
    BY <1>3, <1>8, FidelityTurn DEF AmbiguityResults
  <2>2. \/ stage' = "measuring fidelity" /\ Len(results') < CallsOfFidelity' /\ stress' = <<>>
        \/ stage' = "measuring ambiguity" /\ Len(stress') < CallsOfAmbiguity'
    <3>1. CASE stage' = "measuring fidelity" /\ Len(results') < CallsOfFidelity
      BY <1>8, <3>1, FidelityTurn, SameLimits
    <3>2. CASE stage' = "measuring ambiguity"
      <4>1. Len(stress') = 0
        BY <1>3, <1>8, FidelityTurn
      <4>2. 0 < CallsOfAmbiguity
        BY <1>1
      <4>3. QED
        BY <3>2, <4>1, <4>2, SameLimits
    <3>3. QED
      BY <1>8, <3>1, <3>2, FidelityTurn
  <2>3. QED
    BY <2>1, <2>2 DEF PassesInv
<1>9. CASE MeasureAmbiguity
  <2>1. stress' \in Seq(AmbiguityResults)'
    BY <1>9, AmbiguityTurn DEF AmbiguityResults
  <2>2. \/ stage' = "measuring ambiguity" /\ Len(stress') < CallsOfAmbiguity'
        \/ stage' = "picking"
    BY <1>9, AmbiguityTurn, SameLimits
  <2>3. QED
    BY <2>1, <2>2 DEF PassesInv
<1>10. CASE EvaluationRaises
  <2>1. stage' = "raised" /\ stress' = <<>>
    BY <1>10 DEF EvaluationRaises
  <2>2. QED
    BY <1>3, <2>1 DEF PassesInv, AmbiguityResults
<1>11. CASE PickIntents
  BY <1>4, <1>11 DEF PickIntents
<1>12. CASE UNCHANGED vars
  BY <1>4, <1>12 DEF vars, interviewVars
<1>13. QED
  BY <1>5, <1>6, <1>7, <1>8, <1>9, <1>10, <1>11, <1>12
     DEF Next, Proceeds, EvaluationProceeds

\* One more of what weighs w outweighs anything lighter than w.
LEMMA Heavier ==
  ASSUME NEW w \in Nat, NEW t \in Nat, NEW u \in Nat, u < t,
         NEW r \in Nat, NEW s \in Nat, s < w
  PROVE  w * u + s < w * t + r
<1> DEFINE d == t - u - 1
<1>1. d \in Nat /\ t = u + 1 + d
  OBVIOUS
<1> HIDE DEF d
<1>2. w * t = w * u + w + w * d /\ w * d \in Nat /\ w * u \in Nat
  BY <1>1
<1>3. QED
  BY <1>2

\* The steps of a call, and how many there may be.
LEMMA StepsOfACall ==
  ASSUME CallInv
  PROVE  /\ StepsInCall \in Nat /\ StepsInCall < MaxRetries + 2
         /\ asking # None => StepsInCall = MaxRetries - attempt + 1
         /\ asking # None => attempt \in Nat /\ attempt < MaxRetries
         /\ asking = None => StepsInCall \in {0, 1}
<1>1. MaxRetries \in Nat
  BY CallCounts
<1>2. attempt \in Nat /\ attempt < MaxRetries
  BY <1>1 DEF CallInv
<1>3. /\ asking # None => StepsInCall = MaxRetries - attempt + 1
      /\ asking = None => StepsInCall \in {0, 1}
  BY DEF StepsInCall
<1>4. QED
  BY <1>1, <1>2, <1>3

\* A turn outweighs whatever call it starts.
LEMMA TurnOutweighs ==
  ASSUME NEW more \in Nat, NEW less \in Nat, less < more, NEW steps \in Nat,
         NEW steps_now \in Nat, steps_now < MaxRetries + 2
  PROVE  (MaxRetries + 2) * less + steps_now < (MaxRetries + 2) * more + steps
BY CallCounts, Heavier

\* A call comes nearer to its end.
LEMMA CallComesToItsEnd ==
  ASSUME CallInv, CallInv', ProviderSteps, UNCHANGED <<results, stress>>
  PROVE  TurnsLeft' = TurnsLeft /\ StepsInCall' < StepsInCall
<1>1. stage' = stage /\ job' = job /\ text' = text
  BY DEF ProviderSteps, conversation
<1>2. TurnsLeft' = TurnsLeft
  BY <1>1, SameLimits DEF TurnsLeft
<1>3. asking # None
  BY DEF ProviderSteps, CallProceeds, Answers, RateLimited, TimesOut, Fails
<1>4. \/ asking' = None
      \/ asking' = asking /\ attempt' = attempt + 1
  BY DEF ProviderSteps, CallProceeds, Answers, RateLimited, TimesOut, Fails, Ends
<1>5. MaxRetries \in Nat /\ attempt \in Nat /\ attempt < MaxRetries
      /\ StepsInCall = MaxRetries - attempt + 1
  BY <1>3, CallCounts, StepsOfACall
<1>6. CASE asking' = None
  <2>1. StepsInCall' \in {0, 1}
    BY <1>6 DEF StepsInCall
  <2>2. QED
    BY <1>2, <1>5, <2>1
<1>7. CASE asking' = asking /\ attempt' = attempt + 1
  <2>1. StepsInCall' = MaxRetries - (attempt + 1) + 1
    BY <1>3, <1>7 DEF StepsInCall
  <2>2. QED
    BY <1>2, <1>5, <2>1
<1>8. QED
  BY <1>4, <1>6, <1>7

\* One measured, so one fewer is left.
LEMMA OneFewer ==
  ASSUME NEW calls \in Nat, NEW n \in Nat, NEW m, NEW others \in Nat,
         m = n + 1, m < calls
  PROVE  /\ calls - n + others \in Nat /\ calls - m + others \in Nat
         /\ calls - m + others < calls - n + others
  OBVIOUS

\* Never more texts than rounds.
LEMMA RoundsLeft ==
  ASSUME ConversationInv, stage \in {"resolving", "clarifying"}
  PROVE  text \in Nat /\ text <= MaxRounds
<1>1. /\ text \in Nat /\ rounds \in Nat
      /\ text = 0 \/ (text = rounds + 1 /\ rounds < MaxRounds)
  BY DEF ConversationInv, RoundsInv
<1>2. QED
  BY <1>1, InterviewBounds

\* While it waits for the model, there is something left to do.
LEMMA TurnsCounted ==
  ASSUME ConversationInv, Measured, PassesInv
  PROVE  TurnsLeft \in Nat /\ (stage \in Waiting => 0 < TurnsLeft)
<1>1. /\ CallsOfFidelity \in Nat \ {0} /\ CallsOfAmbiguity \in Nat \ {0}
      /\ MaxRounds \in Nat
  BY CallCounts
<1>2. CASE stage = "started"
  <2>1. \/ TurnsLeft = CallsOfFidelity + CallsOfAmbiguity + 3
        \/ TurnsLeft = 2 * MaxRounds + 4
    BY <1>2 DEF TurnsLeft, Prompts
  <2>2. TurnsLeft \in Nat
    BY <1>1, <2>1
  <2>3. QED
    BY <1>2, <2>2 DEF Waiting
<1>3. CASE stage = "reading request"
  <2>1. TurnsLeft = 2 * MaxRounds + 3
    BY <1>3 DEF TurnsLeft, Prompts
  <2>2. QED
    BY <1>1, <2>1
<1>4. CASE stage \in {"resolving", "clarifying"}
  <2>1. text \in Nat /\ text <= MaxRounds
    BY <1>4, RoundsLeft
  <2>2. TurnsLeft = 2 * (MaxRounds - text) + 2
    BY <1>4 DEF TurnsLeft, Prompts
  <2>3. QED
    BY <1>1, <2>1, <2>2
<1>5. CASE stage \in Prompts
  <2>1. text \in Nat /\ text < MaxRounds
    BY <1>5 DEF ConversationInv, RoundsInv
  <2>2. TurnsLeft = 2 * (MaxRounds - text) + 1
    BY <1>5 DEF TurnsLeft, Prompts
  <2>3. QED
    BY <1>1, <2>1, <2>2
<1>6. CASE stage = "measuring fidelity"
  <2>1. Len(results) \in Nat /\ Len(results) < CallsOfFidelity
    BY <1>6, LenProperties DEF PassesInv, Measured
  <2>2. TurnsLeft = CallsOfFidelity - Len(results) + CallsOfAmbiguity + 2
    BY <1>6 DEF TurnsLeft, Prompts
  <2>3. QED
    BY <1>1, <2>1, <2>2
<1>7. CASE stage = "measuring ambiguity"
  <2>1. Len(stress) \in Nat /\ Len(stress) < CallsOfAmbiguity
    BY <1>7, LenProperties DEF PassesInv
  <2>2. TurnsLeft = CallsOfAmbiguity - Len(stress) + 1
    BY <1>7 DEF TurnsLeft, Prompts
  <2>3. QED
    BY <1>1, <2>1, <2>2
<1>8. CASE stage \notin {"started"} \cup Prompts \cup Waiting
  <2>1. TurnsLeft \in {0, 1}
    BY <1>8 DEF TurnsLeft, Waiting
  <2>2. QED
    BY <1>8, <2>1
<1>9. QED
  BY <1>2, <1>3, <1>4, <1>5, <1>6, <1>7, <1>8 DEF Waiting

\* Every turn brings the end nearer.
LEMMA TurnsAreLimited ==
  ASSUME ReplyInv, ConversationInv, Measured, StepsInv, Next, ~(UNCHANGED vars),
         ~(ProviderSteps /\ UNCHANGED <<results, stress, live_intents>>)
  PROVE  TurnsLeft \in Nat /\ TurnsLeft' \in Nat /\ TurnsLeft' < TurnsLeft
<1>1. /\ CallsOfFidelity \in Nat \ {0} /\ CallsOfAmbiguity \in Nat \ {0}
      /\ MaxRounds \in Nat /\ MaxRetries \in Nat \ {0} /\ MaxRounds <= MaxAnswers
      /\ MaxAnswers \in Nat
  BY CallCounts, InterviewBounds
<1>2. CASE StartInterview
  <2>1. /\ stage = "started" /\ job # "evaluation" /\ text' = 0
        /\ stage' \in {"reading request", "resolving"}
    BY <1>2 DEF StartInterview, Ask, conversation, ConversationInv, RoundsInv
  <2>2. TurnsLeft = 2 * MaxRounds + 4
    BY <2>1 DEF TurnsLeft, Prompts
  <2>3. TurnsLeft' \in {2 * MaxRounds + 3, 2 * (MaxRounds - 0) + 2}
    BY <2>1 DEF TurnsLeft, Prompts
  <2>4. QED
    BY <1>1, <2>2, <2>3
<1>3. CASE MainReads
  <2>1. /\ stage = "reading request" /\ text' = 0
        /\ stage' \in {"reviewing", "resolving"}
    BY <1>3 DEF MainReads, Ask, ConversationInv, RoundsInv
  <2>2. TurnsLeft = 2 * MaxRounds + 3
    BY <2>1 DEF TurnsLeft, Prompts
  <2>3. TurnsLeft' \in {1, 2 * (MaxRounds - 0) + 2}
    BY <2>1 DEF TurnsLeft, Prompts
  <2>4. QED
    BY <1>1, <2>2, <2>3
<1>4. CASE Resolve \/ Clarify
  <2>1. /\ stage \in {"resolving", "clarifying"} /\ text' = text
        /\ stage' \in Prompts \cup {"reviewing", "declined"}
    BY <1>4 DEF Resolve, Clarify, AfterDraft, Prompts
  <2>2. text \in Nat /\ text <= MaxRounds
    BY <2>1, RoundsLeft
  <2>3. TurnsLeft = 2 * (MaxRounds - text) + 2
    BY <2>1 DEF TurnsLeft, Prompts
  <2>4. TurnsLeft' \in {2 * (MaxRounds - text') + 1, 1, 0}
    BY <2>1 DEF TurnsLeft, Prompts
  <2>5. QED
    BY <1>1, <2>1, <2>2, <2>3, <2>4
<1>6. CASE Review
  <2>1. stage = "reviewing" /\ stage' \in {"signed", "declined"}
    BY <1>6 DEF Review
  <2>2. TurnsLeft = 1 /\ TurnsLeft' = 0
    BY <2>1 DEF TurnsLeft, Prompts
  <2>3. QED
    BY <2>2
<1>7. CASE Raises \/ EvaluationRaises
  <2>1. stage \in Waiting /\ stage' = "raised"
    BY <1>7 DEF Raises, EvaluationRaises, StepsInv, CallInv
  <2>2. TurnsLeft' = 0
    BY <2>1 DEF TurnsLeft, Prompts
  <2>3. TurnsLeft \in Nat /\ 0 < TurnsLeft
    BY <2>1, TurnsCounted DEF StepsInv
  <2>4. QED
    BY <2>2, <2>3
<1>8. CASE PersonAnswers
  <2>1. /\ stage \in Prompts /\ text \in Nat /\ text < MaxRounds
        /\ text' = text + 1 /\ stage' \in {"resolving", "clarifying"}
    <3>1. /\ stage \in Prompts /\ text' = Lesser(text + 1, MaxAnswers)
          /\ stage' \in {"resolving", "clarifying"}
      BY <1>8 DEF PersonAnswers, Ask
    <3>2. text \in Nat /\ text < MaxRounds
      BY <3>1 DEF ConversationInv, RoundsInv
    <3>3. Lesser(text + 1, MaxAnswers) = text + 1
      BY <1>1, <3>2 DEF Lesser
    <3>4. QED
      BY <3>1, <3>2, <3>3
  <2>2. TurnsLeft = 2 * (MaxRounds - text) + 1
    BY <2>1 DEF TurnsLeft, Prompts
  <2>3. TurnsLeft' = 2 * (MaxRounds - text') + 2
    BY <2>1 DEF TurnsLeft, Prompts
  <2>4. QED
    BY <1>1, <2>1, <2>2, <2>3
<1>9. CASE NoAnswer
  <2>1. stage \in Prompts /\ text \in Nat /\ text < MaxRounds /\ stage' = "raised"
    BY <1>1, <1>9 DEF NoAnswer, ConversationInv, RoundsInv
  <2>2. TurnsLeft = 2 * (MaxRounds - text) + 1 /\ TurnsLeft' = 0
    BY <2>1 DEF TurnsLeft, Prompts
  <2>3. QED
    BY <1>1, <2>1, <2>2
<1>10. CASE StartEvaluation
  <2>1. /\ stage = "started" /\ job = "evaluation"
        /\ stage' = "measuring fidelity" /\ Len(results') = 0
    BY <1>10, EmptySeq DEF StartEvaluation, Ask, StepsInv, PassesInv
  <2> DEFINE left == Len(results')
  <2>2. /\ TurnsLeft = CallsOfFidelity + CallsOfAmbiguity + 3
        /\ TurnsLeft' = CallsOfFidelity - left + CallsOfAmbiguity + 2
    BY <2>1 DEF TurnsLeft, Prompts, CallsOfFidelity, CallsOfAmbiguity
  <2>3. left = 0
    BY <2>1
  <2> HIDE DEF left
  <2>4. TurnsLeft' = CallsOfFidelity + CallsOfAmbiguity + 2
    BY <1>1, <2>2, <2>3
  <2>5. QED
    BY <1>1, <2>2, <2>4
<1>11. CASE MeasureFidelity
  <2>1. TurnsLeft = CallsOfFidelity - Len(results) + CallsOfAmbiguity + 2
    BY <1>11, FidelityTurn DEF StepsInv, TurnsLeft, Prompts
  <2>2. CASE stage' = "measuring fidelity" /\ Len(results') < CallsOfFidelity
    <3>1. TurnsLeft' = CallsOfFidelity - Len(results') + CallsOfAmbiguity + 2
      BY <2>2 DEF TurnsLeft, Prompts, CallsOfFidelity, CallsOfAmbiguity
    <3>2. Len(results) \in Nat /\ Len(results') = Len(results) + 1
      BY <1>11, FidelityTurn DEF StepsInv
    <3>3. CallsOfAmbiguity + 2 \in Nat
      BY <1>1
    <3>4. /\ TurnsLeft = CallsOfFidelity - Len(results) + (CallsOfAmbiguity + 2)
          /\ TurnsLeft' = CallsOfFidelity - Len(results') + (CallsOfAmbiguity + 2)
      BY <1>1, <2>1, <3>1, <3>2
    <3>5. QED
      BY <1>1, <2>2, <3>2, <3>3, <3>4, OneFewer
  <2>3. CASE stage' = "measuring ambiguity"
    <3>1. TurnsLeft' = CallsOfAmbiguity - Len(stress') + 1
      BY <2>3 DEF TurnsLeft, Prompts, CallsOfAmbiguity
    <3>2. Len(results) \in Nat /\ Len(results) < CallsOfFidelity /\ Len(stress') = 0
      BY <1>11, FidelityTurn, EmptySeq DEF StepsInv
    <3>3. QED
      BY <1>1, <2>1, <3>1, <3>2
  <2>4. QED
    BY <1>11, <2>2, <2>3, FidelityTurn DEF StepsInv
<1>12. CASE MeasureAmbiguity
  <2>1. TurnsLeft = CallsOfAmbiguity - Len(stress) + 1
    BY <1>12, AmbiguityTurn DEF StepsInv, TurnsLeft, Prompts
  <2>2. /\ Len(stress) \in Nat /\ Len(stress) < CallsOfAmbiguity
        /\ Len(stress') = Len(stress) + 1
    BY <1>12, AmbiguityTurn DEF StepsInv
  <2>3. CASE stage' = "measuring ambiguity" /\ Len(stress') < CallsOfAmbiguity
    <3>1. TurnsLeft' = CallsOfAmbiguity - Len(stress') + 1
      BY <2>3 DEF TurnsLeft, Prompts, CallsOfAmbiguity
    <3>2. QED
      BY <1>1, <2>1, <2>2, <2>3, <3>1, OneFewer
  <2>4. CASE stage' = "picking"
    <3>1. TurnsLeft' = 1
      BY <2>4 DEF TurnsLeft, Prompts
    <3>2. QED
      BY <1>1, <2>1, <2>2, <3>1
  <2>5. QED
    BY <1>12, <2>3, <2>4, AmbiguityTurn DEF StepsInv
<1>13. CASE PickIntents
  <2>1. stage = "picking" /\ stage' = "evaluated"
    BY <1>13 DEF PickIntents
  <2>2. QED
    BY <1>1, <2>1 DEF TurnsLeft, Prompts
<1>14. QED
  BY <1>2, <1>3, <1>4, <1>6, <1>7, <1>8, <1>9, <1>10, <1>11, <1>12, <1>13
     DEF Next, Proceeds, InterviewProceeds, EvaluationProceeds

\* The measure is a number.
LEMMA StepsCounted ==
  ASSUME ConversationInv, Measured, StepsInv
  PROVE  StepsLeft \in Nat
<1>1. TurnsLeft \in Nat /\ StepsInCall \in Nat /\ MaxRetries \in Nat
  BY TurnsCounted, StepsOfACall, CallCounts DEF StepsInv
<1>2. (MaxRetries + 2) * TurnsLeft \in Nat
  BY <1>1
<1>3. QED
  BY <1>1, <1>2 DEF StepsLeft

\* The measure goes down: by a turn, or within a call.
LEMMA NextStepCounts ==
  ASSUME ReplyInv, ConversationInv, Measured, StepsInv, StepsInv', [Next]_vars
  PROVE  [StepsLeft' < StepsLeft]_vars
<1> SUFFICES ASSUME Next, ~(UNCHANGED vars)
             PROVE  StepsLeft' < StepsLeft
  OBVIOUS
<1>1. CallInv /\ CallInv'
  BY DEF StepsInv
<1>2. MaxRetries + 2 \in Nat
  BY CallCounts
<1>3. TurnsLeft \in Nat /\ (MaxRetries + 2) * TurnsLeft \in Nat
  BY <1>2, TurnsCounted DEF StepsInv
<1>4. StepsInCall \in Nat
  BY <1>1, StepsOfACall
<1>5. StepsInCall' \in Nat /\ StepsInCall' < MaxRetries + 2
  <2>1. MaxRetries \in Nat
    BY CallCounts
  <2>2. attempt' \in 0..(MaxRetries - 1)
    BY <1>1 DEF CallInv
  <2>3. StepsInCall' = MaxRetries - attempt' + 1 \/ StepsInCall' \in {0, 1}
    BY DEF StepsInCall
  <2>4. QED
    BY <2>1, <2>2, <2>3
<1>6. StepsLeft = (MaxRetries + 2) * TurnsLeft + StepsInCall
      /\ StepsLeft' = (MaxRetries + 2) * TurnsLeft' + StepsInCall'
  BY DEF StepsLeft
<1>7. CASE ProviderSteps /\ UNCHANGED <<results, stress, live_intents>>
  <2>1. TurnsLeft' = TurnsLeft /\ StepsInCall' < StepsInCall
    BY <1>1, <1>7, CallComesToItsEnd
  <2>2. (MaxRetries + 2) * TurnsLeft' = (MaxRetries + 2) * TurnsLeft
    BY <2>1
  <2>3. QED
    BY <1>3, <1>4, <1>5, <1>6, <2>1, <2>2
<1>8. CASE ~(ProviderSteps /\ UNCHANGED <<results, stress, live_intents>>)
  <2>1. TurnsLeft' \in Nat /\ TurnsLeft' < TurnsLeft
    BY <1>8, TurnsAreLimited
  <2>2. QED
    BY <1>3, <1>4, <1>5, <1>6, <2>1, TurnOutweighs
<1>9. QED
  BY <1>7, <1>8

\* interpret, conduct_review and run_full_live_evaluation: no order of rate
\* limits, timeouts, unclear answers and answers of a person makes a loop of
\* theirs go on for ever.  Every step leaves fewer steps to be taken, so that a
\* behaviour has at most StepsLeft of them, counted where it starts.
THEOREM EveryStepCounts ==
  Spec => /\ [](StepsLeft \in Nat)
          /\ [][StepsLeft' < StepsLeft]_vars
<1>1. Init => StepsInv
  <2> SUFFICES ASSUME Init
               PROVE  StepsInv
    OBVIOUS
  <2>1. asking = None /\ attempt = 0 /\ reply = None /\ stage = "started"
        /\ results = <<>> /\ stress = <<>>
    BY DEF Init, InterviewInit, ProviderInit
  <2>2. CallInv
    BY <2>1, CallCounts DEF CallInv
  <2>3. PassesInv
    BY <2>1, EmptySeq DEF PassesInv
  <2>4. QED
    BY <2>2, <2>3 DEF StepsInv
<1>2. ConversationInv /\ DraftsInv /\ StepsInv /\ [Next]_vars => StepsInv'
  BY CallInvKept, PassesInvKept DEF StepsInv, DraftsInv
<1>3. ConversationInv /\ DraftsInv /\ StepsInv => StepsLeft \in Nat
  BY StepsCounted DEF DraftsInv
<1>4. /\ ReplyInv /\ ConversationInv /\ DraftsInv /\ StepsInv /\ StepsInv' /\ [Next]_vars
      => [StepsLeft' < StepsLeft]_vars
  BY NextStepCounts DEF DraftsInv
<1>5. QED
  BY <1>1, <1>2, <1>3, <1>4, TalkInvariance, DraftsInvariance, PTL DEF Spec
=============================================================================
