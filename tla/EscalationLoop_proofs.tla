------------------------ MODULE EscalationLoop_proofs ------------------------
(***************************************************************************)
(* What an escalation may lead to, for every merchant: any proposals, any  *)
(* signers, any policies and contexts.                                     *)
(***************************************************************************)
EXTENDS EscalationLoop, PolicyEngine_proofs

-----------------------------------------------------------------------------
(* Lemmas. *)

\* A cart has amounts and a sequence of lines, each with a price and a quantity.
HasAmounts(c) ==
  /\ c.total_paise \in Int /\ c.tax_paise \in Int /\ c.shipping_paise \in Int
  /\ c.lines \in Seq(LinesOf(c))
  /\ \A line \in LinesOf(c) :
       line.unit_price_paise \in Int /\ line.quantity \in Nat

\* An answer is a cart bound to one of the intents the merchant has seen, and
\* costs an amount.
LEMMA AnswerIsBound ==
  ASSUME NEW seen, NEW envelope \in Answers(seen)
  PROVE  /\ \E i \in seen : envelope.payload.intent_hash = Digest(i)
         /\ envelope.payload.total_paise \in Int
         /\ CartFields \subseteq DOMAIN envelope.payload
         /\ HasAmounts(envelope.payload)
<1>1. PICK p \in Proposals, i \in seen :
        envelope \in Envelopes([p EXCEPT !.intent_hash = Digest(i)])
  BY DEF Answers
<1> DEFINE c == [p EXCEPT !.intent_hash = Digest(i)]
<1>2. /\ c.intent_hash = Digest(i) /\ c.total_paise \in Int
      /\ CartFields \subseteq DOMAIN c
  BY LoopAssumption DEF CartFields
<1>3. HasAmounts(c)
  <2>1. CartFields \subseteq DOMAIN p /\ HasAmounts(p)
    BY LoopAssumption DEF HasAmounts
  <2>2. /\ c.lines = p.lines /\ c.total_paise = p.total_paise
        /\ c.tax_paise = p.tax_paise /\ c.shipping_paise = p.shipping_paise
    BY <2>1 DEF CartFields
  <2> HIDE DEF c
  <2>3. QED
    BY <2>1, <2>2 DEF HasAmounts, LinesOf
<1> HIDE DEF c
<1>4. envelope.payload = c
  BY <1>1 DEF Envelopes, SignMandate, c
<1>5. QED
  BY <1>2, <1>3, <1>4

\* Amending changes the mandate, and moves the tripwire to the cart's total
\* only when the tripwire is what was exceeded.
LEMMA AmendedTripwire ==
  ASSUME NEW i \in Intents, NEW d, NEW c
  PROVE  LET amended == BuildAmendedIntent(i, d, c, Now, i.mandate_id + 1)
         IN  /\ amended # i
             /\ amended.escalate_above_paise =
                  IF "ESCALATION_THRESHOLD" \in d.failed THEN c.total_paise
                  ELSE i.escalate_above_paise
<1> DEFINE amended == BuildAmendedIntent(i, d, c, Now, i.mandate_id + 1)
<1>1. amended.mandate_id = i.mandate_id + 1
  BY LoopAssumption DEF BuildAmendedIntent, IntentFields
<1>2. amended.escalate_above_paise =
        IF "ESCALATION_THRESHOLD" \in d.failed THEN c.total_paise
        ELSE i.escalate_above_paise
  BY LoopAssumption DEF BuildAmendedIntent, IntentFields
<1> HIDE DEF amended
<1>3. amended # i
  BY <1>1, LoopAssumption
<1>4. QED
  BY <1>2, <1>3 DEF amended

\* The rest of what is amended, and what is not.
LEMMA AmendedTerms ==
  ASSUME NEW i \in Intents, NEW d, NEW c, c.total_paise \in Int
  PROVE  LET amended == BuildAmendedIntent(i, d, c, Now, i.mandate_id + 1)
         IN  /\ SameTerms(i, amended)
             /\ amended.principal_kid = i.principal_kid
             /\ ~IsExpired(amended, Now)
             /\ amended.total_paise = IF "ESCALATION_THRESHOLD" \in d.failed
                                      THEN GreaterOf(i.total_paise, c.total_paise)
                                      ELSE i.total_paise
             /\ amended.substitutions_preapproved <=>
                  \/ "AMBIGUOUS_SUBSTITUTION" \in d.failed
                  \/ i.substitutions_preapproved
<1> DEFINE amended == BuildAmendedIntent(i, d, c, Now, i.mandate_id + 1)
<1>1. IntentFields \subseteq DOMAIN i
  BY LoopAssumption
<1>2. SameTerms(i, amended) /\ amended.principal_kid = i.principal_kid
  BY <1>1 DEF BuildAmendedIntent, SameTerms, IntentFields
<1>3. ~IsExpired(amended, Now)
  <2>1. amended.expires_at = Now + (i.expires_at - i.issued_at)
    BY <1>1 DEF BuildAmendedIntent, IntentFields
  <2>2. QED
    BY <2>1, LoopAssumption DEF IsExpired
<1>4. amended.total_paise = IF "ESCALATION_THRESHOLD" \in d.failed
                            THEN GreaterOf(i.total_paise, c.total_paise)
                            ELSE i.total_paise
  BY <1>1 DEF BuildAmendedIntent, IntentFields
<1>5. amended.substitutions_preapproved <=>
        "AMBIGUOUS_SUBSTITUTION" \in d.failed \/ i.substitutions_preapproved
  BY <1>1, LoopAssumption DEF BuildAmendedIntent, IntentFields
<1>6. QED
  BY <1>2, <1>3, <1>4, <1>5

\* Binding a cart to another intent changes nothing else of it.
LEMMA ReboundContent ==
  ASSUME NEW c, NEW h, CartFields \subseteq DOMAIN c
  PROVE  /\ SameContent(c, [c EXCEPT !.intent_hash = h])
         /\ SameContent([c EXCEPT !.intent_hash = h], c)
         /\ [c EXCEPT !.intent_hash = h].intent_hash = h
  BY DEF SameContent, CartFields

\* The context of the re-evaluation.
LEMMA ResolvedSurroundings ==
  ASSUME NEW x, NEW i, NEW c, ContextFields \subseteq DOMAIN x
  PROVE  LET y == ResolvedContext(x, i, c)
         IN  /\ SameSurroundings(x, y)
             /\ y.intent_envelope = i /\ y.cart_envelope = c
             /\ ConfidentInterpretation(y)
  BY DEF ResolvedContext, SameSurroundings, ContextFields, ConfidentInterpretation

\* A context with another cart's envelope.
LEMMA OtherEnvelope ==
  ASSUME NEW x, NEW c, ContextFields \subseteq DOMAIN x
  PROVE  LET y == [x EXCEPT !.cart_envelope = c]
         IN  /\ SameSurroundings(x, y)
             /\ y.intent_envelope = x.intent_envelope /\ y.cart_envelope = c
             /\ y.low_confidence_interpretation = x.low_confidence_interpretation
  BY DEF SameSurroundings, ContextFields

\* Different mandates have different digests.
LEMMA DigestInjective ==
  ASSUME NEW x, NEW y, Digest(x) = Digest(y)
  PROVE  x = y
  BY DEF Digest

-----------------------------------------------------------------------------
(* The inductive invariant. *)

Progress ==
  /\ stage \in {"negotiating", "evaluating", "escalated", "resolving", "ended"}
  /\ intent \in Intents /\ policy \in Policies
  /\ stage \in {"negotiating", "evaluating"} => decision = None
  /\ stage # "ended" => new_cart = None

\* Until the second evaluation the cart the human saw answers the intent.
SeenCart ==
  /\ stage \in {"evaluating", "escalated", "resolving"} =>
       cart.intent_hash = Digest(intent) /\ cart.total_paise \in Int
  /\ stage \in {"escalated", "resolving"} => decision.outcome = "REQUIRES_HUMAN_APPROVAL"

\* What has been signed after the human's yes.
Amended ==
  stage = "resolving" =>
    /\ "final_decision" \in DOMAIN resolution
    /\ resolution.amended_intent # intent
    /\ resolution.amended_intent.escalate_above_paise
         \in {intent.escalate_above_paise, cart.total_paise}

LoopInv == Progress /\ SeenCart /\ Amended /\ NoUnseenSpending /\ StaleCartNotReused

LEMMA InitLoopInv == Init => LoopInv
  BY DEF Init, LoopInv, Progress, SeenCart, Amended, NoUnseenSpending,
         StaleCartNotReused, ApprovedAtOnce, ApprovedOnReview

LEMMA NegotiateKeepsInv ==
  ASSUME LoopInv, Negotiate
  PROVE  LoopInv'
<1>1. cart'.intent_hash = Digest(intent) /\ cart'.total_paise \in Int
  <2>1. PICK envelope \in Answers({intent}) : cart' = envelope.payload
    BY DEF Negotiate
  <2>2. QED
    BY <2>1, AnswerIsBound
<1>2. QED
  BY <1>1
     DEF Negotiate, LoopInv, Progress, SeenCart, Amended, NoUnseenSpending,
         StaleCartNotReused, ApprovedAtOnce, ApprovedOnReview

LEMMA EvaluateCartKeepsInv ==
  ASSUME LoopInv, EvaluateCart
  PROVE  LoopInv'
<1>1. ASSUME decision'.outcome = "APPROVED"
      PROVE  cart.total_paise <= EscalationThreshold(intent, policy)
  BY <1>1, ApprovalMeans DEF EvaluateCart, BelowEscalationThreshold
<1>2. /\ stage = "evaluating" /\ stage' \in {"escalated", "ended"}
      /\ stage' = "escalated" => decision'.outcome = "REQUIRES_HUMAN_APPROVAL"
      /\ UNCHANGED <<intent, policy, ctx, cart, resolution, new_cart>>
  BY DEF EvaluateCart, StageAfterVerdict
<1>3. NoUnseenSpending'
  BY <1>1, <1>2
     DEF LoopInv, Progress, NoUnseenSpending, ApprovedAtOnce, ApprovedOnReview,
         EscalationThreshold
<1>4. (Progress /\ SeenCart /\ Amended /\ StaleCartNotReused)'
  BY <1>2
     DEF LoopInv, Progress, SeenCart, Amended, StaleCartNotReused, ApprovedOnReview
<1>5. QED
  BY <1>3, <1>4 DEF LoopInv

LEMMA HumanAgreesKeepsInv ==
  ASSUME LoopInv, HumanAgrees
  PROVE  LoopInv'
<1>1. /\ "final_decision" \in DOMAIN resolution'
      /\ resolution'.amended_intent # intent
      /\ resolution'.amended_intent.escalate_above_paise
           \in {intent.escalate_above_paise, cart.total_paise}
  BY ZenonT(60), AmendedTripwire DEF HumanAgrees, LoopInv, Progress
<1>2. QED
  BY <1>1
     DEF HumanAgrees, LoopInv, Progress, SeenCart, Amended, NoUnseenSpending,
         StaleCartNotReused, ApprovedAtOnce, ApprovedOnReview

LEMMA ReevaluateKeepsInv ==
  ASSUME LoopInv, Reevaluate
  PROVE  LoopInv'
<1> DEFINE amended == resolution.amended_intent
<1>1. PICK envelope \in Answers({intent, amended}) :
        /\ new_cart' = envelope.payload
        /\ resolution' = [resolution EXCEPT !.final_decision =
             Evaluate(amended, envelope.payload, policy,
                      ResolvedContext(ctx, SignMandate(amended, amended.principal_kid),
                                      envelope),
                      Now)]
  BY DEF Reevaluate
<1>2. new_cart'.total_paise \in Int
  BY <1>1, AnswerIsBound
<1>3. ASSUME resolution'.final_decision.outcome = "APPROVED"
      PROVE  /\ new_cart'.intent_hash = Digest(amended)
             /\ new_cart'.total_paise <= EscalationThreshold(amended, policy)
  <2>1. Evaluate(amended, new_cart', policy,
                 ResolvedContext(ctx, SignMandate(amended, amended.principal_kid),
                                 envelope),
                 Now).outcome = "APPROVED"
    BY <1>1, <1>3 DEF Reevaluate, LoopInv, Amended
  <2>2. QED
    BY <2>1, NotRejectedMeans, ApprovalMeans DEF ChainIntact, BelowEscalationThreshold
<1>4. StaleCartNotReused'
  <2>1. amended # intent /\ cart.intent_hash = Digest(intent)
    BY DEF Reevaluate, LoopInv, Amended, SeenCart
  <2>2. Digest(amended) # Digest(intent)
    BY <2>1, DigestInjective
  <2>3. QED
    BY <1>3, <2>1, <2>2 DEF Reevaluate, StaleCartNotReused, ApprovedOnReview
<1>5. NoUnseenSpending'
  <2>1. /\ amended.escalate_above_paise \in {intent.escalate_above_paise, cart.total_paise}
        /\ cart.total_paise \in Int /\ intent.escalate_above_paise \in Int
        /\ policy.escalation_threshold_paise \in Int
    BY LoopAssumption DEF Reevaluate, LoopInv, Progress, Amended, SeenCart
  <2>2. ~ApprovedAtOnce'
    BY DEF Reevaluate, LoopInv, SeenCart, ApprovedAtOnce
  <2>3. ASSUME ApprovedOnReview'
        PROVE  new_cart'.total_paise <=
                 GreaterOf(EscalationThreshold(intent, policy), cart.total_paise)
    BY <1>2, <1>3, <2>1, <2>3
       DEF ApprovedOnReview, EscalationThreshold, GreaterOf, LesserOf
  <2>4. QED
    BY <2>2, <2>3 DEF Reevaluate, NoUnseenSpending, EscalationThreshold
<1>6. (Progress /\ SeenCart /\ Amended)'
  BY DEF Reevaluate, LoopInv, Progress, SeenCart, Amended
<1>7. QED
  BY <1>4, <1>5, <1>6 DEF LoopInv

LEMMA NextLoopInv ==
  ASSUME LoopInv, [Next]_vars
  PROVE  LoopInv'
<1>1. CASE MerchantDeclines \/ HumanDeclines \/ DeclinesAmendedTerms \/ UNCHANGED vars
  BY <1>1
     DEF MerchantDeclines, HumanDeclines, DeclinesAmendedTerms, vars, LoopInv,
         Progress, SeenCart, Amended, NoUnseenSpending, StaleCartNotReused,
         ApprovedAtOnce, ApprovedOnReview
<1>2. QED
  BY <1>1, NegotiateKeepsInv, EvaluateCartKeepsInv, HumanAgreesKeepsInv,
     ReevaluateKeepsInv
     DEF Next, Ended

LEMMA LoopInvariance == Spec => []LoopInv
  BY InitLoopInv, NextLoopInv, PTL DEF Spec

-----------------------------------------------------------------------------
(* What the human's yes covers, and what it settles. *)

\* One escalation: the cart c, found wanting under i, is what the human saw.
Escalation(i, c, policy_, x) ==
  /\ i \in Intents /\ policy_ \in Policies
  /\ ContextFields \subseteq DOMAIN x
  /\ CartFields \subseteq DOMAIN c /\ c.total_paise \in Int
  /\ Evaluate(i, c, policy_, x, Now).outcome = "REQUIRES_HUMAN_APPROVAL"

AmendedAfter(i, c, policy_, x) ==
  BuildAmendedIntent(i, Evaluate(i, c, policy_, x, Now), c, Now, i.mandate_id + 1)

\* What is signed with a known key verifies.
LEMMA SignedVerifies ==
  ASSUME NEW m, NEW kid, NEW directory, kid \in directory
  PROVE  EnvelopeVerifies(SignMandate(m, kid), directory, kid)
<1> DEFINE signature == [kid |-> kid, over |-> m]
           envelope == [payload |-> m, signatures |-> {signature}]
<1>1. signature.kid = kid /\ signature.over = m
  OBVIOUS
<1>2. envelope.payload = m /\ envelope.signatures = {signature}
  OBVIOUS
<1> HIDE DEF signature
<1>3. EnvelopeVerifies(envelope, directory, kid)
  BY <1>1, <1>2 DEF EnvelopeVerifies
<1>4. QED
  BY <1>3 DEF SignMandate, signature

\* The budget never moves: a cart over it is rejected, not escalated.
LEMMA BudgetStays ==
  ASSUME NEW i, NEW c, NEW p, NEW x, Escalation(i, c, p, x)
  PROVE  AmendedAfter(i, c, p, x).total_paise = i.total_paise
<1>1. c.total_paise <= i.total_paise
  BY RejectedUnlessPassing DEF Escalation, PassesHardGates, WithinBudget
<1>2. i.total_paise \in Int /\ c.total_paise \in Int
  BY LoopAssumption DEF Escalation
<1>3. LET d == Evaluate(i, c, p, x, Now)
      IN  AmendedAfter(i, c, p, x).total_paise =
            IF "ESCALATION_THRESHOLD" \in d.failed
            THEN GreaterOf(i.total_paise, c.total_paise) ELSE i.total_paise
  BY AmendedTerms DEF Escalation, AmendedAfter
<1>4. GreaterOf(i.total_paise, c.total_paise) = i.total_paise
  BY <1>1, <1>2 DEF GreaterOf
<1>5. QED
  BY <1>3, <1>4

\* What the original terms have against a cart approved under the amended
\* ones was among what they had against the cart the human saw.
LEMMA YesCovers ==
  ASSUME NEW i, NEW c, NEW p, NEW x, NEW n, NEW envelope,
         Escalation(i, c, p, x),
         CartFields \subseteq DOMAIN n, n.total_paise \in Int,
         LET j == AmendedAfter(i, c, p, x)
         IN  Evaluate(j, n, p,
                      ResolvedContext(x, SignMandate(j, j.principal_kid), envelope),
                      Now).outcome = "APPROVED"
  PROVE  LET b == [n EXCEPT !.intent_hash = Digest(i)]
             y == [x EXCEPT !.cart_envelope = SignMandate(b, n.merchant_kid)]
         IN  Evaluate(i, b, p, y, Now).failed
               \subseteq Evaluate(i, c, p, x, Now).failed
<1> DEFINE j == AmendedAfter(i, c, p, x)
           z == ResolvedContext(x, SignMandate(j, j.principal_kid), envelope)
           b == [n EXCEPT !.intent_hash = Digest(i)]
           s == SignMandate(b, n.merchant_kid)
           y == [x EXCEPT !.cart_envelope = s]
           seen == Evaluate(i, c, p, x, Now)
           again == Evaluate(i, b, p, y, Now)
<1>1. PassesHardGates(i, c, p, x, Now) /\ PassesHardGates(j, n, p, z, Now)
  BY RejectedUnlessPassing DEF Escalation
<1>2. SameTerms(i, j) /\ SameContent(n, b) /\ b.intent_hash = Digest(i)
  BY AmendedTerms, ReboundContent DEF Escalation, AmendedAfter
<1> HIDE DEF b, s
<1>3. /\ SameSurroundings(x, z) /\ SameSurroundings(x, y)
      /\ y.intent_envelope = x.intent_envelope /\ y.cart_envelope = s
      /\ y.low_confidence_interpretation = x.low_confidence_interpretation
  <2>1. SameSurroundings(x, z)
    BY ResolvedSurroundings DEF Escalation
  <2>2. QED
    BY <2>1, OtherEnvelope DEF Escalation
<1>4. j.total_paise = i.total_paise
  BY BudgetStays
<1> HIDE DEF j, z, y
<1>5. NotExpired(i, b, Now)
  BY <1>1, <1>2 DEF PassesHardGates, NotExpired, IsExpired, SameContent
<1>6. SignaturesValid(i, b, y)
  <2>1. EnvelopeVerifies(y.intent_envelope, y.key_directory, i.principal_kid)
    BY <1>1, <1>3 DEF PassesHardGates, SignaturesValid, SameSurroundings
  <2>2. n.merchant_kid \in z.key_directory
    BY <1>1 DEF PassesHardGates, SignaturesValid, EnvelopeVerifies
  <2>3. n.merchant_kid \in y.key_directory /\ b.merchant_kid = n.merchant_kid
    BY <2>2, <1>2, <1>3 DEF SameSurroundings, SameContent
  <2>4. EnvelopeVerifies(s, y.key_directory, b.merchant_kid)
    BY <2>3, SignedVerifies DEF s
  <2>5. QED
    BY <2>1, <2>4, <1>3 DEF SignaturesValid
<1>7. ChainIntact(i, b)
  BY <1>2 DEF ChainIntact
<1>8. WithinBudget(i, b)
  BY <1>1, <1>2, <1>4 DEF PassesHardGates, WithinBudget, SameContent
<1>9. PassesHardGates(i, b, p, y, Now)
  <2>1. SameTerms(j, i) /\ SameSurroundings(z, y)
    BY <1>2, <1>3 DEF SameTerms, SameSurroundings
  <2>2. QED
    BY <2>1, <1>1, <1>2, <1>5, <1>6, <1>7, <1>8, PassTogether
<1>10. seen.outcome # "REJECTED" /\ again.outcome # "REJECTED"
  BY <1>1, <1>9, RejectedUnlessPassing
<1>11. again.failed \subseteq EscalateCodes
  BY <1>10, OutcomeMeaning
<1>12. /\ BelowEscalationThreshold(j, n, p)
       /\ SubstitutionSettled(j, n)
  BY ApprovalMeans DEF j, z
<1>13. ASSUME "ESCALATION_THRESHOLD" \in again.failed
       PROVE  "ESCALATION_THRESHOLD" \in seen.failed
  <2>1. ~BelowEscalationThreshold(i, b, p)
    BY <1>10, <1>13, EscalationCodesMean
  <2>2. j.escalate_above_paise # i.escalate_above_paise
    BY <2>1, <1>2, <1>12
       DEF BelowEscalationThreshold, EscalationThreshold, SameContent
  <2>3. QED
    BY <2>2, AmendedTripwire DEF j, AmendedAfter, Escalation
<1>14. ASSUME "AMBIGUOUS_SUBSTITUTION" \in again.failed
       PROVE  "AMBIGUOUS_SUBSTITUTION" \in seen.failed
  <2>1. ~SubstitutionSettled(i, b)
    BY <1>10, <1>14, EscalationCodesMean
  <2>2. j.substitutions_preapproved /\ ~i.substitutions_preapproved
    BY <2>1, <1>2, <1>12 DEF SubstitutionSettled, SameContent, LinesOf
  <2>3. QED
    BY <2>2, AmendedTerms DEF j, AmendedAfter, Escalation
<1>15. "LOW_CONFIDENCE_INTERPRETATION" \in again.failed
         => "LOW_CONFIDENCE_INTERPRETATION" \in seen.failed
  BY <1>10, <1>3, EscalationCodesMean DEF ConfidentInterpretation
<1>16. QED
  BY <1>11, <1>13, <1>14, <1>15 DEF EscalateCodes, b, y, s

\* The content the human saw, bound to the amended intent and rightly signed,
\* passes every gate but perhaps the merchant's own threshold.
LEMMA YesSettles ==
  ASSUME NEW i, NEW c, NEW p, NEW x, NEW envelope,
         Escalation(i, c, p, x),
         c.total_paise <= p.escalation_threshold_paise
  PROVE  LET j == AmendedAfter(i, c, p, x)
             b == [c EXCEPT !.intent_hash = Digest(j)]
             z == ResolvedContext(x, SignMandate(j, j.principal_kid), envelope)
             verdict == Evaluate(j, b, p, z, Now)
         IN  "SIGNATURE_INVALID" \notin verdict.failed => verdict.outcome = "APPROVED"
<1> DEFINE j == AmendedAfter(i, c, p, x)
           b == [c EXCEPT !.intent_hash = Digest(j)]
           z == ResolvedContext(x, SignMandate(j, j.principal_kid), envelope)
           seen == Evaluate(i, c, p, x, Now)
           verdict == Evaluate(j, b, p, z, Now)
<1> SUFFICES ASSUME "SIGNATURE_INVALID" \notin verdict.failed
             PROVE  verdict.outcome = "APPROVED"
  OBVIOUS
<1>1. PassesHardGates(i, c, p, x, Now) /\ seen.outcome # "REJECTED"
  BY RejectedUnlessPassing DEF Escalation
<1>2. /\ SameTerms(i, j) /\ ~IsExpired(j, Now)
      /\ j.substitutions_preapproved <=>
           "AMBIGUOUS_SUBSTITUTION" \in seen.failed \/ i.substitutions_preapproved
      /\ j.escalate_above_paise = IF "ESCALATION_THRESHOLD" \in seen.failed
                                  THEN c.total_paise ELSE i.escalate_above_paise
  BY AmendedTerms, AmendedTripwire DEF Escalation, AmendedAfter
<1>3. SameContent(c, b) /\ b.intent_hash = Digest(j)
  BY ReboundContent DEF Escalation
<1>4. SameSurroundings(x, z) /\ ConfidentInterpretation(z)
  BY ResolvedSurroundings DEF Escalation
<1>5. j.total_paise = i.total_paise
  BY BudgetStays
<1> HIDE DEF j, b, z
<1>6. SignaturesValid(j, b, z)
  <2>1. ~EngineRaises(j, b)
    BY <1>1, <1>2, <1>3
       DEF PassesHardGates, EngineRaises, SameTerms, SameContent, LinesOf
  <2>2. verdict.failed = {code \in DOMAIN Checks(j, b, p, z, Now) :
                            ~Checks(j, b, p, z, Now)[code]}
    BY <2>1, CodesOfGates
  <2> HIDE DEF verdict
  <2>3. QED
    BY <2>2 DEF Checks
<1>7. NotExpired(j, b, Now) /\ ChainIntact(j, b) /\ WithinBudget(j, b)
  BY <1>1, <1>2, <1>3, <1>5
     DEF PassesHardGates, NotExpired, IsExpired, ChainIntact, WithinBudget, SameContent
<1>8. PassesHardGates(j, b, p, z, Now)
  BY <1>1, <1>2, <1>3, <1>4, <1>6, <1>7, PassTogether
<1>9. BelowEscalationThreshold(j, b, p)
  <2>1. /\ c.total_paise \in Int /\ i.escalate_above_paise \in Int
        /\ p.escalation_threshold_paise \in Int
    BY LoopAssumption DEF Escalation
  <2>2. "ESCALATION_THRESHOLD" \notin seen.failed => BelowEscalationThreshold(i, c, p)
    BY <1>1, EscalationCodesMean
  <2>3. QED
    BY <2>1, <2>2, <1>2, <1>3
       DEF BelowEscalationThreshold, EscalationThreshold, LesserOf, SameContent
<1>10. SubstitutionSettled(j, b)
  <2>1. "AMBIGUOUS_SUBSTITUTION" \notin seen.failed => SubstitutionSettled(i, c)
    BY <1>1, EscalationCodesMean
  <2>2. QED
    BY <2>1, <1>2, <1>3 DEF SubstitutionSettled, SameContent, LinesOf
<1>11. verdict.outcome # "REJECTED"
  BY <1>8, RejectedUnlessPassing
<1>12. verdict.failed = {}
  <2>1. verdict.failed \subseteq EscalateCodes
    BY <1>11, OutcomeMeaning
  <2>2. \A code \in EscalateCodes : code \notin verdict.failed
    BY <1>4, <1>9, <1>10, <1>11, EscalationCodesMean DEF EscalateCodes
  <2>3. QED
    BY <2>1, <2>2
<1>13. QED
  BY <1>12, OutcomeMeaning

-----------------------------------------------------------------------------
(* The same in every state of the loop. *)

\* What resolve_escalation works from: the verdict is about this cart, and the
\* amended intent is this verdict's.
Records ==
  /\ ContextFields \subseteq DOMAIN ctx
  /\ stage \in {"evaluating", "escalated", "resolving"} => CartFields \subseteq DOMAIN cart
  /\ stage \in {"escalated", "resolving"} => decision = Evaluate(intent, cart, policy, ctx, Now)
  /\ stage = "resolving" =>
       resolution = [approved |-> TRUE, final_decision |-> None,
                     amended_intent |-> BuildAmendedIntent(intent, decision, cart, Now,
                                                           intent.mandate_id + 1)]

ReviewInv == Records /\ YesCoversOnlyWhatWasAsked /\ AgreementSettles

LEMMA InitReviewInv == Init => ReviewInv
<1> SUFFICES ASSUME Init PROVE ReviewInv
  OBVIOUS
<1>1. ContextFields \subseteq DOMAIN ctx
  BY LoopAssumption DEF Init
<1>2. QED
  BY <1>1
     DEF Init, ReviewInv, Records, YesCoversOnlyWhatWasAsked, AgreementSettles,
         ApprovedOnReview, SameContentAgain

LEMMA ReevaluateKeepsReview ==
  ASSUME LoopInv, ReviewInv, Reevaluate
  PROVE  ReviewInv'
<1> DEFINE amended == AmendedAfter(intent, cart, policy, ctx)
<1>1. /\ stage = "resolving"
      /\ Escalation(intent, cart, policy, ctx)
      /\ decision = Evaluate(intent, cart, policy, ctx, Now)
      /\ resolution = [approved |-> TRUE, final_decision |-> None, amended_intent |-> amended]
  BY DEF Reevaluate, LoopInv, Progress, SeenCart, ReviewInv, Records, Escalation,
         AmendedAfter
<1> HIDE DEF amended
<1>2. PICK envelope \in Answers({intent, amended}) :
        /\ new_cart' = envelope.payload
        /\ resolution' = [resolution EXCEPT !.final_decision =
             Evaluate(amended, envelope.payload, policy,
                      ResolvedContext(ctx, SignMandate(amended, amended.principal_kid),
                                      envelope),
                      Now)]
  BY <1>1 DEF Reevaluate
<1> DEFINE verdict == Evaluate(amended, envelope.payload, policy,
                        ResolvedContext(ctx, SignMandate(amended, amended.principal_kid),
                                        envelope),
                        Now)
<1>3. /\ resolution'.final_decision = verdict
      /\ resolution'.amended_intent = amended
  BY <1>1, <1>2
<1>4. /\ CartFields \subseteq DOMAIN envelope.payload
      /\ envelope.payload.total_paise \in Int
  BY AnswerIsBound
<1>5. UNCHANGED <<intent, policy, ctx, cart, decision>> /\ stage' = "ended"
  BY DEF Reevaluate
<1> HIDE DEF verdict
<1>6. YesCoversOnlyWhatWasAsked'
  <2> DEFINE b == [envelope.payload EXCEPT !.intent_hash = Digest(intent)]
             y == [ctx EXCEPT !.cart_envelope = SignMandate(b, envelope.payload.merchant_kid)]
  <2>1. verdict.outcome = "APPROVED" =>
          Evaluate(intent, b, policy, y, Now).failed \subseteq decision.failed
    BY <1>1, <1>4, YesCovers DEF verdict, amended
  <2>2. ObjectionsOfOriginalTerms' = Evaluate(intent, b, policy, y, Now).failed
    BY <1>2, <1>5 DEF ObjectionsOfOriginalTerms, SignMandate
  <2>3. QED
    BY <2>1, <2>2, <1>3, <1>5 DEF YesCoversOnlyWhatWasAsked, ApprovedOnReview
<1>7. AgreementSettles'
  <2> SUFFICES ASSUME SameContentAgain',
                      cart.total_paise <= policy.escalation_threshold_paise
               PROVE  verdict.outcome = "APPROVED"
    BY <1>3, <1>5 DEF AgreementSettles
  <2>1. /\ envelope.payload = [cart EXCEPT !.intent_hash = Digest(amended)]
        /\ "SIGNATURE_INVALID" \notin verdict.failed
    BY <1>2, <1>3, <1>5 DEF SameContentAgain
  <2>2. QED
    BY <2>1, <1>1, YesSettles DEF verdict, amended
<1>8. Records'
  BY <1>5 DEF ReviewInv, Records
<1>9. QED
  BY <1>6, <1>7, <1>8 DEF ReviewInv

LEMMA NextReviewInv ==
  ASSUME LoopInv, ReviewInv, [Next]_vars
  PROVE  ReviewInv'
<1>1. ASSUME stage # "ended", new_cart' = new_cart
      PROVE  YesCoversOnlyWhatWasAsked' /\ AgreementSettles'
  BY <1>1
     DEF LoopInv, Progress, YesCoversOnlyWhatWasAsked, AgreementSettles,
         ApprovedOnReview, SameContentAgain
<1>2. CASE Negotiate
  <2>1. CartFields \subseteq DOMAIN cart'
    BY <1>2, AnswerIsBound DEF Negotiate
  <2>2. ContextFields \subseteq DOMAIN ctx'
    BY <1>2 DEF Negotiate, ReviewInv, Records
  <2>3. QED
    BY <2>1, <2>2, <1>1, <1>2 DEF Negotiate, ReviewInv, Records
<1>3. CASE EvaluateCart
  BY <1>1, <1>3 DEF EvaluateCart, StageAfterVerdict, ReviewInv, Records
<1>4. CASE HumanAgrees
  BY <1>1, <1>4 DEF HumanAgrees, ReviewInv, Records
<1>5. CASE MerchantDeclines \/ HumanDeclines \/ DeclinesAmendedTerms
  BY <1>1, <1>5
     DEF MerchantDeclines, HumanDeclines, DeclinesAmendedTerms, ReviewInv, Records
<1>6. CASE UNCHANGED vars
  BY <1>6
     DEF vars, ReviewInv, Records, YesCoversOnlyWhatWasAsked, AgreementSettles,
         ApprovedOnReview, SameContentAgain, ObjectionsOfOriginalTerms
<1>7. QED
  BY <1>2, <1>3, <1>4, <1>5, <1>6, ReevaluateKeepsReview DEF Next, Ended

LEMMA ReviewInvariance == Spec => []ReviewInv
  BY LoopInvariance, InitReviewInv, NextReviewInv, PTL DEF Spec

-----------------------------------------------------------------------------
(* What an approved cart pays for its goods. *)

\* The published price of a cart is the last of its partial sums.
LEMMA PublishedPriceIsASum ==
  ASSUME NEW c, Len(c.lines) \in Nat
  PROVE  LET price(i) == ctx.merchant_catalog.entries[c.lines[i].sku].price_paise
         IN  \E sum :
               /\ PublishedPrice(c) = sum[Len(c.lines)]
               /\ sum[0] = 0
               /\ \A i \in 1..Len(c.lines) :
                    sum[i] = sum[i - 1] + price(i) * c.lines[i].quantity
<1> DEFINE n == Len(c.lines)
           cost(i) == ctx.merchant_catalog.entries[c.lines[i].sku].price_paise
                        * c.lines[i].quantity
           w == [i \in 1..n |-> cost(i)]
           IsPrice(sum) ==
             sum = [i \in 0..n |-> IF i = 0 THEN 0 ELSE sum[i - 1] + cost(i)]
           price == CHOOSE sum : IsPrice(sum)
<1>1. \E sum : IsPrice(sum)
  <2>1. PICK f : IsSumUpTo(f, w, n)
    BY SumsExist
  <2>2. \A i \in 0..n : f[i] = IF i = 0 THEN 0 ELSE f[i - 1] + w[i]
    BY <2>1 DEF IsSumUpTo
  <2>3. \A i \in 0..n : i # 0 => w[i] = cost(i)
    OBVIOUS
  <2>4. f = [i \in 0..n |-> f[i]]
    BY <2>1 DEF IsSumUpTo
  <2> HIDE DEF w, cost
  <2>5. IsPrice(f)
    BY <2>2, <2>3, <2>4
  <2>6. QED
    BY <2>5
<1>2. IsPrice(price)
  <2> HIDE DEF IsPrice
  <2>1. QED
    BY <1>1
<1>3. PublishedPrice(c) = price[n]
  BY DEF PublishedPrice
<1> HIDE DEF price
<1>4. /\ price[0] = 0
      /\ \A i \in 1..n : price[i] = price[i - 1] + cost(i)
  <2> HIDE DEF cost
  <2>1. n \in Nat
    OBVIOUS
  <2>2. \A i \in 0..n : price[i] = IF i = 0 THEN 0 ELSE price[i - 1] + cost(i)
    BY <1>2
  <2> HIDE DEF IsPrice, n
  <2>3. QED
    BY <2>1, <2>2
<1>5. QED
  BY <1>3, <1>4

\* Every line is published, and the goods cost no more than their published
\* prices.
PaysPublishedPrices(c) ==
  /\ \A line \in LinesOf(c) : line.sku \in Published(ctx)
  /\ c.total_paise - c.tax_paise - c.shipping_paise <= PublishedPrice(c)

PublishedAmounts ==
  ctx.merchant_catalog # None =>
    \A sku \in Published(ctx) : ctx.merchant_catalog.entries[sku].price_paise \in Int

\* Whatever else it is approved under, with this catalog a cart is approved
\* only at the published prices.
LEMMA ApprovedAtPublishedPrices ==
  ASSUME NEW i, NEW c, NEW p, NEW x,
         Evaluate(i, c, p, x, Now).outcome = "APPROVED",
         x.merchant_catalog = ctx.merchant_catalog,
         HasAmounts(c), PublishedAmounts
  PROVE  PaysPublishedPrices(c)
<1>1. /\ CatalogUsable(c, x) /\ ArithmeticConsistent(c)
      /\ \A line \in LinesOf(c) :
           /\ line.sku \in Published(x)
           /\ line.unit_price_paise <= x.merchant_catalog.entries[line.sku].price_paise
  BY NotRejectedMeans DEF CatalogPricesHonoured, CatalogItemsKnown
<1>2. ctx.merchant_catalog # None /\ Published(x) = Published(ctx)
  BY <1>1 DEF CatalogUsable, Published
<1> DEFINE n == Len(c.lines)
           price(k) == ctx.merchant_catalog.entries[c.lines[k].sku].price_paise
           v == [k \in 1..n |-> c.lines[k].unit_price_paise * c.lines[k].quantity]
           w == [k \in 1..n |-> price(k) * c.lines[k].quantity]
<1>3. n \in Nat /\ DOMAIN c.lines = 1..n
  BY DEF HasAmounts
<1>4. ASSUME NEW k \in 1..n
      PROVE  /\ c.lines[k].unit_price_paise \in Int /\ price(k) \in Int
             /\ c.lines[k].quantity \in Nat
             /\ c.lines[k].unit_price_paise <= price(k)
  <2>1. c.lines[k] \in LinesOf(c)
    BY <1>3 DEF LinesOf
  <2>2. QED
    BY <2>1, <1>1, <1>2 DEF HasAmounts, PublishedAmounts
<1>5. ASSUME NEW k \in 1..n
      PROVE  v[k] \in Int /\ w[k] \in Int /\ v[k] <= w[k]
  <2>1. \A a, b \in Int, q \in Nat :
          a <= b => a * q \in Int /\ b * q \in Int /\ a * q <= b * q
    OBVIOUS
  <2> HIDE DEF price
  <2>2. QED
    BY <2>1, <1>4
<1>6. PICK f : /\ ComputedSubtotal(c) = f[n] /\ f[0] = 0
               /\ \A k \in 1..n : f[k] = f[k - 1] + v[k]
  <2>1. PICK f : /\ LinesSubtotal(c.lines) = f[n] /\ f[0] = 0
                 /\ \A k \in 1..n :
                      f[k] = f[k - 1] + c.lines[k].unit_price_paise * c.lines[k].quantity
    BY ZenonT(60), <1>3, SubtotalIsASum
  <2>2. QED
    BY <2>1 DEF ComputedSubtotal
<1>7. PICK g : /\ PublishedPrice(c) = g[n] /\ g[0] = 0
               /\ \A k \in 1..n : g[k] = g[k - 1] + w[k]
  <2>1. PICK g : /\ PublishedPrice(c) = g[n] /\ g[0] = 0
                 /\ \A k \in 1..n : g[k] = g[k - 1] + price(k) * c.lines[k].quantity
    BY <1>3, PublishedPriceIsASum
  <2>2. QED
    BY <2>1
<1> HIDE DEF v, w, n
<1>8. ComputedSubtotal(c) \in Int /\ ComputedSubtotal(c) <= PublishedPrice(c)
  <2>1. n \in Nat /\ \A k \in 1..n : v[k] <= w[k]
    BY <1>3, <1>5
  <2>2. AddsUp(f, v, n) /\ AddsUp(g, w, n)
    BY <1>5, <1>6, <1>7 DEF AddsUp
  <2>3. f[n] \in Int /\ f[n] <= g[n]
    BY <2>1, <2>2, SmallerEntriesSmallerSum
  <2>4. QED
    BY <2>3, <1>6, <1>7
<1>9. c.total_paise - c.tax_paise - c.shipping_paise = ComputedSubtotal(c)
  <2>1. ComputedSubtotal(c) + c.tax_paise + c.shipping_paise = c.total_paise
    BY <1>1 DEF ArithmeticConsistent
  <2>2. QED
    BY <2>1, <1>8 DEF HasAmounts
<1>10. QED
  BY <1>1, <1>2, <1>8, <1>9 DEF PaysPublishedPrices

\* The catalog has prices, a cart about to be evaluated has amounts, and what
\* has been approved pays the published prices.
PriceInv ==
  /\ ContextFields \subseteq DOMAIN ctx
  /\ PublishedAmounts
  /\ stage = "evaluating" => HasAmounts(cart)
  /\ ApprovedAtOnce => PaysPublishedPrices(cart)
  /\ ApprovedOnReview => PaysPublishedPrices(new_cart)

LEMMA InitPriceInv == Init => PriceInv
<1> SUFFICES ASSUME Init PROVE PriceInv
  OBVIOUS
<1>1. PICK c \in Contexts :
        ctx = [c EXCEPT !.intent_envelope = SignMandate(intent, intent.principal_kid)]
  BY DEF Init
<1>2. ctx.merchant_catalog = c.merchant_catalog /\ ContextFields \subseteq DOMAIN ctx
  BY <1>1, LoopAssumption DEF ContextFields
<1>3. PublishedAmounts
  BY <1>2, LoopAssumption DEF PublishedAmounts, Published
<1>4. QED
  BY <1>2, <1>3 DEF Init, PriceInv, ApprovedAtOnce, ApprovedOnReview

LEMMA NextPriceInv ==
  ASSUME LoopInv, PriceInv, [Next]_vars
  PROVE  PriceInv'
<1>1. CASE Negotiate
  <2>1. PICK envelope \in Answers({intent}) :
          /\ cart' = envelope.payload
          /\ ctx' = [ctx EXCEPT !.cart_envelope = envelope]
    BY <1>1 DEF Negotiate
  <2>2. HasAmounts(cart')
    BY <2>1, AnswerIsBound
  <2>3. ctx'.merchant_catalog = ctx.merchant_catalog /\ ContextFields \subseteq DOMAIN ctx'
    BY <2>1 DEF PriceInv, ContextFields
  <2>4. PublishedAmounts'
    BY <2>3 DEF PriceInv, PublishedAmounts, Published
  <2>5. ~ApprovedAtOnce' /\ ~ApprovedOnReview'
    BY <1>1 DEF Negotiate, LoopInv, Progress, ApprovedAtOnce, ApprovedOnReview
  <2>6. HasAmounts(cart)'
    BY <2>2 DEF HasAmounts, LinesOf
  <2>7. QED
    BY <2>3, <2>4, <2>5, <2>6 DEF PriceInv
<1>2. CASE EvaluateCart
  <2>1. /\ stage' # "evaluating" /\ ~ApprovedOnReview'
        /\ UNCHANGED <<ctx, cart>> /\ HasAmounts(cart)
    BY <1>2
       DEF EvaluateCart, StageAfterVerdict, LoopInv, Progress, ApprovedOnReview, PriceInv
  <2>2. ASSUME ApprovedAtOnce'
        PROVE  PaysPublishedPrices(cart)
    <3>1. Evaluate(intent, cart, policy, ctx, Now).outcome = "APPROVED"
      BY <1>2, <2>2 DEF EvaluateCart, ApprovedAtOnce
    <3>2. QED
      BY <3>1, <2>1, ApprovedAtPublishedPrices DEF PriceInv
  <2>3. QED
    BY ZenonT(60), <2>1, <2>2
       DEF PriceInv, PublishedAmounts, PaysPublishedPrices, PublishedPrice
<1>3. CASE Reevaluate
  <2> DEFINE amended == resolution.amended_intent
  <2>1. PICK envelope \in Answers({intent, amended}) :
          /\ new_cart' = envelope.payload
          /\ resolution' = [resolution EXCEPT !.final_decision =
               Evaluate(amended, envelope.payload, policy,
                        ResolvedContext(ctx, SignMandate(amended, amended.principal_kid),
                                        envelope),
                        Now)]
    BY <1>3 DEF Reevaluate
  <2> DEFINE y == ResolvedContext(ctx, SignMandate(amended, amended.principal_kid), envelope)
  <2>2. HasAmounts(envelope.payload)
    BY AnswerIsBound
  <2>3. y.merchant_catalog = ctx.merchant_catalog
    BY ResolvedSurroundings DEF PriceInv, SameSurroundings
  <2>4. ASSUME ApprovedOnReview'
        PROVE  PaysPublishedPrices(envelope.payload)
    <3>1. Evaluate(amended, envelope.payload, policy, y, Now).outcome = "APPROVED"
      BY <1>3, <2>1, <2>4 DEF Reevaluate, LoopInv, Amended, ApprovedOnReview
    <3> HIDE DEF y, amended
    <3>2. QED
      BY <3>1, <2>2, <2>3, ApprovedAtPublishedPrices DEF PriceInv
  <2>5. stage' # "evaluating" /\ ~ApprovedAtOnce' /\ UNCHANGED ctx
    BY <1>3 DEF Reevaluate, LoopInv, SeenCart, ApprovedAtOnce
  <2>6. QED
    BY ZenonT(60), <2>1, <2>4, <2>5
       DEF PriceInv, PublishedAmounts, PaysPublishedPrices, PublishedPrice
<1>4. CASE MerchantDeclines \/ HumanDeclines \/ HumanAgrees \/ DeclinesAmendedTerms
  <2>1. /\ UNCHANGED <<ctx, cart, decision, new_cart>> /\ stage' # "evaluating"
        /\ new_cart = None
    BY <1>4
       DEF MerchantDeclines, HumanDeclines, HumanAgrees, DeclinesAmendedTerms, LoopInv,
           Progress
  <2>2. QED
    BY ZenonT(60), <2>1
       DEF PriceInv, PublishedAmounts, PaysPublishedPrices, PublishedPrice,
           ApprovedAtOnce, ApprovedOnReview
<1>5. CASE UNCHANGED vars
  BY ZenonT(60), <1>5
     DEF vars, PriceInv, PublishedAmounts, PaysPublishedPrices, PublishedPrice,
         HasAmounts, ApprovedAtOnce, ApprovedOnReview
<1>6. QED
  BY <1>1, <1>2, <1>3, <1>4, <1>5 DEF Next, Ended

-----------------------------------------------------------------------------
(* The verdicts' types. *)

TypeInv ==
  /\ TypeOK
  /\ stage \in {"negotiating", "evaluating", "escalated"} => resolution = None
  /\ stage = "resolving" => "final_decision" \in DOMAIN resolution

LEMMA NextTypeInv ==
  ASSUME LoopInv, TypeInv, [Next]_vars
  PROVE  TypeInv'
<1>1. CASE EvaluateCart
  <2>1. decision'.outcome \in Outcomes
    BY <1>1, OutcomeMeaning DEF EvaluateCart, Outcomes
  <2>2. QED
    BY <1>1, <2>1
       DEF EvaluateCart, StageAfterVerdict, LoopInv, Progress, TypeInv, TypeOK
<1>2. CASE Reevaluate
  <2>1. resolution'.final_decision.outcome \in Outcomes
    BY <1>2, OutcomeMeaning DEF Reevaluate, TypeInv, Outcomes
  <2>2. QED
    BY <1>2, <2>1 DEF Reevaluate, LoopInv, Progress, SeenCart, TypeInv, TypeOK
<1>3. CASE Negotiate \/ MerchantDeclines \/ HumanDeclines \/ HumanAgrees
  BY <1>3
     DEF Negotiate, MerchantDeclines, HumanDeclines, HumanAgrees, LoopInv, Progress,
         SeenCart, TypeInv, TypeOK
<1>4. CASE DeclinesAmendedTerms \/ UNCHANGED vars
  BY <1>4
     DEF DeclinesAmendedTerms, vars, LoopInv, Progress, SeenCart, TypeInv, TypeOK
<1>5. QED
  BY <1>1, <1>2, <1>3, <1>4 DEF Next, Ended

-----------------------------------------------------------------------------
(* Theorems. *)

\* Whatever the merchant answers to resolve_escalation's renegotiation, the
\* cart approved in the end costs no more than the thresholds in force
\* before, or than the cart the human was shown.
THEOREM NothingSpentUnseen == Spec => []NoUnseenSpending
<1>1. LoopInv => NoUnseenSpending
  BY DEF LoopInv
<1>2. QED
  BY <1>1, LoopInvariance, PTL

\* A cart bound to the original terms is never what resolve_escalation
\* approves: its hash chain breaks as soon as the terms are amended.
THEOREM StaleCartIsRefused == Spec => []StaleCartNotReused
<1>1. LoopInv => StaleCartNotReused
  BY DEF LoopInv
<1>2. QED
  BY <1>1, LoopInvariance, PTL

\* What a human's yes makes possible was among what the human was asked
\* about: no merchant, answering resolve_escalation's renegotiation with any
\* cart, gets one approved that the original terms would have escalated or
\* rejected for another reason.
THEOREM YesIsNoBlankCheck == Spec => []YesCoversOnlyWhatWasAsked
<1>1. ReviewInv => YesCoversOnlyWhatWasAsked
  BY DEF ReviewInv
<1>2. QED
  BY <1>1, ReviewInvariance, PTL

\* A yes is enough: the same content, bound and signed as it should be, is
\* approved under the terms build_amended_intent wrote, unless the merchant's
\* own threshold was the one exceeded.
THEOREM AskedOnceIsEnough == Spec => []AgreementSettles
<1>1. ReviewInv => AgreementSettles
  BY DEF ReviewInv
<1>2. QED
  BY <1>1, ReviewInvariance, PTL

\* Every verdict of the loop is one of the three outcomes, and only a verdict
\* that asks a human is ever resolved: resolve_escalation raises ValueError on
\* any other.
THEOREM TypeCorrect == Spec => []TypeOK
<1>1. Init => TypeInv
  BY DEF Init, TypeInv, TypeOK
<1>2. TypeInv => TypeOK
  BY DEF TypeInv
<1>3. QED
  BY <1>1, <1>2, NextTypeInv, LoopInvariance, PTL DEF Spec

\* What evaluate approves pays for its goods at most what the verified catalog
\* publishes, line by line and in the total, whatever the merchant charges and
\* signs, in the first negotiation and in the one after an escalation.
THEOREM PublishedPricesHold == Spec => []ApprovedPaysPublishedPrices
<1>1. PriceInv => ApprovedPaysPublishedPrices
  BY DEF PriceInv, PaysPublishedPrices, ApprovedPaysPublishedPrices
<1>2. QED
  BY <1>1, InitPriceInv, NextPriceInv, LoopInvariance, PTL DEF Spec
=============================================================================
