------------------------- MODULE PolicyEngine_proofs -------------------------
(***************************************************************************)
(* What an outcome of Evaluate says about the gates, for every mandate,    *)
(* policy and context.  The state machines' proofs cite these lemmas and   *)
(* never look inside Evaluate.                                             *)
(***************************************************************************)
EXTENDS PolicyEngine, TLAPS, WellFoundedInduction

\* Three outcomes, and the one that asks a human has only codes that
\* escalate among its failures, and at least one of them.
LEMMA OutcomeMeaning ==
  ASSUME NEW intent, NEW cart, NEW policy, NEW ctx, NEW now
  PROVE  LET verdict == Evaluate(intent, cart, policy, ctx, now)
         IN  /\ verdict.outcome \in {"APPROVED", "REQUIRES_HUMAN_APPROVAL", "REJECTED"}
             /\ verdict.outcome = "APPROVED" <=> verdict.failed = {}
             /\ verdict.outcome = "REQUIRES_HUMAN_APPROVAL" <=>
                  verdict.failed # {} /\ verdict.failed \subseteq EscalateCodes
  BY DEF Evaluate, EscalateCodes

\* Unless the cart is rejected no gate raised, and the codes that failed are
\* those of the gates that do not hold.
LEMMA FailedCodes ==
  ASSUME NEW intent, NEW cart, NEW policy, NEW ctx, NEW now,
         Evaluate(intent, cart, policy, ctx, now).outcome # "REJECTED"
  PROVE  LET checks == Checks(intent, cart, policy, ctx, now)
         IN  /\ ~EngineRaises(intent, cart)
             /\ Evaluate(intent, cart, policy, ctx, now).failed =
                  {code \in DOMAIN checks : ~checks[code]}
  BY DEF Evaluate, EscalateCodes

\* A cart that is not rejected has passed every gate that rejects: the human
\* is never asked about a cart with any of these defects.
LEMMA NotRejectedMeans ==
  ASSUME NEW intent, NEW cart, NEW policy, NEW ctx, NEW now,
         Evaluate(intent, cart, policy, ctx, now).outcome # "REJECTED"
  PROVE  /\ NotExpired(intent, cart, now)
         /\ SignaturesValid(intent, cart, ctx)
         /\ ChainIntact(intent, cart)
         /\ MerchantAuthorized(intent, cart)
         /\ AgentIdentified(ctx)
         /\ PricesSigned(cart)
         /\ ArithmeticConsistent(cart)
         /\ HardConstraintsMet(intent, cart)
         /\ NoExcludedCategory(intent, cart)
         /\ WithinPerItemCap(intent, cart)
         /\ WithinQuantityCap(intent, cart)
         /\ WithinBudget(intent, cart)
         /\ SubstitutesInTolerance(intent, cart, policy)
         /\ MerchantPolicyMet(cart, policy)
         /\ CatalogPricesHonoured(cart, ctx)
         /\ CatalogItemsKnown(cart, ctx)
         /\ CartShapeSane(cart)
<1> DEFINE checks  == Checks(intent, cart, policy, ctx, now)
           verdict == Evaluate(intent, cart, policy, ctx, now)
<1>1. verdict.failed = {code \in DOMAIN checks : ~checks[code]}
  BY FailedCodes
<1>2. verdict.failed \subseteq EscalateCodes
  BY DEF Evaluate
<1>3. \A code \in DOMAIN checks \ EscalateCodes : checks[code]
  BY <1>1, <1>2
<1> HIDE DEF verdict
<1>4. QED
  BY <1>3 DEF Checks, EscalateCodes

\* The gates that escalate fail exactly when their code is among the failed
\* ones: what the human is shown is what was found.
LEMMA EscalationCodesMean ==
  ASSUME NEW intent, NEW cart, NEW policy, NEW ctx, NEW now,
         Evaluate(intent, cart, policy, ctx, now).outcome # "REJECTED"
  PROVE  LET failed == Evaluate(intent, cart, policy, ctx, now).failed
         IN  /\ "ESCALATION_THRESHOLD" \in failed <=>
                  ~BelowEscalationThreshold(intent, cart, policy)
             /\ "AMBIGUOUS_SUBSTITUTION" \in failed <=>
                  ~SubstitutionSettled(intent, cart)
             /\ "LOW_CONFIDENCE_INTERPRETATION" \in failed <=>
                  ~ConfidentInterpretation(ctx)
<1> DEFINE checks == Checks(intent, cart, policy, ctx, now)
           failed == Evaluate(intent, cart, policy, ctx, now).failed
<1>1. failed = {code \in DOMAIN checks : ~checks[code]}
  BY FailedCodes
<1> HIDE DEF failed
<1>2. "ESCALATION_THRESHOLD" \in failed <=>
        ~BelowEscalationThreshold(intent, cart, policy)
  BY <1>1 DEF Checks
<1>3. "AMBIGUOUS_SUBSTITUTION" \in failed <=> ~SubstitutionSettled(intent, cart)
  BY <1>1 DEF Checks
<1>4. "LOW_CONFIDENCE_INTERPRETATION" \in failed <=> ~ConfidentInterpretation(ctx)
  BY <1>1 DEF Checks
<1>5. QED
  BY <1>2, <1>3, <1>4 DEF failed

\* A cart is approved exactly when every gate passes and none raises.
LEMMA ApprovalMeans ==
  ASSUME NEW intent, NEW cart, NEW policy, NEW ctx, NEW now,
         Evaluate(intent, cart, policy, ctx, now).outcome = "APPROVED"
  PROVE  /\ BelowEscalationThreshold(intent, cart, policy)
         /\ SubstitutionSettled(intent, cart)
         /\ ConfidentInterpretation(ctx)
  BY OutcomeMeaning, EscalationCodesMean

\* What every gate that rejects asks for, and that none raises.
PassesHardGates(intent, cart, policy, ctx, now) ==
  /\ ~EngineRaises(intent, cart)
  /\ NotExpired(intent, cart, now)
  /\ SignaturesValid(intent, cart, ctx)
  /\ ChainIntact(intent, cart)
  /\ MerchantAuthorized(intent, cart)
  /\ AgentIdentified(ctx)
  /\ PricesSigned(cart)
  /\ ArithmeticConsistent(cart)
  /\ HardConstraintsMet(intent, cart)
  /\ NoExcludedCategory(intent, cart)
  /\ WithinPerItemCap(intent, cart)
  /\ WithinQuantityCap(intent, cart)
  /\ WithinBudget(intent, cart)
  /\ SubstitutesInTolerance(intent, cart, policy)
  /\ MerchantPolicyMet(cart, policy)
  /\ CatalogPricesHonoured(cart, ctx)
  /\ CatalogItemsKnown(cart, ctx)
  /\ CartShapeSane(cart)

\* Unless a gate raises, the codes that failed are those of the gates that do
\* not hold, rejected or not.
LEMMA CodesOfGates ==
  ASSUME NEW intent, NEW cart, NEW policy, NEW ctx, NEW now,
         ~EngineRaises(intent, cart)
  PROVE  LET checks == Checks(intent, cart, policy, ctx, now)
         IN  Evaluate(intent, cart, policy, ctx, now).failed =
               {code \in DOMAIN checks : ~checks[code]}
  BY DEF Evaluate

\* A cart is rejected exactly when it fails one of these.
LEMMA RejectedUnlessPassing ==
  ASSUME NEW intent, NEW cart, NEW policy, NEW ctx, NEW now
  PROVE  Evaluate(intent, cart, policy, ctx, now).outcome # "REJECTED" <=>
           PassesHardGates(intent, cart, policy, ctx, now)
<1> DEFINE checks  == Checks(intent, cart, policy, ctx, now)
           verdict == Evaluate(intent, cart, policy, ctx, now)
<1>1. ASSUME verdict.outcome # "REJECTED"
      PROVE  PassesHardGates(intent, cart, policy, ctx, now)
  BY <1>1, NotRejectedMeans, FailedCodes DEF PassesHardGates
<1>2. ASSUME PassesHardGates(intent, cart, policy, ctx, now)
      PROVE  verdict.outcome # "REJECTED"
  <2>1. verdict.failed = {code \in DOMAIN checks : ~checks[code]}
    BY <1>2, CodesOfGates DEF PassesHardGates
  <2>2. \A code \in DOMAIN checks \ EscalateCodes : checks[code]
    BY <1>2 DEF PassesHardGates, Checks, EscalateCodes
  <2>3. verdict.failed \subseteq EscalateCodes
    BY <2>1, <2>2
  <2>4. QED
    BY <2>3 DEF Evaluate
<1>3. QED
  BY <1>1, <1>2

\* A cart that passes them and the gates that escalate is approved.
LEMMA ApprovedWhen ==
  ASSUME NEW intent, NEW cart, NEW policy, NEW ctx, NEW now,
         PassesHardGates(intent, cart, policy, ctx, now),
         BelowEscalationThreshold(intent, cart, policy),
         SubstitutionSettled(intent, cart), ConfidentInterpretation(ctx)
  PROVE  Evaluate(intent, cart, policy, ctx, now).outcome = "APPROVED"
<1> DEFINE failed == Evaluate(intent, cart, policy, ctx, now).failed
<1>1. Evaluate(intent, cart, policy, ctx, now).outcome # "REJECTED"
  BY RejectedUnlessPassing
<1>2. /\ "ESCALATION_THRESHOLD" \notin failed
      /\ "AMBIGUOUS_SUBSTITUTION" \notin failed
      /\ "LOW_CONFIDENCE_INTERPRETATION" \notin failed
  BY <1>1, EscalationCodesMean
<1>3. \/ failed = {}
      \/ failed # {} /\ failed \subseteq EscalateCodes
  BY <1>1, OutcomeMeaning
<1>4. failed = {}
  BY <1>2, <1>3 DEF EscalateCodes
<1>5. QED
  BY <1>4, OutcomeMeaning

-----------------------------------------------------------------------------
(***************************************************************************)
(* Sums over lines.  A recursive function is the CHOICE of one that solves *)
(* its equation, so what can be said of it rests on there being one.       *)
(***************************************************************************)

\* A non-empty set of naturals has a least element.
LEMMA LeastNat ==
  ASSUME NEW T, T \subseteq Nat, T # {}
  PROVE  \E m \in T : \A n \in T : m <= n
<1>1. \E m \in T : \A n \in T : ~(<<n, m>> \in OpToRel(<, Nat))
  BY NatLessThanWellFounded, WFMin
<1>2. PICK m \in T : \A n \in T : ~(<<n, m>> \in OpToRel(<, Nat))
  BY <1>1
<1>3. \A n \in T : ~(n < m)
  BY <1>2 DEF OpToRel
<1>4. \A n \in T : m <= n
  BY <1>3
<1>5. QED
  BY <1>4

\* Partial sums of the entries of a function up to n.
IsSumUpTo(f, w, n) ==
  f = [i \in 0..n |-> IF i = 0 THEN 0 ELSE f[i - 1] + w[i]]

\* There are partial sums up to every n: a least n without them would have
\* those up to n - 1, and one more entry can be added to these.
LEMMA SumsExist ==
  ASSUME NEW w, NEW n \in Nat
  PROVE  \E f : IsSumUpTo(f, w, n)
<1> DEFINE Bad == {k \in Nat : ~ \E f : IsSumUpTo(f, w, k)}
<1>1. SUFFICES ASSUME Bad # {} PROVE FALSE
  OBVIOUS
<1>2. PICK m \in Bad : \A k \in Bad : m <= k
  BY <1>1, LeastNat
<1>3. m # 0
  <2>1. IsSumUpTo([i \in 0..0 |-> 0], w, 0)
    BY DEF IsSumUpTo
  <2>2. QED
    BY <2>1
<1>4. m - 1 \in Nat /\ m \in Nat /\ m - 1 \notin Bad
  BY <1>2, <1>3
<1>5. PICK f : IsSumUpTo(f, w, m - 1)
  BY <1>4
<1> DEFINE g == [i \in 0..m |-> IF i = m THEN f[m - 1] + w[m] ELSE f[i]]
<1>6. ASSUME NEW i \in 0..m
      PROVE  g[i] = IF i = 0 THEN 0 ELSE g[i - 1] + w[i]
  <2>1. CASE i = m
    BY <1>3, <1>4, <2>1
  <2>2. CASE i # m
    <3>1. i \in 0..(m - 1)
      BY <1>4, <2>2
    <3>2. f[i] = IF i = 0 THEN 0 ELSE f[i - 1] + w[i]
      BY <1>5, <3>1 DEF IsSumUpTo
    <3>3. QED
      BY <1>4, <2>2, <3>1, <3>2
  <2>3. QED
    BY <2>1, <2>2
<1>7. IsSumUpTo(g, w, m)
  <2> HIDE DEF g
  <2>1. g = [i \in 0..m |-> g[i]]
    BY DEF g
  <2>2. QED
    BY <1>6, <2>1 DEF IsSumUpTo
<1>8. QED
  BY <1>2, <1>7

\* The subtotal of lines is the last of their partial sums.
LEMMA SubtotalIsASum ==
  ASSUME NEW lines, Len(lines) \in Nat
  PROVE  \E sum :
           /\ LinesSubtotal(lines) = sum[Len(lines)]
           /\ sum[0] = 0
           /\ \A i \in 1..Len(lines) :
                sum[i] = sum[i - 1] + lines[i].unit_price_paise * lines[i].quantity
<1> DEFINE n == Len(lines)
           w == [i \in 1..n |-> lines[i].unit_price_paise * lines[i].quantity]
           IsSubtotal(sum) ==
             sum = [i \in 0..n |->
                      IF i = 0 THEN 0
                      ELSE sum[i - 1] + lines[i].unit_price_paise * lines[i].quantity]
           subtotal == CHOOSE sum : IsSubtotal(sum)
<1>1. \E sum : IsSubtotal(sum)
  <2>1. PICK f : IsSumUpTo(f, w, n)
    BY SumsExist
  <2>2. \A i \in 0..n : f[i] = IF i = 0 THEN 0 ELSE f[i - 1] + w[i]
    BY <2>1 DEF IsSumUpTo
  <2>3. \A i \in 0..n : i # 0 => w[i] = lines[i].unit_price_paise * lines[i].quantity
    OBVIOUS
  <2>4. f = [i \in 0..n |-> f[i]]
    BY <2>1 DEF IsSumUpTo
  <2> HIDE DEF w
  <2>5. IsSubtotal(f)
    BY <2>2, <2>3, <2>4
  <2>6. QED
    BY <2>5
<1>2. IsSubtotal(subtotal)
  <2> HIDE DEF IsSubtotal
  <2>1. QED
    BY <1>1
<1>3. LinesSubtotal(lines) = subtotal[n]
  BY DEF LinesSubtotal
<1> HIDE DEF subtotal
<1>4. /\ subtotal[0] = 0
      /\ \A i \in 1..n :
           subtotal[i] = subtotal[i - 1] + lines[i].unit_price_paise * lines[i].quantity
  BY <1>2
<1>5. QED
  BY <1>3, <1>4

\* Integers added up one by one.
AddsUp(f, w, n) ==
  f[0] = 0 /\ \A i \in 1..n : w[i] \in Int /\ f[i] = f[i - 1] + w[i]

\* Of two sums, the one with the smaller entries is the smaller.
LEMMA SmallerEntriesSmallerSum ==
  ASSUME NEW n \in Nat, NEW f, NEW g, NEW v, NEW w,
         AddsUp(f, v, n), AddsUp(g, w, n),
         \A i \in 1..n : v[i] <= w[i]
  PROVE  f[n] \in Int /\ g[n] \in Int /\ f[n] <= g[n]
<1> DEFINE Ordered(k) == f[k] \in Int /\ g[k] \in Int /\ f[k] <= g[k]
           Bad == {k \in 0..n : ~Ordered(k)}
<1>1. SUFFICES ASSUME Bad # {} PROVE FALSE
  <2>1. Bad = {} => Ordered(n)
    OBVIOUS
  <2>2. QED
    BY <2>1
<1>2. PICK m \in Bad : \A k \in Bad : m <= k
  <2>1. Bad \subseteq Nat
    OBVIOUS
  <2> HIDE DEF Bad
  <2>2. QED
    BY <1>1, <2>1, LeastNat
<1>3. m # 0
  <2>1. Ordered(0)
    BY DEF AddsUp
  <2>2. QED
    BY <2>1
<1>4. m \in 1..n /\ m - 1 \in 0..n /\ m - 1 \notin Bad
  BY <1>2, <1>3
<1>5. Ordered(m - 1)
  BY <1>4
<1>6. Ordered(m)
  BY <1>4, <1>5 DEF AddsUp
<1>7. QED
  BY <1>6

-----------------------------------------------------------------------------
(* Mandates and contexts that differ only in what is amended, bound or     *)
(* signed anew.                                                            *)

SameTerms(i, j) ==
  /\ i.allowed_merchants = j.allowed_merchants
  /\ i.category = j.category
  /\ i.required_attributes = j.required_attributes
  /\ i.excluded_categories = j.excluded_categories
  /\ i.per_item_paise = j.per_item_paise
  /\ i.max_quantity = j.max_quantity
  /\ i.target_price_paise = j.target_price_paise
  /\ i.substitution_tolerance_pct = j.substitution_tolerance_pct

SameContent(c, d) ==
  /\ c.expires_at = d.expires_at
  /\ c.merchant_id = d.merchant_id
  /\ c.merchant_kid = d.merchant_kid
  /\ c.lines = d.lines
  /\ c.subtotal_paise = d.subtotal_paise
  /\ c.tax_paise = d.tax_paise
  /\ c.shipping_paise = d.shipping_paise
  /\ c.total_paise = d.total_paise

SameSurroundings(x, y) ==
  /\ x.key_directory = y.key_directory
  /\ x.require_agent_identity = y.require_agent_identity
  /\ x.webbotauth_verified = y.webbotauth_verified
  /\ x.merchant_catalog = y.merchant_catalog

\* They pass the hard gates together, but for those that look at the expiry,
\* the signatures, the chain and the budget.
LEMMA PassTogether ==
  ASSUME NEW i, NEW j, NEW c, NEW d, NEW policy, NEW x, NEW y, NEW now,
         SameTerms(i, j), SameContent(c, d), SameSurroundings(x, y),
         PassesHardGates(i, c, policy, x, now),
         NotExpired(j, d, now), SignaturesValid(j, d, y), ChainIntact(j, d),
         WithinBudget(j, d)
  PROVE  PassesHardGates(j, d, policy, y, now)
<1>1. LinesOf(c) = LinesOf(d)
  BY DEF LinesOf, SameContent
<1>2. /\ ~EngineRaises(j, d)
      /\ MerchantAuthorized(j, d) /\ AgentIdentified(y) /\ PricesSigned(d)
      /\ HardConstraintsMet(j, d) /\ NoExcludedCategory(j, d)
      /\ WithinPerItemCap(j, d) /\ WithinQuantityCap(j, d)
      /\ MerchantPolicyMet(d, policy)
  BY <1>1
     DEF PassesHardGates, SameTerms, SameContent, SameSurroundings, EngineRaises,
         MerchantAuthorized, AgentIdentified, PricesSigned, HardConstraintsMet,
         NoExcludedCategory, WithinPerItemCap, WithinQuantityCap, MerchantPolicyMet
<1>3. ArithmeticConsistent(d)
  BY DEF PassesHardGates, SameContent, ArithmeticConsistent, ComputedSubtotal
<1>4. SubstitutesInTolerance(j, d, policy)
  BY <1>1 DEF PassesHardGates, SameTerms, SubstitutesInTolerance
<1>5. CatalogPricesHonoured(d, y) /\ CatalogItemsKnown(d, y)
  BY <1>1
     DEF PassesHardGates, SameContent, SameSurroundings, CatalogPricesHonoured,
         CatalogItemsKnown, CatalogUsable, Published
<1>6. CartShapeSane(d)
  BY DEF PassesHardGates, SameContent, CartShapeSane
<1>7. QED
  BY <1>2, <1>3, <1>4, <1>5, <1>6 DEF PassesHardGates
=============================================================================
