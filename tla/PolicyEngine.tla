---------------------------- MODULE PolicyEngine ----------------------------
(***************************************************************************)
(* buyer/policy_engine.py: the pure function evaluate(intent, cart,        *)
(* merchant_policy, ctx, now).  Each gate is a predicate that holds when   *)
(* the gate passes.  Nothing here has state: the state machines that call  *)
(* Evaluate are EscalationLoop and BuySession.                             *)
(***************************************************************************)
EXTENDS Mandates, FiniteSets

CONSTANTS
  MaxCartLines,    \* MAX_CART_LINES: 20 in the code, smaller for TLC
  MaxUpsellLines   \* MAX_UPSELL_LINES: 1

ASSUME ShapeBoundsAssumption ==
  MaxCartLines \in Nat \ {0} /\ MaxUpsellLines \in Nat

-----------------------------------------------------------------------------
(* Helpers on the lines of a cart. *)

LinesOf(cart) == {cart.lines[i] : i \in DOMAIN cart.lines}

LinesSubtotal(lines) ==
  LET sum[i \in 0..Len(lines)] ==
        IF i = 0 THEN 0
        ELSE sum[i-1] + lines[i].unit_price_paise * lines[i].quantity
  IN  sum[Len(lines)]

\* CartMandate.computed_subtotal_paise.
ComputedSubtotal(cart) == LinesSubtotal(cart.lines)

-----------------------------------------------------------------------------
(* G0.x: structure and trust. *)

\* _g0_1_mandate_expired
NotExpired(intent, cart, now) == ~IsExpired(intent, now) /\ ~IsExpired(cart, now)

(***************************************************************************)
(* _g0_2_signature_invalid checks the two ENVELOPES of the context against *)
(* the signers named by the intent and the cart.  That the payload of an   *)
(* envelope is the intent or the cart being evaluated is not part of the   *)
(* gate.                                                                   *)
(***************************************************************************)
SignaturesValid(intent, cart, ctx) ==
  /\ EnvelopeVerifies(ctx.intent_envelope, ctx.key_directory, intent.principal_kid)
  /\ EnvelopeVerifies(ctx.cart_envelope, ctx.key_directory, cart.merchant_kid)

\* _g0_4_merchant_not_authorized
MerchantAuthorized(intent, cart) ==
  \/ intent.allowed_merchants = None
  \/ cart.merchant_id \in intent.allowed_merchants

\* _g0_5_agent_identity_unverified
AgentIdentified(ctx) == ctx.require_agent_identity => ctx.webbotauth_verified

-----------------------------------------------------------------------------
(* G1.1 to G4.3: provenance, arithmetic, hard constraints and budget. *)

\* _g1_1_provenance_insufficient: the provenance of the price of a line is
\* "absent", "inferred" (llm_inferred), "unverified" or "signed".
PricesSigned(cart) == \A line \in LinesOf(cart) : line.provenance = "signed"

\* _g2_1_cart_arithmetic_mismatch, CartMandate.arithmetic_consistent
ArithmeticConsistent(cart) ==
  /\ ComputedSubtotal(cart) = cart.subtotal_paise
  /\ cart.subtotal_paise + cart.tax_paise + cart.shipping_paise = cart.total_paise

\* _g3_1_hard_constraint_violated: lines flagged is_upsell are exempt.
\* Attributes are sets of key-value pairs.
HardConstraintsMet(intent, cart) ==
  \A line \in LinesOf(cart) :
    ~line.is_upsell =>
      /\ intent.category = None \/ line.category = intent.category
      /\ intent.required_attributes \subseteq line.attributes

\* _g3_2_category_not_allowed
NoExcludedCategory(intent, cart) ==
  \A line \in LinesOf(cart) : line.category \notin intent.excluded_categories

\* _g4_1_per_item_cap_exceeded
WithinPerItemCap(intent, cart) ==
  \A line \in LinesOf(cart) : line.unit_price_paise <= intent.per_item_paise

\* _g4_2_quantity_cap_exceeded: per line, not over the cart.
WithinQuantityCap(intent, cart) ==
  \A line \in LinesOf(cart) : line.quantity <= intent.max_quantity

\* _g4_3_budget_exceeded
WithinBudget(intent, cart) == cart.total_paise <= intent.total_paise

-----------------------------------------------------------------------------
(* G5.1 to G7.3: substitution, the merchant's policy and escalation. *)

Distance(x, y) == IF x < y THEN y - x ELSE x - y

\* _g5_1_substitution_out_of_tolerance, with |price - target| / target * 100
\* compared without the division; a target of zero is EngineRaises below.
SubstitutesInTolerance(intent, cart, policy) ==
  LET tolerance == LesserOf(intent.substitution_tolerance_pct,
                            policy.substitution_tolerance_pct)
      target    == intent.target_price_paise
  IN  \/ target = None
      \/ \A line \in LinesOf(cart) :
           line.is_substitute =>
             100 * Distance(line.unit_price_paise, target) <= tolerance * target

\* _g6_1_merchant_policy_conflict
MerchantPolicyMet(cart, policy) ==
  /\ cart.total_paise <= policy.max_order_value_paise
  /\ \A line \in LinesOf(cart) :
       /\ line.quantity <= policy.max_quantity_per_sku
       /\ line.category \notin policy.restricted_categories

\* Mistake to detect: the merchant's threshold replaces the human's.
MerchantThresholdOnly(intent, policy) == policy.escalation_threshold_paise

\* _g7_1_escalation_threshold: the tighter of the two thresholds wins.
EscalationThreshold(intent, policy) ==
  LesserOf(intent.escalate_above_paise, policy.escalation_threshold_paise)

\* Mistake to detect: the amount of the threshold itself escalates.
StrictlyBelowThreshold(intent, cart, policy) ==
  cart.total_paise < EscalationThreshold(intent, policy)

BelowEscalationThreshold(intent, cart, policy) ==
  cart.total_paise <= EscalationThreshold(intent, policy)

\* _g7_2_ambiguous_substitution
SubstitutionSettled(intent, cart) ==
  \/ \A line \in LinesOf(cart) : ~line.is_substitute
  \/ intent.substitutions_preapproved

\* _g7_3_low_confidence_interpretation
ConfidentInterpretation(ctx) == ~ctx.low_confidence_interpretation

-----------------------------------------------------------------------------
(***************************************************************************)
(* G8.x: the cart against the verified catalog of its merchant.  A catalog *)
(* is [merchant_id, entries], entries a function from the published SKUs   *)
(* to their price and category.                                            *)
(***************************************************************************)

\* _catalog_or_failure
CatalogUsable(cart, ctx) ==
  /\ ctx.merchant_catalog # None
  /\ ctx.merchant_catalog.merchant_id = cart.merchant_id

Published(ctx) == DOMAIN ctx.merchant_catalog.entries

\* Mistake to detect: the comparison the wrong way round.
ChargedAtLeastCatalogPrice(cart, ctx) ==
  /\ CatalogUsable(cart, ctx)
  /\ \A line \in LinesOf(cart) :
       line.sku \in Published(ctx) =>
         line.unit_price_paise >= ctx.merchant_catalog.entries[line.sku].price_paise

\* _g8_1_catalog_price_mismatch: a line may be charged below its published
\* price, never above; an unpublished SKU is the next gate's business.
CatalogPricesHonoured(cart, ctx) ==
  /\ CatalogUsable(cart, ctx)
  /\ \A line \in LinesOf(cart) :
       line.sku \in Published(ctx) =>
         line.unit_price_paise <= ctx.merchant_catalog.entries[line.sku].price_paise

\* _g8_2_catalog_item_unknown
CatalogItemsKnown(cart, ctx) ==
  /\ CatalogUsable(cart, ctx)
  /\ \A line \in LinesOf(cart) :
       /\ line.sku \in Published(ctx)
       /\ line.category = ctx.merchant_catalog.entries[line.sku].category

\* _g8_3_cart_shape_invalid
CartShapeSane(cart) ==
  /\ Len(cart.lines) \in 1..MaxCartLines
  /\ \A i, j \in DOMAIN cart.lines : cart.lines[i].sku = cart.lines[j].sku => i = j
  /\ Cardinality({i \in DOMAIN cart.lines : cart.lines[i].is_upsell}) <= MaxUpsellLines

-----------------------------------------------------------------------------
(* Evaluation. *)

\* The verdict of every gate under its reason code: TRUE when it passes.
Checks(intent, cart, policy, ctx, now) ==
  [ MANDATE_EXPIRED               |-> NotExpired(intent, cart, now),
    SIGNATURE_INVALID             |-> SignaturesValid(intent, cart, ctx),
    MANDATE_CHAIN_BROKEN          |-> ChainIntact(intent, cart),
    MERCHANT_NOT_AUTHORIZED       |-> MerchantAuthorized(intent, cart),
    AGENT_IDENTITY_UNVERIFIED     |-> AgentIdentified(ctx),
    PROVENANCE_INSUFFICIENT       |-> PricesSigned(cart),
    CART_ARITHMETIC_MISMATCH      |-> ArithmeticConsistent(cart),
    HARD_CONSTRAINT_VIOLATED      |-> HardConstraintsMet(intent, cart),
    CATEGORY_NOT_ALLOWED          |-> NoExcludedCategory(intent, cart),
    PER_ITEM_CAP_EXCEEDED         |-> WithinPerItemCap(intent, cart),
    QUANTITY_CAP_EXCEEDED         |-> WithinQuantityCap(intent, cart),
    BUDGET_EXCEEDED               |-> WithinBudget(intent, cart),
    SUBSTITUTION_OUT_OF_TOLERANCE |-> SubstitutesInTolerance(intent, cart, policy),
    MERCHANT_POLICY_CONFLICT      |-> MerchantPolicyMet(cart, policy),
    ESCALATION_THRESHOLD          |-> BelowEscalationThreshold(intent, cart, policy),
    AMBIGUOUS_SUBSTITUTION        |-> SubstitutionSettled(intent, cart),
    LOW_CONFIDENCE_INTERPRETATION |-> ConfidentInterpretation(ctx),
    CATALOG_PRICE_MISMATCH        |-> CatalogPricesHonoured(cart, ctx),
    CATALOG_ITEM_UNKNOWN          |-> CatalogItemsKnown(cart, ctx),
    CART_SHAPE_INVALID            |-> CartShapeSane(cart) ]

\* GATE_SEVERITY: the codes that escalate; every other code rejects.
EscalateCodes ==
  {"ESCALATION_THRESHOLD", "AMBIGUOUS_SUBSTITUTION", "LOW_CONFIDENCE_INTERPRETATION"}

\* A gate raises instead of returning: G5.1 divides by a zero target price.
EngineRaises(intent, cart) ==
  /\ intent.target_price_paise = 0
  /\ \E line \in LinesOf(cart) : line.is_substitute

\* evaluate: the outcome, and the codes of the gates that failed.
Evaluate(intent, cart, policy, ctx, now) ==
  LET checks == Checks(intent, cart, policy, ctx, now)
      failed == IF EngineRaises(intent, cart) THEN {"ENGINE_ERROR"}
                ELSE {code \in DOMAIN checks : ~checks[code]}
  IN  [ outcome |-> IF failed \subseteq EscalateCodes
                    THEN IF failed = {} THEN "APPROVED" ELSE "REQUIRES_HUMAN_APPROVAL"
                    ELSE "REJECTED",
        failed  |-> failed ]
=============================================================================
