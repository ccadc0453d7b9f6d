--------------------------- MODULE EscalationLoop ---------------------------
(***************************************************************************)
(* The buyer's library facing ANY merchant: negotiate, evaluate and, when  *)
(* the verdict is REQUIRES_HUMAN_APPROVAL, resolve_escalation, which signs *)
(* an amended intent, negotiates again and evaluates again.                *)
(*                                                                         *)
(* Nothing is assumed of the merchant's answers: either negotiation may    *)
(* bring any of Proposals, bound to any intent signed so far, signed by    *)
(* anyone, not at all, or before it was altered.  BuySession is the same   *)
(* loop inside a program, with the project's own merchant agent.           *)
(***************************************************************************)
EXTENDS Approval

CONSTANTS
  Intents,     \* intents the human may have signed
  Policies,    \* merchant policies
  Contexts,    \* what ctx holds besides the envelopes
  Proposals,   \* carts as the merchant may draw them up, not bound yet
  Signers,     \* kids of the keys that may sign an answer
  Now          \* the `now' of the caller, the same for every call it makes

\* The fields of the pydantic models that the gates read, of those of a
\* context, and the types of those that are computed with.  An IntentMandate
\* that does not expire after its issue is refused by its validator.
IntentFields ==
  {"mandate_id", "issued_at", "expires_at", "principal_kid", "allowed_merchants",
   "category", "required_attributes", "excluded_categories", "target_price_paise",
   "substitution_tolerance_pct", "substitutions_preapproved", "total_paise",
   "per_item_paise", "max_quantity", "escalate_above_paise"}

CartFields ==
  {"expires_at", "merchant_id", "merchant_kid", "intent_hash", "lines",
   "subtotal_paise", "tax_paise", "shipping_paise", "total_paise"}

ContextFields ==
  {"key_directory", "intent_envelope", "cart_envelope", "require_agent_identity",
   "webbotauth_verified", "low_confidence_interpretation", "merchant_catalog"}

ASSUME LoopAssumption ==
  /\ Now \in Int
  /\ \A i \in Intents : /\ IntentFields \subseteq DOMAIN i
                        /\ i.mandate_id \in Int /\ i.escalate_above_paise \in Int
                        /\ i.total_paise \in Int
                        /\ i.issued_at \in Int /\ i.expires_at \in Int
                        /\ i.issued_at < i.expires_at
                        /\ i.substitutions_preapproved \in BOOLEAN
  /\ \A p \in Policies : p.escalation_threshold_paise \in Int
  /\ \A c \in Proposals : /\ CartFields \subseteq DOMAIN c
                          /\ {c.total_paise, c.tax_paise, c.shipping_paise} \subseteq Int
                          /\ c.lines \in Seq(LinesOf(c))
                          /\ \A line \in LinesOf(c) :
                               line.unit_price_paise \in Int /\ line.quantity \in Nat
  /\ \A c \in Contexts :
       /\ ContextFields \subseteq DOMAIN c
       /\ c.merchant_catalog # None =>
            \A sku \in Published(c) : c.merchant_catalog.entries[sku].price_paise \in Int

VARIABLES
  stage,
  intent,          \* the arguments of resolve_escalation ...
  policy,
  ctx,
  cart,
  decision,
  resolution,      \* ... its result, None before
  new_cart         \* the cart of the second negotiation, local to the call

vars == <<stage, intent, policy, ctx, cart, decision, resolution, new_cart>>

-----------------------------------------------------------------------------
(* The merchant. *)

\* Envelopes in which a cart may arrive: unsigned, signed by some key, or
\* signed by some key and altered afterwards.
Envelopes(c) ==
  LET altered == [c EXCEPT !.total_paise = @ + 1]
  IN  {[payload |-> c, signatures |-> {}]}
        \cup {SignMandate(c, kid) : kid \in Signers}
        \cup {[payload |-> c, signatures |-> {[kid |-> kid, over |-> altered]}] :
                kid \in Signers}

\* The answers possible when `signed' are the intents the merchant has seen.
Answers(signed) ==
  UNION {Envelopes([p EXCEPT !.intent_hash = Digest(i)]) :
           p \in Proposals, i \in signed}

-----------------------------------------------------------------------------
(* The loop. *)

Init ==
  /\ stage = "negotiating"
  /\ intent \in Intents /\ policy \in Policies
  /\ \E c \in Contexts :
       ctx = [c EXCEPT !.intent_envelope = SignMandate(intent, intent.principal_kid)]
  /\ cart = None /\ decision = None /\ resolution = None /\ new_cart = None

\* negotiate: the merchant's first word ends it, a cart or a decline.
Negotiate ==
  /\ stage = "negotiating"
  /\ \E envelope \in Answers({intent}) :
       /\ cart' = envelope.payload
       /\ ctx' = [ctx EXCEPT !.cart_envelope = envelope]
  /\ stage' = "evaluating"
  /\ UNCHANGED <<intent, policy, decision, resolution, new_cart>>

MerchantDeclines ==
  /\ stage = "negotiating"
  /\ stage' = "ended"
  /\ UNCHANGED <<intent, policy, ctx, cart, decision, resolution, new_cart>>

\* Mistake to detect: whatever is not approved is put to the human.
EscalateUnlessApproved(verdict) ==
  IF verdict.outcome # "APPROVED" THEN "escalated" ELSE "ended"

\* resolve_escalation refuses any other outcome with a ValueError.
StageAfterVerdict(verdict) ==
  IF verdict.outcome = "REQUIRES_HUMAN_APPROVAL" THEN "escalated" ELSE "ended"

EvaluateCart ==
  /\ stage = "evaluating"
  /\ decision' = Evaluate(intent, cart, policy, ctx, Now)
  /\ stage' = StageAfterVerdict(decision')
  /\ UNCHANGED <<intent, policy, ctx, cart, resolution, new_cart>>

HumanDeclines ==
  /\ stage = "escalated"
  /\ resolution' = [approved |-> FALSE, amended_intent |-> None, final_decision |-> None]
  /\ stage' = "ended"
  /\ UNCHANGED <<intent, policy, ctx, cart, decision, new_cart>>

HumanAgrees ==
  /\ stage = "escalated"
  /\ resolution' =
       [approved |-> TRUE, final_decision |-> None,
        amended_intent |-> BuildAmendedIntent(intent, decision, cart, Now,
                                              intent.mandate_id + 1)]
  /\ stage' = "resolving"
  /\ UNCHANGED <<intent, policy, ctx, cart, decision, new_cart>>

\* The second negotiation and the second evaluation.
Reevaluate ==
  LET amended == resolution.amended_intent
  IN  /\ stage = "resolving"
      /\ \E envelope \in Answers({intent, amended}) :
           /\ new_cart' = envelope.payload
           /\ resolution' = [resolution EXCEPT !.final_decision =
                Evaluate(amended, envelope.payload, policy,
                         ResolvedContext(ctx, SignMandate(amended, amended.principal_kid),
                                         envelope),
                         Now)]
      /\ stage' = "ended"
      /\ UNCHANGED <<intent, policy, ctx, cart, decision>>

\* No second cart: the resolution says approved and has no decision.
DeclinesAmendedTerms ==
  /\ stage = "resolving"
  /\ stage' = "ended"
  /\ UNCHANGED <<intent, policy, ctx, cart, decision, resolution, new_cart>>

Ended == stage = "ended" /\ UNCHANGED vars

Next ==
  \/ Negotiate \/ MerchantDeclines \/ EvaluateCart
  \/ HumanDeclines \/ HumanAgrees \/ Reevaluate \/ DeclinesAmendedTerms
  \/ Ended

Spec == Init /\ [][Next]_vars

-----------------------------------------------------------------------------
(* Properties. *)

Outcomes == {"APPROVED", "REQUIRES_HUMAN_APPROVAL", "REJECTED"}

TypeOK ==
  /\ stage \in {"negotiating", "evaluating", "escalated", "resolving", "ended"}
  /\ intent \in Intents /\ policy \in Policies
  /\ decision = None \/ decision.outcome \in Outcomes
  /\ resolution # None => decision.outcome = "REQUIRES_HUMAN_APPROVAL"
  /\ new_cart # None =>
       stage = "ended" /\ resolution.final_decision.outcome \in Outcomes

\* A cart approved after an escalation.
ApprovedOnReview ==
  /\ new_cart # None
  /\ resolution.final_decision.outcome = "APPROVED"

\* A cart approved at once.
ApprovedAtOnce == decision # None /\ decision.outcome = "APPROVED"

(***************************************************************************)
(* The human's yes covers what the human was asked about, and nothing      *)
(* else: whatever the ORIGINAL terms have against the cart that is finally *)
(* approved was among the reasons shown with the cart the human saw.       *)
(* build_amended_intent must lift only the gates that escalated, for every *)
(* cart a merchant may bring next, and must never lift one that rejects.   *)
(***************************************************************************)
ObjectionsOfOriginalTerms ==
  LET envelope == SignMandate([new_cart EXCEPT !.intent_hash = Digest(intent)],
                              new_cart.merchant_kid)
  IN  Evaluate(intent, envelope.payload, policy,
               [ctx EXCEPT !.cart_envelope = envelope], Now).failed

YesCoversOnlyWhatWasAsked ==
  ApprovedOnReview => ObjectionsOfOriginalTerms \subseteq decision.failed

\* Spending without being asked stays under both original thresholds, and
\* spending after being asked under the amount the human saw.
NoUnseenSpending ==
  /\ ApprovedAtOnce => cart.total_paise <= EscalationThreshold(intent, policy)
  /\ ApprovedOnReview =>
       new_cart.total_paise <= GreaterOf(EscalationThreshold(intent, policy),
                                         cart.total_paise)

\* Whatever the merchant signs, an approved cart charges no more for its
\* goods than the verified catalog publishes for them.
PublishedPrice(c) ==
  LET sum[i \in 0..Len(c.lines)] ==
        IF i = 0 THEN 0
        ELSE sum[i-1] + ctx.merchant_catalog.entries[c.lines[i].sku].price_paise
                        * c.lines[i].quantity
  IN  sum[Len(c.lines)]

ApprovedPaysPublishedPrices ==
  \A c \in (IF ApprovedAtOnce THEN {cart} ELSE {})
             \cup (IF ApprovedOnReview THEN {new_cart} ELSE {}) :
    /\ \A line \in LinesOf(c) : line.sku \in Published(ctx)
    /\ c.total_paise - c.tax_paise - c.shipping_paise <= PublishedPrice(c)

\* A cart the merchant drew up for the original terms cannot be passed off
\* under the amended ones, whatever the human agreed to.
StaleCartNotReused ==
  ApprovedOnReview => new_cart # cart /\ new_cart.intent_hash # Digest(intent)

(***************************************************************************)
(* Asked once is enough: when the merchant answers the amended intent with *)
(* the very content the human saw, bound and signed as it should be, the   *)
(* purchase is approved, provided the merchant's own threshold is not the  *)
(* one that was exceeded.                                                  *)
(***************************************************************************)
SameContentAgain ==
  /\ new_cart # None
  /\ new_cart = [cart EXCEPT !.intent_hash = Digest(resolution.amended_intent)]
  /\ "SIGNATURE_INVALID" \notin resolution.final_decision.failed

AgreementSettles ==
  SameContentAgain /\ cart.total_paise <= policy.escalation_threshold_paise =>
    resolution.final_decision.outcome = "APPROVED"

\* approval.py: the approved amount stops tripping G7.1.
AgreedAmountStopsTripping ==
  new_cart # None /\ new_cart.total_paise <= cart.total_paise =>
    \/ "ESCALATION_THRESHOLD" \notin decision.failed
    \/ "ESCALATION_THRESHOLD" \notin resolution.final_decision.failed
=============================================================================
