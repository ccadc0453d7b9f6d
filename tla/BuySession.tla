----------------------------- MODULE BuySession -----------------------------
(***************************************************************************)
(* demo/interactive_buy.py: one buying session from the interpreted        *)
(* request to the reconciled order, with the MerchantAgentDriver of        *)
(* merchant_agent on the other side and a human at the two prompts.        *)
(*                                                                         *)
(* `now' is read once, before the session starts, and is Start here; the   *)
(* clock of the world goes on while the human thinks.                      *)
(***************************************************************************)
EXTENDS Approval, MerchantAgent

CONSTANTS
  Requests,         \* what interpret can make of a request with a budget
  ReviewAnswers,    \* what AIReviewer can answer at the review
  Policy,           \* the merchant policy in force: _permissive_policy
  HumanKid,         \* thumbprint of the human's key
  IntentValidity,   \* DEFAULT_VALIDITY of an intent
  MaxClock          \* bound: how long the human can think, for TLC

ASSUME SessionAssumption ==
  /\ \A r \in Requests : /\ r.total_paise \in Nat \ {0}
                         /\ r.per_item_paise \in Nat \cup {None}
  /\ \A a \in ReviewAnswers : a.escalate_above_paise \in Int \cup {None}
  /\ None \notin Int
  /\ Policy.escalation_threshold_paise \in Int
  /\ Policy.max_order_value_paise \in Int
  /\ Policy.restricted_categories = {}
  /\ IntentValidity \in Nat \ {0}
  /\ MaxClock \in Nat

Start == 0

VARIABLES
  stage,            \* the line of main the session has reached
  intent,           \* the intent the session works with
  intent_envelope,
  offer_made,       \* the driver's _offer_made
  cart_envelope,    \* current_cart_envelope, later chosen_envelope
  cart,             \* cart, later chosen_cart
  alternatives,     \* negotiation.alternative_envelopes
  decision,         \* the latest decision that counts
  resolution,       \* the EscalationResolution, None before
  suggestion,       \* alt_cart on the buy screen, None without one
  orders,           \* the orders Razorpay holds
  artifact,         \* the DisputeArtifact, None before
  minted,           \* how many mandate ids have been drawn
  clock,            \* the world's clock
  \* For the properties only:
  granted,          \* the intent the human signed first
  signed,           \* the intent the human signed last
  evaluated,        \* every evaluation that counted: intent, cart, outcome
  agreed,           \* the carts the human agreed to when asked
  picked            \* the cart the human picked on the buy screen

world      == <<intent, intent_envelope>>
session    == <<cart_envelope, cart, alternatives, decision>>
outcomes   == <<orders, artifact>>
history    == <<granted, signed, evaluated, agreed, picked>>
vars == <<stage, world, offer_made, session, resolution, suggestion, outcomes,
          minted, clock, history>>

-----------------------------------------------------------------------------
(* The intent: interpret, AIReviewer, _apply_review_answers. *)

\* interpret: a draft has no tripwire, which is a tripwire at the total, and
\* a per-item cap that is unstated or above the total becomes the total.
Draft(request) ==
  [mandate_id |-> 1, issued_at |-> Start, expires_at |-> Start + IntentValidity,
   principal_kid |-> HumanKid, allowed_merchants |-> {MerchantId},
   category |-> request.category,
   required_attributes |-> request.required_attributes,
   excluded_categories |-> request.excluded_categories,
   target_price_paise |-> None, substitution_tolerance_pct |-> 10,
   substitutions_preapproved |-> FALSE,
   total_paise |-> request.total_paise,
   per_item_paise |-> IF request.per_item_paise \in {None, 0} THEN request.total_paise
                      ELSE LesserOf(request.per_item_paise, request.total_paise),
   max_quantity |-> 1,
   escalate_above_paise |-> request.total_paise]

\* Mistake to detect: an answer without a tripwire overwrites the draft's.
AnswersReplaceDraft(draft, answers) ==
  [draft EXCEPT !.escalate_above_paise = answers.escalate_above_paise,
                !.substitutions_preapproved = answers.substitutions_ok]

\* AIReviewer.review caps the tripwire at the total; model_copy then writes
\* it unvalidated, so a negative tripwire gets through.  The tolerance answer
\* is left out: this driver's carts hold no substitutes.
ApplyReviewAnswers(draft, answers) ==
  [draft EXCEPT
     !.escalate_above_paise =
        IF answers.escalate_above_paise = None THEN @
        ELSE LesserOf(answers.escalate_above_paise, draft.total_paise),
     !.substitutions_preapproved = answers.substitutions_ok]

-----------------------------------------------------------------------------
(* Evaluation of an offer. *)

\* The VerificationContext the session builds for every evaluation.
Context(intentEnvelope, cartEnvelope) ==
  [key_directory |-> {HumanKid, MerchantKid},
   intent_envelope |-> intentEnvelope, cart_envelope |-> cartEnvelope,
   require_agent_identity |-> FALSE, webbotauth_verified |-> FALSE,
   low_confidence_interpretation |-> FALSE,
   merchant_catalog |-> [merchant_id |-> MerchantId, entries |-> Catalog]]

\* evaluate on a cart, with an envelope to verify.
Verdict(c, envelope) ==
  Evaluate(intent, c, Policy, Context(intent_envelope, envelope), Start)

\* The stage that follows the verdict on the cart the session works with.
StageAfter(verdict) ==
  CASE verdict.outcome = "APPROVED"                -> "suggesting"
    [] verdict.outcome = "REQUIRES_HUMAN_APPROVAL" -> "escalated"
    [] verdict.outcome = "REJECTED"                -> "rejected"

Evaluated(i, c, verdict) ==
  /\ evaluated' = evaluated \cup {[intent |-> i, cart |-> c, outcome |-> verdict.outcome]}
  /\ UNCHANGED <<granted, signed, agreed, picked>>

-----------------------------------------------------------------------------
(* The session, in the order of main. *)

Init ==
  /\ stage = "interpreting"
  /\ intent = None /\ intent_envelope = None
  /\ offer_made = FALSE
  /\ cart_envelope = None /\ cart = None /\ alternatives = <<>>
  /\ decision = None /\ resolution = None /\ suggestion = None
  /\ orders = {} /\ artifact = None
  /\ minted = 0 /\ clock = Start
  /\ granted = None /\ signed = None /\ evaluated = {} /\ agreed = {}
  /\ picked = None

\* No budget could be obtained (conduct_review gives up), or the LLM failed.
NothingToSign ==
  /\ stage = "interpreting"
  /\ stage' = "unsigned"
  /\ UNCHANGED <<world, offer_made, session, resolution, suggestion, outcomes,
                 minted, clock, history>>

\* interpret or conduct_review, then sign_mandate.
SignIntent ==
  /\ stage = "interpreting"
  /\ \E request \in Requests, answers \in ReviewAnswers :
       intent' = ApplyReviewAnswers(Draft(request), answers)
  /\ intent_envelope' = SignMandate(intent', HumanKid)
  /\ minted' = 1
  /\ granted' = intent' /\ signed' = intent'
  /\ stage' = "negotiating"
  /\ UNCHANGED <<offer_made, session, resolution, suggestion, outcomes, clock,
                 evaluated, agreed, picked>>

(***************************************************************************)
(* negotiate(mandate, merchant_driver=driver): one turn, in which the      *)
(* driver proposes a cart or, when nothing in the catalog matches,         *)
(* declines.  A proposal draws mandate ids and may use up the offer.       *)
(***************************************************************************)
ProposalFor(mandate) == Proposal(mandate, offer_made, Start, minted)

Proposed(mandate) ==
  /\ MatchingItems(mandate) # {}
  /\ offer_made' = (offer_made \/ MakesOffer(mandate, offer_made))
  /\ minted' = minted + Minted(mandate, offer_made)

Negotiate ==
  /\ stage = "negotiating"
  /\ Proposed(intent)
  /\ cart_envelope' = ProposalFor(intent).cart_envelope
  /\ alternatives' = ProposalFor(intent).alternative_envelopes
  /\ cart' = cart_envelope'.payload
  /\ stage' = "evaluating"
  /\ UNCHANGED <<world, decision, resolution, suggestion, outcomes, clock, history>>

\* The intent of the negotiation the session is about to start.
NegotiatedIntent ==
  IF stage = "negotiating" THEN intent ELSE resolution.amended_intent

\* Each of the three negotiations of main ends the session when declined.
MerchantDeclines ==
  /\ stage \in {"negotiating", "resolving", "recovering"}
  /\ MatchingItems(NegotiatedIntent) = {}
  /\ stage' = "ended"
  /\ UNCHANGED <<world, offer_made, session, resolution, suggestion, outcomes,
                 minted, clock, history>>

EvaluatePrimary ==
  /\ stage = "evaluating"
  /\ decision' = Verdict(cart, cart_envelope)
  /\ stage' = StageAfter(decision')
  /\ Evaluated(intent, cart, decision')
  /\ UNCHANGED <<world, offer_made, cart_envelope, cart, alternatives, resolution,
                 suggestion, outcomes, minted, clock>>

-----------------------------------------------------------------------------
(* The primary was rejected: the first alternative that is not. *)

\* Position k of the alternatives is the first that passes a test: where
\* main's loops over them stop.
IsFirst(k, Test(_)) ==
  /\ Test(alternatives[k])
  /\ \A j \in 1..(k - 1) : ~Test(alternatives[j])

Acceptable(envelope) == Verdict(envelope.payload, envelope).outcome # "REJECTED"

FallBack ==
  /\ stage = "rejected"
  /\ \E k \in DOMAIN alternatives :
       /\ IsFirst(k, Acceptable)
       /\ cart_envelope' = alternatives[k]
       /\ cart' = alternatives[k].payload
  /\ decision' = Verdict(cart', cart_envelope')
  /\ stage' = StageAfter(decision')
  /\ Evaluated(intent, cart', decision')
  /\ UNCHANGED <<world, offer_made, alternatives, resolution, suggestion,
                 outcomes, minted, clock>>

NoFallBack ==
  /\ stage = "rejected"
  /\ \A k \in DOMAIN alternatives : ~Acceptable(alternatives[k])
  /\ stage' = "ended"
  /\ UNCHANGED <<world, offer_made, session, resolution, suggestion, outcomes,
                 minted, clock, history>>

-----------------------------------------------------------------------------
(* resolve_escalation, and the recovery of the cart it approved. *)

HumanDeclines ==
  /\ stage = "escalated"
  /\ stage' = "ended"
  /\ UNCHANGED <<world, offer_made, session, resolution, suggestion, outcomes,
                 minted, clock, history>>

\* The approver says yes: build_amended_intent and sign_mandate.
HumanAgrees ==
  /\ stage = "escalated"
  /\ LET amended == BuildAmendedIntent(intent, decision, cart, Start, minted + 1)
     IN  resolution' = [amended_intent   |-> amended,
                        amended_envelope |-> SignMandate(amended, HumanKid),
                        final_decision   |-> None]
  /\ minted' = minted + 1
  /\ signed' = resolution'.amended_intent
  /\ agreed' = agreed \cup {cart}
  /\ stage' = "resolving"
  /\ UNCHANGED <<world, offer_made, session, suggestion, outcomes, clock,
                 granted, evaluated, picked>>

(***************************************************************************)
(* The rest of resolve_escalation: a fresh negotiation on the amended      *)
(* intent and a fresh evaluation of its cart, which goes out of scope when *)
(* the function returns.  On anything but an approval the session ends.    *)
(***************************************************************************)
Reevaluate ==
  LET amended  == resolution.amended_intent
      envelope == ProposalFor(amended).cart_envelope
      verdict  == Evaluate(amended, envelope.payload, Policy,
                           ResolvedContext(Context(intent_envelope, cart_envelope),
                                           resolution.amended_envelope, envelope),
                           Start)
  IN  /\ stage = "resolving"
      /\ Proposed(amended)
      /\ resolution' = [amended_intent   |-> amended,
                         amended_envelope |-> resolution.amended_envelope,
                         final_decision   |-> verdict]
      /\ stage' = IF verdict.outcome = "APPROVED" THEN "recovering" ELSE "ended"
      /\ Evaluated(amended, envelope.payload, verdict)
      /\ UNCHANGED <<world, session, suggestion, outcomes, clock>>

\* Mistake to detect: the verdict is adopted without the mandate it is about.
AdoptVerdictOnly == decision' = resolution.final_decision /\ UNCHANGED world

AdoptResolution ==
  /\ decision' = resolution.final_decision
  /\ intent' = resolution.amended_intent
  /\ intent_envelope' = resolution.amended_envelope

(***************************************************************************)
(* "Could not recover the approved cart": the resolution carries a verdict *)
(* but not the cart it was passed on, so main negotiates a third time and  *)
(* pairs the verdict with whatever cart comes back.                        *)
(***************************************************************************)
RecoverCart ==
  LET proposal == ProposalFor(resolution.amended_intent)
  IN  /\ stage = "recovering"
      /\ Proposed(resolution.amended_intent)
      /\ AdoptResolution
      /\ cart_envelope' = proposal.cart_envelope
      /\ cart' = proposal.cart_envelope.payload
      /\ alternatives' = proposal.alternative_envelopes
      /\ stage' = "suggesting"
      /\ UNCHANGED <<resolution, suggestion, outcomes, clock, history>>

-----------------------------------------------------------------------------
(* The buy screen. *)

\* SUGGESTION_THRESHOLD: a suggestion may cost half as much again as the
\* budget.  A suggestion is shown whatever its evaluation says.
Suggestible(envelope) ==
  /\ envelope.payload # cart_envelope.payload
  /\ 2 * envelope.payload.total_paise <= 3 * intent.total_paise

\* The loop over the alternatives stops at the first suggestible one.
Suggest ==
  /\ stage = "suggesting"
  /\ \/ \E k \in DOMAIN alternatives :
          IsFirst(k, Suggestible) /\ suggestion' = alternatives[k].payload
     \/ /\ \A k \in DOMAIN alternatives : ~Suggestible(alternatives[k])
        /\ suggestion' = None
  /\ stage' = "choosing"
  /\ UNCHANGED <<world, offer_made, session, resolution, outcomes, minted, clock,
                 history>>

\* Choice "n".
CancelPurchase ==
  /\ stage = "choosing"
  /\ stage' = "ended"
  /\ UNCHANGED <<world, offer_made, session, resolution, suggestion, outcomes,
                 minted, clock, history>>

\* Choice "1".
BuyPrimary ==
  /\ stage = "choosing"
  /\ picked' = cart
  /\ stage' = "executing"
  /\ UNCHANGED <<world, offer_made, session, resolution, suggestion, outcomes,
                 minted, clock, granted, signed, evaluated, agreed>>

\* Mistakes to detect: the suggestion is taken whatever the verdict, with the
\* primary's decision or with its own; the approved one is not taken over.
SuggestionTakenAnyway(envelope, verdict) ==
  cart' = suggestion /\ cart_envelope' = envelope /\ UNCHANGED decision

SuggestionTakenAsJudged(envelope, verdict) ==
  cart' = suggestion /\ cart_envelope' = envelope /\ decision' = verdict

PrimaryKept(envelope, verdict) == UNCHANGED <<cart, cart_envelope, decision>>

SuggestionIfApproved(envelope, verdict) ==
  IF verdict.outcome = "APPROVED"
  THEN cart' = suggestion /\ cart_envelope' = envelope /\ decision' = verdict
  ELSE UNCHANGED <<cart, cart_envelope, decision>>

(***************************************************************************)
(* Choice "2": the suggestion is evaluated again, with the envelope of the *)
(* FIRST alternative.  When it does not pass, the primary is bought.       *)
(***************************************************************************)
BuySuggestion ==
  LET envelope == alternatives[1]
      verdict  == Verdict(suggestion, envelope)
  IN  /\ stage = "choosing" /\ suggestion # None
      /\ SuggestionIfApproved(envelope, verdict)
      /\ picked' = suggestion
      /\ evaluated' = evaluated \cup {[intent |-> intent, cart |-> suggestion,
                                      outcome |-> verdict.outcome]}
      /\ stage' = "executing"
      /\ UNCHANGED <<world, offer_made, alternatives, resolution, suggestion,
                     outcomes, minted, clock, granted, signed, agreed>>

-----------------------------------------------------------------------------
(* execute and reconcile_capture. *)

\* The order execute asks for: its notes hold the hashes of intent and cart.
NewOrder == [amount_paise |-> cart.total_paise, intent_hash |-> Digest(intent),
             cart_hash |-> Digest(cart), placed_at |-> clock]

\* execute: ExecutionRefused unless the decision is an approval.
Execute ==
  /\ stage = "executing"
  /\ IF decision.outcome = "APPROVED"
     THEN orders' = orders \cup {NewOrder} /\ stage' = "reconciling"
     ELSE stage' = "refused" /\ UNCHANGED orders
  /\ UNCHANGED <<world, offer_made, session, resolution, suggestion, artifact,
                 minted, clock, history>>

\* create_order raises although Razorpay has made the order: main ends
\* without a PaymentMandate, and nothing but the order's notes tells whose
\* order it is.
AnswerLost ==
  /\ stage = "executing" /\ decision.outcome = "APPROVED"
  /\ orders' = orders \cup {NewOrder}
  /\ stage' = "unanswered"
  /\ UNCHANGED <<world, offer_made, session, resolution, suggestion, artifact,
                 minted, clock, history>>

\* A call of the Razorpay client raises to no effect: main ends, with no
\* order when it was create_order and with no artifact when it was a fetch.
ClientRaises ==
  /\ \/ stage = "executing" /\ decision.outcome = "APPROVED"
     \/ stage = "reconciling"
  /\ stage' = IF stage = "executing" THEN "ended" ELSE "ordered"
  /\ UNCHANGED <<world, offer_made, session, resolution, suggestion, outcomes,
                 minted, clock, history>>

\* reconcile_capture keeps the envelope it is given as the evidence, next to
\* the total of the cart it is given.
Reconcile ==
  /\ stage = "reconciling"
  /\ artifact' = [cart_envelope |-> cart_envelope,
                  signed_amount_paise |-> cart.total_paise,
                  orders |-> orders]
  /\ stage' = "ordered"
  /\ UNCHANGED <<world, offer_made, session, resolution, suggestion, orders,
                 minted, clock, history>>

\* Time passes while a prompt waits for the human.
HumanThinks ==
  /\ stage \in {"escalated", "choosing"}
  /\ clock < MaxClock
  /\ clock' = clock + 1
  /\ UNCHANGED <<stage, world, offer_made, session, resolution, suggestion,
                 outcomes, minted, history>>

Ended ==
  /\ stage \in {"unsigned", "ended", "refused", "unanswered", "ordered"}
  /\ UNCHANGED vars

Next ==
  \/ NothingToSign \/ SignIntent
  \/ Negotiate \/ MerchantDeclines \/ EvaluatePrimary
  \/ FallBack \/ NoFallBack
  \/ HumanDeclines \/ HumanAgrees \/ Reevaluate \/ RecoverCart
  \/ Suggest \/ CancelPurchase \/ BuyPrimary \/ BuySuggestion
  \/ Execute \/ AnswerLost \/ ClientRaises \/ Reconcile
  \/ HumanThinks
  \/ Ended

Spec == Init /\ [][Next]_vars

-----------------------------------------------------------------------------
(* Properties. *)

\* The stages of a session.
Stages ==
  {"interpreting", "negotiating", "evaluating", "rejected", "escalated",
   "resolving", "recovering", "suggesting", "choosing", "executing",
   "reconciling", "ordered", "unsigned", "unanswered", "refused", "ended"}

\* What a cart promises, whichever mandate carries it.
Content(c) == [lines |-> c.lines, total_paise |-> c.total_paise,
               merchant_id |-> c.merchant_id]

HasSigned == stage \notin {"interpreting", "unsigned"}

\* Types; an intent and a cart have amounts once there is one.
TypeOK ==
  /\ stage \in Stages
  /\ offer_made \in BOOLEAN
  /\ minted \in Nat
  /\ clock \in Start..MaxClock
  /\ HasSigned =>
       intent.total_paise \in Nat /\ intent.escalate_above_paise \in Int
  /\ stage \notin {"interpreting", "unsigned", "negotiating", "ended"} =>
       cart.total_paise \in Nat
  /\ \A o \in orders : o.amount_paise \in Nat

\* The order names the intent the human signed LAST and a cart that answers
\* that very intent: execute gets its three arguments from variables that
\* the fallback, the recovery and choice "2" each reassign in part.
OrderBindsTheChain ==
  \A o \in orders :
    /\ o.intent_hash = Digest(signed)
    /\ o.cart_hash = Digest(cart)
    /\ cart.intent_hash = o.intent_hash

\* An order above the tripwire the human set at first was put to the human,
\* who agreed to that amount or more: the amended intent may not open a way
\* to spend more than the cart on the approval screen.
TripwireHonoured ==
  \A o \in orders :
    \/ o.amount_paise <= granted.escalate_above_paise
    \/ \E c \in agreed : o.amount_paise <= c.total_paise

\* What is ordered was approved by an evaluation under the intent in force.
\* After an escalation the verdict was passed on another mandate, so this
\* rests on the driver proposing the same content to the same constraints.
OrderedContentApproved ==
  orders # {} =>
    \E e \in evaluated :
      /\ e.outcome = "APPROVED"
      /\ e.intent = signed
      /\ Content(e.cart) = Content(cart)

\* The order never costs more than the option the human picked, although
\* picking the suggestion ends in buying the primary when the suggestion
\* does not pass its evaluation.
PaysAtMostThePick ==
  \A o \in orders : o.amount_paise <= picked.total_paise

\* execute is never called on a decision that is not an approval.
NeverRefused == stage # "refused"

\* The session implements SpendingAuthority: the limits in force are those
\* of the intent signed last, and they rise only to an amount agreed to.
Authority == INSTANCE SpendingAuthority WITH
  signed   <- HasSigned,
  limit    <- IF HasSigned THEN signed.total_paise ELSE 0,
  tripwire <- IF HasSigned THEN signed.escalate_above_paise ELSE 0,
  agreed   <- {c.total_paise : c \in agreed},
  spent    <- {o.amount_paise : o \in orders}

ImplementsSpendingAuthority == Authority!Spec

-----------------------------------------------------------------------------
(* What the documentation says and the session does not keep. *)

\* recon.py: a DisputeArtifact carries the signed bytes of the cart.
EvidenceIsTheOrderedCart ==
  artifact # None =>
    \A o \in artifact.orders : o.cart_hash = Digest(artifact.cart_envelope.payload)

\* execute.py: no order without a passing evaluate() immediately before it.
\* The mandate ordered is one that was evaluated and approved.
OrderedMandateEvaluated ==
  \A o \in orders :
    \E e \in evaluated :
      e.outcome = "APPROVED" /\ o.cart_hash = Digest(e.cart)

\* README, G0.1: a mandate whose expires_at has passed is rejected.
OrderedBeforeExpiry ==
  \A o \in orders : ~IsExpired(cart, o.placed_at)
=============================================================================
