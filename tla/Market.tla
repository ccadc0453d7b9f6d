------------------------------- MODULE Market -------------------------------
(***************************************************************************)
(* The buyers on top of Onboarding: shop_around over the merchants that    *)
(* are onboarded, and web_demo/server.py, whose requests come one at a     *)
(* time.  /api/negotiate drafts and signs an intent, negotiates, may       *)
(* replace the cart by a basket of what the request names, and shows a     *)
(* page.  /api/execute is sent later, with SKUs and quantities, and the    *)
(* server signs a cart of those and pays it.                               *)
(*                                                                         *)
(* All mandates of a request are of one instant, Now.                      *)
(***************************************************************************)
EXTENDS Onboarding, Shopping

CONSTANTS
  Drafts,     \* what interpret can make of a request
  Quantities  \* quantities a client can send

\* A target price, where there is one, is not negative (mandates/schemas.py).
ASSUME MarketAssumption ==
  /\ IsFiniteSet(Merchants)
  /\ \A draft \in Drafts : draft.target_price_paise \in Nat \cup {None}

VARIABLES
  result, \* what the last request returned, None once it is read
  \* For the properties only:
  shown   \* merchant |-> the prices this server has shown, None before

marketVars == <<onboardingVars, result, shown>>

Now == 0

EndpointOf(m) ==
  [merchant_id |-> m, kid |-> cache[m].kid, keys |-> cache[m].keys,
   entries |-> cache[m].catalog]

Onboarded == {m \in Merchants : cache[m] # None}

Idle == run = None /\ result = None

MarketInit ==
  OnboardingInit /\ result = None /\ shown = [m \in Merchants |-> None]

-----------------------------------------------------------------------------
(* Shopping around. *)

\* The cart of a driver with the default settings.
HonestOffer(endpoint, intent) ==
  IF Agent(endpoint, 0)!MatchingItems(intent) = {} THEN None
  ELSE Agent(endpoint, 0)!Proposal(intent, TRUE, Now, 0).cart_envelope

\* A driver is the merchant's own program: it may sign a price above the one
\* it publishes.
SurchargedOffer(endpoint, intent) ==
  LET cart == HonestOffer(endpoint, intent).payload
      dear == [cart.lines[1] EXCEPT !.unit_price_paise = @ + 1]
  IN  SignMandate([cart EXCEPT !.lines = <<dear>>, !.subtotal_paise = dear.unit_price_paise,
                               !.total_paise = dear.unit_price_paise],
                  endpoint.kid)

Offers(m, intent) ==
  LET honest == HonestOffer(EndpointOf(m), intent)
  IN  IF honest = None THEN {None} ELSE {honest, SurchargedOffer(EndpointOf(m), intent)}

Shop(intent) ==
  /\ Idle /\ Onboarded # {}
  /\ \E envelopes \in {f \in [Onboarded -> UNION {Offers(m, intent) : m \in Onboarded}] :
                         \A m \in Onboarded : f[m] \in Offers(m, intent)} :
       LET endpoints == [i \in 1..Cardinality(Onboarded) |-> EndpointOf(SetToSeq(Onboarded)[i])]
       IN  result' = [kind |-> "shopped", intent |-> intent,
                      shopped |-> ShopAround(endpoints, intent, envelopes, Now)]
  /\ UNCHANGED <<onboardingVars, shown>>

-----------------------------------------------------------------------------
(* /api/negotiate *)

\* The intent the server invents and signs when interpret gives none.
FallbackIntent(m, category) ==
  [mandate_id |-> 0, issued_at |-> Now, expires_at |-> Now + 1, principal_kid |-> "human",
   category |-> category, required_attributes |-> {}, excluded_categories |-> {},
   target_price_paise |-> None, preferred_brands |-> {},
   substitution_tolerance_pct |-> 10, substitutions_preapproved |-> FALSE,
   total_paise |-> 5, per_item_paise |-> 5, max_quantity |-> 5,
   escalate_above_paise |-> 5, allowed_merchants |-> {m}]

IntentsOf(m) ==
  {[draft EXCEPT !.allowed_merchants = {m}] : draft \in Drafts}
  \cup {FallbackIntent(m, cache[m].catalog[sku].category) : sku \in DOMAIN cache[m].catalog}

\* A cart the server itself signs with the merchant's key.
ServerCart(endpoint, lines, intentHash) ==
  LET total == ComputedSubtotal([lines |-> lines])
  IN  SignMandate(
        [mandate_id |-> 0, issued_at |-> Now, expires_at |-> Now + 1,
         merchant_id |-> endpoint.merchant_id, merchant_kid |-> endpoint.kid,
         intent_hash |-> intentHash, lines |-> lines, subtotal_paise |-> total,
         tax_paise |-> 0, shipping_paise |-> 0, total_paise |-> total],
        endpoint.kid)

\* One line for every item a phrase of the request matches.
BasketLines(endpoint, skus) ==
  LET order == SetToSeq(skus)
  IN  [i \in DOMAIN order |-> Agent(endpoint, 1)!ItemLine(order[i], FALSE)]

SkusIn(envelope) == {line.sku : line \in LinesOf(envelope.payload)}

\* The first alternative that offers something the cart has not; with the
\* cart as negotiated, the first one.
AlternativeTo(envelope, alternatives, replaced) ==
  LET fresh == {k \in DOMAIN alternatives :
                  replaced => ~(SkusIn(alternatives[k]) \subseteq SkusIn(envelope))}
  IN  IF fresh = {} THEN None ELSE alternatives[Min(fresh)]

\* Mistake to detect: the verdict on the cart that was negotiated stays when
\* a basket takes its place.
JudgedOnce(endpoint, intent, envelope, negotiated) ==
  VerdictOn(endpoint, intent, negotiated, Now).outcome

Judged(endpoint, intent, envelope, negotiated) ==
  VerdictOn(endpoint, intent, envelope, Now).outcome

(***************************************************************************)
(* asksItems: phrases were found in the request; skus: what they match.    *)
(* When the driver declines, the handler reads an envelope that is not     *)
(* there and answers with an error.                                        *)
(***************************************************************************)
Page(m, intent, asksItems, skus) ==
  LET endpoint   == EndpointOf(m)
      agent      == Agent(endpoint, 1)!Proposal(intent, FALSE, Now, 0)
      envelope   == IF asksItems
                    THEN ServerCart(endpoint, BasketLines(endpoint, skus), Digest(intent))
                    ELSE agent.cart_envelope
      others     == IF asksItems /\ skus = {} THEN <<>> ELSE agent.alternative_envelopes
      other      == AlternativeTo(envelope, others, asksItems)
  IN  [kind |-> "page", merchant |-> m, intent |-> intent, cart |-> envelope,
       outcome |-> Judged(endpoint, intent, envelope, agent.cart_envelope),
       alternative |-> other,
       alternative_outcome |->
         IF other = None THEN None ELSE Judged(endpoint, intent, other, agent.cart_envelope)]

WebNegotiate(m, intent, asksItems, skus) ==
  /\ Idle /\ cache[m] # None
  /\ intent \in IntentsOf(m) /\ skus \subseteq DOMAIN cache[m].catalog
  /\ skus # {} => asksItems
  /\ IF Agent(EndpointOf(m), 1)!MatchingItems(intent) = {}
     THEN result' = [kind |-> "error"] /\ UNCHANGED shown
     ELSE /\ result' = Page(m, intent, asksItems, skus)
          /\ shown' = [shown EXCEPT ![m] = [sku \in DOMAIN cache[m].catalog |->
                                               cache[m].catalog[sku].price_paise]]
  /\ UNCHANGED onboardingVars

-----------------------------------------------------------------------------
(* /api/execute *)

\* The lines of the SKUs sent; one the catalog does not have is dropped.
SelectedLines(endpoint, selected) ==
  LET found == SetToSeq(DOMAIN selected \cap DOMAIN endpoint.entries)
  IN  [i \in DOMAIN found |->
         [Agent(endpoint, 1)!ItemLine(found[i], FALSE) EXCEPT !.quantity = selected[found[i]]]]

\* No intent takes part, and nothing is evaluated: the order is for the cart
\* the server has just signed.
WebExecute(m, selected) ==
  /\ Idle /\ cache[m] # None
  /\ LET lines == SelectedLines(EndpointOf(m), selected)
     IN  result' = IF lines = <<>> THEN [kind |-> "error"]
                   ELSE [kind |-> "executed", merchant |-> m,
                         cart |-> ServerCart(EndpointOf(m), lines, "exec-hash")]
  /\ UNCHANGED <<onboardingVars, shown>>

-----------------------------------------------------------------------------

\* The response is read before the next request.
Answered == result # None /\ result' = None /\ UNCHANGED <<onboardingVars, shown>>

\* A server without a cache is a new one and has shown nothing.
Onboards ==
  /\ result = None
  /\ OnboardingNext
  /\ UNCHANGED result
  /\ shown' = IF cache' = NoCache THEN [m \in Merchants |-> None] ELSE shown

MarketNext ==
  \/ Onboards
  \/ \E intent \in Drafts : Shop(intent)
  \/ \E m \in Onboarded : \E intent \in IntentsOf(m), asksItems \in BOOLEAN,
                             skus \in SUBSET DOMAIN cache[m].catalog :
       WebNegotiate(m, intent, asksItems, skus)
  \/ \E m \in Onboarded, skus \in SUBSET UNION {DOMAIN cache[n].catalog : n \in Onboarded} :
       \E selected \in [skus -> Quantities] : WebExecute(m, selected)
  \/ Answered

Spec == MarketInit /\ [][MarketNext]_marketVars

-----------------------------------------------------------------------------
(* Properties. *)

(***************************************************************************)
(* shop_around chooses among approved carts only, and by the signed        *)
(* preferences: the winner is a cart its merchant was allowed to offer, at *)
(* no more than its published prices and within the budget, and no         *)
(* approved cart of another row has the preferred brand when the winner    *)
(* has not, or is as good in brand, nearness to the target and price and   *)
(* better in one of them.                                                  *)
(***************************************************************************)
AtLeastAsGood(row, winner, intent) ==
  LET c == Candidate(row)
      d == Candidate(winner)
  IN  /\ BrandMatches(d, intent) => BrandMatches(c, intent)
      /\ c.total_paise <= d.total_paise
      /\ HasTarget(intent) =>
           Nearness(c.total_paise, intent.target_price_paise)
             >= Nearness(d.total_paise, intent.target_price_paise)

WinnerDeserves ==
  (result # None /\ result.kind = "shopped" /\ result.shopped.winner # None) =>
    LET winner == result.shopped.winner
        cart   == winner.envelope.payload
        intent == result.intent
        approved == {row \in Range(result.shopped.rows) : row.outcome = "APPROVED"}
    IN  /\ winner \in approved
        /\ intent.allowed_merchants # None => cart.merchant_id \in intent.allowed_merchants
        /\ cart.total_paise <= intent.total_paise
        /\ \A line \in LinesOf(cart) :
             line.unit_price_paise <= cache[cart.merchant_id].catalog[line.sku].price_paise
        /\ \A row \in approved :
             /\ BrandMatches(Candidate(row), intent) => BrandMatches(Candidate(winner), intent)
             /\ AtLeastAsGood(row, winner, intent) => AtLeastAsGood(winner, row, intent)

(***************************************************************************)
(* What a page of the web demo calls approved is: the cart it shows costs  *)
(* what the merchant publishes and fits the intent it shows, be it the     *)
(* cart that was negotiated or the basket put in its place; an alternative *)
(* to a basket has something else to offer.  A payment is of the prices    *)
(* that were shown, for as long as the server that showed them runs; that  *)
(* anything has approved it is not said (PaidOnlyIfApproved).              *)
(***************************************************************************)
FitsThePage(envelope, m, intent) ==
  LET cart == envelope.payload
  IN  /\ cart.lines # <<>>
      /\ cart.total_paise <= intent.total_paise
      /\ \A line \in LinesOf(cart) :
           /\ line.unit_price_paise = cache[m].catalog[line.sku].price_paise
           /\ line.unit_price_paise <= intent.per_item_paise
           /\ line.is_upsell \/ intent.category \in {None, line.category}

WebTellsTheTruth ==
  result # None =>
    /\ result.kind = "page" =>
         /\ result.outcome = "APPROVED" =>
              FitsThePage(result.cart, result.merchant, result.intent)
         /\ result.alternative # None =>
              /\ ~(SkusIn(result.alternative) \subseteq SkusIn(result.cart))
              /\ result.alternative_outcome = "APPROVED" =>
                   FitsThePage(result.alternative, result.merchant, result.intent)
    /\ (result.kind = "executed" /\ shown[result.merchant] # None) =>
         \A line \in LinesOf(result.cart.payload) :
           /\ line.sku \in DOMAIN shown[result.merchant]
           /\ line.unit_price_paise = shown[result.merchant][line.sku]

(***************************************************************************)
(* The README: every decision that moves money passes through the policy   *)
(* engine, and a rejected cart has no payment button.  execute.py: there   *)
(* must be no code path that reaches Razorpay without a passing evaluate() *)
(* immediately before it.  A cart that is paid is therefore one that some  *)
(* intent a request could have been read as approves, had the server bound *)
(* the cart to it.  The server pays what a client sends, in any quantity,  *)
(* after a rejected page or after none.                                    *)
(***************************************************************************)
WouldBeApproved(m, lines, intent) ==
  LET endpoint == EndpointOf(m)
  IN  VerdictOn(endpoint, intent, ServerCart(endpoint, lines, Digest(intent)), Now).outcome
        = "APPROVED"

PaidOnlyIfApproved ==
  (result # None /\ result.kind = "executed") =>
    \E intent \in IntentsOf(result.merchant) :
      WouldBeApproved(result.merchant, result.cart.payload.lines, intent)
=============================================================================
