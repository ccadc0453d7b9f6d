------------------------------ MODULE Shopping ------------------------------
(***************************************************************************)
(* buyer/rank.py and buyer/shop.py: one cart from each of several          *)
(* merchants, every cart through evaluate(), and the approved one that     *)
(* scores best.  Nothing here has state; Market runs it on the endpoints   *)
(* that are onboarded.                                                     *)
(*                                                                         *)
(* An endpoint is [merchant_id, kid, keys, entries]: what                  *)
(* load_verified_catalog and the key files gave the buyer.                 *)
(***************************************************************************)
EXTENDS PolicyEngine, SequencesExt

CONSTANTS
  MaxMerchants, \* MAX_MERCHANTS: 5 in the code, smaller for TLC
  Reference,    \* the price cheapness is scaled by: Rs 1000
  CartValidity

ASSUME ShoppingAssumption ==
  MaxMerchants \in Nat \ {0} /\ Reference \in Nat \ {0} /\ CartValidity \in Nat \ {0}

\* The merchant's driver over the catalog of an endpoint, with as many
\* alternatives as the program asks for.
Agent(endpoint, alternatives) ==
  INSTANCE MerchantAgent WITH
    Catalog <- endpoint.entries, MerchantId <- endpoint.merchant_id,
    MerchantKid <- endpoint.kid, MaxAlternatives <- alternatives

\* _permissive_policy
PermissivePolicy ==
  [max_order_value_paise |-> 100, substitution_tolerance_pct |-> 10,
   max_quantity_per_sku |-> 100, restricted_categories |-> {},
   escalation_threshold_paise |-> 100]

\* What evaluate() is given about a cart of an endpoint.
ContextFor(endpoint, intent, envelope) ==
  [key_directory |-> endpoint.keys \cup {intent.principal_kid},
   intent_envelope |-> SignMandate(intent, intent.principal_kid),
   cart_envelope |-> envelope,
   require_agent_identity |-> FALSE, webbotauth_verified |-> FALSE,
   low_confidence_interpretation |-> FALSE,
   merchant_catalog |-> [merchant_id |-> endpoint.merchant_id, entries |-> endpoint.entries]]

VerdictOn(endpoint, intent, envelope, now) ==
  Evaluate(intent, envelope.payload, PermissivePolicy,
           ContextFor(endpoint, intent, envelope), now)

-----------------------------------------------------------------------------
(***************************************************************************)
(* score_candidate.  The points are fractions in the code: 50 for the      *)
(* brand, 30 * (1 - min(|price - target| / target, 1)), 20 for stock and   *)
(* 5 / (1 + price / Reference).  Two scores are compared exactly, over     *)
(* the product of their denominators.                                      *)
(***************************************************************************)
BrandMatches(candidate, intent) ==
  \E brand \in intent.preferred_brands : <<"brand", brand>> \in candidate.attributes

HasTarget(intent) == intent.target_price_paise \notin {None, 0}

\* How near the target a price is, from 0 to the target itself.
Nearness(price, target) == GreaterOf(target - Distance(price, target), 0)

\* <<numerator, denominator>>
Score(candidate, intent) ==
  LET price  == GreaterOf(candidate.total_paise, 1)
      target == IF HasTarget(intent) THEN intent.target_price_paise ELSE 1
      whole  == (IF BrandMatches(candidate, intent) THEN 50 ELSE 0)
                + (IF candidate.in_stock THEN 20 ELSE 0)
      near   == IF HasTarget(intent) THEN 30 * Nearness(candidate.total_paise, target) ELSE 0
  IN  << (whole * target + near) * (Reference + price) + 5 * Reference * target,
         target * (Reference + price) >>

\* The key of rank's sort: score, then price, then SKU.
RankedBefore(c, d, intent) ==
  LET x == Score(c, intent)
      y == Score(d, intent)
  IN  \/ x[1] * y[2] > y[1] * x[2]
      \/ /\ x[1] * y[2] = y[1] * x[2]
         /\ \/ c.total_paise < d.total_paise
            \/ c.total_paise = d.total_paise /\ c.sku < d.sku

\* rank(...)[0]: the sort is stable, so the first of equals comes first.  The
\* candidates are numbered like the rows they are of.
TopRanked(candidates, intent) ==
  LET tops == {i \in DOMAIN candidates :
                 \A j \in DOMAIN candidates : ~RankedBefore(candidates[j], candidates[i], intent)}
  IN  candidates[Min(tops)]

-----------------------------------------------------------------------------
(* shop_around, over a sequence of endpoints and the carts their drivers   *)
(* answer with: None stands for a merchant that declines.                  *)

\* The merchants tried: the first ones the intent allows, up to the bound.
Tried(endpoints, intent) ==
  LET allowed == {i \in DOMAIN endpoints :
                    \/ intent.allowed_merchants = None
                    \/ endpoints[i].merchant_id \in intent.allowed_merchants}
  IN  {i \in allowed : Cardinality({j \in allowed : j < i}) < MaxMerchants}

Row(endpoint, intent, envelope, now) ==
  [merchant_id |-> endpoint.merchant_id, envelope |-> envelope,
   outcome |-> IF envelope = None THEN "declined"
               ELSE VerdictOn(endpoint, intent, envelope, now).outcome]

\* _cart_to_candidate: the first line that is no upsell, or the first.  A cart
\* that reached the buyer counts as in stock.
Candidate(row) ==
  LET lines   == row.envelope.payload.lines
      plain   == {i \in DOMAIN lines : ~lines[i].is_upsell}
      primary == IF plain = {} THEN lines[1] ELSE lines[Min(plain)]
  IN  [merchant_id |-> row.merchant_id, sku |-> primary.sku,
       attributes |-> primary.attributes, in_stock |-> TRUE,
       total_paise |-> row.envelope.payload.total_paise]

\* Mistake to detect: two merchants that use the same SKU are mixed up.
FirstWithSku(candidates, best) ==
  Min({i \in DOMAIN candidates : candidates[i].sku = best.sku})

\* The first of the approved candidates with the merchant and SKU of the best.
RowOf(candidates, best) ==
  Min({i \in DOMAIN candidates : /\ candidates[i].merchant_id = best.merchant_id
                                 /\ candidates[i].sku = best.sku})

\* envelopes is a function from the merchants to what their drivers answer.
ShopAround(endpoints, intent, envelopes, now) ==
  LET rows       == [i \in Tried(endpoints, intent) |->
                       Row(endpoints[i], intent, envelopes[endpoints[i].merchant_id], now)]
      approved   == {i \in DOMAIN rows : rows[i].outcome = "APPROVED"}
      candidates == [i \in approved |-> Candidate(rows[i])]
  IN  [rows   |-> rows,
       winner |-> IF approved = {} THEN None
                  ELSE rows[RowOf(candidates, TopRanked(candidates, intent))]]
=============================================================================
