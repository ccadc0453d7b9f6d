-------------------------- MODULE MCEscalationLoop --------------------------
(***************************************************************************)
(* A small instance of EscalationLoop for TLC: for every gate of the       *)
(* policy engine there is a cart, an intent, a policy or a context that    *)
(* trips it, alone or together with a gate that escalates.                 *)
(***************************************************************************)
EXTENDS EscalationLoop

MCNow == 2

MCEntries ==
  [sku \in {"shirt", "tee", "mug"} |->
     CASE sku = "shirt" -> [price_paise |-> 2, category |-> "apparel"]
       [] sku = "tee"   -> [price_paise |-> 1, category |-> "apparel"]
       [] sku = "mug"   -> [price_paise |-> 1, category |-> "kitchen"]]

\* Everything is known to the buyer except the key "stranger".
MCBaseContext ==
  [key_directory |-> {"human", "merchant"},
   intent_envelope |-> None, cart_envelope |-> None,
   require_agent_identity |-> FALSE, webbotauth_verified |-> FALSE,
   low_confidence_interpretation |-> FALSE,
   merchant_catalog |-> [merchant_id |-> "m", entries |-> MCEntries]]

MCContexts ==
  { MCBaseContext,
    [MCBaseContext EXCEPT !.low_confidence_interpretation = TRUE],
    [MCBaseContext EXCEPT !.require_agent_identity = TRUE],
    [MCBaseContext EXCEPT !.merchant_catalog = None],
    [MCBaseContext EXCEPT !.merchant_catalog.merchant_id = "other"] }

MCBaseIntent ==
  [mandate_id |-> 1, issued_at |-> 0, expires_at |-> 2, principal_kid |-> "human",
   category |-> "apparel", required_attributes |-> {<<"size", "m">>},
   excluded_categories |-> {}, target_price_paise |-> 2,
   substitution_tolerance_pct |-> 50, substitutions_preapproved |-> FALSE,
   total_paise |-> 4, per_item_paise |-> 3, max_quantity |-> 2,
   escalate_above_paise |-> 1, allowed_merchants |-> {"m"}]

MCIntents ==
  { MCBaseIntent,
    [MCBaseIntent EXCEPT !.escalate_above_paise = 4, !.allowed_merchants = None],
    [MCBaseIntent EXCEPT !.substitutions_preapproved = TRUE,
                         !.substitution_tolerance_pct = 100],
    [MCBaseIntent EXCEPT !.expires_at = 1],
    [MCBaseIntent EXCEPT !.target_price_paise = 0],
    [MCBaseIntent EXCEPT !.target_price_paise = None, !.excluded_categories = {"kitchen"},
                         !.escalate_above_paise = 2, !.per_item_paise = 1] }

MCBasePolicy ==
  [max_order_value_paise |-> 9, substitution_tolerance_pct |-> 100,
   max_quantity_per_sku |-> 9, restricted_categories |-> {},
   escalation_threshold_paise |-> 9]

MCPolicies ==
  { MCBasePolicy,
    [MCBasePolicy EXCEPT !.escalation_threshold_paise = 1],
    [MCBasePolicy EXCEPT !.max_order_value_paise = 3, !.max_quantity_per_sku = 1,
                         !.substitution_tolerance_pct = 0,
                         !.restricted_categories = {"kitchen"}] }

Shirt == [sku |-> "shirt", category |-> "apparel", unit_price_paise |-> 2,
          quantity |-> 1, attributes |-> {<<"size", "m">>},
          is_substitute |-> FALSE, is_upsell |-> FALSE, provenance |-> "signed"]
Tee   == [Shirt EXCEPT !.sku = "tee", !.unit_price_paise = 1, !.is_substitute = TRUE]
Mug   == [Shirt EXCEPT !.sku = "mug", !.category = "kitchen", !.unit_price_paise = 1,
                       !.attributes = {}, !.is_upsell = TRUE]

MCLines ==
  { <<Shirt>>, <<Tee>>, <<Shirt, Mug>>, <<Shirt, Tee>>,
    <<>>, <<Shirt, Shirt>>, <<Mug, [Mug EXCEPT !.sku = "tee"]>>,
    <<Shirt, Tee, Mug>>,
    <<[Shirt EXCEPT !.quantity = 2]>>, <<[Tee EXCEPT !.quantity = 3]>>,
    <<[Shirt EXCEPT !.unit_price_paise = 3]>>, <<[Tee EXCEPT !.unit_price_paise = 0]>>,
    <<[Shirt EXCEPT !.sku = "hat"]>>, <<[Mug EXCEPT !.is_upsell = FALSE]>>,
    <<[Shirt EXCEPT !.attributes = {}]>>, <<[Tee EXCEPT !.provenance = "inferred"]>> }

\* A cart with these lines, and the same with a delivery charge, with totals
\* that do not add up, expired, or in another merchant's name.
MCCarts(lines) ==
  LET amount == ComputedSubtotal([lines |-> lines])
      cart0  == [mandate_id |-> 1, issued_at |-> 0, expires_at |-> 2,
                 merchant_id |-> "m", merchant_kid |-> "merchant",
                 intent_hash |-> None, lines |-> lines, subtotal_paise |-> amount,
                 tax_paise |-> 0, shipping_paise |-> 0, total_paise |-> amount]
  IN  IF lines \in {<<Shirt>>, <<Tee>>, <<Shirt, Mug>>}
      THEN { cart0, [cart0 EXCEPT !.shipping_paise = 1, !.total_paise = amount + 1],
             [cart0 EXCEPT !.total_paise = amount + 1],
             [cart0 EXCEPT !.expires_at = 1],
             [cart0 EXCEPT !.merchant_id = "other"] }
      ELSE {cart0}

MCProposals == UNION {MCCarts(lines) : lines \in MCLines}
=============================================================================
