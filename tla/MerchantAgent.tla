--------------------------- MODULE MerchantAgent ---------------------------
(***************************************************************************)
(* merchant_agent: what a MerchantAgentDriver with upsell_mode = "benign"  *)
(* answers to an intent.  The driver sees the intent's hard constraints    *)
(* and its own catalog; `offerMade' is its _offer_made flag, the only      *)
(* state of a negotiation session.                                         *)
(***************************************************************************)
EXTENDS Mandates

CONSTANTS
  Catalog,          \* published SKU |-> [price_paise, category, attributes]
  MerchantId,       \* merchant_id of the driver
  MerchantKid,      \* thumbprint of the key it signs with
  CartValidity,     \* validity of a cart: ten minutes in the code
  MaxAlternatives   \* max_alternatives: 0 by default, 1 in both programs

\* SKUs are naturals in the order the code's sort by (price, sku) gives them.
ASSUME CatalogAssumption ==
  /\ DOMAIN Catalog \subseteq Nat
  /\ \A x \in DOMAIN Catalog : Catalog[x].price_paise \in Nat
  /\ CartValidity \in Nat \ {0}
  /\ MaxAlternatives \in {0, 1}

-----------------------------------------------------------------------------
(* _matching_items: reads the hard constraints only, cheapest first. *)

CheaperFirst(x, y) ==
  \/ Catalog[x].price_paise < Catalog[y].price_paise
  \/ Catalog[x].price_paise = Catalog[y].price_paise /\ x < y

\* The first item of a set in that order.
Cheapest(items) == CHOOSE x \in items : \A y \in items : ~CheaperFirst(y, x)

Satisfies(x, intent) ==
  /\ intent.category = None \/ Catalog[x].category = intent.category
  /\ intent.required_attributes \subseteq Catalog[x].attributes
  /\ Catalog[x].category \notin intent.excluded_categories

MatchingItems(intent) == {x \in DOMAIN Catalog : Satisfies(x, intent)}

Primary(intent) == Cheapest(MatchingItems(intent))

\* The slice of the matching items from the second on that max_alternatives
\* allows.
FurtherItems(intent) ==
  LET others == MatchingItems(intent) \ {Primary(intent)}
  IN  IF MaxAlternatives = 0 \/ others = {} THEN <<>> ELSE <<Cheapest(others)>>

-----------------------------------------------------------------------------
(***************************************************************************)
(* find_premium_substitute, the only member of UPSELL_PRIORITY: the        *)
(* cheapest item of the primary's category that costs strictly more.  Of   *)
(* several at that price the code takes the first in catalog order, here   *)
(* an arbitrary but fixed one.  It does not look at the intent, so the     *)
(* attributes the buyer requires play no part.                             *)
(***************************************************************************)
PremiumCandidates(primary) ==
  {x \in DOMAIN Catalog : /\ Catalog[x].category = Catalog[primary].category
                          /\ Catalog[x].price_paise > Catalog[primary].price_paise}

PremiumSubstitute(primary) ==
  CHOOSE x \in PremiumCandidates(primary) :
    \A y \in PremiumCandidates(primary) :
      Catalog[x].price_paise <= Catalog[y].price_paise

-----------------------------------------------------------------------------
(* Carts. *)

\* _catalog_item_to_line, with the provenance the merchant asserts anew.
ItemLine(x, isUpsell) ==
  [sku |-> x, category |-> Catalog[x].category,
   unit_price_paise |-> Catalog[x].price_paise, quantity |-> 1,
   attributes |-> Catalog[x].attributes,
   is_substitute |-> FALSE, is_upsell |-> isUpsell, provenance |-> "signed"]

\* The signed cart of one line that the driver builds for an intent.  Every
\* cart it can build has one line: a premium substitute replaces the primary.
SignedCart(line, intent, now, id) ==
  SignMandate(
    [mandate_id |-> id, issued_at |-> now, expires_at |-> now + CartValidity,
     merchant_id |-> MerchantId, merchant_kid |-> MerchantKid,
     intent_hash |-> Digest(intent), lines |-> <<line>>,
     subtotal_paise |-> line.unit_price_paise * line.quantity,
     tax_paise |-> 0, shipping_paise |-> 0,
     total_paise |-> line.unit_price_paise * line.quantity],
    MerchantKid)

\* Whether __call__ makes its offer: once per session, if there is one.
MakesOffer(intent, offerMade) ==
  /\ ~offerMade
  /\ PremiumCandidates(Primary(intent)) # {}

\* The line of the cart proposed first.
ProposedLine(intent, offerMade) ==
  IF MakesOffer(intent, offerMade)
  THEN ItemLine(PremiumSubstitute(Primary(intent)), TRUE)
  ELSE ItemLine(Primary(intent), FALSE)

\* The alternatives: the clean primary when an offer took its place, then
\* the next matching items.
AlternativeItems(intent, offerMade) ==
  IF MakesOffer(intent, offerMade) THEN <<Primary(intent)>> \o FurtherItems(intent)
  ELSE FurtherItems(intent)

(***************************************************************************)
(* __call__, when something matches.  Mandate ids are fresh: `id' is the   *)
(* last one in use, and Minted many follow it.                             *)
(***************************************************************************)
Proposal(intent, offerMade, now, id) ==
  LET others == AlternativeItems(intent, offerMade)
  IN  [cart_envelope |-> SignedCart(ProposedLine(intent, offerMade), intent, now, id + 1),
       alternative_envelopes |->
         [k \in DOMAIN others |->
            SignedCart(ItemLine(others[k], FALSE), intent, now, id + 1 + k)]]

Minted(intent, offerMade) == 1 + Len(AlternativeItems(intent, offerMade))
=============================================================================
