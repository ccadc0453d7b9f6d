------------------------------ MODULE MCMarket ------------------------------
(***************************************************************************)
(* Two merchants that use one SKU: "a" with two pages of structured data,  *)
(* one of which may change its price, clash with the other page or turn    *)
(* into an error page, "b" with a page only the model can read.            *)
(***************************************************************************)
EXTENDS Market

MCUrls == [m \in {"a", "b"} |-> IF m = "a" THEN <<"a1", "a2">> ELSE <<"b1">>]

Raw(sku, price, category, attributes, stock) ==
  [sku |-> sku, title |-> TRUE, price_paise |-> price, category |-> category,
   attributes |-> attributes, in_stock |-> stock]

Structured(raws) == [structured |-> raws, inferred |-> <<>>]

\* Keys are told apart by equality only.
KidSymmetry == Permutations(Kids)

Tea == Raw(1, 2, "tea", {}, TRUE)
DearTea == Raw(1, 3, "tea", {}, TRUE)
BrandTea == Raw(2, 4, "tea", {<<"brand", "Leaf">>}, None)
InferredTea(price) ==
  [structured |-> <<>>, inferred |-> <<Raw(1, price, "tea", {<<"brand", "Leaf">>}, None)>>]

MCPages ==
  [u \in {"a1", "a2", "b1"} |->
     CASE u = "a1" -> {Structured(<<Tea>>), Structured(<<DearTea, DearTea>>)}
       [] u = "a2" -> {Structured(<<BrandTea>>), Structured(<<Tea>>)}
       [] u = "b1" -> {InferredTea(3), InferredTea(4)}]

\* The page of "b" is now found at another host.
MCRedirects == [u \in {"a1", "a2", "b1"} |-> {u = "b1"}]

\* A page of "b" may lose everything, or the last digits of its price.
MCCutShort ==
  [page \in UNION {MCPages[u] : u \in DOMAIN MCPages} |->
     IF page = InferredTea(4) THEN {Structured(<<>>), InferredTea(1)} ELSE {}]

MCRobotsFiles ==
  {[status |-> "4xx", can_fetch |-> FALSE], [status |-> "5xx", can_fetch |-> FALSE],
   [status |-> "2xx", can_fetch |-> TRUE], [status |-> "2xx", can_fetch |-> FALSE]}

MCDerivedSku == [u \in {"a1", "a2", "b1"} |-> 9]

MCDraft ==
  [mandate_id |-> 1, issued_at |-> 0, expires_at |-> 1, principal_kid |-> "human",
   category |-> "tea", required_attributes |-> {}, excluded_categories |-> {},
   target_price_paise |-> None, preferred_brands |-> {},
   substitution_tolerance_pct |-> 10, substitutions_preapproved |-> FALSE,
   total_paise |-> 4, per_item_paise |-> 3, max_quantity |-> 2,
   escalate_above_paise |-> 4, allowed_merchants |-> None]

MCDrafts ==
  {MCDraft,
   [MCDraft EXCEPT !.target_price_paise = 3, !.preferred_brands = {"Leaf"},
                   !.per_item_paise = 4, !.escalate_above_paise = 3]}
=============================================================================
