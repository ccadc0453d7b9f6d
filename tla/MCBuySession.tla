---------------------------- MODULE MCBuySession ----------------------------
(* A small instance of BuySession for TLC. *)
EXTENDS BuySession

\* Two equally cheap shirts, one of them white, a dearer one, and a mug whose
\* price lies between: the upsell of a cheap shirt is the dear one.
MCCatalog ==
  [x \in 1..4 |->
     CASE x = 1 -> [price_paise |-> 1, category |-> "shirt", attributes |-> {}]
       [] x = 2 -> [price_paise |-> 1, category |-> "shirt",
                    attributes |-> {<<"colour", "white">>}]
       [] x = 3 -> [price_paise |-> 2, category |-> "mug", attributes |-> {}]
       [] x = 4 -> [price_paise |-> 4, category |-> "shirt",
                    attributes |-> {<<"colour", "white">>}]]

MCRequests ==
  [category            : {None, "shirt", "mug", "sofa"},
   required_attributes : {{}, {<<"colour", "white">>}},
   excluded_categories : {{}, {"mug"}},
   total_paise         : 1..5,
   per_item_paise      : {None, 0, 2}]

\* -1: a tripwire the LLM made up and model_copy does not validate.
MCReviewAnswers ==
  [escalate_above_paise : {None, -1, 0, 1, 3}, substitutions_ok : {FALSE}]

\* _permissive_policy: the escalation threshold is the maximal order value.
MCPolicy ==
  [max_order_value_paise |-> 5, substitution_tolerance_pct |-> 10,
   max_quantity_per_sku |-> 100, restricted_categories |-> {},
   escalation_threshold_paise |-> 5]
=============================================================================
