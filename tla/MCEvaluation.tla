---------------------------- MODULE MCEvaluation ----------------------------
(* Evaluation on the catalog of the scripted demo and a small corpus with    *)
(* every mechanism of eval/corpus/scenarios.toml.                            *)
EXTENDS Evaluation

\* demo_catalog_shirts: a shirt, a belt and a premium shirt.
MCCatalog ==
  [x \in 1..3 |->
     CASE x = 1 -> [price_paise |-> 90000, category |-> "shirt",
                    attributes |-> {<<"pattern", "plain">>}]
       [] x = 2 -> [price_paise |-> 45000, category |-> "accessories", attributes |-> {}]
       [] x = 3 -> [price_paise |-> 180000, category |-> "shirt",
                    attributes |-> {<<"pattern", "plain">>}]]

MCPlain ==
  [category |-> "shirt", required_attributes |-> {}, excluded_categories |-> {},
   total_paise |-> 200000, per_item_paise |-> None, max_quantity |-> None,
   escalate_above_paise |-> None, mechanism |-> None, expected_outcome |-> "APPROVED"]

MCScenarios ==
  { MCPlain,
    [MCPlain EXCEPT !.category = None, !.excluded_categories = {"accessories"}],
    [MCPlain EXCEPT !.category = "sofa", !.expected_outcome = "REJECTED"],
    [MCPlain EXCEPT !.total_paise = 80000, !.expected_outcome = "REJECTED"],
    [MCPlain EXCEPT !.total_paise = 2000000, !.max_quantity = 12],
    [MCPlain EXCEPT !.per_item_paise = 80000, !.expected_outcome = "REJECTED"],
    [MCPlain EXCEPT !.escalate_above_paise = 50000, !.mechanism = "escalation_threshold",
                    !.expected_outcome = "REQUIRES_HUMAN_APPROVAL"] }
  \cup {[MCPlain EXCEPT !.mechanism = m, !.expected_outcome = "REJECTED"] :
          m \in {"quantity_over_cap", "duplicate_sku", "wrong_merchant_authorized",
                 "catalog_overcharge", "price_swap", "quantity_inflation"}}
  \cup {[MCPlain EXCEPT !.mechanism = "substitute_offered",
                        !.expected_outcome = "REQUIRES_HUMAN_APPROVAL"]}
=============================================================================
