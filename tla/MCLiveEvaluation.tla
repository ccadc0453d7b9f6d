-------------------------- MODULE MCLiveEvaluation --------------------------
(* A small instance of LiveEvaluation, and with it of Interview, for TLC.    *)
EXTENDS LiveEvaluation

MCClear ==
  [json |-> TRUE, budget_total |-> 4, budget_per_item |-> None, max_quantity |-> None,
   needs_clarification |-> FALSE, escalate_above |-> None, substitutions_ok |-> FALSE]

\* What a model can make of a request: clear, for several items; unclear;
\* without a budget; with a price per item only; and what no draft can be
\* built from.
MCResponses ==
  { [MCClear EXCEPT !.budget_per_item = 5, !.max_quantity = 3],
    [MCClear EXCEPT !.budget_total = 2, !.needs_clarification = TRUE, !.escalate_above = 3],
    [MCClear EXCEPT !.budget_total = None, !.needs_clarification = TRUE,
                    !.escalate_above = -1, !.substitutions_ok = TRUE],
    [MCClear EXCEPT !.budget_total = 0],
    [MCClear EXCEPT !.budget_total = None, !.budget_per_item = 2, !.max_quantity = 3],
    [MCClear EXCEPT !.budget_total = None, !.budget_per_item = 2],
    [MCClear EXCEPT !.budget_per_item = -1],
    [MCClear EXCEPT !.json = FALSE] }

MCScripts ==
  [confirmed : BOOLEAN, escalate_above_paise : {None, 1}, substitutions_preapproved : {TRUE}]

MCScenarios ==
  << [budget_total |-> 4, escalate_above |-> 3], [budget_total |-> 2, escalate_above |-> None] >>

MCAmbiguous == <<TRUE>>
=============================================================================
