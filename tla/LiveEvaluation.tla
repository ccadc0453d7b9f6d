--------------------------- MODULE LiveEvaluation ---------------------------
(***************************************************************************)
(* eval/live_llm_eval.py over the same provider and the same interpret:    *)
(* every scenario is interpreted K times, then every ambiguous request,    *)
(* and of each scenario one live intent goes on into the attack matrix of  *)
(* eval/harness.py (module Evaluation).  Pacing between calls is left out. *)
(*                                                                         *)
(* A scenario has the tripwire and the budget of its ground truth.         *)
(***************************************************************************)
EXTENDS Interview, Sequences, SequencesExt

CONSTANTS
  Scenarios,  \* the corpus: a sequence of ground truths
  Ambiguous,  \* AMBIGUOUS_REQUESTS: should_need_clarification of each
  K,          \* how often each request is interpreted
  Slack       \* what a budget may be off by and still match

\* A ground truth may leave the budget and the tripwire open.
ASSUME LiveEvaluationAssumption ==
  /\ K \in Nat \ {0} /\ Slack \in Nat
  /\ Scenarios \in Seq([budget_total : Int \cup {None}, escalate_above : Int \cup {None}])
  /\ Ambiguous \in Seq(BOOLEAN)
  /\ Len(Scenarios) > 0 /\ Len(Ambiguous) > 0

VARIABLES
  results,     \* fidelity_results
  stress,      \* ambiguity_results
  live_intents \* the drafts picked for the matrix, by scenario

vars == <<interviewVars, results, stress, live_intents>>

Init ==
  /\ InterviewInit
  /\ results = <<>> /\ stress = <<>> /\ live_intents = <<>>

-----------------------------------------------------------------------------
(* The two passes. *)

\* The scenario, or request, of the n-th call of a pass, and its repeat.
ItemOf(n)   == (n - 1) \div K + 1
RepeatOf(n) == (n - 1) % K

\* _budget_matches; a draft always has a budget.
BudgetMatches(drafted, ground_truth) ==
  /\ ground_truth.budget_total # None
  /\ drafted.total_paise - ground_truth.budget_total \in (-Slack)..Slack

\* FidelityResult, of which the category and the attributes are left out.
FidelityResult(n) ==
  LET drafted == Interpreted(ItemOf(n))
  IN  [scenario |-> ItemOf(n), k |-> RepeatOf(n), draft_intent |-> drafted,
       needs_clarification |-> reply.response.needs_clarification,
       budget_correct |->
         drafted # None /\ BudgetMatches(drafted, Scenarios[ItemOf(n)])]

\* AmbiguityResult
AmbiguityResult(n) ==
  LET needs == reply.response.needs_clarification \/ Interpreted(0) = None
  IN  [request |-> ItemOf(n), k |-> RepeatOf(n),
       matches_expected |-> needs = Ambiguous[ItemOf(n)]]

StartEvaluation ==
  /\ stage = "started" /\ job = "evaluation"
  /\ Ask(1, "measuring fidelity")
  /\ UNCHANGED <<conversation, results, stress, live_intents>>

MeasureFidelity ==
  /\ stage = "measuring fidelity" /\ reply # None /\ ~InterpretRaises
  /\ results' = Append(results, FidelityResult(Len(results) + 1))
  /\ IF Len(results') = K * Len(Scenarios) THEN Ask(0, "measuring ambiguity")
     ELSE Ask(ItemOf(Len(results') + 1), "measuring fidelity")
  /\ UNCHANGED <<conversation, stress, live_intents>>

MeasureAmbiguity ==
  /\ stage = "measuring ambiguity" /\ reply # None /\ ~InterpretRaises
  /\ stress' = Append(stress, AmbiguityResult(Len(stress) + 1))
  /\ IF Len(stress') = K * Len(Ambiguous)
     THEN Consumed /\ stage' = "picking"
     ELSE Ask(0, "measuring ambiguity")
  /\ UNCHANGED <<conversation, results, live_intents>>

\* Nothing is caught here either: what was measured, and paid for, is lost.
EvaluationRaises ==
  /\ job = "evaluation"
  /\ reply # None /\ InterpretRaises
  /\ stage' = "raised"
  /\ Consumed
  /\ results' = <<>> /\ stress' = <<>>
  /\ UNCHANGED <<conversation, live_intents>>

-----------------------------------------------------------------------------
(* The end-to-end intents. *)

\* apply_simulated_review: an unclear draft is excluded, and the tripwire is
\* the ground truth's, whatever total the model read.
SimulatedReview(result) ==
  IF result.needs_clarification THEN None
  ELSE IF Scenarios[result.scenario].escalate_above = None THEN result.draft_intent
  ELSE [result.draft_intent EXCEPT
          !.escalate_above_paise = Scenarios[result.scenario].escalate_above]

Signable(result) == result.draft_intent # None

\* Mistake to detect: a scenario counts as picked only when it is usable.
PickUsable(picked, result) ==
  IF result.scenario \in DOMAIN picked \/ ~Signable(result)
     \/ SimulatedReview(result) = None THEN picked
  ELSE [s \in DOMAIN picked \cup {result.scenario} |->
          IF s = result.scenario THEN SimulatedReview(result) ELSE picked[s]]

\* picked_scenario_ids and live_intents in one function: None for a scenario
\* that has been picked and excluded.
Pick(picked, result) ==
  IF result.scenario \in DOMAIN picked \/ ~Signable(result) THEN picked
  ELSE [s \in DOMAIN picked \cup {result.scenario} |->
          IF s = result.scenario THEN SimulatedReview(result) ELSE picked[s]]

\* sorted by k is stable: results of the same k stay in the order they were made.
Precedes(m, n) ==
  \/ results[m].k < results[n].k
  \/ results[m].k = results[n].k /\ m < n

Rank(n) == Cardinality({m \in DOMAIN results : Precedes(m, n)})

InRepeatOrder ==
  [i \in DOMAIN results |-> results[CHOOSE n \in DOMAIN results : Rank(n) = i - 1]]

PickIntents ==
  /\ stage = "picking"
  /\ LET picked == FoldLeft(Pick, <<>>, InRepeatOrder)
     IN  live_intents' =
           [s \in {t \in DOMAIN picked : picked[t] # None} |-> picked[s]]
  /\ stage' = "evaluated"
  /\ UNCHANGED <<providerVars, conversation, results, stress>>

EvaluationProceeds ==
  \/ StartEvaluation \/ MeasureFidelity \/ MeasureAmbiguity \/ EvaluationRaises
  \/ PickIntents

Proceeds ==
  \/ InterviewProceeds /\ UNCHANGED <<results, stress, live_intents>>
  \/ EvaluationProceeds

Next ==
  \/ Proceeds
  \/ (PersonAnswers \/ NoAnswer) /\ UNCHANGED <<results, stress, live_intents>>
  \/ stage \in Ended /\ UNCHANGED vars

(***************************************************************************)
(* A call ends within its timeout and its retries, and the program goes on *)
(* by itself; only a person can keep it waiting for ever.                  *)
(***************************************************************************)
Spec == Init /\ [][Next]_vars /\ WF_vars(Proceeds)

-----------------------------------------------------------------------------
(* Properties. *)

(***************************************************************************)
(* The comment on the choice of live intents: the first signable draft of  *)
(* a scenario or none, never a later one that happens to look better.      *)
(***************************************************************************)
NoLuckyDraft ==
  stage = "evaluated" =>
    \A s \in DOMAIN Scenarios :
      LET signable == {n \in DOMAIN results :
                         results[n].scenario = s /\ Signable(results[n])}
          first    == results[Min(signable)]
      IN  IF signable = {} \/ first.needs_clarification
          THEN s \notin DOMAIN live_intents
          ELSE s \in DOMAIN live_intents
               /\ live_intents[s].total_paise = first.draft_intent.total_paise

(***************************************************************************)
(* Every conversation comes to an end, or waits for a person: no sequence  *)
(* of rate limits, timeouts and unclear answers keeps the model or the     *)
(* person busy for ever.                                                   *)
(***************************************************************************)
ConversationEnds == <>[](stage \in Ended \cup Prompts)
=============================================================================
