----------------------------- MODULE Evaluation -----------------------------
(***************************************************************************)
(* The programs that attack the buyer to see whether it holds: the         *)
(* ablation matrix (eval/ablation.py over eval/harness.py), and the five   *)
(* beats of demo/run_demo.py, which log every decision and verify the log  *)
(* at the end.  Negotiation and evaluation are the real ones.  The demo is *)
(* one of the objects on its log; others may have it open as well.         *)
(***************************************************************************)
EXTENDS RedTeam, AuditLog

CONSTANTS
  Scenarios,   \* the scenarios of the corpus
  DemoBudget,  \* the budget of the scripted demo: 200000
  DemoWriter   \* the demo's AuditLog object

ASSUME EvaluationAssumption == DemoWriter \in Writers

VARIABLES
  instance,  \* the InstanceResult the last step returned, None when none
  demo,      \* where the scripted demo stands
  calls,     \* how many of its decisions it has logged
  blocked    \* the attacks its beats have seen blocked

vars == <<instance, demo, calls, blocked, logVars>>

Now == 0  \* both programs work at one instant

-----------------------------------------------------------------------------
(* The ablation matrix. *)

TamperingAttacks == {"A4_price_swap", "A5_quantity_inflation", "A6_catalog_overcharge"}

\* A narrative attack is run only against a scenario that would not have
\* been approved without it.
Attackable(scenario, attack) ==
  attack = "A3_branded_whisper" =>
    /\ scenario.expected_outcome # "APPROVED"
    /\ RequiredAttack(scenario.mechanism) = None

\* The programs run one at a time, and the matrix does without the log.
Idle == demo = "new" /\ file = <<>> /\ OpenWriters = {}

\* run_safety_arm
RunSafety ==
  /\ Idle
  /\ \E scenario \in Scenarios, config \in Configs, attack \in Attacks :
       /\ Attackable(scenario, attack)
       /\ instance' = RunInstance(scenario, attack, config, "off", Now)
  /\ UNCHANGED <<demo, calls, blocked, logVars>>

\* run_revenue_arm
RunRevenue ==
  /\ Idle
  /\ \E scenario \in Scenarios, upsell_mode \in {"off", "benign"} :
       instance' = RunInstance(scenario, "A0_none", "C4", upsell_mode, Now)
  /\ UNCHANGED <<demo, calls, blocked, logVars>>

-----------------------------------------------------------------------------
(* The scripted demo. *)

\* _build_intent
DemoIntent ==
  GroundTruthIntent([category |-> Catalog[FirstItem].category, required_attributes |-> {},
                     excluded_categories |-> {}, total_paise |-> DemoBudget,
                     per_item_paise |-> None, max_quantity |-> 1,
                     escalate_above_paise |-> None, mechanism |-> None], Now)

\* What a beat negotiates: the second one twice, without and with the attack.
BeatAttacks ==
  <<"A0_none", "A0_none", "A3_branded_whisper", "A4_price_swap",
    "A5_quantity_inflation", "A6_catalog_overcharge">>

\* _run_negotiation
BeatDecision(attack) ==
  LET response == Attacked(attack, HonestResponse(DemoIntent, "off", Now), DemoBudget)
  IN  Evaluate(DemoIntent, response.cart_envelope.payload, PermissivePolicy(100),
               ContextOf(DemoIntent, response, None, FALSE), Now)

\* Whether a beat sees its attack blocked: for the narrative one an order
\* that would have been placed anyway is no success.
Blocked(attack) ==
  LET response == Attacked(attack, HonestResponse(DemoIntent, "off", Now), DemoBudget)
      outcome  == BeatDecision(attack).outcome
  IN  \/ ~Goal(attack, RunRecord(DemoIntent, response, None, outcome))
      \/ attack = "A3_branded_whisper" /\ BeatDecision("A0_none").outcome = "APPROVED"

StartDemo ==
  /\ Idle
  /\ Open(DemoWriter)
  /\ demo' = "running" /\ instance' = None
  /\ UNCHANGED <<calls, blocked>>

\* One log_decision of a beat, and at its end the score of the attack.
Beat ==
  /\ demo = "running"
  /\ calls < Len(BeatAttacks)
  /\ calls' = calls + 1
  /\ LET attack == BeatAttacks[calls']
     IN  /\ AppendRecord(DemoWriter, BeatDecision(attack).outcome)
         /\ blocked' = IF attack # "A0_none" /\ Blocked(attack)
                       THEN blocked \cup {attack} ELSE blocked
  /\ UNCHANGED <<demo, instance>>

\* The decision cannot be written: the demo ends with a traceback.
BeatFails ==
  /\ demo = "running"
  /\ calls < Len(BeatAttacks)
  /\ AppendFails(DemoWriter, BeatDecision(BeatAttacks[calls + 1]).outcome)
  /\ prev'[DemoWriter] = None
  /\ demo' = "failed"
  /\ UNCHANGED <<calls, blocked, instance>>

\* Somebody stops the demo between two beats.
Interrupted ==
  /\ demo = "running"
  /\ demo' = "failed"
  /\ Close(DemoWriter)
  /\ UNCHANGED <<calls, blocked, instance>>

\* print_summary says of every attack that it was blocked: main has set the
\* results to True itself.  Then verify_audit, which raises on a torn line;
\* either way the process ends.
PrintSummary ==
  /\ demo = "running"
  /\ calls = Len(BeatAttacks)
  /\ demo' = IF VerifyLog(file).raises THEN "failed" ELSE "done"
  /\ Close(DemoWriter)
  /\ UNCHANGED <<calls, blocked, instance>>

-----------------------------------------------------------------------------

\* The other objects on the log, and whoever edits the file.
OthersOnTheLog ==
  /\ demo # "new"
  /\ \/ \E w \in Writers \ {DemoWriter} :
          \/ Open(w) \/ Close(w)
          \/ AppendRecord(w, "REJECTED") \/ AppendFails(w, "REJECTED")
     \/ Edit
  /\ UNCHANGED <<instance, demo, calls, blocked>>

Init ==
  /\ LogInit
  /\ instance = None /\ demo = "new" /\ calls = 0 /\ blocked = {}

Next ==
  \/ RunSafety \/ RunRevenue
  \/ StartDemo \/ Beat \/ BeatFails \/ Interrupted \/ PrintSummary
  \/ OthersOnTheLog

Spec == Init /\ [][Next]_vars

-----------------------------------------------------------------------------
(* Properties. *)

\* With the policy engine on no tampering attack reaches its goal, for any
\* scenario of the corpus, hand-made carts included: the success rate of the
\* defended arms is zero because of the gates and not of the sample.
DefenceHolds ==
  instance # None =>
    (instance.config # "C1" /\ instance.attack \in TamperingAttacks =>
       ~instance.attack_succeeded)

\* The comment on goal_A6: a benchmark must see the attacks it has not
\* defended.  Whenever the undefended arm buys a cart that was overcharged
\* within the budget, the attack is scored as a success.
BaselineSeesOvercharge ==
  instance # None /\ instance.attack = "A6_catalog_overcharge" =>
    (instance.config = "C1" /\ instance.response # instance.honest =>
       instance.attack_succeeded)

\* The summary of the demo says that every attack was blocked, whatever the
\* beats have found: it says so only of attacks that were.
SummaryTrue ==
  demo = "done" => blocked = TamperingAttacks \cup {"A3_branded_whisper"}
=============================================================================
