----------------------------- MODULE Interview -----------------------------
(***************************************************************************)
(* From a request to a signed intent: buyer/interpret.py and               *)
(* buyer/review.py over the provider, as demo/interactive_buy.py and the   *)
(* tests drive them.                                                       *)
(*                                                                         *)
(* job tells who is talking to the model: "interactive" is main of         *)
(* interactive_buy with its AIReviewer, "scripted" calls conduct_review    *)
(* with a ScriptedReviewer, "evaluation" is LiveEvaluation's.  A request   *)
(* text is the number of clarifying answers folded into the request.       *)
(***************************************************************************)
EXTENDS Provider

CONSTANTS
  MaxRounds,   \* MAX_CLARIFICATION_ROUNDS: 2
  MaxAnswers,  \* bound: texts with more answers are not told apart
  Scripts      \* the ReviewAnswers a ScriptedReviewer can hold

\* The IntentMandates, as far as they are modelled.
Drafts ==
  [request_text : Nat, total_paise : Int, per_item_paise : Int, max_quantity : Int,
   escalate_above_paise : Int, substitutions_preapproved : BOOLEAN,
   needs_clarification : BOOLEAN]

\* The numbers of a response are whole: rupees are rounded to paise, and a
\* quantity is cut to an int.  Every text that is reached is told apart.
ASSUME InterviewAssumption ==
  /\ MaxRounds \in Nat /\ MaxAnswers \in Nat \ {0} /\ MaxRounds <= MaxAnswers
  /\ None \notin Drafts \cup Responses /\ None \notin Int
  /\ \A r \in Responses :
       /\ {r.budget_total, r.budget_per_item, r.max_quantity, r.escalate_above}
            \subseteq Int \cup {None}
       /\ {r.needs_clarification, r.substitutions_ok} \subseteq BOOLEAN

VARIABLES
  job,
  stage,   \* the await point the conversation has reached
  text,    \* text of conduct_review
  rounds,  \* rounds of conduct_review
  draft,   \* draft of conduct_review, or the draft main reviews
  raw,     \* raw_response of the AIReviewer, None before
  signed,  \* what has been signed, None before
  \* For the properties only:
  earliest, \* the first response that was read, None before
  latest    \* the latest text and response with a budget, None before

readings == <<earliest, latest>>
conversation == <<job, text, rounds, draft, raw, signed, readings>>
interviewVars == <<providerVars, stage, conversation>>

\* The two places where a person is asked, and where a conversation ends.
Prompts == {"asked for the budget", "asked for a detail"}
Ended == {"signed", "declined", "raised", "evaluated"}

-----------------------------------------------------------------------------
(* interpret: what it makes of a response. *)

Lesser(x, y) == IF x < y THEN x ELSE y

\* int(data.get("max_quantity") or DEFAULT_MAX_QUANTITY)
Quantity(response) ==
  IF response.max_quantity \in {None, 0} THEN 1 ELSE response.max_quantity

\* Mistake to detect: a price per item is taken for the total at any quantity.
PerItemForTotal(response) ==
  IF response.budget_total = None THEN response.budget_per_item
  ELSE response.budget_total

\* A single unit's price is the total; at any other quantity it is not.
BudgetTotal(response) ==
  IF response.budget_total = None /\ Quantity(response) <= 1
  THEN response.budget_per_item ELSE response.budget_total

BudgetStated(response) ==
  BudgetTotal(response) # None /\ BudgetTotal(response) > 0

\* The draft of a signable response.
DraftOf(response, request_text) ==
  LET total == BudgetTotal(response)
      item  == response.budget_per_item
  IN  [request_text   |-> request_text,
       total_paise    |-> total,
       per_item_paise |-> IF item \in {None, 0} THEN total ELSE Lesser(item, total),
       max_quantity   |-> Quantity(response),
       escalate_above_paise      |-> total,
       substitutions_preapproved |-> FALSE,
       needs_clarification       |-> response.needs_clarification]

\* json.loads or the Budget model refuse what the provider has returned.
Unreadable(response) ==
  \/ ~response.json
  \/ BudgetStated(response)
     /\ (Quantity(response) < 1 \/ DraftOf(response, 0).per_item_paise < 0)

\* The reply has raised, in the provider or in interpret.
InterpretRaises ==
  \/ reply.error # None
  \/ reply.error = None /\ Unreadable(reply.response)

\* InterpretResult.draft_intent of the reply to a text.
Interpreted(request_text) ==
  IF BudgetStated(reply.response) THEN DraftOf(reply.response, request_text) ELSE None

-----------------------------------------------------------------------------
(* The reviewers. *)

\* AIReviewer.review: the tripwire of its raw response, capped by the draft.
AIAnswers ==
  [confirmed |-> TRUE,
   escalate_above_paise |->
     IF raw.escalate_above = None THEN None
     ELSE Lesser(raw.escalate_above, draft.total_paise),
   substitutions_preapproved |-> raw.substitutions_ok]

\* _apply_review_answers
WithAnswers(answers) ==
  [draft EXCEPT
     !.escalate_above_paise = IF answers.escalate_above_paise = None THEN @
                              ELSE answers.escalate_above_paise,
     !.substitutions_preapproved = answers.substitutions_preapproved]

-----------------------------------------------------------------------------
(* The conversation. *)

InterviewInit ==
  /\ ProviderInit
  /\ job \in {"interactive", "scripted", "evaluation"}
  /\ guarded = (job = "evaluation")
  /\ stage = "started"
  /\ text = 0 /\ rounds = 0 /\ draft = None /\ raw = None /\ signed = None
  /\ earliest = None /\ latest = None

\* interpret of a text, up to the reply.
Ask(request_text, next) == Complete(request_text) /\ stage' = next

\* The reply of the last call has been dealt with and no other is made.
Consumed == reply' = None /\ UNCHANGED <<configuration, asking, attempt, meter>>

Read ==
  /\ earliest' = IF earliest = None THEN reply.response ELSE earliest
  /\ latest' = IF Interpreted(text) = None THEN latest ELSE <<text, reply.response>>

\* Nothing catches an exception: the program ends.
Raises ==
  /\ job # "evaluation"
  /\ reply # None /\ InterpretRaises
  /\ stage' = "raised"
  /\ Consumed
  /\ UNCHANGED conversation

\* main calls interpret itself; a scripted conduct_review starts with it.
StartInterview ==
  /\ stage = "started" /\ job # "evaluation"
  /\ Ask(0, IF job = "interactive" THEN "reading request" ELSE "resolving")
  /\ UNCHANGED conversation

\* main: a request with a budget goes to the reviewer, unclear or not; one
\* without goes to conduct_review, which interprets it afresh.
MainReads ==
  /\ stage = "reading request" /\ reply # None /\ ~InterpretRaises
  /\ Read
  /\ raw' = reply.response
  /\ IF Interpreted(0) # None
     THEN draft' = Interpreted(0) /\ stage' = "reviewing" /\ Consumed
     ELSE Ask(0, "resolving") /\ UNCHANGED draft
  /\ UNCHANGED <<job, text, rounds, signed>>

\* Mistake to detect: an unclear draft is asked about one round too few.
AsksOnceLess(result, round) == result.needs_clarification /\ round < MaxRounds - 1

\* The condition of the second loop.
AsksAgain(result, round) == result.needs_clarification /\ round < MaxRounds

\* Where conduct_review goes with a signable draft.
AfterDraft(result, round) ==
  IF AsksAgain(result, round) THEN "asked for a detail" ELSE "reviewing"

\* Mistake to detect: a round is counted only once it has helped.
RoundsUntilSignable == IF text = 0 \/ Interpreted(text) = None THEN rounds ELSE rounds + 1

\* The first interpretation is not a round; each one after an answer is.
RoundsSoFar == IF text = 0 THEN rounds ELSE rounds + 1

\* while not result.is_signable
Resolve ==
  /\ stage = "resolving" /\ reply # None /\ ~InterpretRaises
  /\ Read
  /\ rounds' = RoundsSoFar
  /\ draft' = Interpreted(text)
  /\ stage' = IF draft' # None THEN AfterDraft(draft', rounds')
              ELSE IF rounds' >= MaxRounds THEN "declined"
              ELSE "asked for the budget"
  /\ Consumed
  /\ UNCHANGED <<job, text, raw, signed>>

\* while result.needs_clarification: an answer after which there is no budget
\* any more leaves the draft of the round before.
Clarify ==
  /\ stage = "clarifying" /\ reply # None /\ ~InterpretRaises
  /\ Read
  /\ IF Interpreted(text) = None
     THEN stage' = "reviewing" /\ UNCHANGED <<draft, rounds>>
     ELSE /\ draft' = Interpreted(text)
          /\ rounds' = rounds + 1
          /\ stage' = AfterDraft(draft', rounds')
  /\ Consumed
  /\ UNCHANGED <<job, text, raw, signed>>

\* ask_clarification is answered: enrich_request_text, and interpret again.
PersonAnswers ==
  /\ stage \in Prompts
  /\ text' = Lesser(text + 1, MaxAnswers)
  /\ Ask(text', IF stage = "asked for the budget" THEN "resolving" ELSE "clarifying")
  /\ UNCHANGED <<job, rounds, draft, raw, signed, readings>>

\* The input is closed, or a ScriptedReviewer has run out of answers.
NoAnswer ==
  /\ stage \in Prompts
  /\ stage' = "raised"
  /\ UNCHANGED <<providerVars, conversation>>

\* review, _apply_review_answers and sign_mandate.
Review ==
  /\ stage = "reviewing"
  /\ \E answers \in IF job = "interactive" THEN {AIAnswers} ELSE Scripts :
       IF answers.confirmed
       THEN signed' = WithAnswers(answers) /\ stage' = "signed"
       ELSE stage' = "declined" /\ UNCHANGED signed
  /\ UNCHANGED <<providerVars, job, text, rounds, draft, raw, readings>>

\* A step of the provider, while the caller waits.
ProviderSteps == CallProceeds /\ UNCHANGED <<stage, conversation>>

\* What the program does without waiting for a person.
InterviewProceeds ==
  \/ StartInterview \/ MainReads \/ Resolve \/ Clarify \/ Review
  \/ Raises \/ ProviderSteps

-----------------------------------------------------------------------------
(* Properties. *)

\* The tripwire AIReviewer makes of a response.
TripwireOf(response, total) ==
  IF response.escalate_above = None THEN total ELSE Lesser(response.escalate_above, total)

(***************************************************************************)
(* Where each part of a signed mandate was read.  Its text, and the total, *)
(* or price of a single unit, it authorises are those of the latest        *)
(* reading with a budget, behind the conversation by one answer at most.   *)
(* The tripwire and the consent to substitutions that main signs are those *)
(* of the first reading, made before anything was asked.  The two are one  *)
(* reading only when the first one had a budget: what enrich_request_text  *)
(* (one whole interpretation) and AIReviewer (the last interpret() call)   *)
(* say of every mandate is not so once conduct_review has been through.    *)
(***************************************************************************)
LastGoodsFirstSettings ==
  signed # None =>
    /\ signed.request_text = latest[1] /\ text - latest[1] \in {0, 1}
    /\ \/ signed.total_paise = latest[2].budget_total
       \/ signed.max_quantity * signed.total_paise = latest[2].budget_per_item
    /\ signed.per_item_paise <= signed.total_paise
    /\ job = "interactive" =>
         /\ signed.escalate_above_paise = TripwireOf(earliest, signed.total_paise)
         /\ signed.substitutions_preapproved = earliest.substitutions_ok
         /\ BudgetStated(earliest) => latest = <<0, earliest>>

(***************************************************************************)
(* The comment on the second loop of conduct_review: what is still unclear *)
(* is asked about until the rounds are used up.  The exceptions are the    *)
(* ones of the code: an answer that loses the budget ends the questions,   *)
(* and main signs a first reading with a budget without asking.            *)
(***************************************************************************)
ClarifiedOrExhausted ==
  signed # None /\ signed.needs_clarification =>
    \/ rounds = MaxRounds
    \/ text = rounds + 1 /\ signed.request_text = rounds
    \/ job = "interactive" /\ text = 0
=============================================================================
