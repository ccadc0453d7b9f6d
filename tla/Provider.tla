------------------------------ MODULE Provider ------------------------------
(***************************************************************************)
(* llm/provider.py under the spend guard of eval/budget.py: one call of    *)
(* GeminiProvider.complete from its pre-flight check to what it returns or *)
(* raises, with retries and the hard timeout.  The program makes one call  *)
(* at a time.  What a caller does with the reply is Interview's business.  *)
(*                                                                         *)
(* Costs are in units of the smallest price a call can have; two prices    *)
(* are told apart only by which of them comes first.                       *)
(***************************************************************************)
EXTENDS Integers, FiniteSets, FiniteSetsExt

CONSTANTS
  None,         \* Python's None
  Responses,    \* what the model can answer
  Models,       \* names the environment can configure
  BannedModels, \* BANNED_MODELS
  PricedModels, \* the models PRICING knows
  Ceiling,      \* ceiling_usd of the BudgetGuard
  Projections,  \* what the pre-flight estimate of a call can be
  Costs,        \* what a call can really cost
  MaxRetries,   \* MAX_RETRIES: 4
  MaxUnmetered  \* bound: answers of a guarded provider without a usage

\* The exceptions that leave complete.
Errors ==
  {"ProviderBannedModel", "ValueError", "BudgetExceeded", "ProviderRateLimited",
   "ProviderTimeout", "ProviderError"}

ASSUME ProviderAssumption ==
  /\ None \notin Errors
  /\ Ceiling \in Nat /\ MaxRetries \in Nat \ {0} /\ MaxUnmetered \in Nat
  /\ Projections \subseteq Nat /\ Projections # {} /\ IsFiniteSet(Projections)
  /\ Costs \subseteq Nat /\ Costs # {} /\ IsFiniteSet(Costs)

VARIABLES
  model,     \* the model of every call
  guarded,   \* whether the provider was given a spend guard
  asking,    \* the request text of the call in progress, None outside
  attempt,   \* the attempt of _call_with_retry
  reply,     \* what complete has just returned or raised, None when consumed
  spent,     \* spent_usd
  aborted,   \* aborted
  \* For the properties only:
  billed,    \* what the calls of a guarded provider really cost
  unmetered  \* how many of them came back, or were given up, without a usage

configuration == <<model, guarded>>
call == <<asking, attempt, reply>>
bill == <<billed, unmetered>>
meter == <<spent, aborted, bill>>
providerVars == <<configuration, call, meter>>

ProviderInit ==
  /\ model \in Models /\ guarded \in BOOLEAN
  /\ asking = None /\ attempt = 0 /\ reply = None
  /\ spent = 0 /\ aborted = FALSE
  /\ billed = 0 /\ unmetered = 0

Returned(response) == [response |-> response, error |-> None]
Raised(error)      == [response |-> None, error |-> error]

\* Mistake to detect: the check looks at what is spent, not at what is asked.
BreachedAlready(projected) == spent > Ceiling

\* BudgetGuard.check
Breaches(projected) == spent + projected > Ceiling

(***************************************************************************)
(* complete, up to the call: a banned model is refused, and a guarded      *)
(* provider looks up the price and checks the ceiling before it calls.     *)
(***************************************************************************)
Complete(text) ==
  /\ attempt' = 0
  /\ \/ /\ model \in BannedModels
        /\ reply' = Raised("ProviderBannedModel")
        /\ UNCHANGED <<asking, aborted>>
     \/ /\ model \notin BannedModels
        /\ guarded /\ model \notin PricedModels
        /\ reply' = Raised("ValueError")
        /\ UNCHANGED <<asking, aborted>>
     \/ /\ model \notin BannedModels
        /\ guarded /\ model \in PricedModels
        /\ \E projected \in Projections : Breaches(projected)
        /\ reply' = Raised("BudgetExceeded") /\ aborted' = TRUE
        /\ UNCHANGED asking
     \/ /\ model \notin BannedModels
        /\ guarded => model \in PricedModels
                      /\ \E projected \in Projections : ~Breaches(projected)
        /\ asking' = text /\ reply' = None
        /\ UNCHANGED aborted
  /\ UNCHANGED <<configuration, spent, bill>>

\* The call ends with a reply.
Ends(outcome) == asking' = None /\ attempt' = 0 /\ reply' = outcome

\* A call of a guarded provider costs an amount, known to the guard or not.
Charged(cost, metered) ==
  IF ~guarded THEN UNCHANGED <<spent, bill>>
  ELSE /\ billed' = billed + cost
       /\ spent' = IF metered THEN spent + cost ELSE spent
       /\ unmetered' = IF metered THEN unmetered ELSE unmetered + 1

(***************************************************************************)
(* The model answers, usually with its usage; without it the call counts   *)
(* as free.  An unguarded provider looks up the price only now.            *)
(***************************************************************************)
Answers ==
  /\ asking # None
  /\ \E response \in Responses, cost \in Costs, metered \in BOOLEAN :
       /\ metered \/ (guarded /\ unmetered < MaxUnmetered)
       /\ Charged(cost, metered)
       /\ Ends(IF model \in PricedModels THEN Returned(response)
               ELSE Raised("ValueError"))
  /\ UNCHANGED <<configuration, aborted>>

\* A 429 backs off and tries again, but not after the last attempt.
Retries == attempt < MaxRetries - 1

RateLimited ==
  /\ asking # None
  /\ IF Retries THEN attempt' = attempt + 1 /\ UNCHANGED <<asking, reply>>
     ELSE Ends(Raised("ProviderRateLimited"))
  /\ UNCHANGED <<configuration, meter>>

\* HARD_TIMEOUT_S: the call is given up and never recorded, but future.cancel
\* does not stop a request under way, and it may be billed.
TimesOut ==
  /\ asking # None
  /\ Ends(Raised("ProviderTimeout"))
  /\ \E cost \in Costs \cup {0} : Charged(cost, FALSE)
  /\ UNCHANGED <<configuration, aborted>>

\* Any other error is raised at once.  The transport's own timeout is one of
\* them, and then too the request may be billed.
Fails ==
  /\ asking # None
  /\ Ends(Raised("ProviderError"))
  /\ \E cost \in Costs \cup {0} : Charged(cost, FALSE)
  /\ UNCHANGED <<configuration, aborted>>

CallProceeds == Answers \/ RateLimited \/ TimesOut \/ Fails

(***************************************************************************)
(* What the ceiling is worth: once anything is billed, the bill passes it  *)
(* by at most the error of one estimate, and by what the guard was never   *)
(* told of.                                                                *)
(***************************************************************************)
BillBounded ==
  billed > 0 =>
    billed <= Ceiling + (Max(Costs) - Min(Projections)) + Max(Costs) * unmetered
=============================================================================
