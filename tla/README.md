# Vyapaar: models and proofs

Vyapaar is a buyer's shopping agent and the kit with which merchants make
themselves readable to it. It turns a request in natural language into an
IntentMandate signed with the human's key, negotiates with a merchant's agent,
passes every cart through a policy engine of twenty gates, asks the human when
the engine says so, and creates a Razorpay order. This directory holds TLA+
models of that program, what TLC checks of them on small instances, and what
TLAPS proves of them for all values of the constants.

Everything is translated from the Python source. `PROJECT.json` ("map") names
the lines every definition stands for, "components" the status of every part,
and "hazards" the places that are hard to test with the properties that cover
them.

## 1. Inventory

| Component | State it keeps | Operations | Talks to | Model |
|---|---|---|---|---|
| Mandates (`mandates/`) | none; frozen, signed records | `sign_mandate`, `verify_envelope`, `mandate_hash`, `verify_chain`, `is_expired` | everybody | Mandates |
| Policy engine (`buyer/policy_engine.py`) | none; a pure function | `evaluate` and its twenty gates | approval, session, shop, harness, web demo | PolicyEngine |
| Approval (`buyer/approval.py`, `buyer/negotiate.py`) | locals of one call: amended intent, second cart, final decision | `build_amended_intent`, `resolve_escalation`, `negotiate` | human, merchant driver, engine | Approval, EscalationLoop |
| Merchant agent (`merchant_agent/`) | `_offer_made`, once per driver | `__call__`: propose a cart with alternatives, or decline | negotiate | MerchantAgent |
| Buying session (`demo/interactive_buy.py`, `buyer/execute.py`) | locals of `main`: intent, carts, envelopes, decision, and the `now` read at its start | the steps of `main`, `execute` | all of the above, Razorpay | BuySession |
| Interpretation and review (`buyer/interpret.py`, `buyer/review.py`) | text, rounds and draft of a conversation, the raw answer of the LLM | `interpret`, `conduct_review`, the reviewers | LLM provider, human | Interview |
| LLM provider and cost ceiling (`llm/`, `eval/budget.py`) | money spent so far, the abort flag | `complete` with retries and timeout, `check`, `record` | Gemini | Provider |
| Razorpay client, reconciliation, webhooks, cancellation | the orders, payments and refunds Razorpay holds; the set of seen event ids, in memory | `create_order`, `reconcile_capture`, `process_payment_captured_webhook`, `cancel_payment` | Razorpay, over HTTP both ways | Payments |
| Agent identity (`identity/`) | the nonce cache of the middleware, in memory | `sign_request`, `verify_request`, `dispatch` | merchant servers | AgentIdentity |
| Audit log (`audit/`) | a file of hash-chained records and each object's cached hash of the last one | open, `append`, `verify_log` | the scripted demo | AuditLog |
| Merchant kit, keys, catalog (`merchant_kit/`, `mandates/keys.py`, `buyer/catalog.py`) | page snapshots, key file, the files under `.well-known` | robots, fetch, extract, normalize, key, sign, emit; `load_verified_catalog` | the merchant's site, LLM, the buyers | Onboarding |
| Shopping and ranking (`buyer/shop.py`, `buyer/rank.py`) | locals of one call over several merchants | one cart per merchant; ranking of the approved ones | negotiate, engine | Shopping, Market |
| Web demo (`web_demo/server.py`) | a cache of onboarded merchants | `/api/negotiate`, `/api/execute` | merchant kit, negotiate, Razorpay client | Market |
| Red team, harness, scripted demo (`redteam/`, `eval/`, `demo/run_demo.py`) | results of a batch; the log | `run_instance`, both arms, five beats | driver, engine, audit log | RedTeam, Evaluation |
| Live evaluation (`eval/live_llm_eval.py`) | results so far, the intents picked | two passes over the corpus, the choice of live intents | interpret, provider | LiveEvaluation |
| Explanations, cassettes, tables, pages | none that matters | formatting, recording | the components above | none, see section 6 |

What is hard here, and what makes each part correct:

- **A session is a long sequence of reassignments.** `main` holds an intent,
  its envelope, a cart, its envelope, the alternatives and a decision in
  separate variables, and three places (fallback, recovery after an
  escalation, choice "2") reassign some of them. Correct: what is ordered
  belongs together, was approved, and is under the mandate in force.
- **A yes widens the human's own mandate.** Correct: it lifts exactly the
  gates that were asked about, up to the amount shown, and nothing a merchant
  brings next slips through.
- **One clock reading, prompts without a limit.** Correct: an expired mandate
  is not acted on. It is not kept, see `OrderedBeforeExpiry`.
- **Nobody sees a payment at one moment.** Reconciliation fetches order and
  payments one after the other, the webhook comes when it comes, once, twice
  or damaged, and a refund may be asked for in between. Correct: each view is
  consistent in itself, the two tiers disagree only for a reason, an event is
  not lost by a crash, and a refund is of the right order.
- **Memory by age.** The nonce cache forgets, and old signatures are refused,
  by two computations in two places. Correct: they agree.
- **A conversation reads one model several times.** The draft, the raw
  response, the text and the round are updated by different loops while the
  provider times out, retries and bills. Correct: every part of what is signed
  was read where the code means it to be read; the loops end; the bill is
  bounded. That all of it is of one reading, as the comments say, is not kept,
  see `LastGoodsFirstSettings`.
- **Files that belong together.** The key, the catalog and the key directory
  are written one after the other; the log by a line at a time. Correct: no
  crash makes a buyer trust files of two keys, and no verdict on a log accuses
  an honest writer or vouches for a record nobody meant to write.
- **A server with a memory.** What the web demo shows and what it charges are
  computed by different requests, and a basket replaces a cart whose verdict
  is at hand. Correct: verdict, price and page are about one cart, and what is
  paid was approved. The last is not kept, see `PaidOnlyIfApproved`.
- **A benchmark judges the gates with the gates.** Correct: it sees the
  attacks it has not defended, and picks nothing for its result.

## 2. Plan

Order by importance for what the program promises, money first. All of it is
done except what the last entry names.

1. `Mandates`, `PolicyEngine`, `Approval`, `MerchantAgent`,
   `SpendingAuthority`, `BuySession`, `EscalationLoop`, and their proofs.
2. `Payments` with webhooks, reconciliation and cancellation, and its proofs.
3. `AgentIdentity` and its proof that nothing is served twice.
4. `AuditLog`, and `Evaluation` (the harness and the scripted demo on it),
   with the proofs about the log and the attacks.
5. `Provider`, `Interview` and `LiveEvaluation`: from a request to a signed
   intent on a model that fails and bills, and the proofs about the bill and
   the conversation.
6. `Onboarding`, `Shopping`, `Market`: from pages to files to buyers, and the
   proofs about keys and files, about what a buyer sees, and about who wins.
7. The choice of the live intents (a stable sort and a loop over it), and that
   every step of a conversation leaves fewer steps to be taken; how far the
   violations that the runs show can reach.
8. Still to model: two command-line runs of the kit at once for one merchant.

## 3. Modules

    Mandates
      PolicyEngine                 gates, Evaluate        PolicyEngine_proofs
        Approval                   build_amended_intent
          EscalationLoop           MCEscalationLoop       EscalationLoop_proofs
          BuySession ------------- MCBuySession           BuySession_proofs
      MerchantAgent -------^       the driver
    SpendingAuthority              abstract; BuySession
                                   implements it
      PolicyEngine, MerchantAgent
        RedTeam                    attacks, goals, harness
      AuditLog
        Evaluation --------------- MCEvaluation           Evaluation_proofs
                                                          (RedTeam + AuditLog)
      Onboarding                   files and keys
      Shopping                     ranking
        Market ------------------- MCMarket               Market_proofs
                                                          (Onboarding + Shopping)
    Payments --------------------- MCPayments             Payments_proofs
    AgentIdentity ---------------- MCAgentIdentity        AgentIdentity_proofs
    Provider
      Interview
        LiveEvaluation ----------- MCLiveEvaluation       LiveEvaluation_proofs

Definitions introduced by "Mistake to detect" are variants of the definition
that follows them, each a mistake a change to the code could make. They are
part of no specification: replacing the original by its variant must make TLC
report the property named in `PROJECT.json`, which shows that the property is
sensitive to that code.

### Buying

**Mandates.** A mandate is a record with the fields of the pydantic model.
`Digest` is a tagged copy: equal digests, equal mandates. A signature holds
what it was made over, so "signed by the wrong key", "signature of something
else" and "no signature" are different envelopes.

**PolicyEngine.** One predicate per gate, true when the gate passes; `Checks`
maps the reason codes to them, and `Evaluate` computes the outcome from the
set of codes that failed. A gate that raises (division by a zero target price
in G5.1) makes the whole evaluation `ENGINE_ERROR`, as the `except` does.
Provenance is reduced to the four cases G1.1 tells apart, the percentage of
G5.1 is compared without the division.

**Approval.** `build_amended_intent` and the context of the re-evaluation.

**MerchantAgent.** The driver with `upsell_mode="benign"`. SKUs are naturals
in the code's sort order. The driver's own `Satisfies` and the engine's
`HardConstraintsMet` are different definitions on purpose: they are two pieces
of code.

**BuySession.** `stage` is the line of `main` the session has reached; the
other variables carry the names of the locals. One action per step between two
calls that can end the session or involve somebody else:

| Actions | Code |
|---|---|
| `NothingToSign`, `SignIntent` | interpretation, review, signing (299-333) |
| `Negotiate`, `MerchantDeclines`, `EvaluatePrimary` | 338-358 |
| `FallBack`, `NoFallBack` | the loop over the alternatives (360-381) |
| `HumanDeclines`, `HumanAgrees`, `Reevaluate` | `resolve_escalation` |
| `RecoverCart` | the third negotiation and the reassignments (391-398) |
| `Suggest`, `CancelPurchase`, `BuyPrimary`, `BuySuggestion` | the buy screen (400-438) |
| `Execute`, `AnswerLost`, `ClientRaises`, `Reconcile` | `execute`, `reconcile_capture`, and the client's failures |
| `HumanThinks` | the clock goes on while a prompt waits |

Five history variables (`granted`, `signed`, `evaluated`, `agreed`, `picked`)
record what the human signed, was asked and chose; no action reads them.

**EscalationLoop.** The same loop as a library, facing a merchant of whom
nothing is assumed: any proposal, bound to either intent, unsigned, signed by
a stranger, or altered after signing, and a different one the second time.

**SpendingAuthority.** What the buyer promises: money is spent at most once,
under the tripwire in force, which rises only to an amount the human was asked
about, within a hard limit that never moves. `BuySession` maps its mandate
signed last and its orders to this state (`Authority`).

### After the order

**Payments.** Razorpay's side is two functions, `payments` and the orders
`placed`; what the code takes for granted of it (`AttemptPayment`,
`Refundable`) is marked external in the map.

| Actions | Code |
|---|---|
| `PlaceOrder` | `execute`, its answer lost or not |
| `FetchOrder`, `FetchPayments`, `FetchRaises` | `reconcile_capture`, one action per fetch |
| `Deliver`, `ReconcileEvent` | `process_payment_captured_webhook` up to the recorded event id, and from there |
| `Restart` | the receiver dies, between the two or not, and forgets `_seen` |
| `StartCancel`, `CreateRefund`, `RefundRaises` | `cancel_payment` up to its refund; the refund takes effect or not |

An artifact exists in the state after the fetch that completes it and is then
dropped: the properties of artifacts speak of every one that can be made.

**AgentIdentity.** A request is a record with the covered fields, its body,
and whether the signature was damaged on the way. `RefusedEarly` and
`RefusedLate` are `verify_request` before and after the nonce cache, in the
order of the code, which matters: a request refused late has used up its
nonce. `RefuseEarly` and `CheckAndRecord` are the two outcomes of `dispatch`,
`Tick` the clock, `Restart` a new middleware with an empty cache. The
signature library's own opinion on expiry is a choice, since its clock is not
the one the code injects.

### From a request to a mandate

**Provider.** One call of `complete`: `Complete` is everything before the
request goes out (bans, price, ceiling), and `Answers`, `RateLimited`,
`TimesOut`, `Fails` what can come of an attempt. `spent` is what the guard
knows, `billed` what it cost.

**Interview.** `interpret` as operators on a response (`Quantity`,
`BudgetTotal`, `DraftOf`, `Unreadable`) and the two callers that talk to a
person. `Resolve` and `Clarify` are the two loops of `conduct_review`, one
action per reading; `MainReads` is `main`'s own interpretation before it;
`PersonAnswers` and `NoAnswer` the prompt; `Review` the reviewer and the
signature. A request text is the number of answers folded into it. Two history
variables (`earliest`, `latest`) record the first response that was read and
the latest one with a budget.

**LiveEvaluation.** The two measuring passes (`MeasureFidelity`,
`MeasureAmbiguity`), the exception that discards what they have gathered
(`EvaluationRaises`), and `PickIntents`, which is
`picked_scenario_ids` and `live_intents` in one fold.

### Merchants and their buyers

**Onboarding.** `run` is a call of `cli.run` with the place it has reached.
`StartRun`, then `Replay` or `FetchLive` once per URL, `ObtainKey`,
`WriteFile` once per file, `FinishRun`. `Serves` is what a live fetch may read:
the robots.txt of the URL's own host is asked, then redirects of the page are
followed (`Redirects`), to hosts whose robots.txt nobody reads. Two history
variables record the pages that were read by consent, and those that were
found behind such a redirect (`permitted`, `unasked`). `Crash` ends a run
anywhere, with the file being written torn, or the snapshot cut short: a page
that has lost its end is still a page (`CutShort`), which the next offline run
replays. `LoseKey` removes a key file, `BuyerRestarts` empties
the in-memory cache. `Loadable` is `load_keypair` and `load_verified_catalog`
with all their refusals.

**Shopping.** `score_candidate` with its fractions multiplied out, `rank` with
its ties, `shop_around` over endpoints and the carts their drivers answer. The
rows are indexed by the merchant's place in the call, so that the filters and
searches of the code are sets of places and their least element, of which the
prover knows more than of a filtered sequence; `Normalize` in Onboarding is a
recursive function for the same reason.

**Market.** The buyers on what is onboarded. `Shop` is one `shop_around`,
with drivers that are honest or sign a price above the published one;
`WebNegotiate` and `WebExecute` are the two handlers; `Onboards` is any step
of Onboarding in between. A request is one action because the server handles
one at a time.

### Judging the defence

**RedTeam.** The attacks as functions on a driver's response, the goal
predicates on a run record, and `RunInstance`, which is `run_instance`.

**AuditLog.** Objects on one file, each trusting the hash it holds: `Open`,
`AppendRecord`, `AppendFails`, `Close`; `Edit` is somebody with an editor. An
append that fails leaves nothing, a part of its record, the record without its
newline, or the whole line of a call that never returned; the process goes on
or is gone. `ended` says whether the last line has its newline: what is written
next goes into a line that has none (`WithLine`). `VerifyLog` is `verify_log`, including that it raises
on a line that is no JSON.

**Evaluation.** `RunSafety` and `RunRevenue` are one instance of either arm.
`StartDemo`, `Beat`, `BeatFails`, `Interrupted`, `PrintSummary` are the scripted demo with
its log, `OthersOnTheLog` whoever else has it open.

## 4. Runs

Configurations that pass:

- **`BuySession.cfg`**. Every path of `main` ends properly (deadlock is
  checked); execute never refuses; the order binds the mandate signed last to
  a cart that answers it, also when its answer is lost; it is under the
  tripwire granted first or an amount agreed to; its content was approved; it
  never costs more than the option the human picked; and the session
  implements `SpendingAuthority`.
- **`EscalationLoop.cfg`**. Whatever the original terms have against the cart
  finally approved was among the reasons shown to the human; nothing above the
  original thresholds and the amount shown is approved; approved goods cost at
  most their published prices; a cart bound to the original terms is not
  approved under the amended ones; and a merchant that repeats the cart the
  human saw gets it approved, unless its own policy threshold was exceeded.
- **`Payments.cfg`**. An artifact never contradicts itself although its two
  fetches are of two moments; webhook and artifact disagree only over a refund
  or a second capture; a match means money taken for that order; an event is
  acted on once in a life of the receiver and, with crashes, in the end; a
  refund is of the order whose cancellation was asked for.
- **`AgentIdentity.cfg`**. In one life of the server no request is served
  twice, what is served is what was signed, a replay is never said of a nonce
  that has not come before, and the cache holds nothing that can no longer be
  served.
- **`Evaluation.cfg`**. No tampering attack succeeds in a defended arm, and
  the undefended baseline scores every overcharge; the demo's hard-coded
  summary is true of its beats; a log that verifies holds only what `append`
  was called to write, whether it returned or not, in the order of the calls;
  and with one writer at a time, no failed write and no edit, it verifies and
  is complete.
- **`LiveEvaluation.cfg`**. All three jobs on one provider: a signed mandate
  has its goods and its budget from the latest reading with a budget and, in
  `interactive_buy`, its tripwire and consent to substitutes from the first
  reading of all; what is signed unclear has used up its rounds;
  the bill, once there is one, passes the ceiling only by the error of one
  estimate and by what the guard was never told of; the live intents are the first ones; and every
  conversation ends or waits for a person.
- **`Market.cfg`**. A loaded catalog is signed by the key that signs the
  carts; every item comes from a page, whole or cut short by a crash, that was
  fetched for a URL whose own robots.txt allowed it; what is published is of one key as long as none is lost; the winner of shopping
  around deserves it; and what the web demo calls approved fits the page, at
  the prices shown when it is paid.

Configurations in which TLC must find a counterexample, each stating what a
document or a comment of the repository says (quotations in `PROJECT.json`,
"findings"):

- **`BuySession_Evidence.cfg`**: the dispute artifact can hold the envelope of
  another cart than the one ordered. Fallback to the first alternative, then
  choice "2" on the second, which is paired with the first envelope.
- **`BuySession_Evaluated.cfg`**: after an escalation the cart ordered was
  never evaluated; the one that was has been thrown away. That its *content*
  agrees (`OrderedContentApproved`) is a property of this merchant agent, not
  of the buyer.
- **`BuySession_Expiry.cfg`**: an order can be placed on an expired cart.
- **`EscalationLoop_Threshold.cfg`**: an approved amount can go on tripping
  G7.1, when the merchant's threshold is the tighter one.
- **`Market_Unapproved.cfg`**: the web server's `/api/execute` pays a cart that
  no intent would have approved: it takes SKUs and quantities from the client,
  signs a cart of them and creates the order, without an `evaluate()`, also
  when the page before said rejected or when there was none. (That page's
  caption, server.py:459, reads "20 / 20 Cryptographic Security Gates
  Verified" whatever the outcome was.)

Three further disagreements with documents are not runs of their own: a passing
run states and checks what the code does *instead*, exactly.

- **Deleted tails.** run_demo.py:404, log.py:3-5 and verify.py:2-4 say that
  deleting any record breaks the chain. Deleting the last ones does not:
  `IntactMeansAuthentic` asks for the records that are there and not for all
  of them, `Edit` deletes the last line and the log verifies, and
  `IntactPrefix` proves that every prefix of an intact log is intact.
- **Two readings in one mandate.** review.py:103-104 says that the reviewer's
  raw response is that of the last `interpret()` call, interpret.py:336-338
  that every mandate is a whole interpretation of a whole request. `main` hands
  over the response of its own first call: `LastGoodsFirstSettings` says which
  part of the mandate is of which reading.
- **Redirects of pages.** robots.py:2-3 says that robots.txt is enforced before
  any product page is fetched, and robots.py:38-44 calls reading a host under
  the rules of another one a bug. The fetch of a page (fetch.py:85) follows
  redirects without asking: `OnlyConsentedUrls` is about the URL, not about the
  host that served it.

Noted while modelling and not checked, against what a text says:

- `in_stock` is published, verified and read by nobody, although
  normalize.py:93-95 says that an unknown stock fails closed: an item that is
  out of stock is offered, approved and bought.
- run_demo.py:447 prints "Audit chain verified." whatever `verify_log` said;
  line 401 before it prints the verdict. `SummaryTrue` covers the summary of
  the beats and not that line.
- The docstring of `run_live_e2e_matrix` (live_llm_eval.py:304-307) reads as if
  a later repeat were tried when an earlier one is not signable after the
  review; `PickIntents` and the code stop at the first one with a draft
  (`NoLuckyDraft`).
- budget.py:2-13 calls the ceiling hard; `BillBounded` says by how much it can
  be passed, with the calls the guard was never told of counted apart: answers
  without usage, and timeouts and errors that were billed all the same.

Noted while modelling, where no document says otherwise:

- An order whose answer is lost (`AnswerLost`, `PlaceOrder`) is found by
  nothing in the repository.
- A partial cancellation that is repeated refunds twice, each time from the
  first captured payment; a second capture is refunded only once the first is
  used up.
- Webhook ids and nonces are in memory. After a restart an event is acted on
  again and a request within its window is served again; the properties are
  stated for one life of the process, and `ActedOnOncePerLife` counts the
  lives.
- A request whose body was damaged on the way uses up its nonce: the honest
  original is then called a replay.
- A record whose `append` raised may be in the log and verify; a writer that
  goes on after a failed write makes the log one that does not verify, or on
  which the verifier raises.
- A live evaluation that raises late loses all results it has paid for.
- When the driver declines, `/api/negotiate` answers with an error; a
  duplicate SKU on a merchant's pages ends the server.
- A snapshot cut short by a crash is replayed as if it were the page: products
  are missing, or told as the rest of the page tells them.
- Choice "2" on a suggestion that fails its evaluation buys the primary
  without asking again; G8.1 bounds the price of goods but not tax and
  shipping; the human approves "this specific purchase" (approval.py:100) yet
  another item of the same category and no higher amount can take its place in
  the renegotiation.

### Bounds

Every bound is a constant whose name starts with `Max`, or a set of the
configuration.

- Session: four items, chosen so that two are equally cheap, one of them with
  the attribute asked for, the upsell is dearer, and another category lies
  between; budgets from 1 to 5 cover each price from below, at it and above,
  and 1.5 times the budget. `MaxAlternatives = 1` as in the program, the
  policy is `_permissive_policy` scaled down. `MaxClock = 2` with carts valid
  for 1 and intents for 4 lets the clock pass the one and not the other. The
  review answers include no tripwire, one at every boundary, and -1, which an
  LLM can produce and `model_copy` does not refuse.
- Escalation: `MCEscalationLoop` has for every gate a cart, intent, policy or
  context that trips it, alone and together with an escalation; two
  renegotiations are not needed because `resolve_escalation` renegotiates
  once. `MaxCartLines` is 2 instead of 20, with a cart of three lines to
  exceed it.
- Payments: two orders, so that a payment, an event or a refund can be of the
  wrong one; two attempts, so that there is a second capture; the signed
  amount and another; two cancellations, so that one is repeated; one crash.
  Callers at the same time are checked with one caller and proved for any
  number.
- Identity: lifetime and skew of one second, clocks off by nothing or by more
  than the skew, time up to the second after the last acceptance; two messages
  with one nonce, which two agents happened to draw, and an agent nobody
  registered.
- Evaluation: the catalog and budget of the scripted demo and a scenario for
  every mechanism of the corpus, each with every attack and configuration;
  six records, as many as the demo has, so that somebody else's record in
  between leaves it unfinished, and one after it needs a demo that was
  stopped (`Interrupted`); one edit, one failed write.
- Live evaluation: responses of every shape `interpret` tells apart (both
  budgets, one of them, none, zero, negative, unreadable; clear or not; with
  quantities), two rounds as in the code, two attempts of a call instead of four, two
  repetitions of two scenarios; a ceiling that a few calls reach.
- Market: two merchants sharing a SKU, one with two pages; pages that change,
  clash or fail; one URL whose page is found at another host by now; one page
  that a crash can cut to nothing or to a lower price; three runs and three
  keys (interchangeable, hence the symmetry), one lost key file. With two
  merchants the cap of `shop_around` (`MAX_MERCHANTS`, five) is never reached;
  the theorem about it is for any number.

Deadlock is not checked where the program may really stop: a history that has
used up its bounds, or a demo that is done.

### Fairness

Two specifications state it; all other properties are safety properties, in
which any step may be the last: a prompt may never be answered, a call may
raise.

- `Payments`: `WF_vars(Deliver(p))` for every event, because Razorpay repeats
  a delivery until it is answered, and `WF_vars(ReconcileEvent)`, because the
  receiver is a function without waiting that runs to its end unless the
  process dies, which `Restart` may do at any time, `MaxRestarts` times.
  Nobody is forced to pay, reconcile or cancel. With it, `EventsReconciled`: a
  crash after the id is recorded does not lose the event, *because* the record
  is in memory.
- `LiveEvaluation`: `WF_vars(Proceeds)`. A call ends, since it has a hard
  timeout and a bounded number of attempts, and the program does not wait for
  anything else but a person. Nothing is assumed of the person
  (`PersonAnswers`, `NoAnswer`). With it, `ConversationEnds`.

## 5. Proofs

All constants are arbitrary, under the assumptions named in the modules. They
say what the pydantic models and `load_verified_catalog` enforce (amounts are
integers, prices and budgets naturals, target prices naturals or absent), what
the programs fix (`_permissive_policy` restricts no category, in
`SessionAssumption`), that merchants and pages are finitely many, and that
Python's `None` is none of the values it is told from. TLC evaluates them in
the passing runs.

The provers cannot use an induction theorem, since those take an operator. What
a sum, a filter or an order computes for data of any size is proved by a least
counterexample instead: a set of naturals that is not empty has a least element
(`LeastNat`), and the first place where a recursive function goes wrong is
preceded by one where it does not. `SubtotalIsASum`,
`SmallerEntriesSmallerSum`, `NormalizedItems`, `SomeAreFirst` and `FoldExists` are of
this kind.

Every safety invariant of a passing run is stated by a theorem.

- **`PolicyEngine_proofs`.** What an outcome says about the gates
  (`NotRejectedMeans`, `EscalationCodesMean`, `ApprovalMeans`): the other
  proofs never look inside `Evaluate`. Which gates mandates that differ only
  in what is amended pass together (`PassTogether`), and the sums over lines.

- **`BuySession_proofs`.** First the driver: every cart of a proposal binds the
  intent and costs a natural amount (`ProposalCarts`); the second answer to
  the same constraints is not dearer than the first (`OfferIsMadeOnce`). Then
  the inductive invariant `IInv` and from it `TypeCorrect`,
  `ExecuteNeverRefuses`, `OrderBindsItsChain`, `TripwireIsHonoured` and
  `SessionImplementsAuthority`; `PaysOnceWithinLimit` is what the abstract
  specification guarantees, inherited through the refinement. None of these is
  inductive by itself. `IInv` adds which mandate is in force at which stage
  (after a yes it is in the resolution, not in `intent`), that the
  alternatives and the suggestion answer that mandate, what the latest verdict
  bounds, and, between the re-evaluation and the recovery, that *the cart the
  driver will propose next* is under the tripwire.

  `OrderedWasApproved` and `PickIsNeverExceeded` need a second invariant,
  `PurchaseInv`: what has been evaluated, and what the driver will answer. The
  driver's offer is settled after its first answer, so the third negotiation
  brings the content that was re-evaluated in the second
  (`OfferIsSettled`). The first alternative that the program would fall back
  on is at least as cheap as what it replaces, and a cheaper cart of the same
  kind is approved where the dearer one was (`CheaperDoesNoWorse`), which is
  where it matters that the policy restricts no category: the alternatives
  need not be of the primary's.

  Two runs show what the session does not keep of its documentation. Two
  theorems say how far that goes, from a third invariant, `PathInv`, on which
  envelope and which verdict belong to the cart in hand: only choice "2" leads
  to evidence of another mandate than the one that is ordered, and even then
  the artifact has the amount of the order (`EvidenceAsOrdered`); only after a
  human has agreed to a cart is a mandate ordered that was not itself evaluated
  (`OrderedAsEvaluated`), and then `OrderedWasApproved` says that its content
  was.

- **`EscalationLoop_proofs`.** Six theorems, for any merchant.
  `NothingSpentUnseen` and `StaleCartIsRefused` rest on the invariant
  `LoopInv`: what the cart the human saw is bound to, and what the amendment
  did to the tripwire; the stale cart is refused because amending changes the
  mandate, hence its digest. `YesIsNoBlankCheck` and `AskedOnceIsEnough` rest
  on `ReviewInv`: the verdict on record is about the cart at hand and the
  amended intent is that verdict's. The argument: the gates that reject read
  nothing that is amended, except the expiry and the budget
  (`PassTogether`), and the budget never moves, because a cart over it
  is rejected and so never escalated (`BudgetStays`): the `max` in
  `build_amended_intent` is never the cart's total. `PublishedPricesHold`
  compares two sums line by line: the gate on catalog prices bounds each
  summand, the gate on the arithmetic says that the subtotal is the sum.
  Assumed of the mandates: the fields and types of the pydantic models, and
  their validator's `expires_at > issued_at`.

- **`Evaluation_proofs`.** *The log.* `LogInv`: every record that was appended
  continues the chain of one that was appended before it, and every line of
  the file is such a record, one whose content was altered, or what is left of
  a write. "Appended" means that `append` was called to write it: the call may
  have failed after the record was in the file. A hash determines its record,
  so a line whose content matches its
  hash was appended as it stands (`IntactLineWasAppended`), and the next line
  of a file that verifies was appended later than the line before it
  (`NextLineIsLater`, `LaterLineIsLater`). So a log that verifies holds
  appended records only, in the order of the calls (`IntactLogIsAuthentic`).
  It cannot show that none is missing: `IntactPrefix` proves that records
  deleted at the end leave an intact log. `HonestLogVerifies`
  adds that without a failed write, an edit or a second writer the file *is*
  the record.
  *The attacks.* Each goal predicate of an attack on the cart is the negation
  of a gate, on the line that is scored (`GatesDenyGoals`); an attacked
  response still has a cart with that line. So no attack succeeds in a
  defended arm (`NoAttackOnACartSucceeds`) and the demo's summary is true
  (`SummaryHolds`), whatever the catalog, multipliers and scenarios.
  `BaselineCounts` is the converse: signing an honest cart again as it is
  changes nothing, so an overcharge that is different from the honest answer
  has raised the price, of a line that is published, and that line is the one
  that is scored. Its hypothesis is that `None`
  is not a response: that ranges over every envelope and pitch, so TLC could
  not evaluate it as an assumption on the constants, and the theorem states it.

- **`LiveEvaluation_proofs`.** `CeilingHolds`: a call under way was estimated
  to fit under the ceiling, so what the guard knows of exceeds it by the cost
  of one call at most, and only while something has been billed; what it does
  not know of is counted apart. `SignedAsRead` and `AskedUntilClear` rest on
  an invariant with one part per place where a conversation waits: which text
  has been read, how many rounds have gone by, that the draft at hand is made
  of the latest response with a budget, and the raw response at hand the
  first, although two loops update text and draft at different times.

  `FirstDraftOrNone`: `sorted(..., key=k)` is modelled by what it does, the
  result with n results before it is at place n + 1; that there is exactly one
  for each place, and that equal repeats stay in their order, is
  `SortedByRank`, by counting. The loop is a fold of the library, written with
  operators as parameters; `FoldIsALoop` gives it the form of a loop with a
  variable, for which `LoopPicksFirst` says that what has been picked is the
  review of the first signable result so far. Since the results of a scenario
  are made in the order of their repeats (`RepeatsInOrder`), the first one
  looked at is the first one made.

  `EveryStepCounts` is what `ConversationEnds` rests on besides fairness: a
  natural number that every step lowers. It counts the turns that the program
  and the person have left, by the rounds and the results that are still to
  come (`TurnsAreLimited`), and within a turn the attempts of the call under
  way (`CallComesToItsEnd`); a turn weighs `MaxRetries + 2`, more than any call
  it starts (`TurnOutweighs`). Its invariants say that a call is under way only
  where the program waits for one (`CallInv`) and that no pass has more results
  than calls (`PassesInv`).

- **`AgentIdentity_proofs`.** All five properties of `AgentIdentity.cfg`, for
  every lifetime, skew, clock and set of requests. The difficult one is
  `NoReplay`. The invariant is `Remembered`: whatever was served and
  could still be accepted is in the cache. Its two lemmas say that the only
  copy that comes to OK is the original, and that a remembered one does not.
  `NothingForged`, `CachePruned` and `NoFalseReplay` follow from `CheckedCopy`,
  which says all that one check does to the cache and answers.

- **`Payments_proofs`.** All six safety properties of `Payments.cfg`, for any
  number of orders, payments, callers and restarts. They are about facts
  learnt at one time and used at another, so the proof is one lemma,
  `Evolves` (a payment keeps its order and amount, money taken stays taken or
  goes back, a failed attempt stays failed), and an invariant with one part
  per place where something learnt is kept: the event in hand, the first
  fetch, the cancellation under way, the matches found. `Counted` ties the
  number of times an event was acted on to the deduper's set and the lives of
  the receiver. `NoEventIsLost` is what `EventsReconciled` rests on besides
  fairness: an event that is recorded as seen is in hand or has been acted on,
  because a crash forgets the record with the event, so that an idle receiver
  never turns away the redelivery of one nobody has acted on.

- **`Market_proofs`.** `OneIdentity` and `CoherentEndpoints`, through runs
  that die between any two writes. Neither is inductive: `KeyFirst` (nothing
  is published before there is a key on file) is why a key that is created is
  the first, and `KeyInHand` (a run that writes holds the key on file) why
  what it writes is of that key.

  `Provenance`: what a run has gathered, what is in a file and what a buyer
  has loaded is among what pages told, whole or cut short, that were fetched
  for a URL whose own host allowed it, as such facts are only ever added to;
  `ItemsOfConsentedUrls` is the part of it that a buyer sees. Neither says that
  the host behind a redirect was asked: it was not.

  `PagesTellTheTruth`: the verdict of a page is about the cart of the page, so
  the gates speak of what is shown, also when a basket has taken the place of
  the negotiated cart; the alternative to a basket has another item because the
  first alternative of the driver is never its primary. That the prices charged
  are those that were shown needs `ShownInv`: an offline run is started only
  for a merchant that is not in the cache, so what was shown is not replaced
  as long as the server lives.

  `BestCartWins`: scores are fractions, and the ranking compares their cross
  products. It is transitive (`FractionsAreOrdered`, `RankingIsTransitive`),
  so among finitely many candidates one has none before it (the one with
  fewest before it, `SomeAreFirst`); the preferred brand outweighs all else,
  50 points against 30 and 5 (`BrandDecides`), and with equal brands what is
  cheaper and no farther from the target is ranked before (`CheaperDecides`).
  The row is found again by merchant, of whom there is one row each
  (`RowOfFinds`).

Only model-checked:

- `EventsReconciled` and `ConversationEnds`: liveness under fairness needs
  `ENABLED`, which is out of the prover's reach. What they rest on besides it
  is proved (`NoEventIsLost`, `EveryStepCounts`).
- `PaidOnlyIfApproved` and the other properties that a run shows violated.

## 6. Not modelled

- **Explanations** (`buyer/explain.py`): texts about decisions that were made.
- **Payment cassettes and `llm/record_replay.py`**: recording and replay for
  the tests.
- **`eval/metrics.py`, `eval/report.py`**: statistics and tables over results.
  The corpora are samples.
- **Parsing**: HTML, JSON-LD, the LLM's prompts and text, amounts in words. A
  page is the products found on it, a response the fields `interpret` reads.
- **The merchant's policy file** (`agent-policy.json`): it is written and no
  program reads it. `merchant_kit/report.py` and `serve.py` print and serve.
- **`buyer/human_key.py`**: a key file of a person, of the kind
  `mandates/keys.py` makes for a merchant. JWK encoding, cryptography and
  canonical JSON are abstracted in `Mandates`.
- **`verify_notes_binding`, `add_signature`, the payment leg of
  `verify_chain`**: no program calls them, only tests.
- **Two runs of the kit for one merchant at once**, as two command lines could
  start: the later key would replace one the earlier run has signed with. The
  model has one run at a time, as the programs of the repository call it.
- **A verified webhook that does not parse**: it raises `WebhookPayloadError`
  after its id has been recorded. Repetitions have the same body.
- HTTP itself and the rendering of screens and pages.
