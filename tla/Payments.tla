------------------------------ MODULE Payments ------------------------------
(***************************************************************************)
(* What happens to an order after execute has asked for it: payments are   *)
(* attempted and captured at Razorpay, reconcile_capture looks at them     *)
(* from the buyer's side (tier 1), the webhook receiver is told of them    *)
(* (tier 2), and cancel_payment gives them back.  Orders are placed for    *)
(* the same signed cart and intent, so a PaymentMandate is known by its    *)
(* order; its id is the order's.                                           *)
(*                                                                         *)
(* Razorpay is not part of the repository: its actions are what the code   *)
(* and its tests take for granted of it.  It delivers an event any number  *)
(* of times, late and in any order.                                        *)
(***************************************************************************)
EXTENDS Integers, FiniteSets, FiniteSetsExt

CONSTANTS
  None,          \* Python's None
  Orders,        \* what execute can have asked for
  PaymentIds,    \* the attempts to pay at Razorpay
  NotesCarried,  \* those on which Razorpay repeats the notes of the order
  Amounts,       \* amounts an attempt can have, in paise
  Total,         \* total_paise of the signed cart
  PartialRefunds, \* amounts a cancellation can ask for, None for all of it
  Cancellers,    \* callers of cancel_payment
  MaxCancels,    \* bound: calls of cancel_payment
  MaxRestarts    \* bound: crashes of the webhook receiver

\* An event and the mandate it is held against.
Deliveries ==
  [event : [payment_id : PaymentIds, order_id : Orders \cup {None}, amount : Nat,
            status : {"captured", "failed"}, notes : Orders \cup {None}],
   order_id : Orders]

ASSUME PaymentsAssumption ==
  /\ Total \in Nat \ {0} /\ Amounts \subseteq Nat \ {0} /\ Total \in Amounts
  /\ PartialRefunds \subseteq Nat \ {0}
  /\ None \notin Orders \cup PaymentIds \cup Amounts \cup PartialRefunds
  /\ None \notin Deliveries
  /\ MaxCancels \in Nat /\ MaxRestarts \in Nat
  /\ IsFiniteSet(PaymentIds)

VARIABLES
  placed,      \* the orders Razorpay holds
  mandates,    \* those execute has returned a PaymentMandate for
  payments,    \* Razorpay's payments
  first_read,  \* reconcile_capture between its two fetches, None outside
  artifact,    \* the DisputeArtifact the last step returned, None when none
  cancelling,  \* cancel_payment between its fetches and its refund
  cancels,     \* how many calls of cancel_payment have been made
  seen,        \* WebhookDeduper._seen
  handling,    \* the delivery being processed, None outside
  matches,     \* what the receiver has found to match: payment and order
  restarts,    \* how often the receiver has restarted
  \* For the properties only:
  times        \* how often each event has been acted on

recourse == <<cancelling, cancels>>
receiver == <<seen, handling, matches, restarts, times>>
vars == <<placed, mandates, payments, first_read, artifact, recourse, receiver>>

\* The step returns no artifact.
NoArtifact == artifact' = None

-----------------------------------------------------------------------------
(* Razorpay. *)

NoPayment == [order_id |-> None, amount |-> 0, status |-> "absent", refunded |-> 0]

PaymentsOf(order) == {p \in PaymentIds : payments[p].order_id = order}

\* Mistake to detect: every attempt is taken for a capture.
AttemptsOf(order) == PaymentsOf(order)

CapturedOf(order) == {p \in PaymentsOf(order) : payments[p].status = "captured"}

\* An order counts as paid once money has been captured for it.
OrderStatus(order) ==
  IF \E p \in PaymentsOf(order) : payments[p].status \in {"captured", "refunded"}
  THEN "paid" ELSE "created"

\* An attempt to pay an order is captured, in whatever amount, or fails.
AttemptPayment ==
  /\ \E p \in PaymentIds, o \in placed, amount \in Amounts,
        status \in {"captured", "failed"} :
       /\ payments[p].status = "absent"
       /\ status = "failed" => amount = Total
       /\ payments' = [payments EXCEPT ![p] =
            [order_id |-> o, amount |-> amount, status |-> status, refunded |-> 0]]
  /\ NoArtifact /\ UNCHANGED <<placed, mandates, first_read, recourse, receiver>>

\* The body of the event that tells of an attempt: it does not change when
\* the payment is refunded later.
EventOf(p) ==
  [payment_id |-> p, order_id |-> payments[p].order_id,
   amount |-> payments[p].amount,
   status |-> IF payments[p].status = "failed" THEN "failed" ELSE "captured",
   notes |-> IF p \in NotesCarried THEN payments[p].order_id ELSE None]

Happened == {p \in PaymentIds : payments[p].status # "absent"}

-----------------------------------------------------------------------------
(* execute. *)

\* create_order; when the answer is lost execute raises, and no
\* PaymentMandate says that the order exists.
PlaceOrder ==
  /\ \E o \in Orders \ placed :
       /\ placed' = placed \cup {o}
       /\ mandates' \in {mandates, mandates \cup {o}}
  /\ NoArtifact /\ UNCHANGED <<payments, first_read, recourse, receiver>>

-----------------------------------------------------------------------------
(* reconcile_capture: two fetches, one after the other. *)

FetchOrder ==
  /\ first_read = None
  /\ \E o \in mandates : first_read' = [order_id |-> o, status |-> OrderStatus(o)]
  /\ NoArtifact /\ UNCHANGED <<placed, mandates, payments, recourse, receiver>>

\* Mistake to detect: only the captured payments are kept as evidence.
OnlyCaptured(order) ==
  [p \in CapturedOf(order) |-> [amount |-> payments[p].amount, status |-> "captured"]]

\* The answer to the second fetch: every payment of the order.
FetchedPayments(order) ==
  [p \in PaymentsOf(order) |->
     [amount |-> payments[p].amount, status |-> payments[p].status]]

\* What some payments come to.
ChargedAmount(items, ids) == MapThenSumSet(LAMBDA p : items[p].amount, ids)

\* Mistake to detect: attempts that failed are counted in.
ReconDeltaOfAll(items) ==
  LET charged == IF items = <<>> THEN None
                 ELSE ChargedAmount(items, DOMAIN items)
  IN  [charged_amount_paise |-> charged,
       matched |-> charged = Total /\ Cardinality(DOMAIN items) <= 1]

\* ReconDelta: what was captured in all, and whether it is one payment of
\* the signed amount.
ReconDelta(items) ==
  LET captured == {p \in DOMAIN items : items[p].status = "captured"}
      charged  == IF captured = {} THEN None
                  ELSE ChargedAmount(items, captured)
  IN  [charged_amount_paise |-> charged,
       matched |-> charged = Total /\ Cardinality(captured) <= 1]

FetchPayments ==
  /\ first_read # None
  /\ artifact' = [order_id |-> first_read.order_id,
                  razorpay_order    |-> first_read.status,
                  razorpay_payments |-> FetchedPayments(first_read.order_id),
                  delta |-> ReconDelta(FetchedPayments(first_read.order_id))]
  /\ first_read' = None
  /\ UNCHANGED <<placed, mandates, payments, recourse, receiver>>

\* The second fetch raises: no artifact.
FetchRaises ==
  /\ first_read # None
  /\ first_read' = None
  /\ NoArtifact /\ UNCHANGED <<placed, mandates, payments, recourse, receiver>>

-----------------------------------------------------------------------------
(* The webhook receiver: verify, dedup, parse, reconcile. *)

\* Mistake to detect: the signature is not looked at.
AnySignature(body, signed) == TRUE

\* verify_signature: the body is, byte for byte, the one that was signed.
SignatureVerifies(body, signed) == body = signed

\* A delivery may be damaged on the way: any other amount.
Bodies(p) == {EventOf(p)} \cup {[EventOf(p) EXCEPT !.amount = a] : a \in Amounts}

\* Mistake to detect: is_new answers without recording.
NotRecorded(ids, p) == ids

\* WebhookDeduper.is_new: check, then record.
Recorded(ids, p) == ids \cup {p}

\* The first half of process_payment_captured_webhook, called with one of the
\* caller's mandates: a delivery that verifies and is new is recorded as
\* seen.  A damaged one is refused with WebhookVerificationError, a seen one
\* with WebhookReplay: nothing changes.
Deliver(p) ==
  /\ handling = None
  /\ p \in Happened
  /\ \E body \in Bodies(p), o \in mandates :
       /\ SignatureVerifies(body, EventOf(p))
       /\ handling' = [event |-> body, order_id |-> o]
  /\ p \notin seen
  /\ seen' = Recorded(seen, p)
  /\ NoArtifact
  /\ UNCHANGED <<placed, mandates, payments, first_read, recourse, matches, restarts, times>>

\* reconcile_webhook_event: what the event gets wrong about the mandate.
\* The three notes are one here, as the orders share cart and intent.
EventViolations(event, order) ==
  {v \in {"order_id", "amount", "status", "notes"} :
     \/ v = "order_id" /\ event.order_id # order
     \/ v = "amount"   /\ event.amount # Total
     \/ v = "status"   /\ event.status # "captured"
     \/ v = "notes"    /\ event.notes # order}

\* The second half: the event is held against the mandate.
ReconcileEvent ==
  /\ handling # None
  /\ matches' = IF EventViolations(handling.event, handling.order_id) = {}
                THEN matches \cup {[payment_id |-> handling.event.payment_id,
                                    order_id   |-> handling.order_id]}
                ELSE matches
  /\ times' = [times EXCEPT ![handling.event.payment_id] = @ + 1]
  /\ handling' = None
  /\ NoArtifact
  /\ UNCHANGED <<placed, mandates, payments, first_read, recourse, seen, restarts>>

\* Mistake to detect: the seen ids survive a crash, as in a store that is
\* written before the event is processed.
SeenAfterCrash(ids) == ids

\* The dedup set is a field of an object in memory.
SeenAfterRestart(ids) == {}

\* The receiver dies, perhaps between the two halves, and comes back.
Restart ==
  /\ restarts < MaxRestarts
  /\ restarts' = restarts + 1
  /\ seen' = SeenAfterRestart(seen)
  /\ handling' = None
  /\ NoArtifact
  /\ UNCHANGED <<placed, mandates, payments, first_read, recourse, matches, times>>

-----------------------------------------------------------------------------
(* cancel_payment. *)

\* Mistake to detect: a cancellation is not held against the payment.
ReferencesSomePayment(cancellation, payment) == cancellation.payment_hash \in Orders

\* The cancellation names, by its hash, the very mandate it reverses.
References(cancellation, payment) == cancellation.payment_hash = payment

\* The checks and the two fetches, of which only the payments decide: the
\* first of the captured ones is refunded, and the order of the list is
\* Razorpay's.  Without a captured payment cancel_payment refuses.
StartCancel(c) ==
  /\ cancelling[c] = None
  /\ cancels < MaxCancels
  /\ cancels' = cancels + 1
  /\ \E payment \in mandates, hash \in Orders, amount \in PartialRefunds \cup {None} :
       LET cancellation == [payment_hash |-> hash, amount_paise |-> amount]
       IN  /\ References(cancellation, payment)
           /\ \E p \in CapturedOf(payment) :
                cancelling' = [cancelling EXCEPT ![c] =
                  [cancellation |-> cancellation, payment_id |-> p]]
  /\ NoArtifact /\ UNCHANGED <<placed, mandates, payments, first_read, receiver>>

Left(p) == payments[p].amount - payments[p].refunded

\* Razorpay refunds no more than is left of a captured payment, and all that
\* is left when no amount is given.
Refundable(p, amount) == payments[p].status = "captured" /\ amount \in 1..Left(p)

Asked(request) ==
  IF request.cancellation.amount_paise = None THEN Left(request.payment_id)
  ELSE request.cancellation.amount_paise

\* create_refund succeeds, whether or not its answer arrives.
CreateRefund(c) ==
  LET request == cancelling[c]
      p       == request.payment_id
  IN  /\ request # None
      /\ Refundable(p, Asked(request))
      /\ payments' = [payments EXCEPT
           ![p].refunded = @ + Asked(request),
           ![p].status   = IF Asked(request) = Left(p) THEN "refunded" ELSE @]
      /\ cancelling' = [cancelling EXCEPT ![c] = None]
      /\ NoArtifact /\ UNCHANGED <<placed, mandates, first_read, cancels, receiver>>

\* create_refund raises to no effect: refused by Razorpay, or a lost call.
RefundRaises(c) ==
  /\ cancelling[c] # None
  /\ cancelling' = [cancelling EXCEPT ![c] = None]
  /\ NoArtifact /\ UNCHANGED <<placed, mandates, payments, first_read, cancels, receiver>>

-----------------------------------------------------------------------------

Init ==
  /\ placed = {} /\ mandates = {}
  /\ payments = [p \in PaymentIds |-> NoPayment]
  /\ first_read = None /\ artifact = None
  /\ cancelling = [c \in Cancellers |-> None] /\ cancels = 0
  /\ seen = {} /\ handling = None /\ matches = {} /\ restarts = 0
  /\ times = [p \in PaymentIds |-> 0]

Next ==
  \/ PlaceOrder \/ AttemptPayment
  \/ FetchOrder \/ FetchPayments \/ FetchRaises
  \/ \E p \in PaymentIds : Deliver(p)
  \/ ReconcileEvent \/ Restart
  \/ \E c \in Cancellers : StartCancel(c) \/ CreateRefund(c) \/ RefundRaises(c)

(***************************************************************************)
(* Razorpay goes on delivering an event, and the receiver, a function that *)
(* runs to its end, processes what it has been given.  Nobody is forced to *)
(* pay, to reconcile or to cancel.                                         *)
(***************************************************************************)
Fairness ==
  /\ \A p \in PaymentIds : WF_vars(Deliver(p))
  /\ WF_vars(ReconcileEvent)

Spec == Init /\ [][Next]_vars /\ Fairness

-----------------------------------------------------------------------------
(* Properties. *)

\* Types, and that a call of cancel_payment is about money that was taken.
TypeOK ==
  /\ placed \subseteq Orders /\ mandates \subseteq placed
  /\ \A p \in PaymentIds : payments[p].refunded \in 0..payments[p].amount
  /\ \A c \in Cancellers :
       cancelling[c] # None =>
         payments[cancelling[c].payment_id].status \in {"captured", "refunded"}
  /\ seen \subseteq Happened
  /\ restarts \in 0..MaxRestarts /\ cancels \in 0..MaxCancels

\* The artifact is made of two answers given at different times, and still
\* it never contradicts itself: an order it calls paid comes with the money.
EvidenceConsistent ==
  artifact # None /\ artifact.razorpay_order = "paid" =>
    \E p \in DOMAIN artifact.razorpay_payments :
      artifact.razorpay_payments[p].status \in {"captured", "refunded"}

\* reconcile_webhook_event promises that the two tiers disagree only when
\* something is wrong.  Once the webhook has matched a payment, an artifact
\* that does not match shows a second capture or a refund.
TiersAgree ==
  artifact # None /\ ~artifact.delta.matched =>
    \A m \in matches : m.order_id = artifact.order_id =>
      LET items == artifact.razorpay_payments
      IN  \/ items[m.payment_id].status = "refunded"
          \/ \E q \in DOMAIN items \ {m.payment_id} : items[q].status = "captured"

\* A match of the webhook is money captured for that order in the signed
\* amount, whatever was damaged, delayed or repeated on the way.
MatchMeansPaid ==
  \A m \in matches :
    /\ payments[m.payment_id].order_id = m.order_id
    /\ payments[m.payment_id].amount = Total
    /\ payments[m.payment_id].status \in {"captured", "refunded"}

\* The deduper forgets on a restart and on nothing else: an event is acted
\* on at most once in the life of a process.
ActedOnOncePerLife == \A p \in PaymentIds : times[p] <= restarts + 1

\* What is about to be refunded is a payment of the order whose mandate the
\* cancellation names, although a lost answer leaves several orders about
\* and callers cancel at the same time.
RefundsHitTheirOrder ==
  \A c \in Cancellers : cancelling[c] # None =>
    LET request == cancelling[c]
    IN  payments[request.payment_id].order_id = request.cancellation.payment_hash

\* An event is recorded as seen before it is processed.  A crash in between
\* must not lose it: with a mandate to hold it against, every attempt to pay
\* is acted on at last.
EventsReconciled ==
  \A p \in PaymentIds : p \in Happened /\ mandates # {} ~> times[p] > 0
=============================================================================
