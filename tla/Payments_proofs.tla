--------------------------- MODULE Payments_proofs ---------------------------
(***************************************************************************)
(* What the receiver, the reconciliation and the cancellation conclude at  *)
(* different times about payments that go on changing.  The proof rests on *)
(* one lemma, Evolves: whatever step is taken, a payment that was made     *)
(* keeps its order and amount, money taken stays taken or goes back, and a *)
(* failed attempt stays failed.                                            *)
(***************************************************************************)
EXTENDS Payments, FiniteSetTheorems, TLAPS

Paid == {"captured", "refunded"}

PaymentRecords ==
  [order_id : Orders \cup {None}, amount : Nat,
   status : {"absent", "failed"} \cup Paid, refunded : Nat]
Events ==
  [payment_id : PaymentIds, order_id : Orders \cup {None}, amount : Nat,
   status : {"captured", "failed"}, notes : Orders \cup {None}]
Requests ==
  [cancellation : [payment_hash : Orders, amount_paise : PartialRefunds \cup {None}],
   payment_id : PaymentIds]

\* The types of all variables but the two the reconciliation reads into.
Typed ==
  /\ placed \subseteq Orders /\ mandates \subseteq placed
  /\ payments \in [PaymentIds -> PaymentRecords]
  /\ \A p \in PaymentIds : payments[p].refunded <= payments[p].amount
  /\ cancelling \in [Cancellers -> Requests \cup {None}] /\ cancels \in 0..MaxCancels
  /\ seen \subseteq Happened
  /\ handling \in [event : Events, order_id : Orders] \cup {None}
  /\ matches \subseteq [payment_id : PaymentIds, order_id : Orders]
  /\ restarts \in 0..MaxRestarts
  /\ times \in [PaymentIds -> Nat]

\* What is about to be refunded is money taken for the order that is named.
Refunding ==
  \A c \in Cancellers : cancelling[c] # None =>
    /\ payments[cancelling[c].payment_id].status \in Paid
    /\ payments[cancelling[c].payment_id].order_id = cancelling[c].cancellation.payment_hash

\* The event in hand tells of a payment as it still is, and is recorded.
Handled ==
  handling # None =>
    LET event == handling.event
    IN  /\ event.payment_id \in seen
        /\ event.order_id = payments[event.payment_id].order_id
        /\ event.amount = payments[event.payment_id].amount
        /\ event.status = "captured" => payments[event.payment_id].status \in Paid

InHand(p) == handling # None /\ handling.event.payment_id = p

\* In this life an event has been acted on if it is seen and not in hand.
Counted ==
  \A p \in PaymentIds :
    /\ times[p] <= restarts + 1
    /\ p \notin seen \/ InHand(p) => times[p] <= restarts

\* What the first fetch has read of an order is still so at the second.
ReadTruly ==
  first_read # None /\ first_read.status = "paid" =>
    \E p \in PaymentsOf(first_read.order_id) : payments[p].status \in Paid

IInv ==
  /\ Typed /\ Refunding /\ Handled /\ Counted /\ ReadTruly
  /\ EvidenceConsistent /\ MatchMeansPaid /\ TiersAgree

-----------------------------------------------------------------------------
(* How payments change. *)

\* One payment, before and after a step.
Follows(before, after) ==
  before.status # "absent" =>
    /\ after.status # "absent"
    /\ after.order_id = before.order_id /\ after.amount = before.amount
    /\ before.status \in Paid => after.status \in Paid

AllFollow == \A p \in PaymentIds : Follows(payments[p], payments'[p])

\* A captured payment of which some more is given back.
LEMMA RefundedRecord ==
  ASSUME NEW before \in PaymentRecords, before.status = "captured",
         NEW asked \in Nat, before.refunded + asked <= before.amount, NEW status \in Paid
  PROVE  LET after == [before EXCEPT !.refunded = @ + asked, !.status = status]
         IN  /\ after \in PaymentRecords /\ after.refunded <= after.amount
             /\ Follows(before, after)
<1> DEFINE after == [before EXCEPT !.refunded = @ + asked, !.status = status]
<1>1. after.status = status /\ after.refunded = before.refunded + asked
  BY DEF PaymentRecords
<1>2. after.order_id = before.order_id /\ after.amount = before.amount
  BY DEF PaymentRecords
<1>3. after \in PaymentRecords
  <2> DEFINE between == [before EXCEPT !.refunded = @ + asked]
  <2>1. between \in PaymentRecords
    BY DEF PaymentRecords
  <2> HIDE DEF between
  <2>2. [between EXCEPT !.status = status] \in PaymentRecords
    BY <2>1 DEF PaymentRecords
  <2> QED BY <2>2 DEF between
<1>4. Follows(before, after)
  BY <1>1, <1>2 DEF Follows, Paid
<1> QED BY <1>1, <1>2, <1>3, <1>4

LEMMA RefundEvolves ==
  ASSUME PaymentsAssumption, Typed, NEW c \in Cancellers, CreateRefund(c)
  PROVE  /\ AllFollow
         /\ payments' \in [PaymentIds -> PaymentRecords]
         /\ \A p \in PaymentIds : payments'[p].refunded <= payments'[p].amount
<1> DEFINE p == cancelling[c].payment_id
           asked == Asked(cancelling[c])
           status == IF asked = Left(p) THEN "refunded" ELSE payments[p].status
           after == [payments[p] EXCEPT !.refunded = @ + asked, !.status = status]
<1>1. p \in PaymentIds
  BY DEF CreateRefund, Typed, Requests
<1>2. payments[p] \in PaymentRecords /\ payments[p].refunded <= payments[p].amount
  BY <1>1 DEF Typed
<1>3. payments[p].status = "captured" /\ asked \in 1..Left(p)
  BY DEF CreateRefund, Refundable
<1>4. payments' = [payments EXCEPT ![p] = after]
  BY DEF CreateRefund, Typed
<1>5. asked \in Nat /\ payments[p].refunded + asked <= payments[p].amount
  BY <1>2, <1>3 DEF Left, PaymentRecords
<1>6. /\ after \in PaymentRecords /\ after.refunded <= after.amount
      /\ Follows(payments[p], after)
  <2>1. status \in Paid
    BY <1>3 DEF Paid
  <2> HIDE DEF asked, p, status
  <2> QED BY <2>1, <1>2, <1>3, <1>5, RefundedRecord
<1> HIDE DEF after, p, asked
<1> QED
  BY <1>1, <1>4, <1>6 DEF Typed, AllFollow, Follows

LEMMA AttemptEvolves ==
  ASSUME PaymentsAssumption, Typed, AttemptPayment
  PROVE  /\ AllFollow
         /\ payments' \in [PaymentIds -> PaymentRecords]
         /\ \A p \in PaymentIds : payments'[p].refunded <= payments'[p].amount
<1>1. PICK p \in PaymentIds, o \in placed, amount \in Amounts, status \in {"captured", "failed"} :
        /\ payments[p].status = "absent"
        /\ payments' = [payments EXCEPT ![p] =
             [order_id |-> o, amount |-> amount, status |-> status, refunded |-> 0]]
  BY DEF AttemptPayment
<1>2. amount \in Nat /\ o \in Orders
  BY DEF PaymentsAssumption, Typed
<1>3. payments' \in [PaymentIds -> PaymentRecords]
  BY <1>1, <1>2 DEF Typed, PaymentRecords, Paid
<1>4. \A q \in PaymentIds : payments'[q].refunded <= payments'[q].amount
  BY <1>1, <1>2 DEF Typed, PaymentRecords
<1>5. AllFollow
  BY <1>1 DEF Typed, AllFollow, Follows
<1> QED BY <1>3, <1>4, <1>5

\* No step takes a payment back.
LEMMA Evolves ==
  ASSUME PaymentsAssumption, Typed, [Next]_vars
  PROVE  /\ AllFollow
         /\ payments' \in [PaymentIds -> PaymentRecords]
         /\ \A p \in PaymentIds : payments'[p].refunded <= payments'[p].amount
<1>1. CASE AttemptPayment
  BY <1>1, AttemptEvolves
<1>2. CASE \E c \in Cancellers : CreateRefund(c)
  BY <1>2, RefundEvolves
<1>3. CASE UNCHANGED payments
  BY <1>3 DEF AllFollow, Follows, Typed
<1>4. \/ AttemptPayment \/ (\E c \in Cancellers : CreateRefund(c)) \/ UNCHANGED payments
  BY DEF Next, vars, PlaceOrder, FetchOrder, FetchPayments, FetchRaises, Deliver,
         ReconcileEvent, Restart, StartCancel, RefundRaises
<1> QED BY <1>1, <1>2, <1>3, <1>4

-----------------------------------------------------------------------------
(* The invariant, part by part. *)

LEMMA InitInv == ASSUME PaymentsAssumption, Init PROVE IInv
BY DEF Init, PaymentsAssumption, IInv, Typed, Refunding, Handled, Counted, InHand, ReadTruly,
       EvidenceConsistent, MatchMeansPaid, TiersAgree, PaymentRecords, NoPayment, Happened, Paid

\* What has happened has still happened.
LEMMA HappenedGrows ==
  ASSUME PaymentsAssumption, Typed, [Next]_vars PROVE Happened \subseteq Happened'
BY Evolves DEF AllFollow, Follows, Happened

\* A delivery hands over an event that has happened, as it was signed.
LEMMA Delivered ==
  ASSUME PaymentsAssumption, Typed, NEW p \in PaymentIds, Deliver(p)
  PROVE  /\ p \in Happened /\ p \notin seen
         /\ handling' \in [event : Events, order_id : Orders]
         /\ handling'.event = EventOf(p)
         /\ seen' = seen \cup {p}
<1>1. PICK o \in mandates : handling' = [event |-> EventOf(p), order_id |-> o]
  BY DEF Deliver, SignatureVerifies
<1>2. EventOf(p) \in Events /\ o \in Orders
  BY DEF EventOf, Events, Typed, PaymentRecords
<1> QED BY <1>1, <1>2 DEF Deliver, Recorded

LEMMA StepTyped ==
  ASSUME PaymentsAssumption, Typed, [Next]_vars PROVE Typed'
<1>1. /\ payments' \in [PaymentIds -> PaymentRecords]
      /\ \A p \in PaymentIds : payments'[p].refunded <= payments'[p].amount
  BY Evolves
<1>2. Happened \subseteq Happened'
  BY HappenedGrows
<1>3. placed' \subseteq Orders /\ mandates' \subseteq placed'
  BY DEF Typed, Next, vars, PlaceOrder, AttemptPayment, FetchOrder, FetchPayments, FetchRaises,
         Deliver, ReconcileEvent, Restart, StartCancel, CreateRefund, RefundRaises
<1>4. cancelling' \in [Cancellers -> Requests \cup {None}] /\ cancels' \in 0..MaxCancels
  <2>1. CASE \E c \in Cancellers : StartCancel(c)
    <3>1. PICK c \in Cancellers : StartCancel(c)
      BY <2>1
    <3>2. PICK payment \in mandates, hash \in Orders, amount \in PartialRefunds \cup {None} :
            \E p \in CapturedOf(payment) :
              cancelling' = [cancelling EXCEPT ![c] =
                [cancellation |-> [payment_hash |-> hash, amount_paise |-> amount],
                 payment_id |-> p]]
      BY <3>1 DEF StartCancel
    <3>3. PICK p \in PaymentIds :
            cancelling' = [cancelling EXCEPT ![c] =
                [cancellation |-> [payment_hash |-> hash, amount_paise |-> amount],
                 payment_id |-> p]]
      BY <3>2 DEF CapturedOf, PaymentsOf
    <3>4. cancels' \in 0..MaxCancels
      BY <3>1 DEF StartCancel, Typed, PaymentsAssumption
    <3> QED BY <3>3, <3>4 DEF Typed, Requests
  <2>2. CASE \E c \in Cancellers : CreateRefund(c) \/ RefundRaises(c)
    BY <2>2 DEF CreateRefund, RefundRaises, Typed
  <2>3. CASE UNCHANGED recourse
    BY <2>3 DEF recourse, Typed
  <2>4. \/ \E c \in Cancellers : StartCancel(c) \/ CreateRefund(c) \/ RefundRaises(c)
        \/ UNCHANGED recourse
    BY DEF Next, vars, recourse, PlaceOrder, AttemptPayment, FetchOrder, FetchPayments, FetchRaises,
         Deliver, ReconcileEvent, Restart
  <2> QED BY <2>1, <2>2, <2>3, <2>4
<1>5. /\ seen' \subseteq Happened'
      /\ handling' \in [event : Events, order_id : Orders] \cup {None}
      /\ matches' \subseteq [payment_id : PaymentIds, order_id : Orders]
      /\ restarts' \in 0..MaxRestarts
      /\ times' \in [PaymentIds -> Nat]
  <2>1. CASE \E p \in PaymentIds : Deliver(p)
    <3>1. PICK p \in PaymentIds : Deliver(p)
      BY <2>1
    <3>2. UNCHANGED <<matches, restarts, times>>
      BY <3>1 DEF Deliver
    <3> QED BY <3>1, <3>2, <1>2, Delivered DEF Typed
  <2>2. CASE ReconcileEvent
    <3>1. handling.event.payment_id \in PaymentIds /\ handling.order_id \in Orders
      BY <2>2 DEF ReconcileEvent, Typed, Events
    <3>2. matches' \subseteq [payment_id : PaymentIds, order_id : Orders]
      BY <2>2, <3>1 DEF ReconcileEvent, Typed
    <3>3. times' \in [PaymentIds -> Nat]
      BY <2>2, <3>1 DEF ReconcileEvent, Typed
    <3> QED BY <2>2, <3>2, <3>3, <1>2 DEF ReconcileEvent, Typed
  <2>3. CASE Restart
    BY <2>3 DEF Restart, SeenAfterRestart, Typed, PaymentsAssumption
  <2>4. CASE UNCHANGED receiver
    BY <2>4, <1>2 DEF receiver, Typed
  <2>5. (\E p \in PaymentIds : Deliver(p)) \/ ReconcileEvent \/ Restart \/ UNCHANGED receiver
    BY DEF Next, vars, receiver, PlaceOrder, AttemptPayment, FetchOrder, FetchPayments, FetchRaises,
         StartCancel, CreateRefund, RefundRaises
  <2> QED BY <2>1, <2>2, <2>3, <2>4, <2>5
<1> QED BY <1>1, <1>3, <1>4, <1>5 DEF Typed

LEMMA StepRefunding ==
  ASSUME PaymentsAssumption, Typed, Refunding, [Next]_vars PROVE Refunding'
<1>1. AllFollow
  BY Evolves
<1>2. SUFFICES ASSUME NEW c \in Cancellers, cancelling'[c] # None
               PROVE  /\ payments'[cancelling'[c].payment_id].status \in Paid
                      /\ payments'[cancelling'[c].payment_id].order_id
                           = cancelling'[c].cancellation.payment_hash
  BY DEF Refunding
<1>3. CASE cancelling'[c] = cancelling[c]
  <2>1. cancelling[c].payment_id \in PaymentIds
    BY <1>2, <1>3 DEF Typed, Requests
  <2>2. payments[cancelling[c].payment_id].status \in Paid
    BY <1>2, <1>3 DEF Refunding
  <2>3. payments[cancelling[c].payment_id].status # "absent"
    BY <2>2 DEF Paid
  <2> QED BY <1>1, <1>2, <1>3, <2>1, <2>2, <2>3 DEF Refunding, AllFollow, Follows
<1>4. CASE cancelling'[c] # cancelling[c]
  <2>1. StartCancel(c)
    BY <1>2, <1>4 DEF Next, vars, recourse, PlaceOrder, AttemptPayment, FetchOrder, FetchPayments,
         FetchRaises, Deliver, ReconcileEvent, Restart, StartCancel, CreateRefund, RefundRaises, Typed
  <2>2. PICK payment \in mandates :
          \E p \in CapturedOf(payment) :
            /\ cancelling'[c].payment_id = p
            /\ cancelling'[c].cancellation.payment_hash = payment
    BY <2>1 DEF StartCancel, References, Typed
  <2> DEFINE p == cancelling'[c].payment_id
  <2>3. payments' = payments /\ payments[p].status = "captured" /\ payments[p].order_id = payment
    BY <2>1, <2>2 DEF StartCancel, CapturedOf, PaymentsOf
  <2> QED BY <2>2, <2>3 DEF Paid
<1> QED BY <1>3, <1>4

LEMMA StepHandled ==
  ASSUME PaymentsAssumption, Typed, Handled, [Next]_vars PROVE Handled'
<1>1. AllFollow
  BY Evolves
<1>2. CASE \E p \in PaymentIds : Deliver(p)
  <2>1. PICK p \in PaymentIds : Deliver(p)
    BY <1>2
  <2>2. payments' = payments
    BY <2>1 DEF Deliver
  <2>3. payments[p].status # "absent" /\ payments[p] \in PaymentRecords
    BY <2>1, Delivered DEF Happened, Typed
  <2>4. EventOf(p).status = "captured" => payments[p].status \in Paid
    BY <2>3 DEF EventOf, PaymentRecords
  <2>5. /\ EventOf(p).payment_id = p /\ EventOf(p).order_id = payments[p].order_id
        /\ EventOf(p).amount = payments[p].amount
    BY DEF EventOf
  <2>6. handling'.event = EventOf(p) /\ p \in seen'
    BY <2>1, Delivered
  <2> HIDE DEF EventOf
  <2> QED BY <2>2, <2>4, <2>5, <2>6 DEF Handled
<1>3. CASE ReconcileEvent \/ Restart
  BY <1>3 DEF ReconcileEvent, Restart, Handled
<1>4. CASE UNCHANGED receiver
  <2>1. SUFFICES ASSUME handling # None
                 PROVE  Handled'
    BY <1>4 DEF Handled, receiver
  <2>2. handling.event.payment_id \in seen
    BY <2>1 DEF Handled
  <2>3. handling.event.payment_id \in PaymentIds
        /\ payments[handling.event.payment_id].status # "absent"
    BY <2>2 DEF Typed, Happened
  <2> QED BY <1>1, <1>4, <2>1, <2>3 DEF receiver, Handled, AllFollow, Follows
<1>5. (\E p \in PaymentIds : Deliver(p)) \/ ReconcileEvent \/ Restart \/ UNCHANGED receiver
  BY DEF Next, vars, receiver, PlaceOrder, AttemptPayment, FetchOrder, FetchPayments, FetchRaises,
         StartCancel, CreateRefund, RefundRaises
<1> QED BY <1>2, <1>3, <1>4, <1>5

LEMMA StepCounted ==
  ASSUME PaymentsAssumption, Typed, Handled, Counted, [Next]_vars PROVE Counted'
<1>1. restarts \in Nat /\ times \in [PaymentIds -> Nat]
  BY DEF Typed, PaymentsAssumption
<1>2. CASE \E p \in PaymentIds : Deliver(p)
  <2>1. PICK p \in PaymentIds : Deliver(p)
    BY <1>2
  <2>2. UNCHANGED <<restarts, times>> /\ handling = None
    BY <2>1 DEF Deliver
  <2>3. p \notin seen /\ seen' = seen \cup {p} /\ handling'.event = EventOf(p)
    BY <2>1, Delivered
  <2>4. handling'.event.payment_id = p
    BY <2>3 DEF EventOf
  <2> QED BY <2>2, <2>3, <2>4 DEF Counted, InHand
<1>3. CASE ReconcileEvent
  <2>1. handling # None /\ handling.event.payment_id \in PaymentIds
    BY <1>3 DEF ReconcileEvent, Typed, Events
  <2>2. handling.event.payment_id \in seen
    BY <2>1 DEF Handled
  <2>3. times[handling.event.payment_id] <= restarts
    BY <2>1 DEF Counted, InHand
  <2> QED BY <1>1, <1>3, <2>1, <2>2, <2>3 DEF ReconcileEvent, Counted, InHand
<1>4. CASE Restart
  BY <1>1, <1>4 DEF Restart, Counted
<1>5. CASE UNCHANGED receiver
  BY <1>5 DEF receiver, Counted, InHand
<1>6. (\E p \in PaymentIds : Deliver(p)) \/ ReconcileEvent \/ Restart \/ UNCHANGED receiver
  BY DEF Next, vars, receiver, PlaceOrder, AttemptPayment, FetchOrder, FetchPayments, FetchRaises,
         StartCancel, CreateRefund, RefundRaises
<1> QED BY <1>2, <1>3, <1>4, <1>5, <1>6

LEMMA StepRead ==
  ASSUME PaymentsAssumption, Typed, ReadTruly, EvidenceConsistent, [Next]_vars
  PROVE  ReadTruly' /\ EvidenceConsistent'
<1>1. AllFollow
  BY Evolves
<1>2. ReadTruly'
  <2>1. SUFFICES ASSUME first_read' # None, first_read'.status = "paid"
                 PROVE  \E p \in PaymentIds : /\ payments'[p].order_id = first_read'.order_id
                                              /\ payments'[p].status \in Paid
    BY DEF ReadTruly, PaymentsOf
  <2>2. CASE FetchOrder
    <3>1. PICK o \in mandates : first_read' = [order_id |-> o, status |-> OrderStatus(o)]
      BY <2>2 DEF FetchOrder
    <3>2. \E p \in PaymentsOf(o) : payments[p].status \in {"captured", "refunded"}
      BY <2>1, <3>1 DEF OrderStatus
    <3> QED BY <2>2, <3>1, <3>2 DEF FetchOrder, PaymentsOf, Paid
  <2>3. CASE first_read' = first_read
    <3>1. PICK p \in PaymentsOf(first_read.order_id) : payments[p].status \in Paid
      BY <2>1, <2>3 DEF ReadTruly
    <3>2. p \in PaymentIds /\ payments[p].status # "absent"
          /\ payments[p].order_id = first_read.order_id
      BY <3>1 DEF PaymentsOf, Paid
    <3> QED BY <1>1, <2>3, <3>1, <3>2 DEF AllFollow, Follows
  <2>4. FetchOrder \/ first_read' = first_read \/ first_read' = None
    BY DEF Next, vars, PlaceOrder, AttemptPayment, FetchPayments, FetchRaises, Deliver,
         ReconcileEvent, Restart, StartCancel, CreateRefund, RefundRaises
  <2> QED BY <2>1, <2>2, <2>3, <2>4
<1>3. EvidenceConsistent'
  <2>1. SUFFICES ASSUME artifact' # None, artifact'.razorpay_order = "paid"
                 PROVE  \E p \in DOMAIN artifact'.razorpay_payments :
                          artifact'.razorpay_payments[p].status \in Paid
    BY DEF EvidenceConsistent, Paid
  <2>2. CASE FetchPayments
    <3>1. /\ first_read # None /\ first_read.status = "paid"
          /\ artifact'.razorpay_payments = FetchedPayments(first_read.order_id)
      BY <2>1, <2>2 DEF FetchPayments
    <3>2. PICK p \in PaymentsOf(first_read.order_id) : payments[p].status \in Paid
      BY <3>1 DEF ReadTruly
    <3> QED BY <3>1, <3>2 DEF FetchedPayments
  <2>3. CASE UNCHANGED vars
    BY <2>1, <2>3 DEF vars, EvidenceConsistent, Paid
  <2>4. FetchPayments \/ UNCHANGED vars
    BY <2>1 DEF Next, NoArtifact, PlaceOrder, AttemptPayment, FetchOrder, FetchRaises, Deliver,
         ReconcileEvent, Restart, StartCancel, CreateRefund, RefundRaises
  <2> QED BY <2>2, <2>3, <2>4
<1> QED BY <1>2, <1>3

LEMMA StepMatched ==
  ASSUME PaymentsAssumption, Typed, Handled, MatchMeansPaid, [Next]_vars PROVE MatchMeansPaid'
<1>1. SUFFICES ASSUME NEW m \in matches'
               PROVE  /\ payments'[m.payment_id].order_id = m.order_id
                      /\ payments'[m.payment_id].amount = Total
                      /\ payments'[m.payment_id].status \in Paid
  BY DEF MatchMeansPaid, Paid
<1>2. CASE m \in matches
  <2>1. /\ m.payment_id \in PaymentIds
        /\ payments[m.payment_id].order_id = m.order_id
        /\ payments[m.payment_id].amount = Total
        /\ payments[m.payment_id].status \in Paid
    BY <1>2 DEF Typed, MatchMeansPaid, Paid
  <2>2. payments[m.payment_id].status # "absent"
    BY <2>1 DEF Paid
  <2> QED BY <2>1, <2>2, Evolves DEF AllFollow, Follows
<1>3. CASE m \notin matches
  <2>1. ReconcileEvent /\ EventViolations(handling.event, handling.order_id) = {}
        /\ m = [payment_id |-> handling.event.payment_id, order_id |-> handling.order_id]
    BY <1>1, <1>3 DEF Next, vars, receiver, PlaceOrder, AttemptPayment, FetchOrder, FetchPayments,
         FetchRaises, Deliver, ReconcileEvent, Restart, StartCancel, CreateRefund, RefundRaises
  <2>2. /\ handling.event.order_id = handling.order_id
        /\ handling.event.amount = Total
        /\ handling.event.status = "captured"
    BY <2>1 DEF EventViolations
  <2>3. payments' = payments /\ handling # None
    BY <2>1 DEF ReconcileEvent
  <2> QED BY <2>1, <2>2, <2>3 DEF Handled
<1> QED BY <1>2, <1>3

-----------------------------------------------------------------------------
(* The two tiers. *)

\* A single payment comes to its own amount.
LEMMA ChargedOnce ==
  ASSUME NEW items, NEW p, items[p].amount \in Nat
  PROVE  ChargedAmount(items, {p}) = items[p].amount
<1> DEFINE Some(s) == CHOOSE x \in s : TRUE
           Sums(g) == [s \in SUBSET {p} |->
              IF s = {} THEN 0 ELSE items[Some(s)].amount + g[s \ {Some(s)}]]
           sum == CHOOSE g : g = Sums(g)
           known == [s \in SUBSET {p} |-> IF s = {} THEN 0 ELSE items[p].amount]
<1>1. ChargedAmount(items, {p}) = sum[{p}]
  BY DEF ChargedAmount, MapThenSumSet, MapThenFoldSet
<1>2. SUBSET {p} = {{}, {p}} /\ Some({p}) = p /\ {p} \ {p} = {}
  OBVIOUS
<1>3. known = Sums(known)
  <2>1. \A s \in SUBSET {p} : known[s] = Sums(known)[s]
    BY <1>2
  <2> QED BY <2>1
<1>4. sum = Sums(sum)
  <2> HIDE DEF Sums, known
  <2> QED BY <1>3
<1>5. Sums(sum)[{}] = 0 /\ Sums(sum)[{p}] = items[p].amount + sum[{}]
  <2> HIDE DEF sum
  <2> QED BY <1>2
<1>6. sum[{p}] = items[p].amount
  <2> HIDE DEF sum, Sums
  <2> QED BY <1>4, <1>5
<1> HIDE DEF sum
<1> QED BY <1>1, <1>6

\* A payment that is the only captured one, in the signed amount, matches.
LEMMA OnlyCaptureMatches ==
  ASSUME PaymentsAssumption, NEW items, NEW p \in DOMAIN items,
         items[p].amount = Total, items[p].status = "captured",
         \A q \in DOMAIN items \ {p} : items[q].status # "captured"
  PROVE  ReconDelta(items).matched
<1>1. {q \in DOMAIN items : items[q].status = "captured"} = {p}
  OBVIOUS
<1>2. ChargedAmount(items, {p}) = Total
  BY ChargedOnce DEF PaymentsAssumption
<1>3. Cardinality({p}) <= 1
  BY FS_Singleton
<1> QED BY <1>1, <1>2, <1>3 DEF ReconDelta

LEMMA StepTiers ==
  ASSUME PaymentsAssumption, Typed, MatchMeansPaid, TiersAgree, [Next]_vars PROVE TiersAgree'
<1>1. CASE FetchPayments
  <2> DEFINE items == FetchedPayments(first_read.order_id)
  <2>1. SUFFICES ASSUME NEW m \in matches, m.order_id = first_read.order_id,
                        ~ReconDelta(items).matched, items[m.payment_id].status # "refunded"
                 PROVE  \E q \in DOMAIN items \ {m.payment_id} : items[q].status = "captured"
    <3>1. /\ artifact'.order_id = first_read.order_id /\ artifact'.razorpay_payments = items
          /\ artifact'.delta = ReconDelta(items) /\ matches' = matches
      BY <1>1 DEF FetchPayments, receiver
    <3> HIDE DEF items
    <3> QED BY <3>1, <2>1 DEF TiersAgree
  <2>2. m.payment_id \in DOMAIN items
    BY <2>1 DEF MatchMeansPaid, Typed, FetchedPayments, PaymentsOf
  <2>3. items[m.payment_id].amount = Total /\ items[m.payment_id].status = "captured"
    BY <2>1, <2>2 DEF MatchMeansPaid, FetchedPayments
  <2> HIDE DEF items
  <2> QED BY <2>1, <2>2, <2>3, OnlyCaptureMatches
<1>2. CASE artifact' = None
  BY <1>2 DEF TiersAgree
<1>3. CASE UNCHANGED vars
  BY <1>3 DEF vars, receiver, TiersAgree
<1>4. FetchPayments \/ artifact' = None \/ UNCHANGED vars
  BY DEF Next, NoArtifact, PlaceOrder, AttemptPayment, FetchOrder, FetchRaises, Deliver,
       ReconcileEvent, Restart, StartCancel, CreateRefund, RefundRaises
<1> QED BY <1>1, <1>2, <1>3, <1>4

-----------------------------------------------------------------------------

\* The strengthened invariant is one, for any number of orders, payments,
\* callers and restarts.
THEOREM Invariance == ASSUME PaymentsAssumption PROVE Spec => []IInv
<1>1. Init => IInv
  BY InitInv
<1>2. IInv /\ [Next]_vars => IInv'
  BY StepTyped, StepRefunding, StepHandled, StepCounted, StepRead, StepMatched,
     StepTiers DEF IInv
<1> QED BY <1>1, <1>2, PTL DEF Spec

\* TypeOK: in particular Razorpay is never asked to refund what was not paid,
\* and gives back no more than it has taken.
THEOREM TypeCorrect == ASSUME PaymentsAssumption PROVE Spec => []TypeOK
<1>1. IInv => TypeOK
  BY DEF IInv, Typed, TypeOK, PaymentRecords, Refunding, Paid
<1> QED BY <1>1, Invariance, PTL

\* A match of the webhook is money captured for that order in the signed
\* amount, whatever happens between the event and the answer to it.
THEOREM MatchesArePaid == ASSUME PaymentsAssumption PROVE Spec => []MatchMeansPaid
BY Invariance, PTL DEF IInv

\* An event is acted on at most once in each life of the receiver.
THEOREM OncePerLife == ASSUME PaymentsAssumption PROVE Spec => []ActedOnOncePerLife
<1>1. IInv => ActedOnOncePerLife
  BY DEF IInv, Counted, ActedOnOncePerLife
<1> QED BY <1>1, Invariance, PTL

\* A refund is of a payment of the order its cancellation names.
THEOREM RefundsStayWithTheirOrder == ASSUME PaymentsAssumption PROVE Spec => []RefundsHitTheirOrder
<1>1. IInv => RefundsHitTheirOrder
  BY DEF IInv, Refunding, RefundsHitTheirOrder
<1> QED BY <1>1, Invariance, PTL

\* An artifact that calls an order paid holds a payment with the money.
THEOREM ArtifactConsistent == ASSUME PaymentsAssumption PROVE Spec => []EvidenceConsistent
BY Invariance, PTL DEF IInv

\* Once the webhook has matched a payment, an artifact of its order that does
\* not match shows a refund or a second capture.
THEOREM TiersDoAgree == ASSUME PaymentsAssumption PROVE Spec => []TiersAgree
BY Invariance, PTL DEF IInv

-----------------------------------------------------------------------------
(***************************************************************************)
(* What EventsReconciled rests on besides fairness: the deduper does not   *)
(* turn away an event that nobody has acted on.                            *)
(***************************************************************************)

NothingSeenIsLost == \A p \in seen : times[p] > 0 \/ InHand(p)

\* The receiver is busy, or the event has been acted on or can be delivered.
TakenSooner(p) ==
  \/ times[p] > 0 \/ handling # None
  \/ p \notin seen /\ \E body \in Bodies(p) : SignatureVerifies(body, EventOf(p))

\* Recording and processing are two steps, and a crash between them forgets
\* the record with the event.
LEMMA StepLosesNothing ==
  ASSUME PaymentsAssumption, Typed, NothingSeenIsLost, [Next]_vars
  PROVE  NothingSeenIsLost'
<1>1. times \in [PaymentIds -> Nat] /\ seen \subseteq PaymentIds
  BY DEF Typed, Happened
<1>2. CASE \E p \in PaymentIds : Deliver(p)
  <2>1. PICK p \in PaymentIds : Deliver(p)
    BY <1>2
  <2>2. handling = None /\ times' = times /\ seen' = seen \cup {p}
    BY <2>1, Delivered DEF Deliver
  <2>3. InHand(p)'
    <3>1. handling' \in [event : Events, order_id : Orders] /\ handling'.event = EventOf(p)
      BY <2>1, Delivered
    <3>2. handling' # None /\ handling'.event.payment_id = p
      BY <3>1 DEF EventOf, PaymentsAssumption, Deliveries, Events
    <3> QED BY <3>2 DEF InHand
  <2> QED BY <2>2, <2>3 DEF NothingSeenIsLost, InHand
<1>3. CASE ReconcileEvent
  <2> SUFFICES ASSUME NEW p \in seen
               PROVE  times'[p] > 0
    BY <1>3 DEF ReconcileEvent, NothingSeenIsLost
  <2>1. /\ times' = [times EXCEPT ![handling.event.payment_id] = @ + 1]
        /\ p \in PaymentIds /\ times[p] \in Nat
    BY <1>1, <1>3 DEF ReconcileEvent
  <2>2. CASE handling.event.payment_id = p
    BY <1>1, <2>1, <2>2
  <2>3. CASE handling.event.payment_id # p
    BY <1>1, <2>1, <2>3 DEF NothingSeenIsLost, InHand
  <2> QED BY <2>2, <2>3
<1>4. CASE Restart
  BY <1>4 DEF Restart, SeenAfterRestart, NothingSeenIsLost
<1>5. CASE UNCHANGED receiver
  BY <1>5 DEF receiver, NothingSeenIsLost, InHand
<1>6. (\E p \in PaymentIds : Deliver(p)) \/ ReconcileEvent \/ Restart \/ UNCHANGED receiver
  BY DEF Next, vars, receiver, PlaceOrder, AttemptPayment, FetchOrder, FetchPayments, FetchRaises,
         StartCancel, CreateRefund, RefundRaises
<1> QED BY <1>2, <1>3, <1>4, <1>5, <1>6

\* The webhook receiver: an event is recorded as seen before it is processed,
\* and still no crash, repetition or damaged copy makes it one that is turned
\* away as a replay without ever having been acted on.  An idle receiver
\* takes the next good delivery of whatever has not been acted on.
THEOREM NoEventIsLost ==
  ASSUME PaymentsAssumption
  PROVE  Spec => [](NothingSeenIsLost /\ \A p \in Happened : TakenSooner(p))
<1>1. Init => NothingSeenIsLost
  BY DEF Init, NothingSeenIsLost
<1>2. IInv /\ NothingSeenIsLost /\ [Next]_vars => NothingSeenIsLost'
  BY StepLosesNothing DEF IInv
<1>3. NothingSeenIsLost => \A p \in Happened : TakenSooner(p)
  BY DEF NothingSeenIsLost, InHand, TakenSooner, Bodies, SignatureVerifies
<1> QED BY <1>1, <1>2, <1>3, Invariance, PTL DEF Spec
=============================================================================
