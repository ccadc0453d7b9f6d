SPECIFICATION Spec
CONSTANTS
  None = None
  Orders = {o1, o2}
  PaymentIds = {p1, p2}
  NotesCarried = {p1}
  Amounts = {1, 2}
  Total = 2
  PartialRefunds = {1}
  Cancellers = {c1}
  MaxCancels = 2
  MaxRestarts = 1
INVARIANTS
  TypeOK
  EvidenceConsistent
  TiersAgree
  MatchMeansPaid
  ActedOnOncePerLife
  RefundsHitTheirOrder
PROPERTIES
  EventsReconciled
CHECK_DEADLOCK FALSE
