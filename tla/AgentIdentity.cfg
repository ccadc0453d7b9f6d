SPECIFICATION Spec
CONSTANTS
  None = None
  Agents = {a1, a2, a3}
  Registered = {a1, a2}
  Nonces = {n1}
  Bodies = {b1, b2}
  Ttl = 1
  Skew = 1
  Drifts = {0, 2}
  MaxNow = 3
  MaxRestarts = 1
  MaxSent = 2
INVARIANTS
  TypeOK
  ServedAsSent
  NothingStaleKept
PROPERTIES
  NeverServedTwice
  ReplayMeansSeen
CHECK_DEADLOCK FALSE
