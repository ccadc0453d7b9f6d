-------------------------- MODULE SpendingAuthority --------------------------
(***************************************************************************)
(* What the buyer promises the human, without saying how: money leaves the *)
(* account at most once, inside the limits of the mandate the human's key  *)
(* has signed, and the amount that may be spent without asking is raised   *)
(* only to an amount the human has been asked about and agreed to.         *)
(*                                                                         *)
(* The promise is the one of the Budget model (mandates/schemas.py), of    *)
(* buyer/approval.py and of buyer/execute.py taken together.  BuySession   *)
(* implements it.                                                          *)
(***************************************************************************)
EXTENDS Integers

VARIABLES
  signed,     \* whether the human has signed a mandate
  limit,      \* its hard limit
  tripwire,   \* what may be spent without asking
  agreed,     \* the amounts the human has agreed to when asked
  spent       \* the amounts of the orders placed

vars == <<signed, limit, tripwire, agreed, spent>>

\* Before a mandate is signed nothing may be spent.
Init == signed = FALSE /\ limit = 0 /\ tripwire = 0 /\ agreed = {} /\ spent = {}

\* A tripwire above the hard limit is not a legal budget.
Grant ==
  /\ ~signed /\ signed' = TRUE
  /\ limit' \in Nat /\ tripwire' \in Int
  /\ tripwire' <= limit'
  /\ UNCHANGED <<agreed, spent>>

\* Asked about an amount within the hard limit the human agrees and signs
\* again: that amount may become the tripwire, the hard limit stays.
Agree ==
  /\ signed /\ spent = {}
  /\ \E amount \in {a \in agreed' : a \in Nat /\ a <= limit} :
       /\ agreed' = agreed \cup {amount}
       /\ tripwire' \in {tripwire, amount}
  /\ UNCHANGED <<signed, limit, spent>>

\* One order, of an amount under the tripwire.
Spend ==
  /\ signed /\ spent = {}
  /\ \E amount \in spent' : /\ amount \in Nat /\ amount <= tripwire
                            /\ spent' = {amount}
  /\ UNCHANGED <<signed, limit, tripwire, agreed>>

Next == Grant \/ Agree \/ Spend

Spec == Init /\ [][Next]_vars

-----------------------------------------------------------------------------

\* Money is spent once and within the hard limit.
SpentWithinLimit ==
  \A x, y \in spent : x = y /\ x <= limit
=============================================================================
