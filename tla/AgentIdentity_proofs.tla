------------------------ MODULE AgentIdentity_proofs ------------------------
(***************************************************************************)
(* The replay cache forgets by age and a signature is accepted by age.     *)
(* The proof shows that the two ages are the same: what was let through is *)
(* in the cache for as long as Stale does not refuse its copies.           *)
(***************************************************************************)
EXTENDS AgentIdentity, TLAPS

\* What has been let through and could be accepted again is remembered.
Remembered ==
  \A m \in served : now <= m.expires + Skew => Entry(m) \in cache

IInv == TypeOK /\ Remembered

-----------------------------------------------------------------------------

\* The only copy of a signed request that comes to OK is the request itself.
LEMMA OnlyTheOriginal ==
  ASSUME IdentityAssumption, NEW m \in Requests, m.digest \in {None, m.body},
         NEW copy \in Copies(m),
         RefusedEarly(copy, FALSE) = "passed", RefusedLate(copy) = "OK"
  PROVE  copy = m
<1>1. copy.signature \notin {"damaged", "absent"}
  BY DEF RefusedEarly
<1>2. copy.digest # None /\ copy.digest = copy.body
  BY DEF RefusedLate, DigestMatches
<1>3. PICK b \in Bodies : copy = [m EXCEPT !.body = b]
  BY <1>1 DEF Copies, Requests
<1>4. b = m.body
  BY <1>2, <1>3 DEF Requests
<1> QED
  BY <1>3, <1>4 DEF Requests

\* Nothing that is remembered and fresh comes to OK again.
LEMMA SeenIsRefused ==
  ASSUME IdentityAssumption, TypeOK, Remembered, NEW m \in served,
         RefusedEarly(m, FALSE) = "passed"
  PROVE  RefusedLate(m) # "OK"
<1>1. m.expires \in Int /\ now \in Int /\ Skew \in Int
  BY DEF TypeOK, Requests, IdentityAssumption
<1>2. ~Stale(m)
  BY DEF RefusedEarly
<1>3. now <= m.expires + Skew
  BY <1>1, <1>2 DEF Stale
<1>4. Entry(m) \in Pruned(cache)
  BY <1>1, <1>3 DEF Remembered, Pruned, Entry
<1> QED
  BY <1>4 DEF RefusedLate, AlreadySeen

-----------------------------------------------------------------------------

LEMMA InitInv == ASSUME IdentityAssumption, Init PROVE IInv
BY DEF Init, IInv, TypeOK, Remembered, IdentityAssumption

LEMMA SignInv ==
  ASSUME IdentityAssumption, IInv, NEW keyid \in Agents, SignRequest(keyid)
  PROVE  IInv'
<1> USE DEF IInv
<1>1. PICK nonce \in Nonces, body \in Bodies, created \in {now + d : d \in Drifts},
           missing \in {"nothing", "created", "nonce", "digest"} :
        sent' = sent \cup {Signed(keyid, nonce, created, body, missing)}
  BY DEF SignRequest
<1> DEFINE m == Signed(keyid, nonce, created, body, missing)
<1>2. created \in Int /\ Ttl \in Int
  BY DEF IdentityAssumption, TypeOK
<1>3. m \in Requests /\ m.digest \in {None, m.body} /\ m.created \in {None, m.expires - Ttl}
  BY <1>2 DEF Signed, Requests
<1>4. UNCHANGED <<now, cache, restarts, served, came>>
  BY DEF SignRequest
<1>5. TypeOK'
  <2> HIDE DEF m
  <2> QED BY <1>1, <1>3, <1>4 DEF TypeOK, m
<1>6. Remembered'
  BY <1>4 DEF Remembered, Entry, KeyOf
<1> QED BY <1>5, <1>6

LEMMA CheckInv ==
  ASSUME IdentityAssumption, IInv, CheckAndRecord
  PROVE  IInv'
<1> USE DEF IInv
<1>1. PICK m \in sent : \E copy \in Copies(m) :
        /\ RefusedEarly(copy, FALSE) = "passed"
        /\ cache' = Pruned(cache) \cup (IF AlreadySeen(copy) THEN {} ELSE {Entry(copy)})
        /\ served' = IF RefusedLate(copy) = "OK" THEN served \cup {copy} ELSE served
        /\ came' = came \cup {KeyOf(copy)}
  BY DEF CheckAndRecord
<1>2. PICK copy \in Copies(m) :
        /\ RefusedEarly(copy, FALSE) = "passed"
        /\ cache' = Pruned(cache) \cup (IF AlreadySeen(copy) THEN {} ELSE {Entry(copy)})
        /\ served' = IF RefusedLate(copy) = "OK" THEN served \cup {copy} ELSE served
        /\ came' = came \cup {KeyOf(copy)}
  BY <1>1
<1>3. UNCHANGED <<now, sent, restarts>>
  BY DEF CheckAndRecord
<1>4. m \in Requests /\ m.digest \in {None, m.body} /\ Skew \in Int /\ now \in Int
  BY DEF TypeOK, IdentityAssumption
<1>5. copy.expires = m.expires /\ m.expires \in Int
  BY <1>4 DEF Copies, Requests
<1>6. Entry(copy).key = KeyOf(copy) /\ Entry(copy).expires \in Int
  BY <1>4, <1>5 DEF Entry
<1>7. \A e \in cache' : e.key \in came' /\ e.expires \in Int
  BY <1>2, <1>6 DEF TypeOK, Pruned
<1>8. served' \subseteq sent
  BY <1>2, <1>4, OnlyTheOriginal DEF TypeOK
<1>9. TypeOK'
  BY <1>3, <1>7, <1>8 DEF TypeOK
<1>10. Remembered'
  <2> SUFFICES ASSUME NEW s \in served', now <= s.expires + Skew
               PROVE  Entry(s) \in cache'
    BY <1>3 DEF Remembered, Entry, KeyOf
  <2>1. CASE s \in served
    <3>1. Entry(s) \in cache
      BY <2>1 DEF Remembered
    <3>2. Entry(s) \in Pruned(cache)
      BY <3>1 DEF Pruned, Entry
    <3> QED BY <3>2, <1>2
  <2>2. CASE s \notin served
    <3>1. RefusedLate(copy) = "OK" /\ s = copy
      BY <2>2, <1>2
    <3>2. ~AlreadySeen(copy)
      BY <3>1 DEF RefusedLate
    <3> QED BY <3>1, <3>2, <1>2
  <2> QED BY <2>1, <2>2
<1> QED BY <1>9, <1>10

LEMMA OtherInv ==
  ASSUME IdentityAssumption, IInv, RefuseEarly \/ Tick \/ Restart
  PROVE  IInv'
<1> USE DEF IInv
<1>1. CASE RefuseEarly
  BY <1>1 DEF RefuseEarly, TypeOK, Remembered, Entry, KeyOf
<1>2. CASE Tick
  <2>1. TypeOK'
    BY <1>2 DEF Tick, TypeOK, IdentityAssumption
  <2>2. \A m \in served : m.expires + Skew \in Int /\ now \in Int
    BY DEF TypeOK, Requests, IdentityAssumption
  <2>3. Remembered'
    BY <1>2, <2>2 DEF Tick, Remembered, Entry, KeyOf
  <2> QED BY <2>1, <2>3
<1>3. CASE Restart
  BY <1>3 DEF Restart, TypeOK, Remembered, IdentityAssumption
<1> QED BY <1>1, <1>2, <1>3

LEMMA StepInv == ASSUME IdentityAssumption, IInv, [Next]_vars PROVE IInv'
<1>1. CASE \E keyid \in Agents : SignRequest(keyid)
  BY <1>1, SignInv
<1>2. CASE CheckAndRecord
  BY <1>2, CheckInv
<1>3. CASE RefuseEarly \/ Tick \/ Restart
  BY <1>3, OtherInv
<1>4. CASE UNCHANGED vars
  BY <1>4 DEF vars, IInv, TypeOK, Remembered, Entry, KeyOf
<1> QED BY <1>1, <1>2, <1>3, <1>4 DEF Next

\* The strengthened invariant is one: what was let through is remembered
\* for as long as the window of its signature is open.
THEOREM Invariance == ASSUME IdentityAssumption PROVE Spec => []IInv
<1>1. Init => IInv
  BY InitInv
<1>2. IInv /\ [Next]_vars => IInv'
  BY StepInv
<1> QED BY <1>1, <1>2, PTL DEF Spec

\* TypeOK for every lifetime, skew and set of agents: in particular nothing
\* is let through that was not sent like that.
THEOREM TypeCorrect == ASSUME IdentityAssumption PROVE Spec => []TypeOK
BY Invariance, PTL DEF IInv

\* No request is let through twice between two restarts of the server,
\* however long a signature lives and however the clocks differ.
THEOREM NoReplay == ASSUME IdentityAssumption PROVE Spec => NeverServedTwice
<1> DEFINE Once == answer' # None /\ answer' # answer =>
       (answer'.code = "OK" => answer'.message \notin served)
<1>1. IInv /\ [Next]_vars => [Once]_vars
  <2> SUFFICES ASSUME IInv, Next, answer' # None, answer'.code = "OK"
               PROVE  answer'.message \notin served
    OBVIOUS
  <2>1. CASE CheckAndRecord
    <3>1. PICK copy :
            /\ RefusedEarly(copy, FALSE) = "passed"
            /\ answer' = [message |-> copy, code |-> RefusedLate(copy)]
      BY <2>1 DEF CheckAndRecord
    <3>2. answer'.message = copy /\ RefusedLate(copy) = "OK"
      BY <3>1
    <3> QED BY <3>1, <3>2, SeenIsRefused DEF IInv
  <2>2. CASE RefuseEarly
    <3>1. PICK copy, expired :
            answer' = [message |-> copy, code |-> RefusedEarly(copy, expired)]
      BY <2>2 DEF RefuseEarly
    <3>2. RefusedEarly(copy, expired) # "OK"
      BY DEF RefusedEarly
    <3> QED BY <3>1, <3>2
  <2>3. CASE Tick \/ Restart \/ \E keyid \in Agents : SignRequest(keyid)
    BY <2>3 DEF Tick, Restart, SignRequest
  <2> QED BY <2>1, <2>2, <2>3 DEF Next
<1> QED BY <1>1, Invariance, PTL DEF Spec, NeverServedTwice

-----------------------------------------------------------------------------
(* What the answers say. *)

\* What CheckAndRecord answers, about a copy that has passed the first half.
LEMMA CheckedCopy ==
  ASSUME IdentityAssumption, TypeOK, CheckAndRecord
  PROVE  \E m \in sent : \E copy \in Copies(m) :
           /\ m \in Requests /\ m.digest \in {None, m.body}
           /\ copy.expires = m.expires /\ m.expires \in Int
           /\ RefusedEarly(copy, FALSE) = "passed"
           /\ copy.keyid \in Registered /\ copy.created # None /\ ~Stale(copy)
           /\ answer'.message = copy /\ answer'.code = RefusedLate(copy)
           /\ cache' = Pruned(cache) \cup (IF AlreadySeen(copy) THEN {} ELSE {Entry(copy)})
           /\ now' = now /\ sent' = sent
<1>1. PICK m \in sent : \E copy \in Copies(m) :
        /\ RefusedEarly(copy, FALSE) = "passed"
        /\ answer' = [message |-> copy, code |-> RefusedLate(copy)]
        /\ cache' = Pruned(cache) \cup (IF AlreadySeen(copy) THEN {} ELSE {Entry(copy)})
  BY DEF CheckAndRecord
<1>2. PICK copy \in Copies(m) :
        /\ RefusedEarly(copy, FALSE) = "passed"
        /\ answer' = [message |-> copy, code |-> RefusedLate(copy)]
        /\ cache' = Pruned(cache) \cup (IF AlreadySeen(copy) THEN {} ELSE {Entry(copy)})
  BY <1>1
<1>3. m \in Requests /\ m.digest \in {None, m.body}
  BY DEF TypeOK
<1>4. copy.expires = m.expires /\ m.expires \in Int
  BY <1>3 DEF Copies, Requests
<1>5. copy.keyid \in Registered /\ copy.created # None /\ ~Stale(copy)
  BY <1>2 DEF RefusedEarly
<1>6. answer'.message = copy /\ answer'.code = RefusedLate(copy)
  BY <1>2
<1>7. now' = now /\ sent' = sent
  BY DEF CheckAndRecord
<1> QED BY <1>2, <1>3, <1>4, <1>5, <1>6, <1>7

\* A request refused before the cache is told so.
LEMMA RefusedAnswer ==
  ASSUME RefuseEarly
  PROVE  answer'.code \notin {"OK", "SIG_REPLAY", "CONTENT_DIGEST_MISMATCH"}
<1>1. PICK copy, expired :
        /\ RefusedEarly(copy, expired) # "passed"
        /\ answer' = [message |-> copy, code |-> RefusedEarly(copy, expired)]
  BY DEF RefuseEarly
<1>2. RefusedEarly(copy, expired)
        \in {"SIG_MISSING", "SIG_KEY_UNKNOWN", "SIG_BAD", "SIG_STALE", "passed"}
  BY DEF RefusedEarly
<1> QED BY <1>1, <1>2

\* All other steps answer nobody.
LEMMA NoAnswer ==
  Next => \/ CheckAndRecord \/ RefuseEarly \/ answer' = None
BY DEF Next, SignRequest, Tick, Restart

\* ServedAsSent, for every wire, clock and set of agents: what reaches the
\* endpoint is a request as its signer sent it, within its window.
THEOREM NothingForged == ASSUME IdentityAssumption PROVE Spec => []ServedAsSent
<1>1. Init => ServedAsSent
  BY DEF Init, ServedAsSent
<1>2. IInv /\ ServedAsSent /\ [Next]_vars => ServedAsSent'
  <2> SUFFICES ASSUME IInv, ServedAsSent, [Next]_vars PROVE ServedAsSent'
    OBVIOUS
  <2>1. CASE CheckAndRecord
    <3>0. PICK m \in sent : \E copy \in Copies(m) :
            /\ m \in Requests /\ m.digest \in {None, m.body}
            /\ copy.expires = m.expires /\ m.expires \in Int
            /\ RefusedEarly(copy, FALSE) = "passed"
            /\ copy.keyid \in Registered /\ copy.created # None /\ ~Stale(copy)
            /\ answer'.message = copy /\ answer'.code = RefusedLate(copy)
            /\ now' = now /\ sent' = sent
      BY <2>1, CheckedCopy DEF IInv
    <3>1. PICK copy \in Copies(m) :
            /\ m \in Requests /\ m.digest \in {None, m.body}
            /\ copy.expires = m.expires /\ m.expires \in Int
            /\ RefusedEarly(copy, FALSE) = "passed"
            /\ copy.keyid \in Registered /\ copy.created # None /\ ~Stale(copy)
            /\ answer'.message = copy /\ answer'.code = RefusedLate(copy)
            /\ now' = now /\ sent' = sent
      BY <3>0
    <3> SUFFICES ASSUME RefusedLate(copy) = "OK"
                 PROVE  /\ copy \in sent
                        /\ now \in (copy.created - Skew)..(copy.expires + Skew)
      BY <3>1 DEF ServedAsSent
    <3>2. copy = m
      BY <3>1, OnlyTheOriginal
    <3>3. copy.created \in Int /\ copy.expires \in Int /\ now \in Int /\ Skew \in Int
      BY <3>1, <3>2 DEF Requests, IInv, TypeOK, IdentityAssumption
    <3> QED BY <3>1, <3>2, <3>3 DEF Stale
  <2>2. CASE RefuseEarly
    BY <2>2, RefusedAnswer DEF ServedAsSent
  <2>3. CASE answer' = None
    BY <2>3 DEF ServedAsSent
  <2>4. CASE UNCHANGED vars
    BY <2>4 DEF vars, ServedAsSent
  <2> QED BY <2>1, <2>2, <2>3, <2>4, NoAnswer
<1> QED BY <1>1, <1>2, Invariance, PTL DEF Spec

\* NothingStaleKept: the cache is pruned whenever it is asked.
THEOREM CachePruned == ASSUME IdentityAssumption PROVE Spec => []NothingStaleKept
<1>1. Init => NothingStaleKept
  BY DEF Init, NothingStaleKept
<1>2. IInv /\ NothingStaleKept /\ [Next]_vars => NothingStaleKept'
  <2> SUFFICES ASSUME IInv, NothingStaleKept, [Next]_vars PROVE NothingStaleKept'
    OBVIOUS
  <2>1. CASE CheckAndRecord
    <3>0. PICK m \in sent : \E copy \in Copies(m) :
            /\ copy.expires = m.expires /\ m.expires \in Int
            /\ ~Stale(copy)
            /\ cache' = Pruned(cache) \cup (IF AlreadySeen(copy) THEN {} ELSE {Entry(copy)})
            /\ now' = now
      BY <2>1, CheckedCopy DEF IInv
    <3>1. PICK copy \in Copies(m) :
            /\ copy.expires = m.expires /\ m.expires \in Int
            /\ ~Stale(copy)
            /\ cache' = Pruned(cache) \cup (IF AlreadySeen(copy) THEN {} ELSE {Entry(copy)})
            /\ now' = now
      BY <3>0
    <3>2. Entry(copy).expires >= now
      BY <3>1 DEF Entry, Stale, IInv, TypeOK, IdentityAssumption
    <3>3. \A e \in cache' : e.expires >= now
      BY <3>1, <3>2 DEF Pruned
    <3> QED BY <3>1, <3>3 DEF NothingStaleKept
  <2>2. CASE RefuseEarly
    BY <2>2, RefusedAnswer DEF NothingStaleKept
  <2>3. CASE answer' = None
    BY <2>3 DEF NothingStaleKept
  <2>4. CASE UNCHANGED vars
    BY <2>4 DEF vars, NothingStaleKept
  <2> QED BY <2>1, <2>2, <2>3, <2>4, NoAnswer
<1> QED BY <1>1, <1>2, Invariance, PTL DEF Spec

\* ReplayMeansSeen: nobody is called a replay for a nonce another agent drew.
THEOREM NoFalseReplay == ASSUME IdentityAssumption PROVE Spec => ReplayMeansSeen
<1> DEFINE Fair == answer' # None /\ answer' # answer =>
       (answer'.code = "SIG_REPLAY" => KeyOf(answer'.message) \in came)
<1>1. IInv /\ [Next]_vars => [Fair]_vars
  <2> SUFFICES ASSUME IInv, Next, answer' # None, answer'.code = "SIG_REPLAY"
               PROVE  KeyOf(answer'.message) \in came
    OBVIOUS
  <2>1. CASE CheckAndRecord
    <3>1. PICK copy : answer'.message = copy /\ answer'.code = RefusedLate(copy)
      BY <2>1, CheckedCopy DEF IInv
    <3>2. AlreadySeen(copy)
      BY <3>1 DEF RefusedLate
    <3>3. PICK e \in cache : e.key = KeyOf(copy)
      BY <3>2 DEF AlreadySeen, Pruned, Entry
    <3> QED BY <3>1, <3>3 DEF IInv, TypeOK
  <2>2. CASE RefuseEarly
    BY <2>2, RefusedAnswer
  <2> QED BY <2>1, <2>2, NoAnswer
<1> QED BY <1>1, Invariance, PTL DEF Spec, ReplayMeansSeen
=============================================================================
