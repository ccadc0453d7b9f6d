--------------------------- MODULE AgentIdentity ---------------------------
(***************************************************************************)
(* The merchant server's check of who is asking (identity/): a buyer agent *)
(* signs each request, the wire may damage, swap, hold back or repeat it,  *)
(* and IdentityMiddleware lets it through to a transacting path only when  *)
(* verify_request passes.  The replay cache is a field of the middleware   *)
(* in memory.  The signature library is not part of the repository: it     *)
(* verifies what was covered, and refuses what has expired by a clock of   *)
(* its own that nobody injects (tests/test_identity.py, the fixture).      *)
(***************************************************************************)
EXTENDS Integers, FiniteSets

CONSTANTS
  None,        \* Python's None
  Agents,      \* key ids of those who sign
  Registered,  \* those the server's KeyDirectory resolves
  Nonces,      \* what a signer can draw
  Bodies,      \* request bodies
  Ttl,         \* DEFAULT_TTL_SECONDS
  Skew,        \* DEFAULT_SKEW_SECONDS
  Drifts,      \* how far the clock of a signer can be off
  MaxSent,     \* bound: requests that are signed
  MaxNow,      \* bound: end of time
  MaxRestarts  \* bound: restarts of the server

ASSUME IdentityAssumption ==
  /\ Ttl \in Nat /\ Skew \in Nat /\ Drifts \subseteq Int
  /\ MaxSent \in Nat /\ MaxNow \in Nat /\ MaxRestarts \in Nat
  /\ Registered \subseteq Agents
  /\ None \notin Nonces \cup Bodies \cup Int

VARIABLES
  now,       \* the clock of the middleware, in seconds
  sent,      \* the requests that have been signed
  cache,     \* NonceCache._seen
  restarts,  \* how often the server has restarted
  answer,    \* what the last step answered, None when nothing was asked
  \* For the properties only:
  served,    \* what has been let through since the server came up
  came       \* the keys that have reached the cache since then

vars == <<now, sent, cache, restarts, answer, served, came>>

-----------------------------------------------------------------------------
(* Signing. *)

KeyOf(message) == <<message.keyid, message.nonce>>

\* What a request is signed with.  The digest is that of the body, and
\* stands for it; one of the parameters is missing when another library
\* than sign_request has been told to leave it out.
Signed(keyid, nonce, created, body, missing) ==
  [keyid   |-> keyid,
   created |-> IF missing = "created" THEN None ELSE created,
   expires |-> created + Ttl,
   nonce   |-> IF missing = "nonce" THEN None ELSE nonce,
   digest  |-> IF missing = "digest" THEN None ELSE body,
   body    |-> body,
   signature |-> "good"]

\* sign_request; the nonce is fresh for that key.
SignRequest(keyid) ==
  /\ Cardinality(sent) < MaxSent
  /\ \E nonce \in Nonces, body \in Bodies, created \in {now + d : d \in Drifts},
        missing \in {"nothing", "created", "nonce", "digest"} :
       /\ \A m \in sent : m.keyid = keyid => m.nonce # nonce
       /\ sent' = sent \cup {Signed(keyid, nonce, created, body, missing)}
  /\ answer' = None
  /\ UNCHANGED <<now, cache, restarts, served, came>>

\* What arrives of a request: itself, with another body, with something
\* changed that the signature covers, or without its signature.
Copies(m) ==
  {[m EXCEPT !.body = b] : b \in Bodies}
    \cup {[m EXCEPT !.signature = s] : s \in {"damaged", "absent"}}

-----------------------------------------------------------------------------
(* verify_request. *)

\* Mistake to detect: nothing is ever pruned.
Unpruned(entries) == entries

\* The entries that check_and_record does not drop on the way.
Pruned(entries) == {e \in entries : e.expires >= now}

\* Mistake to detect: the cache forgets when the signature expires, although
\* it is accepted for a while after that.
EntryWithoutSkew(message) == [key |-> KeyOf(message), expires |-> message.expires]

\* Mistake to detect: the nonce alone is the key.
EntryByNonce(message) ==
  [key |-> <<None, message.nonce>>, expires |-> message.expires + Skew]

Entry(message) == [key |-> KeyOf(message), expires |-> message.expires + Skew]

AlreadySeen(message) == \E e \in Pruned(cache) : e.key = Entry(message).key

\* Mistake to detect: the library is trusted with the digest too.
DigestOfHeader(message) == message.digest # None

\* content_digest_matches, recomputed from the body that arrived.
DigestMatches(message) == message.digest = message.body

\* Before created or after expires, by more than the skew.
Stale(message) == now < message.created - Skew \/ now > message.expires + Skew

\* What is refused before the cache is asked.  expired is the library's
\* own opinion, on its own clock.
RefusedEarly(message, expired) ==
  IF message.signature = "absent" THEN "SIG_MISSING"
  ELSE IF message.keyid \notin Registered THEN "SIG_KEY_UNKNOWN"
  ELSE IF message.signature = "damaged" \/ expired THEN "SIG_BAD"
  ELSE IF message.created = None THEN "SIG_BAD"
  ELSE IF Stale(message) THEN "SIG_STALE"
  ELSE IF message.nonce = None THEN "SIG_BAD"
  ELSE "passed"

\* What is refused after it, by when the nonce has been recorded.
RefusedLate(message) ==
  IF AlreadySeen(message) THEN "SIG_REPLAY"
  ELSE IF message.digest = None THEN "SIG_BAD"
  ELSE IF ~DigestMatches(message) THEN "CONTENT_DIGEST_MISMATCH"
  ELSE "OK"

\* The library can take a signature for expired only when it is, give or
\* take the difference of the clocks.
LibraryExpired(message) == {FALSE, now > message.expires}

\* dispatch: a request for a transacting path, refused before the cache.
RefuseEarly ==
  /\ \E m \in sent : \E copy \in Copies(m) : \E expired \in LibraryExpired(copy) :
       /\ RefusedEarly(copy, expired) # "passed"
       /\ answer' = [message |-> copy, code |-> RefusedEarly(copy, expired)]
  /\ UNCHANGED <<now, sent, cache, restarts, served, came>>

\* dispatch: a request that gets as far as the cache is recorded there, and
\* is then refused with 403 or handed to the endpoint.
CheckAndRecord ==
  /\ \E m \in sent : \E copy \in Copies(m) :
       /\ RefusedEarly(copy, FALSE) = "passed"
       /\ answer' = [message |-> copy, code |-> RefusedLate(copy)]
       /\ cache' = Pruned(cache) \cup (IF AlreadySeen(copy) THEN {} ELSE {Entry(copy)})
       /\ served' = IF RefusedLate(copy) = "OK" THEN served \cup {copy} ELSE served
       /\ came' = came \cup {KeyOf(copy)}
  /\ UNCHANGED <<now, sent, restarts>>

-----------------------------------------------------------------------------

Tick ==
  /\ now < MaxNow
  /\ now' = now + 1
  /\ answer' = None
  /\ UNCHANGED <<sent, cache, restarts, served, came>>

\* The server restarts with an empty cache.
Restart ==
  /\ restarts < MaxRestarts
  /\ restarts' = restarts + 1
  /\ cache' = {} /\ served' = {} /\ came' = {}
  /\ answer' = None
  /\ UNCHANGED <<now, sent>>

Init ==
  /\ now = 0 /\ sent = {} /\ cache = {} /\ restarts = 0
  /\ answer = None /\ served = {} /\ came = {}

Next ==
  \/ \E keyid \in Agents : SignRequest(keyid)
  \/ RefuseEarly \/ CheckAndRecord
  \/ Tick \/ Restart

Spec == Init /\ [][Next]_vars

-----------------------------------------------------------------------------
(* Properties. *)

Requests ==
  [keyid : Agents, created : Int \cup {None}, expires : Int,
   nonce : Nonces \cup {None}, digest : Bodies \cup {None}, body : Bodies,
   signature : {"good"}]

\* Types: what was signed, remembered and let through.
TypeOK ==
  /\ now \in 0..MaxNow /\ restarts \in 0..MaxRestarts
  /\ sent \subseteq Requests
  /\ \A m \in sent : m.digest \in {None, m.body} /\ m.created \in {None, m.expires - Ttl}
  /\ \A e \in cache : e.key \in came /\ e.expires \in Int
  /\ served \subseteq sent

\* The cache forgets by age and a signature is accepted by age, on two
\* different bounds: still no request is let through twice between two
\* restarts, however late its copies come.
NeverServedTwice ==
  [][answer' # None /\ answer' # answer =>
       (answer'.code = "OK" => answer'.message \notin served)]_vars

\* What reaches the endpoint is a request as its signer sent it, body
\* included, from a registered key and within the window: the wire gets
\* nothing else past the library and the two checks it does not make.
ServedAsSent ==
  answer # None => (answer.code = "OK" =>
    /\ answer.message \in sent
    /\ answer.message.keyid \in Registered
    /\ now \in (answer.message.created - Skew)..(answer.message.expires + Skew))

\* SIG_REPLAY is said of no request that comes for the first time: another
\* agent that drew the same nonce does not get in its way.
ReplayMeansSeen ==
  [][answer' # None /\ answer' # answer =>
       (answer'.code = "SIG_REPLAY" => KeyOf(answer'.message) \in came)]_vars

\* The comment on NonceCache: pruned on the next check, no unbounded growth.
\* After a check every entry is one that a copy could still be served for.
NothingStaleKept ==
  answer # None =>
    (answer.code \in {"OK", "SIG_REPLAY", "CONTENT_DIGEST_MISMATCH"} =>
       \A e \in cache : e.expires >= now)
=============================================================================
