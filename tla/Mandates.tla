------------------------------ MODULE Mandates ------------------------------
(***************************************************************************)
(* The signed wire artifacts of src/mandates: envelopes, digests, the hash *)
(* chain from an IntentMandate to the CartMandate that answers it, and     *)
(* expiry.  A mandate is a record whose fields carry the names of the      *)
(* pydantic models in mandates/schemas.py.  Amounts are integers of paise, *)
(* instants are integers.                                                  *)
(***************************************************************************)
EXTENDS Integers, Sequences

CONSTANT None  \* Python's None: an absent field, cart, decision or order

\* Python's min(x, y) and max(x, y).
LesserOf(x, y)  == IF x < y THEN x ELSE y
GreaterOf(x, y) == IF x < y THEN y ELSE x

(***************************************************************************)
(* mandate_hash: SHA-256 of the canonical JSON of a mandate.  All the      *)
(* program uses of it is that equal digests mean equal mandates and that a *)
(* digest is never itself a mandate, so it is a tagged copy.               *)
(***************************************************************************)
Digest(mandate) == <<"sha256", mandate>>

(***************************************************************************)
(* An envelope is a payload with a set of signatures; a signature names    *)
(* the key and holds the bytes it was made over, which is how a signature  *)
(* that belongs to another payload is recognised.                          *)
(***************************************************************************)
SignMandate(mandate, kid) ==
  [payload |-> mandate, signatures |-> {[kid |-> kid, over |-> mandate]}]

(***************************************************************************)
(* verify_envelope: at least one signature, each by a key of the directory *)
(* and over this payload, and one of them by the required signer.          *)
(***************************************************************************)
EnvelopeVerifies(envelope, keyDirectory, requiredKid) ==
  /\ envelope.signatures # {}
  /\ \A s \in envelope.signatures :
        s.kid \in keyDirectory /\ s.over = envelope.payload
  /\ \E s \in envelope.signatures : s.kid = requiredKid

\* Mistake to detect: any bound intent will do.
BoundToSomeIntent(intent, cart) == cart.intent_hash # None

\* verify_chain without a payment: the cart answers exactly this intent.
ChainIntact(intent, cart) == cart.intent_hash = Digest(intent)

\* is_expired: a mandate is still live at the very instant it expires.
IsExpired(mandate, now) == now > mandate.expires_at
=============================================================================
