------------------------------ MODULE Approval ------------------------------
(***************************************************************************)
(* buyer/approval.py, the pure part: the intent a human signs after saying *)
(* yes to an escalated cart.  The steps of resolve_escalation are actions  *)
(* of the state machines that call it.                                     *)
(***************************************************************************)
EXTENDS PolicyEngine

\* Mistakes to detect: a yes that lifts the tripwire to the hard limit, and
\* one that allows substitutions nobody was asked about.
AmendUpToTheLimit(original, decision, cart, now, id) ==
  [original EXCEPT !.mandate_id = id, !.escalate_above_paise = original.total_paise]

AmendWithSubstitutions(original, decision, cart, now, id) ==
  [original EXCEPT
     !.mandate_id = id,
     !.escalate_above_paise =
        IF "ESCALATION_THRESHOLD" \in decision.failed THEN cart.total_paise ELSE @,
     !.substitutions_preapproved = TRUE]

(***************************************************************************)
(* build_amended_intent.  Only the limits behind the gates that escalated  *)
(* move: the threshold to the total of this cart, the total only up to the *)
(* total of this cart, the substitution flag to TRUE.  The validity period *)
(* restarts at `now'.  `id' is the fresh suffix of the mandate id.         *)
(***************************************************************************)
BuildAmendedIntent(original, decision, cart, now, id) ==
  LET overThreshold == "ESCALATION_THRESHOLD" \in decision.failed
      substituted   == "AMBIGUOUS_SUBSTITUTION" \in decision.failed
  IN  [original EXCEPT
         !.mandate_id = id,
         !.issued_at  = now,
         !.expires_at = now + (original.expires_at - original.issued_at),
         !.total_paise =
            IF overThreshold THEN GreaterOf(@, cart.total_paise) ELSE @,
         !.escalate_above_paise = IF overThreshold THEN cart.total_paise ELSE @,
         !.substitutions_preapproved = substituted \/ @]

\* The context of the re-evaluation: the fresh envelopes, and the
\* interpretation no longer in doubt because a human has looked at it.
ResolvedContext(ctx, intentEnvelope, cartEnvelope) ==
  [ctx EXCEPT !.intent_envelope = intentEnvelope,
              !.cart_envelope = cartEnvelope,
              !.low_confidence_interpretation = FALSE]
=============================================================================
