-------------------------- MODULE MCAgentIdentity --------------------------
(* A small instance of AgentIdentity for TLC: two agents the server knows,  *)
(* one it does not, a second of lifetime and of skew, and signers whose     *)
(* clock is right or ahead by more than the skew.                           *)
EXTENDS AgentIdentity
=============================================================================
