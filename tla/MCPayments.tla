----------------------------- MODULE MCPayments -----------------------------
(* A small instance of Payments for TLC: two orders for the same cart, two   *)
(* attempts to pay, in the signed amount or one paise less.                  *)
EXTENDS Payments
=============================================================================
