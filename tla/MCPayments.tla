----------------------------- MODULE MCPayments -----------------------------
(* Small instances of Payments for TLC. *)
EXTENDS Payments

CONSTANTS p1, p2, r1, r2, h1, h2
=============================================================================
