----------------------------- MODULE MCReminders -----------------------------
(* Small instances of Reminders for TLC. *)
EXTENDS Reminders

CONSTANTS m1, m2, u1, u2, t1, t2
=============================================================================
