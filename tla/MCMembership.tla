---------------------------- MODULE MCMembership ----------------------------
(* Small instances of Membership for TLC. *)
EXTENDS Membership, TLC

CONSTANTS u1, u2, u3, u4, u5, r1, r2

Symmetry == Permutations({u2, u3, u4}) \cup Permutations(Requests)
=============================================================================
