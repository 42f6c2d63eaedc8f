---------------------------- MODULE MCDocuments -----------------------------
(* Small instances of Documents for TLC. *)
EXTENDS Documents, TLC

CONSTANTS m1, m2, d1, d2, r1, r2, k1

Symmetry == Permutations(Matters) \cup Permutations(Docs) \cup Permutations(Callers)
=============================================================================
