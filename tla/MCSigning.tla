------------------------------ MODULE MCSigning ------------------------------
(* Small instances of Signing for TLC. *)
EXTENDS SigningSerial, TLC

CONSTANTS c1, e1, p1, p2, r1, r2, r3, r4, r5, h1

Symmetry ==
  Permutations(SignRequests) \cup Permutations(ContractRequests)
    \cup Permutations(ProviderIds) \cup Permutations(Hooks)
=============================================================================
