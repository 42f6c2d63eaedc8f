------------------------- MODULE MCContractVersions -------------------------
(* Small instances of ContractVersions for TLC. *)
EXTENDS ContractVersions

CONSTANTS c1, c2, r1, r2, r3
=============================================================================
