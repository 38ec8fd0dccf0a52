------------------------------ MODULE MCVault ------------------------------
(* Bounded instances of the vault contract for TLC.                        *)
EXTENDS Vault, TLC

CONSTANTS a1, a2, v1, v2

(* Addresses and vault ids are only compared for equality. *)
Interchangeable == Permutations({a1, a2}) \cup Permutations({v1, v2})
=============================================================================
