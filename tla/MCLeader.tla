------------------------------ MODULE MCLeader ------------------------------
(* Model values for Leader: two keepers, two connections each.             *)
EXTENDS Leader, TLC

CONSTANTS k1, k2, c1, c2, free

(* Keepers, and connections, are interchangeable. *)
Interchangeable == Permutations(Instance) \cup Permutations(Conn)
=============================================================================
