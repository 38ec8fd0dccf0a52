----------------------------- MODULE MCKeeperRpc -----------------------------
(* Model values for KeeperRpc: concurrent callers, which are               *)
(* interchangeable, and the cycle's breaker.                               *)
EXTENDS KeeperRpc, TLC

CONSTANTS x1, x2, x3, main, nowhere

Interchangeable == Permutations(Caller)
=============================================================================
