--------------------------- MODULE MCRenewalQueue ---------------------------
(* Model values for RenewalQueue: two blobs, two concurrent passes.        *)
EXTENDS RenewalQueue, TLC

CONSTANTS b1, b2, p1, p2, none

(* Two passes, or two blobs, are interchangeable. *)
Interchangeable == Permutations(Blob) \cup Permutations(Pass)
=============================================================================
