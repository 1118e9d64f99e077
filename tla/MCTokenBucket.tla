--------------------------- MODULE MCTokenBucket ---------------------------
(* The rate limiter for TLC: the ledger and the refinement together, with   *)
(* model values for the VMs.                                                *)
EXTENDS TokenBucketRefinement, TLC

\* The VMs other than the canary are interchangeable.
OtherVMs == Permutations(VM \ {Canary})
=============================================================================
