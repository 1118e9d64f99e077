----------------------- MODULE TokenBucketRefinement -----------------------
(***************************************************************************)
(* The refinement mapping from the VMs' shared cells to the rate limiter   *)
(* they implement: the cells are the abstract bucket, a refill is owed by  *)
(* every VM between its set of last_refilled and its set of the bucket,    *)
(* and the ledger tells which requests were admitted with a token and      *)
(* which without.                                                          *)
(***************************************************************************)
EXTENDS TokenBucketLedger

Limiter == INSTANCE RateLimiter WITH
    Capacity <- MaxTokens, Portion <- TokensPerRefill, Spacing <- Interval,
    Modulus <- TokenModulus, Attempts <- MaxGetTokenRetry,
    Others <- Cardinality(VM) - 1, clock <- now, tokens <- bucket,
    earned <- lastRefilled, owed <- Cardinality(Owing), granted <- taken,
    bypassing <- bypassed, changes <- taken + refills + inits

\* With one VM configured first and a clock that does not go back, the code of
\* all VMs together behaves as one atomic bucket: every request that goes on
\* took a token in one step or is one of the bypasses that contention allows,
\* and no token and no refill is lost or counted twice, whatever the
\* interleaving of host calls.
RefinesRateLimiter == Limiter!ASpec

=============================================================================
