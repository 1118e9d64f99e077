------------------------- MODULE TokenBucketLedger -------------------------
(***************************************************************************)
(* TokenBucket with a ledger beside it: what went into the bucket, what    *)
(* came out, and how often each VM wrote a cell.  The ledger is history;   *)
(* it restricts no step of the program.                                    *)
(***************************************************************************)
EXTENDS TokenBucket

VARIABLES
    supplied,   \* tokens put into the bucket by initializations and refills,
                \* net of what an overwrite or the cap threw away
    taken,      \* requests that went on with a token
    bypassed,   \* requests that went on without one (getToken gave up)
    wins,       \* successful sets of last_refilled by refillToken
    refills,    \* refills added to the bucket
    resets,     \* sets of last_refilled to 0 by initializeTokenBucket
    inits,      \* sets of the bucket by initializeTokenBucket
    lastWin     \* the stamp of the latest win

ledger == <<supplied, taken, bypassed, wins, refills, resets, inits, lastWin>>
lvars == <<vars, ledger>>

LInit ==
    /\ Init
    /\ supplied = 0 /\ taken = 0 /\ bypassed = 0
    /\ wins = 0 /\ refills = 0 /\ resets = 0 /\ inits = 0
    /\ lastWin = StartTime

Content == IF bucket = NotFound THEN 0 ELSE bucket

LInitializeLastRefilled(v) ==
    /\ InitializeLastRefilled(v)
    /\ resets' = resets + 1
    /\ UNCHANGED <<supplied, taken, bypassed, wins, refills, inits, lastWin>>

LInitializeBucket(v) ==
    /\ InitializeBucket(v)
    /\ inits' = inits + 1
    /\ supplied' = supplied + TokensPerRefill - Content
    /\ UNCHANGED <<taken, bypassed, wins, refills, resets, lastWin>>

LGetTokenTake(v) ==
    /\ GetTokenTake(v)
    /\ taken' = taken + 1
    /\ UNCHANGED <<supplied, bypassed, wins, refills, resets, inits, lastWin>>

LGetTokenGiveUp(v) ==
    /\ GetTokenGiveUp(v)
    /\ bypassed' = bypassed + 1
    /\ UNCHANGED <<supplied, taken, wins, refills, resets, inits, lastWin>>

LRefillWin(v) ==
    /\ RefillWin(v)
    /\ wins' = wins + 1
    /\ lastWin' = stamp[v]
    /\ UNCHANGED <<supplied, taken, bypassed, refills, resets, inits>>

\* The VM adds to the count it read, which may not be the bucket's any more.
LRefillAdd(v) ==
    /\ RefillAdd(v)
    /\ refills' = refills + 1
    /\ supplied' = supplied + Refilled(seen[v]) - seen[v]
    /\ UNCHANGED <<taken, bypassed, wins, resets, inits, lastWin>>

\* The steps that write no cell and admit no request.
Unrecorded(v) ==
    \/ InitializeFound(v) \/ InitializeNotFound(v)
    \/ GetTokenDenied(v) \/ GetTokenRead(v) \/ GetTokenRetry(v)
    \/ RefillReadLast(v) \/ RefillTooEarly(v) \/ RefillDue(v) \/ RefillLose(v)
    \/ RefillNoBucket(v) \/ RefillReadBucket(v) \/ RefillRetry(v)

LVMStep(v) ==
    \/ LInitializeLastRefilled(v) \/ LInitializeBucket(v)
    \/ LGetTokenTake(v) \/ LGetTokenGiveUp(v)
    \/ LRefillWin(v) \/ LRefillAdd(v)
    \/ Unrecorded(v) /\ UNCHANGED ledger

LNext ==
    \/ \E v \in VM : LVMStep(v)
    \/ (ClockTick \/ ClockSetBack) /\ UNCHANGED ledger

LSpec == LInit /\ [][LNext]_lvars

LTypeOK ==
    /\ TypeOK
    /\ supplied \in Int
    /\ taken \in Nat /\ bypassed \in Nat
    /\ wins \in Nat /\ refills \in Nat /\ resets \in Nat /\ inits \in Nat
    /\ lastWin \in StartTime .. MaxClock

----------------------------------------------------------------------------
\* Every token is accounted for: what is left is what went in less what was
\* granted, however the VMs' getToken and refillToken interleave.  A write made
\* from a stale read would create or destroy tokens.
Conservation == Content + taken = supplied

\* Tokens granted never exceed one bucketful for each initialization and one
\* for each refill won and added: no refill is added twice.
SupplyBound ==
    taken <=
        TokensPerRefill * (inits + wins - Cardinality(Owing))

\* Whatever the number of VMs that tick, refills keep to the interval: one at
\* once after each reset of last_refilled to 0, then at most one an interval.
\* (The clock must not be set back.)
RefillPace ==
    (wins - resets) * Interval <= now - StartTime

\* With one VM configured before the others, the bucket is initialized once,
\* and before the first request or tick of any VM can look for it.
InitializedOnce ==
    CanaryFirst =>
        /\ resets <= 1 /\ inits <= 1
        /\ (\E v \in VM : pc[v] \notin {"new"} \cup Initializing) => bucket # NotFound

\* A request can only be let through without a token if other VMs wrote the
\* bucket during each of its attempts: one write makes one attempt of each
\* other VM fail, at most.
BypassBound ==
    bypassed * MaxGetTokenRetry <=
        (Cardinality(VM) - 1) * (taken + refills + inits)

=============================================================================
