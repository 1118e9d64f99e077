---------------------------- MODULE TokenBucket ----------------------------
(***************************************************************************)
(* The local rate limiter (extensions/local_rate_limit).  Every worker     *)
(* thread of the proxy runs its own Wasm VM with a copy of the plugin; the *)
(* copies meet only in two cells of the host's shared data, the token      *)
(* bucket and the time of the last refill.  A VM runs one callback at a    *)
(* time (onConfigure, onTick, onRequestHeaders), and between any two host  *)
(* calls of a callback the other VMs may run: one action is one host call  *)
(* together with the local code up to the next one.                        *)
(*                                                                         *)
(* The host is modelled from the way bucket.cc uses it.  getSharedData     *)
(* returns the cell's cas number and setSharedData with a cas succeeds     *)
(* only while that number is current.  Cas numbers are never compared with *)
(* anything else, so a cell carries the set of VMs whose last read is      *)
(* still current instead: reading adds the VM, every write empties the set.*)
(***************************************************************************)
EXTENDS Integers, FiniteSets

CONSTANTS
    VM,                \* the Wasm VMs, one for each worker thread
    Canary,            \* the VM a proxy configures before the others ...
    CanaryFirst,       \* ... or, when FALSE, all VMs are configured at once
    MaxTokens,         \* max_tokens_
    TokensPerRefill,   \* tokens_per_refill_, also the initial content
    Interval,          \* refill_interval_nanosec_, in clock units
    MaxGetTokenRetry,  \* maxGetTokenRetry, 20 in bucket.cc
    TokenModulus,      \* 2^64 for the uint64_t token counts
    TimeModulus,       \* 2^64 for the uint64_t time stamps
    StartTime,         \* the clock when the proxy starts
    MaxClock,          \* bound: the clock stops here
    ClockStepsBack     \* whether the system clock may be set back

ASSUME ConstantsAssumption ==
    /\ Canary \in VM
    /\ IsFiniteSet(VM)
    /\ CanaryFirst \in BOOLEAN
    /\ ClockStepsBack \in BOOLEAN
    /\ MaxTokens \in Nat
    /\ TokensPerRefill \in Nat
    /\ Interval \in Nat
    /\ MaxGetTokenRetry \in Nat \ {0}
    /\ TokenModulus \in Nat \ {0}
    /\ MaxTokens < TokenModulus
    /\ TokensPerRefill < TokenModulus
    /\ StartTime \in Nat \ {0}
    /\ MaxClock \in Nat
    /\ StartTime <= MaxClock
    /\ TimeModulus \in Nat
    /\ MaxClock + Interval < TimeModulus

NotFound == -1         \* a cell of the shared data that was never set

VARIABLES
    now,            \* getCurrentTimeNanoseconds()
    lastRefilled,   \* shared cell wasm_local_rate_limit.last_refilled
    lastCurrent,    \* the VMs whose cas of lastRefilled is current
    bucket,         \* shared cell wasm_local_rate_limit.token_bucket
    bucketCurrent,  \* the VMs whose cas of the bucket is current
    pc,             \* the host call each VM makes next
    seen,           \* the cell value each VM read last
    stamp,          \* the local variable now of refillToken
    retries         \* the loop counter i of getToken

shared == <<lastRefilled, lastCurrent, bucket, bucketCurrent>>
vars == <<now, shared, pc, seen, stamp, retries>>

\* Callbacks in progress, by the host call that comes next.
Initializing == {"init_last", "init_bucket"}
Requesting == {"get_read", "get_set"}
Refilling == {"refill_clock", "refill_last", "refill_read", "refill_set"}

Init ==
    /\ now = StartTime
    /\ lastRefilled = NotFound /\ lastCurrent = {}
    /\ bucket = NotFound /\ bucketCurrent = {}
    /\ pc = [v \in VM |-> "new"]
    /\ seen = [v \in VM |-> 0]
    /\ stamp = [v \in VM |-> 0]
    /\ retries = [v \in VM |-> 0]

Goto(v, label) == pc' = [pc EXCEPT ![v] = label]

\* The callback returns; the VM's locals are dead.
Return(v) ==
    /\ Goto(v, "idle")
    /\ seen' = [seen EXCEPT ![v] = 0]
    /\ stamp' = [stamp EXCEPT ![v] = 0]
    /\ retries' = [retries EXCEPT ![v] = 0]

\* setSharedData: the write gives the cell a new cas number.
SetLastRefilled(t) == lastRefilled' = t /\ lastCurrent' = {}
SetBucket(n) == bucket' = n /\ bucketCurrent' = {}

----------------------------------------------------------------------------
(* onConfigure -> initializeTokenBucket *)

\* Mutant of InitializeNotFound: initializes without looking.
InitializeUnasked(v) ==
    /\ pc[v] = "new"
    /\ CanaryFirst => v = Canary \/ pc[Canary] \notin {"new"} \cup Initializing
    /\ Goto(v, "init_last")
    /\ UNCHANGED <<now, shared, seen, stamp, retries>>

\* onConfigure: the host configures a new VM, the canary before the others if
\* CanaryFirst.  The bucket counts as initialized once lastRefilled exists.
InitializeFound(v) ==
    /\ pc[v] = "new"
    /\ CanaryFirst => v = Canary \/ pc[Canary] \notin {"new"} \cup Initializing
    /\ lastRefilled # NotFound
    /\ Goto(v, "idle")
    /\ UNCHANGED <<now, shared, seen, stamp, retries>>

InitializeNotFound(v) ==
    /\ pc[v] = "new"
    /\ CanaryFirst => v = Canary \/ pc[Canary] \notin {"new"} \cup Initializing
    /\ lastRefilled = NotFound
    /\ Goto(v, "init_last")
    /\ UNCHANGED <<now, shared, seen, stamp, retries>>

\* Both sets are made without a cas: they overwrite whatever is there.
InitializeLastRefilled(v) ==
    /\ pc[v] = "init_last"
    /\ SetLastRefilled(0)
    /\ Goto(v, "init_bucket")
    /\ UNCHANGED <<now, bucket, bucketCurrent, seen, stamp, retries>>

InitializeBucket(v) ==
    /\ pc[v] = "init_bucket"
    /\ SetBucket(TokensPerRefill)
    /\ Goto(v, "idle")
    /\ UNCHANGED <<now, lastRefilled, lastCurrent, seen, stamp, retries>>

----------------------------------------------------------------------------
(* onRequestHeaders -> getToken *)

\* No bucket, or no token in it: the request gets a 429.
GetTokenDenied(v) ==
    /\ pc[v] \in {"idle", "get_read"}
    /\ bucket \in {NotFound, 0}
    /\ Return(v)
    /\ UNCHANGED <<now, shared>>

GetTokenRead(v) ==
    /\ pc[v] \in {"idle", "get_read"}
    /\ bucket \notin {NotFound, 0}
    /\ seen' = [seen EXCEPT ![v] = bucket]
    /\ bucketCurrent' = bucketCurrent \cup {v}
    /\ Goto(v, "get_set")
    /\ UNCHANGED <<now, lastRefilled, lastCurrent, bucket, stamp, retries>>

\* Mutant of GetTokenTake: the set is made without a cas.
GetTokenTakeBlindly(v) ==
    /\ pc[v] = "get_set"
    /\ SetBucket(seen[v] - 1)
    /\ Return(v)
    /\ UNCHANGED <<now, lastRefilled, lastCurrent>>

\* Mutant of GetTokenTake: the token is not subtracted.
GetTokenTakeNothing(v) ==
    /\ pc[v] = "get_set"
    /\ v \in bucketCurrent
    /\ SetBucket(seen[v])
    /\ Return(v)
    /\ UNCHANGED <<now, lastRefilled, lastCurrent>>

\* The set succeeds and the request goes on, one token fewer.
GetTokenTake(v) ==
    /\ pc[v] = "get_set"
    /\ v \in bucketCurrent
    /\ SetBucket(seen[v] - 1)
    /\ Return(v)
    /\ UNCHANGED <<now, lastRefilled, lastCurrent>>

\* Mutant of GetTokenRetry: one attempt too many.
GetTokenRetryOnceMore(v) ==
    /\ pc[v] = "get_set"
    /\ v \notin bucketCurrent
    /\ retries[v] < MaxGetTokenRetry
    /\ retries' = [retries EXCEPT ![v] = @ + 1]
    /\ seen' = [seen EXCEPT ![v] = 0]
    /\ Goto(v, "get_read")
    /\ UNCHANGED <<now, shared, stamp>>

\* Mutant of GetTokenRetry: the attempts are not counted.
GetTokenRetryForever(v) ==
    /\ pc[v] = "get_set"
    /\ v \notin bucketCurrent
    /\ seen' = [seen EXCEPT ![v] = 0]
    /\ Goto(v, "get_read")
    /\ UNCHANGED <<now, shared, stamp, retries>>

\* Cas mismatch, with attempts left: read again.
GetTokenRetry(v) ==
    /\ pc[v] = "get_set"
    /\ v \notin bucketCurrent
    /\ retries[v] + 1 < MaxGetTokenRetry
    /\ retries' = [retries EXCEPT ![v] = @ + 1]
    /\ seen' = [seen EXCEPT ![v] = 0]
    /\ Goto(v, "get_read")
    /\ UNCHANGED <<now, shared, stamp>>

\* Mutant of GetTokenGiveUp: gives up one attempt early.
GetTokenGiveUpEarly(v) ==
    /\ pc[v] = "get_set"
    /\ v \notin bucketCurrent
    /\ retries[v] + 2 >= MaxGetTokenRetry
    /\ Return(v)
    /\ UNCHANGED <<now, shared>>

\* Cas mismatch on the last attempt: the request goes on without a token.
GetTokenGiveUp(v) ==
    /\ pc[v] = "get_set"
    /\ v \notin bucketCurrent
    /\ retries[v] + 1 >= MaxGetTokenRetry
    /\ Return(v)
    /\ UNCHANGED <<now, shared>>

----------------------------------------------------------------------------
(* onTick -> refillToken *)

RefillReadLast(v) ==
    /\ pc[v] = "idle"
    /\ lastRefilled # NotFound
    /\ seen' = [seen EXCEPT ![v] = lastRefilled]
    /\ lastCurrent' = lastCurrent \cup {v}
    /\ Goto(v, "refill_clock")
    /\ UNCHANGED <<now, lastRefilled, bucket, bucketCurrent, stamp, retries>>

\* now - last_update < refill_interval_nanosec, in uint64_t arithmetic.
Elapsed(t, last) == (t - last) % TimeModulus

RefillTooEarly(v) ==
    /\ pc[v] = "refill_clock"
    /\ Elapsed(now, seen[v]) < Interval
    /\ Return(v)
    /\ UNCHANGED <<now, shared>>

RefillDue(v) ==
    /\ pc[v] = "refill_clock"
    /\ Elapsed(now, seen[v]) >= Interval
    /\ stamp' = [stamp EXCEPT ![v] = now]
    /\ Goto(v, "refill_last")
    /\ UNCHANGED <<now, shared, seen, retries>>

\* Mutant of RefillWin: last_refilled is set without a cas.
RefillWinBlindly(v) ==
    /\ pc[v] = "refill_last"
    /\ SetLastRefilled(stamp[v])
    /\ seen' = [seen EXCEPT ![v] = 0]
    /\ stamp' = [stamp EXCEPT ![v] = 0]
    /\ Goto(v, "refill_read")
    /\ UNCHANGED <<now, bucket, bucketCurrent, retries>>

\* The VM whose set of last_refilled succeeds is the one that refills.
RefillWin(v) ==
    /\ pc[v] = "refill_last"
    /\ v \in lastCurrent
    /\ SetLastRefilled(stamp[v])
    /\ seen' = [seen EXCEPT ![v] = 0]
    /\ stamp' = [stamp EXCEPT ![v] = 0]
    /\ Goto(v, "refill_read")
    /\ UNCHANGED <<now, bucket, bucketCurrent, retries>>

RefillLose(v) ==
    /\ pc[v] = "refill_last"
    /\ v \notin lastCurrent
    /\ Return(v)
    /\ UNCHANGED <<now, shared>>

\* The bucket is not there (yet): the refill is dropped.
RefillNoBucket(v) ==
    /\ pc[v] = "refill_read"
    /\ bucket = NotFound
    /\ Return(v)
    /\ UNCHANGED <<now, shared>>

RefillReadBucket(v) ==
    /\ pc[v] = "refill_read"
    /\ bucket # NotFound
    /\ seen' = [seen EXCEPT ![v] = bucket]
    /\ bucketCurrent' = bucketCurrent \cup {v}
    /\ Goto(v, "refill_set")
    /\ UNCHANGED <<now, lastRefilled, lastCurrent, bucket, stamp, retries>>

\* Mutant of Refilled: no cap.
RefilledUncapped(n) == (n + TokensPerRefill) % TokenModulus

\* What a refill makes of n tokens: a uint64_t sum, then the cap.
Refilled(n) ==
    LET sum == (n + TokensPerRefill) % TokenModulus
    IN  IF sum > MaxTokens THEN MaxTokens ELSE sum

\* Mutant of RefillAdd: the loop is not left after a successful set.
RefillAddAgain(v) ==
    /\ pc[v] = "refill_set"
    /\ v \in bucketCurrent
    /\ SetBucket(Refilled(seen[v]))
    /\ Goto(v, "refill_read")
    /\ UNCHANGED <<now, lastRefilled, lastCurrent, seen, stamp, retries>>

RefillAdd(v) ==
    /\ pc[v] = "refill_set"
    /\ v \in bucketCurrent
    /\ SetBucket(Refilled(seen[v]))
    /\ Return(v)
    /\ UNCHANGED <<now, lastRefilled, lastCurrent>>

\* Cas mismatch: start over, without a limit on the attempts.
RefillRetry(v) ==
    /\ pc[v] = "refill_set"
    /\ v \notin bucketCurrent
    /\ seen' = [seen EXCEPT ![v] = 0]
    /\ Goto(v, "refill_read")
    /\ UNCHANGED <<now, shared, stamp, retries>>

----------------------------------------------------------------------------
(* The system clock *)

ClockTick ==
    /\ now < MaxClock
    /\ now' = now + 1
    /\ UNCHANGED <<shared, pc, seen, stamp, retries>>

\* The clock behind getCurrentTimeNanoseconds is set back.
ClockSetBack ==
    /\ ClockStepsBack
    /\ now' \in StartTime .. now - 1
    /\ UNCHANGED <<shared, pc, seen, stamp, retries>>

----------------------------------------------------------------------------
Initialize(v) ==
    \/ InitializeFound(v) \/ InitializeNotFound(v)
    \/ InitializeLastRefilled(v) \/ InitializeBucket(v)

GetToken(v) ==
    \/ GetTokenDenied(v) \/ GetTokenRead(v) \/ GetTokenTake(v)
    \/ GetTokenRetry(v) \/ GetTokenGiveUp(v)

RefillToken(v) ==
    \/ RefillReadLast(v) \/ RefillTooEarly(v) \/ RefillDue(v)
    \/ RefillWin(v) \/ RefillLose(v)
    \/ RefillNoBucket(v) \/ RefillReadBucket(v) \/ RefillAdd(v) \/ RefillRetry(v)

VMStep(v) == Initialize(v) \/ GetToken(v) \/ RefillToken(v)

Next == (\E v \in VM : VMStep(v)) \/ ClockTick \/ ClockSetBack

Spec == Init /\ [][Next]_vars

\* A callback that has begun runs on; nothing makes one begin.
FairSpec ==
    Spec /\ \A v \in VM : WF_vars(pc[v] \notin {"new", "idle"} /\ VMStep(v))

----------------------------------------------------------------------------
\* The VMs that won a refill and have not added it yet.
Owing == {v \in VM : pc[v] \in {"refill_read", "refill_set"}}

TypeOK ==
    /\ now \in StartTime .. MaxClock
    /\ lastRefilled \in {NotFound, 0} \cup StartTime .. MaxClock
    /\ bucket \in {NotFound} \cup 0 .. TokenModulus - 1
    /\ lastCurrent \in SUBSET VM
    /\ bucketCurrent \in SUBSET VM
    /\ pc \in [VM -> {"new", "idle"} \cup Initializing \cup Requesting \cup Refilling]
    /\ seen \in [VM -> Nat]
    /\ stamp \in [VM -> {0} \cup StartTime .. MaxClock]
    /\ retries \in [VM -> 0 .. MaxGetTokenRetry - 1]

\* README.md of the extension: max_tokens is the most the bucket holds.  The
\* cap is applied by refillToken only; initializeTokenBucket applies none.
BucketCapped == bucket <= MaxTokens

\* As soon as the clock stands still a refill that was won is added: refillToken
\* retries without a limit, but every write that makes it retry spends a token
\* or ends another refill.
ClockRests == <>[][now' = now]_now
RefillCompletes ==
    ClockRests => \A v \in VM :
        v \in Owing ~> v \notin Owing

\* Every request is answered, under any contention and with any clock.
RequestAnswered == \A v \in VM : pc[v] \in Requesting ~> pc[v] = "idle"

=============================================================================
