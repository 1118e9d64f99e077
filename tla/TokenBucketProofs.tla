------------------------- MODULE TokenBucketProofs -------------------------
(***************************************************************************)
(* Proofs about the local rate limiter, for any number of VMs, any         *)
(* configuration, and any number of attempts.                              *)
(***************************************************************************)
EXTENDS TokenBucketRefinement, FiniteSetTheorems, TLAPS

USE DEF NotFound

\* What the locals of a callback hold at the host calls that use them.
Locals ==
    \A v \in VM :
        /\ pc[v] = "get_set" => seen[v] \in 1 .. TokenModulus - 1
        /\ pc[v] = "refill_last" => stamp[v] \in StartTime .. MaxClock

\* Type correctness is inductive only together with Locals: the sets of
\* getToken and refillToken write what the VM holds.
TypeInv == TypeOK /\ Locals

\* The initial state.
LEMMA TypeInvInit == Init => TypeInv
  BY ConstantsAssumption DEF Init, TypeInv, TypeOK, Locals, Initializing, Requesting, Refilling

\* A refill stays within the width of a token count.
LEMMA RefilledType ==
    ASSUME NEW n \in Nat
    PROVE  Refilled(n) \in 0 .. TokenModulus - 1 /\ Refilled(n) <= n + TokensPerRefill
<1> DEFINE sum == (n + TokensPerRefill) % TokenModulus
<1>1. sum \in 0 .. TokenModulus - 1
  BY ConstantsAssumption
<1>2. sum <= n + TokensPerRefill
  BY ConstantsAssumption
<1> QED
  BY <1>1, <1>2, ConstantsAssumption DEF Refilled

\* Every step of every VM, and every move of the clock, keeps TypeInv.
LEMMA TypeInvNext == TypeInv /\ [Next]_vars => TypeInv'
<1> SUFFICES ASSUME TypeInv, [Next]_vars PROVE TypeInv'
  OBVIOUS
<1> USE ConstantsAssumption DEF TypeInv, TypeOK, Locals, Initializing, Requesting,
        Refilling, Goto, Return, SetLastRefilled, SetBucket, shared
<1>1. ASSUME NEW v \in VM, InitializeFound(v) PROVE TypeInv'
  BY <1>1 DEF InitializeFound
<1>2. ASSUME NEW v \in VM, InitializeNotFound(v) PROVE TypeInv'
  BY <1>2 DEF InitializeNotFound
<1>3. ASSUME NEW v \in VM, InitializeLastRefilled(v) PROVE TypeInv'
  BY <1>3 DEF InitializeLastRefilled
<1>4. ASSUME NEW v \in VM, InitializeBucket(v) PROVE TypeInv'
  BY <1>4 DEF InitializeBucket
<1>5. ASSUME NEW v \in VM, GetTokenDenied(v) PROVE TypeInv'
  BY <1>5 DEF GetTokenDenied
<1>6. ASSUME NEW v \in VM, GetTokenRead(v) PROVE TypeInv'
  BY <1>6 DEF GetTokenRead
<1>7. ASSUME NEW v \in VM, GetTokenTake(v) PROVE TypeInv'
  BY <1>7 DEF GetTokenTake
<1>8. ASSUME NEW v \in VM, GetTokenRetry(v) PROVE TypeInv'
  BY <1>8 DEF GetTokenRetry
<1>9. ASSUME NEW v \in VM, GetTokenGiveUp(v) PROVE TypeInv'
  BY <1>9 DEF GetTokenGiveUp
<1>10. ASSUME NEW v \in VM, RefillReadLast(v) PROVE TypeInv'
  BY <1>10 DEF RefillReadLast
<1>11. ASSUME NEW v \in VM, RefillTooEarly(v) PROVE TypeInv'
  BY <1>11 DEF RefillTooEarly
<1>12. ASSUME NEW v \in VM, RefillDue(v) PROVE TypeInv'
  BY <1>12 DEF RefillDue
<1>13. ASSUME NEW v \in VM, RefillWin(v) PROVE TypeInv'
  BY <1>13 DEF RefillWin
<1>14. ASSUME NEW v \in VM, RefillLose(v) PROVE TypeInv'
  BY <1>14 DEF RefillLose
<1>15. ASSUME NEW v \in VM, RefillNoBucket(v) PROVE TypeInv'
  BY <1>15 DEF RefillNoBucket
<1>16. ASSUME NEW v \in VM, RefillReadBucket(v) PROVE TypeInv'
  BY <1>16 DEF RefillReadBucket
<1>17. ASSUME NEW v \in VM, RefillAdd(v) PROVE TypeInv'
  <2>1. Refilled(seen[v]) \in 0 .. TokenModulus - 1
    BY RefilledType
  <2> QED
    BY <1>17, <2>1 DEF RefillAdd
<1>18. ASSUME NEW v \in VM, RefillRetry(v) PROVE TypeInv'
  BY <1>18 DEF RefillRetry
<1>19. CASE ClockTick
  BY <1>19 DEF ClockTick
<1>20. CASE ClockSetBack
  BY <1>20 DEF ClockSetBack
<1>21. CASE UNCHANGED vars
  BY <1>21 DEF vars
<1> QED
  BY <1>1, <1>2, <1>3, <1>4, <1>5, <1>6, <1>7, <1>8, <1>9, <1>10, <1>11, <1>12,
     <1>13, <1>14, <1>15, <1>16, <1>17, <1>18, <1>19, <1>20, <1>21
  DEF Next, VMStep, Initialize, GetToken, RefillToken

\* Type correctness of the rate limiter: the shared cells hold counts and times
\* of their width, whatever the VMs interleave.
THEOREM TypeCorrect == Spec => []TypeOK
<1>1. TypeInv => TypeOK
  BY DEF TypeInv
<1> QED
  BY TypeInvInit, TypeInvNext, <1>1, PTL DEF Spec

----------------------------------------------------------------------------
(* The cap *)

\* The cap on the bucket is inductive with the same cap on what a getToken is
\* about to write back.
CapInv ==
    /\ BucketCapped
    /\ \A v \in VM : pc[v] = "get_set" => seen[v] <= MaxTokens

\* Every step keeps the cap: a refill applies it, and a configuration with
\* tokens_per_refill within max_tokens starts below it.
LEMMA CapInvNext ==
    ASSUME TokensPerRefill <= MaxTokens
    PROVE  TypeInv /\ CapInv /\ [Next]_vars => CapInv'
<1> SUFFICES ASSUME TypeInv, CapInv, [Next]_vars PROVE CapInv'
  OBVIOUS
<1> USE ConstantsAssumption DEF TypeInv, TypeOK, Locals, CapInv, BucketCapped, Goto, Return,
        SetLastRefilled, SetBucket, shared
<1>1. ASSUME NEW v \in VM, Initialize(v) PROVE CapInv'
  BY <1>1 DEF Initialize, InitializeFound, InitializeNotFound, InitializeLastRefilled,
     InitializeBucket
<1>2. ASSUME NEW v \in VM, GetToken(v) PROVE CapInv'
  BY <1>2 DEF GetToken, GetTokenDenied, GetTokenRead, GetTokenTake, GetTokenRetry,
     GetTokenGiveUp
<1>3. ASSUME NEW v \in VM, RefillAdd(v) PROVE CapInv'
  <2>1. Refilled(seen[v]) <= MaxTokens
    BY DEF Refilled
  <2> QED
    BY <1>3, <2>1 DEF RefillAdd
<1>4. ASSUME NEW v \in VM, RefillToken(v), ~ RefillAdd(v) PROVE CapInv'
  BY <1>4 DEF RefillToken, RefillReadLast, RefillTooEarly, RefillDue, RefillWin,
     RefillLose, RefillNoBucket, RefillReadBucket, RefillRetry
<1>5. CASE ClockTick \/ ClockSetBack \/ UNCHANGED vars
  BY <1>5 DEF ClockTick, ClockSetBack, vars
<1> QED
  BY <1>1, <1>2, <1>3, <1>4, <1>5 DEF Next, VMStep

\* The bucket never holds more than max_tokens, for every configuration whose
\* tokens_per_refill is within it (initializeTokenBucket applies no cap).
THEOREM BucketKeepsCap ==
    ASSUME TokensPerRefill <= MaxTokens
    PROVE  Spec => []BucketCapped
<1>1. Init => CapInv
  BY ConstantsAssumption DEF Init, CapInv, BucketCapped
<1>2. TypeInv /\ CapInv /\ [Next]_vars => CapInv'
  BY CapInvNext
<1>3. CapInv => BucketCapped
  BY DEF CapInv
<1> QED
  BY TypeInvInit, TypeInvNext, <1>1, <1>2, <1>3, PTL DEF Spec

----------------------------------------------------------------------------
(* The ledger *)

\* The ledger observes: its steps are steps of the rate limiter.
LEMMA LedgerStep == [LNext]_lvars => [Next]_vars
<1> SUFFICES ASSUME [LNext]_lvars PROVE [Next]_vars
  OBVIOUS
<1>1. ASSUME NEW v \in VM, LVMStep(v) PROVE VMStep(v)
  BY <1>1 DEF LVMStep, VMStep, Initialize, GetToken, RefillToken, Unrecorded,
     LInitializeLastRefilled, LInitializeBucket, LGetTokenTake, LGetTokenGiveUp,
     LRefillWin, LRefillAdd
<1> QED
  BY <1>1 DEF LNext, Next, lvars

\* A VM whose cas of the bucket is current holds the bucket's content.
CasInv ==
    \A v \in VM :
        pc[v] \in {"get_set", "refill_set"} /\ v \in bucketCurrent =>
            bucket # NotFound /\ seen[v] = bucket

\* The supply, by its sources; a refill won is added at most once.
SupplyInv ==
    /\ supplied <= TokensPerRefill * (inits + refills)
    /\ refills + Cardinality(Owing) <= wins

LInv == TypeInv /\ LTypeOK /\ CasInv /\ Conservation /\ SupplyInv

\* The ledger starts balanced.
LEMMA LInvInit == LInit => LInv
<1> SUFFICES ASSUME LInit PROVE LInv
  OBVIOUS
<1> USE DEF LInit, Init
<1>1. TypeInv
  BY TypeInvInit
<1>2. LTypeOK
  BY <1>1, ConstantsAssumption DEF LTypeOK, TypeInv
<1>3. Owing = {}
  BY DEF Owing
<1>4. Cardinality(Owing) = 0
  BY <1>3, FS_EmptySet
<1> QED
  BY <1>1, <1>2, <1>4, ConstantsAssumption DEF LInv, CasInv, Conservation, Content, SupplyInv

\* The VMs that owe a refill are finitely many.
LEMMA OwingFinite == IsFiniteSet(Owing) /\ Cardinality(Owing) \in Nat
<1>1. Owing \subseteq VM
  BY DEF Owing
<1> QED
  BY <1>1, FS_Subset, FS_CardinalityType, ConstantsAssumption

\* One more VM owes a refill, or one fewer.
LEMMA OwingChange ==
    /\ \A v \in VM : v \notin Owing /\ Owing' = Owing \cup {v} =>
            Cardinality(Owing') = Cardinality(Owing) + 1
    /\ \A v \in VM : v \in Owing /\ Owing' = Owing \ {v} =>
            Cardinality(Owing') = Cardinality(Owing) - 1
  BY OwingFinite, FS_AddElement, FS_RemoveElement

\* The steps that write neither the bucket nor the ledger.
LEMMA UnrecordedKeeps ==
    ASSUME LInv, TypeInv', NEW v \in VM, Unrecorded(v), UNCHANGED ledger
    PROVE  LInv'
<1> USE DEF LInv, TypeInv, TypeOK, Goto, Return, shared, ledger
<1>1. LTypeOK'
  BY DEF LTypeOK
<1>2. bucket' = bucket
  BY DEF Unrecorded, InitializeFound, InitializeNotFound, GetTokenDenied,
     GetTokenRead, GetTokenRetry, RefillReadLast, RefillTooEarly, RefillDue,
     RefillLose, RefillNoBucket, RefillReadBucket, RefillRetry
<1>3. Conservation'
  BY <1>2 DEF Conservation, Content
<1>4. CasInv'
  BY <1>2 DEF CasInv, Unrecorded, InitializeFound, InitializeNotFound, GetTokenDenied,
     GetTokenRead, GetTokenRetry, RefillReadLast, RefillTooEarly, RefillDue,
     RefillLose, RefillNoBucket, RefillReadBucket, RefillRetry
<1>5. Owing' = Owing \/ (v \in Owing /\ Owing' = Owing \ {v})
  BY DEF Owing, Unrecorded, InitializeFound, InitializeNotFound, GetTokenDenied,
     GetTokenRead, GetTokenRetry, RefillReadLast, RefillTooEarly, RefillDue,
     RefillLose, RefillNoBucket, RefillReadBucket, RefillRetry
<1>6. Cardinality(Owing') <= Cardinality(Owing) /\ Cardinality(Owing') \in Int
  BY <1>5, OwingChange, OwingFinite
<1>7. SupplyInv'
  BY <1>6, OwingFinite DEF SupplyInv, LTypeOK
<1> QED
  BY <1>1, <1>3, <1>4, <1>7

\* Every step keeps the books.
LEMMA LInvNext == LInv /\ [LNext]_lvars => LInv'
<1> SUFFICES ASSUME LInv, [LNext]_lvars PROVE LInv'
  OBVIOUS
<1>0. TypeInv'
  BY LedgerStep, TypeInvNext DEF LInv
<1> USE ConstantsAssumption, OwingFinite DEF LInv, TypeInv, TypeOK, LTypeOK, Goto, Return,
        SetLastRefilled, SetBucket
<1>1. ASSUME NEW v \in VM, LInitializeLastRefilled(v) PROVE LInv'
  <2> USE <1>1 DEF LInitializeLastRefilled, InitializeLastRefilled
  <2>1. Owing' = Owing
    BY DEF Owing
  <2>2. CasInv'
    BY DEF CasInv
  <2>3. Conservation'
    BY DEF Conservation, Content
  <2> QED
    BY <1>0, <2>1, <2>2, <2>3 DEF SupplyInv
<1>2. ASSUME NEW v \in VM, LInitializeBucket(v) PROVE LInv'
  <2> USE <1>2 DEF LInitializeBucket, InitializeBucket
  <2>1. Owing' = Owing
    BY DEF Owing
  <2>2. CasInv'
    BY DEF CasInv
  <2>3. Conservation'
    BY DEF Conservation, Content
  <2>4. Content \in Nat
    BY DEF Content
  <2>5. TokensPerRefill * (inits + 1 + refills)
          = TokensPerRefill * (inits + refills) + TokensPerRefill
    OBVIOUS
  <2>6. SupplyInv'
    BY <2>1, <2>4, <2>5 DEF SupplyInv
  <2> QED
    BY <1>0, <2>2, <2>3, <2>4, <2>6
<1>3. ASSUME NEW v \in VM, LGetTokenTake(v) PROVE LInv'
  <2> USE <1>3 DEF LGetTokenTake, GetTokenTake
  <2>1. Owing' = Owing
    BY DEF Owing
  <2>2. CasInv'
    BY DEF CasInv
  <2>3. Conservation'
    BY DEF Conservation, Content, CasInv, Locals
  <2> QED
    BY <1>0, <2>1, <2>2, <2>3 DEF SupplyInv
<1>4. ASSUME NEW v \in VM, LGetTokenGiveUp(v) PROVE LInv'
  <2> USE <1>4 DEF LGetTokenGiveUp, GetTokenGiveUp, shared
  <2>1. Owing' = Owing
    BY DEF Owing
  <2>2. CasInv'
    BY DEF CasInv
  <2>3. Conservation'
    BY DEF Conservation, Content
  <2> QED
    BY <1>0, <2>1, <2>2, <2>3 DEF SupplyInv
<1>5. ASSUME NEW v \in VM, LRefillWin(v) PROVE LInv'
  <2> USE <1>5 DEF LRefillWin, RefillWin
  <2>1. v \notin Owing /\ Owing' = Owing \cup {v}
    BY DEF Owing
  <2>2. CasInv'
    BY DEF CasInv
  <2>3. Conservation'
    BY DEF Conservation, Content
  <2>4. lastWin' \in StartTime .. MaxClock
    BY DEF Locals
  <2>5. Cardinality(Owing') = Cardinality(Owing) + 1
    BY <2>1, OwingChange, Zenon
  <2> QED
    BY <1>0, <2>2, <2>3, <2>4, <2>5 DEF SupplyInv
<1>6. ASSUME NEW v \in VM, LRefillAdd(v) PROVE LInv'
  <2> USE <1>6 DEF LRefillAdd, RefillAdd
  <2>1. v \in Owing /\ Owing' = Owing \ {v}
    BY DEF Owing
  <2>2. CasInv'
    BY DEF CasInv
  <2>3. Refilled(seen[v]) \in Nat /\ Refilled(seen[v]) <= seen[v] + TokensPerRefill
    BY RefilledType
  <2>4. Conservation'
    BY <2>3 DEF Conservation, Content, CasInv
  <2>5. TokensPerRefill * (inits + (refills + 1))
          = TokensPerRefill * (inits + refills) + TokensPerRefill
    OBVIOUS
  <2>6. Cardinality(Owing') = Cardinality(Owing) - 1
    BY <2>1, OwingChange, Zenon
  <2>7. SupplyInv'
    BY <2>3, <2>5, <2>6 DEF SupplyInv
  <2> QED
    BY <1>0, <2>2, <2>3, <2>4, <2>7
<1>7. ASSUME NEW v \in VM, Unrecorded(v), UNCHANGED ledger PROVE LInv'
  BY <1>0, <1>7, UnrecordedKeeps
<1>8. ASSUME ClockTick \/ ClockSetBack \/ UNCHANGED vars, UNCHANGED ledger PROVE LInv'
  <2> USE DEF ledger
  <2>1. UNCHANGED <<lastRefilled, bucket, bucketCurrent, pc, seen>>
    BY <1>8 DEF ClockTick, ClockSetBack, vars, shared
  <2>2. Owing' = Owing /\ CasInv' /\ Conservation'
    BY <1>8, <2>1 DEF Owing, CasInv, Conservation, Content
  <2> QED
    BY <1>0, <1>8, <2>2 DEF SupplyInv
<1> QED
  BY <1>1, <1>2, <1>3, <1>4, <1>5, <1>6, <1>7, <1>8 DEF LNext, LVMStep, lvars

\* The inductive invariant holds in every reachable state.
LEMMA LInvHolds == LSpec => []LInv
  BY LInvInit, LInvNext, PTL DEF LSpec

\* Type correctness of the ledger: no count of it goes negative.
THEOREM LedgerTypeCorrect == LSpec => []LTypeOK
<1>1. LInv => LTypeOK
  BY DEF LInv
<1> QED
  BY LInvHolds, <1>1, PTL

\* No token is created or lost, for any number of VMs: a getToken or refillToken
\* that read the bucket before another VM wrote it never writes it back.
THEOREM TokensConserved == LSpec => []Conservation
<1>1. LInv => Conservation
  BY DEF LInv
<1> QED
  BY LInvHolds, <1>1, PTL

\* The requests admitted with a token are bounded by the initializations and the
\* refills won: no refill is added twice.
THEOREM SupplyBounded == LSpec => []SupplyBound
<1>1. LInv => SupplyBound
  <2> SUFFICES ASSUME LInv PROVE SupplyBound
    OBVIOUS
  <2> USE ConstantsAssumption, OwingFinite DEF LInv, LTypeOK, TypeOK
  <2>1. taken <= supplied
    BY DEF Conservation, Content
  <2>2. inits + refills <= inits + wins - Cardinality(Owing)
    BY DEF SupplyInv
  <2>3. \A a, b \in Int : a <= b => TokensPerRefill * a <= TokensPerRefill * b
    OBVIOUS
  <2>4. TokensPerRefill * (inits + refills)
          <= TokensPerRefill * (inits + wins - Cardinality(Owing))
    BY <2>2, <2>3
  <2> DEFINE low == TokensPerRefill * (inits + refills)
             high == TokensPerRefill * (inits + wins - Cardinality(Owing))
  <2>5. supplied <= low /\ low <= high /\ low \in Int /\ high \in Int
    BY <2>4 DEF SupplyInv
  <2> QED
    BY <2>1, <2>5 DEF SupplyBound
<1> QED
  BY LInvHolds, <1>1, PTL

----------------------------------------------------------------------------
(* Requests let through without a token *)

\* The attempts of v's request that have failed: those it counted, and the one
\* in progress once another VM has written the bucket.
Failures(v) ==
    retries[v] + (IF pc[v] = "get_set" /\ v \notin bucketCurrent THEN 1 ELSE 0)

\* The failed attempts of the requests in progress.
Failed == {a \in VM \X (1 .. MaxGetTokenRetry) : a[2] <= Failures(a[1])}

\* Every failed attempt, of a request in progress or of one let through, is
\* charged to a write of the bucket, and no write is charged twice by one VM
\* nor at all by the VM that makes it.
ChargeInv ==
    bypassed * MaxGetTokenRetry + Cardinality(Failed)
        <= (Cardinality(VM) - 1) * (taken + refills + inits)

\* The failed attempts are finitely many.
LEMMA FailedFinite ==
    /\ IsFiniteSet(VM \X (1 .. MaxGetTokenRetry))
    /\ IsFiniteSet(Failed) /\ Cardinality(Failed) \in Nat
    /\ IsFiniteSet(VM) /\ Cardinality(VM) \in Nat \ {0}
<1>1. IsFiniteSet(VM) /\ IsFiniteSet(1 .. MaxGetTokenRetry)
  BY ConstantsAssumption, FS_Interval
<1>2. IsFiniteSet(VM \X (1 .. MaxGetTokenRetry))
  BY <1>1, FS_Product
<1>3. Failed \in SUBSET (VM \X (1 .. MaxGetTokenRetry))
  BY DEF Failed
<1>4. IsFiniteSet(Failed) /\ Cardinality(Failed) \in Nat
  BY <1>2, <1>3, FS_Subset, FS_CardinalityType
<1>5. Cardinality(VM) \in Nat /\ Cardinality(VM) # 0
  BY <1>1, FS_CardinalityType, FS_EmptySet, ConstantsAssumption
<1> QED
  BY <1>1, <1>2, <1>4, <1>5

\* The value of Failures.
LEMMA FailuresType ==
    ASSUME TypeOK, NEW v \in VM
    PROVE  Failures(v) \in 0 .. MaxGetTokenRetry
  BY ConstantsAssumption DEF TypeOK, Failures

\* A step after which no request has more failed attempts charges nothing.
LEMMA NoNewFailure ==
    ASSUME TypeOK, TypeOK', \A v \in VM : Failures(v)' <= Failures(v)
    PROVE  Cardinality(Failed') <= Cardinality(Failed) /\ Cardinality(Failed') \in Nat
<1>1. \A v \in VM : Failures(v) \in Int /\ Failures(v)' \in Int
  BY FailuresType, ConstantsAssumption DEF TypeOK, Failures
<1>2. Failed' \subseteq Failed
  BY <1>1, ConstantsAssumption DEF Failed
<1> QED
  BY <1>2, FailedFinite, FS_Subset, FS_CardinalityType

\* A write of the bucket by w makes at most one attempt of each other VM fail.
LEMMA WriteFailsOthers ==
    ASSUME TypeOK, TypeOK', NEW w \in VM,
           \A v \in VM : Failures(v)' <= Failures(v) + 1,
           Failures(w)' <= Failures(w)
    PROVE  /\ Cardinality(Failed') <= Cardinality(Failed) + (Cardinality(VM) - 1)
           /\ Cardinality(Failed') \in Nat
<1> DEFINE others == VM \ {w}
           new == {a \in VM \X (1 .. MaxGetTokenRetry) :
                       a[1] # w /\ a[2] = Failures(a[1]) + 1}
<1>1. \A v \in VM : Failures(v) \in Int /\ Failures(v)' \in Int
  BY FailuresType, ConstantsAssumption DEF TypeOK, Failures
<1>2. Failed' \subseteq Failed \cup new
  BY <1>1, ConstantsAssumption DEF Failed
<1>3. IsFiniteSet(others) /\ Cardinality(others) = Cardinality(VM) - 1
  BY FailedFinite, FS_RemoveElement
<1>4. IsFiniteSet(new) /\ Cardinality(new) <= Cardinality(others)
  <2> DEFINE vm == [a \in new |-> a[1]]
  <2>1. vm \in [new -> others]
    OBVIOUS
  <2>2. \A a, b \in new : vm[a] = vm[b] => a = b
    OBVIOUS
  <2>3. vm \in Injection(new, others)
    BY <2>1, <2>2 DEF Injection, IsInjective
  <2> QED
    BY <1>3, <2>3, FS_Injection
<1>5. IsFiniteSet(Failed \cup new)
      /\ Cardinality(Failed \cup new) <= Cardinality(Failed) + Cardinality(new)
  <2>1. Cardinality(Failed \cap new) \in Nat
    BY FailedFinite, FS_Intersection, FS_CardinalityType
  <2>2. Cardinality(new) \in Nat
    BY <1>4, FS_CardinalityType
  <2>3. /\ IsFiniteSet(Failed \cup new)
        /\ Cardinality(Failed \cup new)
              = Cardinality(Failed) + Cardinality(new) - Cardinality(Failed \cap new)
    BY <1>4, FailedFinite, FS_Union, Zenon
  <2> HIDE DEF new
  <2> QED
    BY <2>1, <2>2, <2>3, FailedFinite
<1>6. Cardinality(Failed') <= Cardinality(Failed \cup new) /\ Cardinality(Failed') \in Nat
  BY <1>2, <1>5, FS_Subset, FS_CardinalityType
<1>7. Cardinality(new) \in Nat /\ Cardinality(Failed \cup new) \in Nat
  BY <1>4, <1>5, FS_CardinalityType
<1> QED
  BY <1>3, <1>4, <1>5, <1>6, <1>7, FailedFinite

\* A request let through takes all its attempts with it.
LEMMA GiveUpSettles ==
    ASSUME TypeOK, NEW v \in VM, Failures(v) = MaxGetTokenRetry, Failures(v)' = 0,
           \A u \in VM \ {v} : Failures(u)' = Failures(u)
    PROVE  Cardinality(Failed') = Cardinality(Failed) - MaxGetTokenRetry
<1> DEFINE own == {v} \X (1 .. MaxGetTokenRetry)
<1>1. IsFiniteSet(own) /\ Cardinality(own) = MaxGetTokenRetry
  <2>1. IsFiniteSet({v}) /\ Cardinality({v}) = 1
    BY FS_Singleton
  <2>2. /\ IsFiniteSet(1 .. MaxGetTokenRetry)
        /\ Cardinality(1 .. MaxGetTokenRetry) = MaxGetTokenRetry
    BY ConstantsAssumption, FS_Interval
  <2>3. /\ IsFiniteSet(own)
        /\ Cardinality(own) = Cardinality({v}) * Cardinality(1 .. MaxGetTokenRetry)
    BY <2>1, <2>2, FS_Product, Zenon
  <2> HIDE DEF own
  <2> QED
    BY <2>1, <2>2, <2>3, ConstantsAssumption
<1>2. Failed \cap own = own
  BY ConstantsAssumption DEF Failed
<1>3. Failed' = Failed \ own
  BY ConstantsAssumption DEF Failed
<1>4. Cardinality(Failed \ own) = Cardinality(Failed) - Cardinality(Failed \cap own)
  BY FailedFinite, FS_Difference, Zenon
<1> HIDE DEF own
<1> QED
  BY <1>1, <1>2, <1>3, <1>4

\* Every step keeps the charges within the writes.
LEMMA ChargeInvNext == LInv /\ ChargeInv /\ [LNext]_lvars => ChargeInv'
<1> SUFFICES ASSUME LInv, ChargeInv, [LNext]_lvars PROVE ChargeInv'
  OBVIOUS
<1>0. TypeOK /\ TypeOK' /\ LTypeOK /\ LTypeOK'
  BY LInvNext DEF LInv, TypeInv
<1> DEFINE writes == taken + refills + inits
           rate == Cardinality(VM) - 1
<1>a. writes \in Nat /\ rate \in Nat /\ bypassed \in Nat /\ bypassed' \in Nat
  BY <1>0, FailedFinite DEF LTypeOK
<1>b. rate * writes \in Int /\ rate * (writes + 1) = rate * writes + rate
  BY <1>a
<1> USE ConstantsAssumption DEF Goto, Return, SetLastRefilled, SetBucket, shared, Failures
<1>1. ASSUME NEW w \in VM,
             LInitializeBucket(w) \/ LGetTokenTake(w) \/ LRefillAdd(w)
      PROVE  ChargeInv'
  <2> USE DEF LInitializeBucket, InitializeBucket, LGetTokenTake, GetTokenTake,
          LRefillAdd, RefillAdd
  <2>1. \A v \in VM : Failures(v)' <= Failures(v) + 1
    BY <1>0, <1>1 DEF TypeOK
  <2>2. Failures(w)' <= Failures(w)
    BY <1>0, <1>1 DEF TypeOK
  <2>3. Cardinality(Failed') <= Cardinality(Failed) + rate /\ Cardinality(Failed') \in Nat
    BY <1>0, <2>1, <2>2, WriteFailsOthers, Zenon
  <2>4. bypassed' = bypassed
    BY <1>1
  <2>5. (taken + refills + inits)' = writes + 1
    <3>1. \/ taken' = taken + 1 /\ refills' = refills /\ inits' = inits
          \/ taken' = taken /\ refills' = refills + 1 /\ inits' = inits
          \/ taken' = taken /\ refills' = refills /\ inits' = inits + 1
      BY <1>1
    <3>2. taken \in Int /\ refills \in Int /\ inits \in Int
      BY <1>0 DEF LTypeOK
    <3>3. taken' + refills' + inits' = taken + refills + inits + 1
      BY <3>1, <3>2
    <3> QED
      BY <3>3
  <2>6. rate * (taken + refills + inits)' = rate * writes + rate
    BY <1>b, <2>5
  <2>7. bypassed * MaxGetTokenRetry \in Int
    BY <1>a
  <2>8. bypassed * MaxGetTokenRetry + Cardinality(Failed) <= rate * writes
    BY DEF ChargeInv
  <2>9. bypassed * MaxGetTokenRetry + Cardinality(Failed')
          <= rate * (taken + refills + inits)'
    BY <1>a, <1>b, <2>3, <2>6, <2>7, <2>8, FailedFinite
  <2> QED
    BY <2>4, <2>9 DEF ChargeInv
<1>2. ASSUME NEW v \in VM, LGetTokenGiveUp(v) PROVE ChargeInv'
  <2> USE <1>2 DEF LGetTokenGiveUp, GetTokenGiveUp
  <2>1. Failures(v) = MaxGetTokenRetry /\ Failures(v)' = 0
    BY <1>0 DEF TypeOK
  <2>2. \A u \in VM \ {v} : Failures(u)' = Failures(u)
    BY <1>0 DEF TypeOK
  <2>3. Cardinality(Failed') = Cardinality(Failed) - MaxGetTokenRetry
    BY <1>0, <2>1, <2>2, GiveUpSettles, Zenon
  <2>4. (bypassed + 1) * MaxGetTokenRetry = bypassed * MaxGetTokenRetry + MaxGetTokenRetry
    BY <1>a
  <2>5. bypassed' = bypassed + 1 /\ (taken + refills + inits)' = writes
    OBVIOUS
  <2> QED
    BY <1>a, <1>b, <2>3, <2>4, <2>5, FailedFinite DEF ChargeInv
<1>3. ASSUME \A v \in VM : Failures(v)' <= Failures(v),
             UNCHANGED <<taken, refills, inits, bypassed>>
      PROVE  ChargeInv'
  <2>1. Cardinality(Failed') <= Cardinality(Failed) /\ Cardinality(Failed') \in Nat
    BY <1>0, <1>3, NoNewFailure, Zenon
  <2> QED
    BY <1>3, <1>a, <1>b, <2>1, FailedFinite DEF ChargeInv
<1>4. ASSUME NEW w \in VM, LInitializeLastRefilled(w) \/ LRefillWin(w) PROVE ChargeInv'
  <2>1. \A v \in VM : Failures(v)' <= Failures(v)
    BY <1>0, <1>4 DEF TypeOK, LInitializeLastRefilled, InitializeLastRefilled,
       LRefillWin, RefillWin
  <2> QED
    BY <1>3, <1>4, <2>1 DEF LInitializeLastRefilled, LRefillWin
<1>5. ASSUME NEW w \in VM, Unrecorded(w), UNCHANGED ledger PROVE ChargeInv'
  <2>1. \A v \in VM : Failures(v)' <= Failures(v)
    BY <1>0, <1>5 DEF TypeOK, Unrecorded, InitializeFound, InitializeNotFound,
       GetTokenDenied, GetTokenRead, GetTokenRetry, RefillReadLast, RefillTooEarly,
       RefillDue, RefillLose, RefillNoBucket, RefillReadBucket, RefillRetry
  <2> QED
    BY <1>3, <1>5, <2>1 DEF ledger
<1>6. ASSUME ClockTick \/ ClockSetBack \/ UNCHANGED vars, UNCHANGED ledger
      PROVE  ChargeInv'
  <2>1. \A v \in VM : Failures(v)' <= Failures(v)
    BY <1>0, <1>6 DEF TypeOK, ClockTick, ClockSetBack, vars
  <2> QED
    BY <1>3, <1>6, <2>1 DEF ledger
<1> QED
  BY <1>1, <1>2, <1>4, <1>5, <1>6 DEF LNext, LVMStep, lvars

\* However many VMs contend, a request goes on without a token only after other
\* VMs wrote the bucket during each of its maxGetTokenRetry attempts.
THEOREM BypassesBounded == LSpec => []BypassBound
<1>1. LInit => ChargeInv
  <2> SUFFICES ASSUME LInit PROVE ChargeInv
    OBVIOUS
  <2>1. Failed = {}
    BY ConstantsAssumption DEF LInit, Init, Failed, Failures
  <2>2. Cardinality(Failed) = 0
    BY <2>1, FS_EmptySet
  <2> QED
    BY <2>2, FailedFinite, ConstantsAssumption DEF LInit, ChargeInv
<1>2. LInv /\ ChargeInv => BypassBound
  <2> SUFFICES ASSUME LInv, ChargeInv PROVE BypassBound
    OBVIOUS
  <2> DEFINE let == bypassed * MaxGetTokenRetry
             most == (Cardinality(VM) - 1) * (taken + refills + inits)
  <2>1. let \in Int /\ most \in Int
    BY FailedFinite, ConstantsAssumption DEF LInv, LTypeOK
  <2>2. let + Cardinality(Failed) <= most
    BY DEF ChargeInv
  <2>3. let <= most
    BY <2>1, <2>2, FailedFinite
  <2> QED
    BY <2>3 DEF BypassBound
<1> QED
  BY LInvHolds, ChargeInvNext, <1>1, <1>2, PTL DEF LSpec

----------------------------------------------------------------------------
(* The pace of the refills *)

\* Where a refill stands against the latest one.  The product bounds how many
\* were won; a reset of last_refilled to 0 allows one more, at once.
PaceInv ==
    /\ lastWin <= now
    /\ lastRefilled = NotFound => wins = 0 /\ resets = 0 /\ lastWin = StartTime
    /\ lastRefilled = 0 => (wins - resets) * Interval + Interval <= lastWin - StartTime
    /\ lastRefilled > 0 =>
          lastRefilled = lastWin /\ (wins - resets) * Interval <= lastWin - StartTime
    /\ \A v \in VM :
          /\ pc[v] = "refill_clock" /\ v \in lastCurrent =>
                lastRefilled # NotFound /\ seen[v] = lastRefilled
          /\ pc[v] = "refill_last" => stamp[v] <= now
          /\ pc[v] = "refill_last" /\ v \in lastCurrent =>
                /\ lastRefilled # NotFound
                /\ lastWin <= stamp[v]
                /\ lastRefilled > 0 => stamp[v] - lastRefilled >= Interval

\* No wrap-around while the clock does not go back.
LEMMA ElapsedIsDifference ==
    ASSUME NEW t \in 0 .. MaxClock, NEW last \in 0 .. t
    PROVE  Elapsed(t, last) = t - last
  BY ConstantsAssumption DEF Elapsed

\* At the start no refill was won.
LEMMA PaceInvInit == LInit => PaceInv
  BY ConstantsAssumption DEF LInit, Init, PaceInv

\* Every step keeps the wins an interval apart, if the clock is not set back.
LEMMA PaceInvNext ==
    ASSUME ~ ClockStepsBack
    PROVE  LInv /\ PaceInv /\ [LNext]_lvars => PaceInv'
<1> SUFFICES ASSUME LInv, PaceInv, [LNext]_lvars PROVE PaceInv'
  OBVIOUS
<1> USE ConstantsAssumption DEF LInv, TypeInv, TypeOK, LTypeOK, PaceInv, Goto, Return,
        SetLastRefilled, SetBucket, shared, ledger
<1>1. ASSUME NEW v \in VM, LInitializeLastRefilled(v) PROVE PaceInv'
  <2>1. (wins - (resets + 1)) * Interval + Interval = (wins - resets) * Interval
    OBVIOUS
  <2>2. (wins - resets) * Interval <= lastWin - StartTime
    BY DEF Locals
  <2> QED
    BY <1>1, <2>1, <2>2 DEF LInitializeLastRefilled, InitializeLastRefilled
<1>2. ASSUME NEW v \in VM, LInitializeBucket(v) PROVE PaceInv'
  BY <1>2 DEF LInitializeBucket, InitializeBucket
<1>3. ASSUME NEW v \in VM, LGetTokenTake(v) PROVE PaceInv'
  BY <1>3 DEF LGetTokenTake, GetTokenTake
<1>4. ASSUME NEW v \in VM, LGetTokenGiveUp(v) PROVE PaceInv'
  BY <1>4 DEF LGetTokenGiveUp, GetTokenGiveUp
<1>5. ASSUME NEW v \in VM, LRefillWin(v) PROVE PaceInv'
  <2>1. (wins + 1 - resets) * Interval = (wins - resets) * Interval + Interval
    OBVIOUS
  <2>2. stamp[v] \in StartTime .. MaxClock /\ stamp[v] <= now
    BY <1>5 DEF LRefillWin, RefillWin, Locals
  <2>3. (wins - resets) * Interval + Interval <= stamp[v] - StartTime
    BY <1>5, <2>2 DEF LRefillWin, RefillWin
  <2> QED
    BY <1>5, <2>1, <2>2, <2>3 DEF LRefillWin, RefillWin
<1>6. ASSUME NEW v \in VM, LRefillAdd(v) PROVE PaceInv'
  BY <1>6 DEF LRefillAdd, RefillAdd
<1>7. ASSUME NEW v \in VM, InitializeFound(v), UNCHANGED ledger PROVE PaceInv'
  BY <1>7 DEF InitializeFound
<1>8. ASSUME NEW v \in VM, InitializeNotFound(v), UNCHANGED ledger PROVE PaceInv'
  BY <1>8 DEF InitializeNotFound
<1>9. ASSUME NEW v \in VM, GetTokenDenied(v), UNCHANGED ledger PROVE PaceInv'
  BY <1>9 DEF GetTokenDenied
<1>10. ASSUME NEW v \in VM, GetTokenRead(v), UNCHANGED ledger PROVE PaceInv'
  BY <1>10 DEF GetTokenRead
<1>11. ASSUME NEW v \in VM, GetTokenRetry(v), UNCHANGED ledger PROVE PaceInv'
  BY <1>11 DEF GetTokenRetry
<1>12. ASSUME NEW v \in VM, RefillReadLast(v), UNCHANGED ledger PROVE PaceInv'
  BY <1>12 DEF RefillReadLast
<1>13. ASSUME NEW v \in VM, RefillTooEarly(v), UNCHANGED ledger PROVE PaceInv'
  BY <1>13 DEF RefillTooEarly
<1>14. ASSUME NEW v \in VM, RefillDue(v), UNCHANGED ledger PROVE PaceInv'
  <2>1. v \in lastCurrent /\ lastRefilled > 0 => now - lastRefilled >= Interval
    BY <1>14, ElapsedIsDifference DEF RefillDue
  <2> QED
    BY <1>14, <2>1 DEF RefillDue
<1>15. ASSUME NEW v \in VM, RefillLose(v), UNCHANGED ledger PROVE PaceInv'
  BY <1>15 DEF RefillLose
<1>16. ASSUME NEW v \in VM, RefillNoBucket(v), UNCHANGED ledger PROVE PaceInv'
  BY <1>16 DEF RefillNoBucket
<1>17. ASSUME NEW v \in VM, RefillReadBucket(v), UNCHANGED ledger PROVE PaceInv'
  BY <1>17 DEF RefillReadBucket
<1>18. ASSUME NEW v \in VM, RefillRetry(v), UNCHANGED ledger PROVE PaceInv'
  BY <1>18 DEF RefillRetry
<1>19. ASSUME ClockTick \/ ClockSetBack \/ UNCHANGED vars, UNCHANGED ledger PROVE PaceInv'
  BY <1>19 DEF ClockTick, ClockSetBack, vars
<1> QED
  BY <1>1, <1>2, <1>3, <1>4, <1>5, <1>6, <1>7, <1>8, <1>9, <1>10,
     <1>11, <1>12, <1>13, <1>14, <1>15, <1>16, <1>17, <1>18, <1>19
  DEF LNext, LVMStep, Unrecorded, lvars

\* The refills keep to the interval, whatever the number of VMs that tick and
\* however their ticks interleave, if the clock does not go back.
THEOREM RefillsPaced ==
    ASSUME ~ ClockStepsBack
    PROVE  LSpec => []RefillPace
<1>1. LInv /\ PaceInv => RefillPace
  BY ConstantsAssumption DEF LInv, LTypeOK, TypeOK, PaceInv, RefillPace
<1>2. LInv /\ PaceInv /\ [LNext]_lvars => PaceInv'
  BY PaceInvNext
<1> QED
  BY LInvHolds, PaceInvInit, <1>1, <1>2, PTL DEF LSpec

----------------------------------------------------------------------------
(* Initialization *)

\* How far the canary is, and that the others wait for it.
CanaryInv ==
    /\ \A v \in VM \ {Canary} :
          /\ pc[v] \notin Initializing
          /\ pc[Canary] \in {"new"} \cup Initializing => pc[v] = "new"
    /\ pc[Canary] \in {"new", "init_last"} => resets = 0 /\ inits = 0 /\ lastRefilled = NotFound
    /\ pc[Canary] = "init_bucket" => resets = 1 /\ inits = 0 /\ lastRefilled # NotFound
    /\ pc[Canary] \notin {"new"} \cup Initializing =>
          resets = 1 /\ inits = 1 /\ lastRefilled # NotFound /\ bucket # NotFound

\* At the start every VM is new and both cells are missing.
LEMMA CanaryInvInit == LInit => CanaryInv
  BY ConstantsAssumption DEF LInit, Init, CanaryInv, Initializing

\* Every step keeps the other VMs behind the canary.
LEMMA CanaryInvNext ==
    ASSUME CanaryFirst
    PROVE  LInv /\ CanaryInv /\ [LNext]_lvars => CanaryInv'
<1> SUFFICES ASSUME LInv, CanaryInv, [LNext]_lvars PROVE CanaryInv'
  OBVIOUS
<1> USE ConstantsAssumption DEF LInv, TypeInv, TypeOK, LTypeOK, CanaryInv, Goto, Return,
        SetLastRefilled, SetBucket, shared, ledger, Initializing
<1>1. ASSUME NEW v \in VM, LInitializeLastRefilled(v) PROVE CanaryInv'
  BY <1>1 DEF LInitializeLastRefilled, InitializeLastRefilled
<1>2. ASSUME NEW v \in VM, LInitializeBucket(v) PROVE CanaryInv'
  BY <1>2 DEF LInitializeBucket, InitializeBucket
<1>3. ASSUME NEW v \in VM, LGetTokenTake(v) PROVE CanaryInv'
  BY <1>3 DEF LGetTokenTake, GetTokenTake, Locals
<1>4. ASSUME NEW v \in VM, LGetTokenGiveUp(v) PROVE CanaryInv'
  BY <1>4 DEF LGetTokenGiveUp, GetTokenGiveUp
<1>5. ASSUME NEW v \in VM, LRefillWin(v) PROVE CanaryInv'
  BY <1>5 DEF LRefillWin, RefillWin, Locals
<1>6. ASSUME NEW v \in VM, LRefillAdd(v) PROVE CanaryInv'
  BY <1>6, RefilledType DEF LRefillAdd, RefillAdd
<1>7. ASSUME NEW v \in VM, InitializeFound(v), UNCHANGED ledger PROVE CanaryInv'
  BY <1>7 DEF InitializeFound
<1>8. ASSUME NEW v \in VM, InitializeNotFound(v), UNCHANGED ledger PROVE CanaryInv'
  BY <1>8 DEF InitializeNotFound
<1>9. ASSUME NEW v \in VM, GetTokenDenied(v), UNCHANGED ledger PROVE CanaryInv'
  BY <1>9 DEF GetTokenDenied
<1>10. ASSUME NEW v \in VM, GetTokenRead(v), UNCHANGED ledger PROVE CanaryInv'
  BY <1>10 DEF GetTokenRead
<1>11. ASSUME NEW v \in VM, GetTokenRetry(v), UNCHANGED ledger PROVE CanaryInv'
  BY <1>11 DEF GetTokenRetry
<1>12. ASSUME NEW v \in VM, RefillReadLast(v), UNCHANGED ledger PROVE CanaryInv'
  BY <1>12 DEF RefillReadLast
<1>13. ASSUME NEW v \in VM, RefillTooEarly(v), UNCHANGED ledger PROVE CanaryInv'
  BY <1>13 DEF RefillTooEarly
<1>14. ASSUME NEW v \in VM, RefillDue(v), UNCHANGED ledger PROVE CanaryInv'
  BY <1>14 DEF RefillDue
<1>15. ASSUME NEW v \in VM, RefillLose(v), UNCHANGED ledger PROVE CanaryInv'
  BY <1>15 DEF RefillLose
<1>16. ASSUME NEW v \in VM, RefillNoBucket(v), UNCHANGED ledger PROVE CanaryInv'
  BY <1>16 DEF RefillNoBucket
<1>17. ASSUME NEW v \in VM, RefillReadBucket(v), UNCHANGED ledger PROVE CanaryInv'
  BY <1>17 DEF RefillReadBucket
<1>18. ASSUME NEW v \in VM, RefillRetry(v), UNCHANGED ledger PROVE CanaryInv'
  BY <1>18 DEF RefillRetry
<1>19. ASSUME ClockTick \/ ClockSetBack \/ UNCHANGED vars, UNCHANGED ledger PROVE CanaryInv'
  BY <1>19 DEF ClockTick, ClockSetBack, vars
<1> QED
  BY <1>1, <1>2, <1>3, <1>4, <1>5, <1>6, <1>7, <1>8, <1>9, <1>10,
     <1>11, <1>12, <1>13, <1>14, <1>15, <1>16, <1>17, <1>18, <1>19
  DEF LNext, LVMStep, Unrecorded, lvars

\* With one VM configured first, the bucket is initialized once and is there
\* before any VM serves a request or ticks.
THEOREM InitializedFirst == LSpec => []InitializedOnce
<1>1. CASE CanaryFirst
  <2>1. LInv /\ CanaryInv => InitializedOnce
    BY ConstantsAssumption DEF LInv, LTypeOK, TypeOK, CanaryInv, InitializedOnce, Initializing
  <2>2. LInv /\ CanaryInv /\ [LNext]_lvars => CanaryInv'
    BY <1>1, CanaryInvNext
  <2> QED
    BY LInvHolds, CanaryInvInit, <2>1, <2>2, PTL DEF LSpec
<1>2. CASE ~ CanaryFirst
  <2>1. InitializedOnce
    BY <1>2 DEF InitializedOnce
  <2> QED
    BY <2>1, PTL
<1> QED
  BY <1>1, <1>2

----------------------------------------------------------------------------
(* The VMs' code implements the abstract rate limiter, for any number of    *)
(* VMs, if one VM is configured before the others and the clock does not    *)
(* go back.                                                                 *)

\* The other VMs wait until the canary has set both cells.
Waits ==
    /\ \A v \in VM \ {Canary} :
          /\ pc[v] \notin Initializing
          /\ pc[Canary] \in {"new"} \cup Initializing => pc[v] = "new"
    /\ pc[Canary] \in {"new", "init_last"} => lastRefilled = NotFound
    /\ pc[Canary] \in {"new"} \cup Initializing => bucket = NotFound
    /\ pc[Canary] = "init_bucket" => lastRefilled # NotFound
    /\ pc[Canary] \notin {"new"} \cup Initializing =>
          lastRefilled # NotFound /\ bucket # NotFound

\* A VM about to set last_refilled with a current cas is an interval late.
Timely ==
    /\ lastRefilled <= now
    /\ \A v \in VM :
          /\ pc[v] = "refill_clock" /\ v \in lastCurrent =>
                lastRefilled # NotFound /\ seen[v] = lastRefilled
          /\ pc[v] = "refill_last" => stamp[v] <= now
          /\ pc[v] = "refill_last" /\ v \in lastCurrent =>
                /\ lastRefilled # NotFound
                /\ lastRefilled > 0 => stamp[v] - lastRefilled >= Interval

RInv == TypeInv /\ CasInv /\ Waits /\ Timely

\* The invariant of the refinement holds at the start ...
LEMMA RInvInit == Init => RInv
<1> SUFFICES ASSUME Init PROVE RInv
  OBVIOUS
<1>1. TypeInv
  BY TypeInvInit
<1> QED
  BY <1>1, ConstantsAssumption DEF Init, RInv, CasInv, Waits, Timely, Initializing

\* ... and every step of a VM or of the clock keeps it.
LEMMA RInvNext ==
    ASSUME CanaryFirst, ~ ClockStepsBack
    PROVE  RInv /\ [Next]_vars => RInv'
<1> SUFFICES ASSUME RInv, [Next]_vars PROVE (CasInv /\ Waits /\ Timely)'
  BY TypeInvNext DEF RInv
<1> USE ConstantsAssumption DEF RInv, TypeInv, TypeOK, CasInv, Waits, Timely, Goto, Return,
        SetLastRefilled, SetBucket, shared, Initializing
<1>1. ASSUME NEW v \in VM, InitializeFound(v) PROVE (CasInv /\ Waits /\ Timely)'
  BY <1>1 DEF InitializeFound
<1>2. ASSUME NEW v \in VM, InitializeNotFound(v) PROVE (CasInv /\ Waits /\ Timely)'
  BY <1>2 DEF InitializeNotFound
<1>3. ASSUME NEW v \in VM, InitializeLastRefilled(v) PROVE (CasInv /\ Waits /\ Timely)'
  BY <1>3 DEF InitializeLastRefilled
<1>4. ASSUME NEW v \in VM, InitializeBucket(v) PROVE (CasInv /\ Waits /\ Timely)'
  BY <1>4 DEF InitializeBucket
<1>5. ASSUME NEW v \in VM, GetTokenDenied(v) PROVE (CasInv /\ Waits /\ Timely)'
  BY <1>5 DEF GetTokenDenied
<1>6. ASSUME NEW v \in VM, GetTokenRead(v) PROVE (CasInv /\ Waits /\ Timely)'
  BY <1>6 DEF GetTokenRead
<1>7. ASSUME NEW v \in VM, GetTokenTake(v) PROVE (CasInv /\ Waits /\ Timely)'
  BY <1>7 DEF GetTokenTake, Locals
<1>8. ASSUME NEW v \in VM, GetTokenRetry(v) PROVE (CasInv /\ Waits /\ Timely)'
  BY <1>8 DEF GetTokenRetry
<1>9. ASSUME NEW v \in VM, GetTokenGiveUp(v) PROVE (CasInv /\ Waits /\ Timely)'
  BY <1>9 DEF GetTokenGiveUp
<1>10. ASSUME NEW v \in VM, RefillReadLast(v) PROVE (CasInv /\ Waits /\ Timely)'
  BY <1>10 DEF RefillReadLast
<1>11. ASSUME NEW v \in VM, RefillTooEarly(v) PROVE (CasInv /\ Waits /\ Timely)'
  BY <1>11 DEF RefillTooEarly
<1>12. ASSUME NEW v \in VM, RefillDue(v) PROVE (CasInv /\ Waits /\ Timely)'
  <2>1. v \in lastCurrent /\ lastRefilled > 0 => now - lastRefilled >= Interval
    BY <1>12, ElapsedIsDifference DEF RefillDue
  <2> QED
    BY <1>12, <2>1 DEF RefillDue
<1>13. ASSUME NEW v \in VM, RefillWin(v) PROVE (CasInv /\ Waits /\ Timely)'
  BY <1>13 DEF RefillWin, Locals
<1>14. ASSUME NEW v \in VM, RefillLose(v) PROVE (CasInv /\ Waits /\ Timely)'
  BY <1>14 DEF RefillLose
<1>15. ASSUME NEW v \in VM, RefillNoBucket(v) PROVE (CasInv /\ Waits /\ Timely)'
  BY <1>15 DEF RefillNoBucket
<1>16. ASSUME NEW v \in VM, RefillReadBucket(v) PROVE (CasInv /\ Waits /\ Timely)'
  BY <1>16 DEF RefillReadBucket
<1>17. ASSUME NEW v \in VM, RefillAdd(v) PROVE (CasInv /\ Waits /\ Timely)'
  BY <1>17, RefilledType DEF RefillAdd
<1>18. ASSUME NEW v \in VM, RefillRetry(v) PROVE (CasInv /\ Waits /\ Timely)'
  BY <1>18 DEF RefillRetry
<1>19. CASE ClockTick
  BY <1>19 DEF ClockTick
<1>20. CASE ClockSetBack
  BY <1>20 DEF ClockSetBack
<1>21. CASE UNCHANGED vars
  BY <1>21 DEF vars
<1> QED
  BY <1>1, <1>2, <1>3, <1>4, <1>5, <1>6, <1>7, <1>8, <1>9, <1>10, <1>11, <1>12,
     <1>13, <1>14, <1>15, <1>16, <1>17, <1>18, <1>19, <1>20, <1>21
  DEF Next, VMStep, Initialize, GetToken, RefillToken

\* Every host call of every VM is one step of the abstract rate limiter, or none;
\* giving up is its bypass, which the bound on the bypasses allows.
LEMMA StepSimulation ==
    ASSUME CanaryFirst, ~ ClockStepsBack
    PROVE  RInv /\ LTypeOK /\ BypassBound' /\ [LNext]_lvars => [Limiter!ANext]_(Limiter!avars)
<1> SUFFICES ASSUME RInv, LTypeOK, BypassBound', [LNext]_lvars
             PROVE  [Limiter!ANext]_(Limiter!avars)
  OBVIOUS
<1> USE ConstantsAssumption, OwingFinite DEF RInv, TypeInv, TypeOK, Goto, Return,
        SetLastRefilled, SetBucket, shared, Initializing
<1>1. ASSUME NEW v \in VM, InitializeFound(v), UNCHANGED ledger PROVE [Limiter!ANext]_(Limiter!avars)
  <2>1. Owing' = Owing
    BY <1>1 DEF InitializeFound, Owing
  <2> QED
    BY <1>1, <2>1 DEF InitializeFound, ledger, Limiter!avars
<1>2. ASSUME NEW v \in VM, InitializeNotFound(v), UNCHANGED ledger PROVE [Limiter!ANext]_(Limiter!avars)
  <2>1. Owing' = Owing
    BY <1>2 DEF InitializeNotFound, Owing
  <2> QED
    BY <1>2, <2>1 DEF InitializeNotFound, ledger, Limiter!avars
<1>3. ASSUME NEW v \in VM, LInitializeLastRefilled(v) PROVE [Limiter!ANext]_(Limiter!avars)
  <2>1. Owing' = Owing
    BY <1>3 DEF LInitializeLastRefilled, InitializeLastRefilled, Owing
  <2>2. lastRefilled = NotFound
    BY <1>3 DEF LInitializeLastRefilled, InitializeLastRefilled, Waits
  <2> QED
    BY <1>3, <2>1, <2>2 DEF LInitializeLastRefilled, InitializeLastRefilled, Limiter!Announce, Limiter!ANext
<1>4. ASSUME NEW v \in VM, LInitializeBucket(v) PROVE [Limiter!ANext]_(Limiter!avars)
  <2>1. Owing' = Owing
    BY <1>4 DEF LInitializeBucket, InitializeBucket, Owing
  <2>2. bucket = NotFound
    BY <1>4 DEF LInitializeBucket, InitializeBucket, Waits
  <2> QED
    BY <1>4, <2>1, <2>2 DEF LInitializeBucket, InitializeBucket, LTypeOK, Limiter!Fill, Limiter!ANext
<1>5. ASSUME NEW v \in VM, GetTokenDenied(v), UNCHANGED ledger PROVE [Limiter!ANext]_(Limiter!avars)
  <2>1. Owing' = Owing
    BY <1>5 DEF GetTokenDenied, Owing
  <2> QED
    BY <1>5, <2>1 DEF GetTokenDenied, ledger, Limiter!avars
<1>6. ASSUME NEW v \in VM, GetTokenRead(v), UNCHANGED ledger PROVE [Limiter!ANext]_(Limiter!avars)
  <2>1. Owing' = Owing
    BY <1>6 DEF GetTokenRead, Owing
  <2> QED
    BY <1>6, <2>1 DEF GetTokenRead, ledger, Limiter!avars
<1>7. ASSUME NEW v \in VM, LGetTokenTake(v) PROVE [Limiter!ANext]_(Limiter!avars)
  <2>1. Owing' = Owing
    BY <1>7 DEF LGetTokenTake, GetTokenTake, Owing
  <2>2. seen[v] = bucket /\ bucket > 0
    BY <1>7 DEF LGetTokenTake, GetTokenTake, CasInv, Locals
  <2> QED
    BY <1>7, <2>1, <2>2 DEF LGetTokenTake, GetTokenTake, LTypeOK, Limiter!Take, Limiter!ANext
<1>8. ASSUME NEW v \in VM, GetTokenRetry(v), UNCHANGED ledger PROVE [Limiter!ANext]_(Limiter!avars)
  <2>1. Owing' = Owing
    BY <1>8 DEF GetTokenRetry, Owing
  <2> QED
    BY <1>8, <2>1 DEF GetTokenRetry, ledger, Limiter!avars
<1>9. ASSUME NEW v \in VM, LGetTokenGiveUp(v) PROVE [Limiter!ANext]_(Limiter!avars)
  <2>1. Owing' = Owing
    BY <1>9 DEF LGetTokenGiveUp, GetTokenGiveUp, Owing
  <2> QED
    BY <1>9, <2>1 DEF LGetTokenGiveUp, GetTokenGiveUp, LTypeOK, BypassBound, Limiter!Bypass,
       Limiter!ANext
<1>10. ASSUME NEW v \in VM, RefillReadLast(v), UNCHANGED ledger PROVE [Limiter!ANext]_(Limiter!avars)
  <2>1. Owing' = Owing
    BY <1>10 DEF RefillReadLast, Owing
  <2> QED
    BY <1>10, <2>1 DEF RefillReadLast, ledger, Limiter!avars
<1>11. ASSUME NEW v \in VM, RefillTooEarly(v), UNCHANGED ledger PROVE [Limiter!ANext]_(Limiter!avars)
  <2>1. Owing' = Owing
    BY <1>11 DEF RefillTooEarly, Owing
  <2> QED
    BY <1>11, <2>1 DEF RefillTooEarly, ledger, Limiter!avars
<1>12. ASSUME NEW v \in VM, RefillDue(v), UNCHANGED ledger PROVE [Limiter!ANext]_(Limiter!avars)
  <2>1. Owing' = Owing
    BY <1>12 DEF RefillDue, Owing
  <2> QED
    BY <1>12, <2>1 DEF RefillDue, ledger, Limiter!avars
<1>13. ASSUME NEW v \in VM, LRefillWin(v) PROVE [Limiter!ANext]_(Limiter!avars)
  <2>1. v \notin Owing /\ Owing' = Owing \cup {v}
    BY <1>13 DEF LRefillWin, RefillWin, Owing
  <2>2. Cardinality(Owing') = Cardinality(Owing) + 1
    BY <2>1, OwingChange, Zenon
  <2>3. stamp[v] \in 1 .. now /\ lastRefilled >= 0
    BY <1>13 DEF LRefillWin, RefillWin, Locals, Timely
  <2>4. lastRefilled = 0 \/ stamp[v] - lastRefilled >= Interval
    BY <1>13 DEF LRefillWin, RefillWin, Timely
  <2> QED
    BY <1>13, <2>2, <2>3, <2>4 DEF LRefillWin, RefillWin, Limiter!Earn, Limiter!ANext
<1>14. ASSUME NEW v \in VM, RefillLose(v), UNCHANGED ledger PROVE [Limiter!ANext]_(Limiter!avars)
  <2>1. Owing' = Owing
    BY <1>14 DEF RefillLose, Owing
  <2> QED
    BY <1>14, <2>1 DEF RefillLose, ledger, Limiter!avars
<1>15. ASSUME NEW v \in VM, RefillNoBucket(v), UNCHANGED ledger PROVE [Limiter!ANext]_(Limiter!avars)
  BY <1>15 DEF RefillNoBucket, Waits
<1>16. ASSUME NEW v \in VM, RefillReadBucket(v), UNCHANGED ledger PROVE [Limiter!ANext]_(Limiter!avars)
  <2>1. Owing' = Owing
    BY <1>16 DEF RefillReadBucket, Owing
  <2> QED
    BY <1>16, <2>1 DEF RefillReadBucket, ledger, Limiter!avars
<1>17. ASSUME NEW v \in VM, LRefillAdd(v) PROVE [Limiter!ANext]_(Limiter!avars)
  <2>1. v \in Owing /\ Owing' = Owing \ {v}
    BY <1>17 DEF LRefillAdd, RefillAdd, Owing
  <2>2. Cardinality(Owing') = Cardinality(Owing) - 1
    BY <2>1, OwingChange, Zenon
  <2>3. Owing # {}
    BY <2>1
  <2>4. Cardinality(Owing) > 0
    BY <2>3, OwingFinite, FS_EmptySet
  <2>5. seen[v] = bucket /\ bucket # NotFound
    BY <1>17 DEF LRefillAdd, RefillAdd, CasInv
  <2> QED
    BY <1>17, <2>2, <2>4, <2>5 DEF LRefillAdd, RefillAdd, Refilled, LTypeOK, Limiter!Add, Limiter!Topped, Limiter!ANext
<1>18. ASSUME NEW v \in VM, RefillRetry(v), UNCHANGED ledger PROVE [Limiter!ANext]_(Limiter!avars)
  <2>1. Owing' = Owing
    BY <1>18 DEF RefillRetry, Owing
  <2> QED
    BY <1>18, <2>1 DEF RefillRetry, ledger, Limiter!avars
<1>19. CASE ClockTick /\ UNCHANGED ledger
  <2>1. Owing' = Owing
    BY <1>19 DEF ClockTick, Owing
  <2> QED
    BY <1>19, <2>1 DEF ClockTick, ledger, Limiter!Advance, Limiter!ANext
<1>20. CASE ClockSetBack
  BY <1>20 DEF ClockSetBack
<1>21. CASE UNCHANGED lvars
  <2>1. Owing' = Owing
    BY <1>21 DEF lvars, vars, Owing
  <2> QED
    BY <1>21, <2>1 DEF lvars, vars, ledger, Limiter!avars
<1> QED
  BY <1>1, <1>2, <1>3, <1>4, <1>5, <1>6, <1>7, <1>8, <1>9, <1>10, <1>11, <1>12,
     <1>13, <1>14, <1>15, <1>16, <1>17, <1>18, <1>19, <1>20, <1>21
  DEF LNext, LVMStep, Unrecorded

\* The concurrent rate limiter implements the atomic one: its operations on the
\* shared bucket look as if they happened one at a time, and a request that goes
\* on takes a token in that step or is one of the bypasses contention allows.
THEOREM Refinement ==
    ASSUME CanaryFirst, ~ ClockStepsBack
    PROVE  LSpec => RefinesRateLimiter
<1>1. LInit => Limiter!AInit
  <2> SUFFICES ASSUME LInit PROVE Limiter!AInit
    OBVIOUS
  <2>1. Owing = {}
    BY DEF LInit, Init, Owing
  <2>2. Cardinality(Owing) = 0
    BY <2>1, FS_EmptySet
  <2> QED
    BY <2>2, ConstantsAssumption DEF LInit, Init, Limiter!AInit
<1>2. LInit => RInv
  BY RInvInit DEF LInit
<1>3. RInv /\ [LNext]_lvars => RInv'
  BY RInvNext, LedgerStep
<1>4. RInv /\ LTypeOK /\ BypassBound' /\ [LNext]_lvars => [Limiter!ANext]_(Limiter!avars)
  BY StepSimulation
<1> QED
  BY <1>1, <1>2, <1>3, <1>4, LedgerTypeCorrect, BypassesBounded, PTL
  DEF LSpec, RefinesRateLimiter, Limiter!ASpec

=============================================================================
