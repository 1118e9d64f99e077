---------------------------- MODULE ResultCache ----------------------------
(***************************************************************************)
(* The cache of policy decisions of the OPA filter                         *)
(* (extensions/open_policy_agent/cache.cc), as operators on a cache value: *)
(*   result  result_cache_: hash -> [allowed, at]                          *)
(*   recent  recent_: the hashes, most recently used first                 *)
(*   pos     pos_: the hashes that have an iterator into recent_           *)
(*   ok      FALSE once an iterator was used whose node is gone            *)
(* pos_[h] is the node pushed last for h, which is the first h in recent_: *)
(* the iterator is dangling exactly if h is not in recent_.                *)
(***************************************************************************)
EXTENDS Integers, Sequences, SequencesExt

CONSTANTS
    MaxNumEntry,     \* MAX_NUM_ENTRY, 1000 in cache.cc
    HashModulus,     \* 2^64: hashes are uint64_t
    IntModulus,      \* 2^32: the width of an int
    KMul,            \* kMul
    NanosPerSec,     \* 1000000000
    TimeModulus      \* 2^64 for the uint64_t time stamps

ASSUME CacheAssumption ==
    /\ MaxNumEntry \in Nat \ {0}
    /\ IntModulus \in Nat \ {0} /\ IntModulus % 2 = 0
    /\ HashModulus \in Nat \ {0} /\ HashModulus % IntModulus = 0
    /\ KMul \in Nat
    /\ NanosPerSec \in Nat \ {0} /\ TimeModulus \in Nat \ {0}

Hash == 0 .. HashModulus - 1

EmptyCache == [result |-> <<>>, recent |-> <<>>, pos |-> {}, ok |-> TRUE]

\* ResultCache::setValidDuration: valid_for_nanosec_, which wraps.
ValidDuration(sec) == (sec * NanosPerSec) % TimeModulus

\* Mutant of ComputeHash: the product is kept in a wider type.
ComputeHashWide(payload) ==
    (payload.source_principal + payload.destination_workload
     + payload.request_method + payload.request_url_path) * KMul

\* Payloads stand for their strings' std::hash values.
ComputeHash(payload) ==
    ((payload.source_principal + payload.destination_workload
      + payload.request_method + payload.request_url_path) * KMul) % HashModulus

\* A hash stored in an int and converted back to uint64_t: the low half of the
\* bits, sign-extended.
ThroughInt(hash) ==
    LET low == hash % IntModulus
    IN  IF low < IntModulus \div 2 THEN low ELSE HashModulus - IntModulus + low

Without(result, hash) == Restrict(result, DOMAIN result \ {hash})

\* Erases the node pos_[hash] points at; undefined if there is none.
EraseNode(c, hash) ==
    [result |-> c.result, recent |-> RemoveFirst(c.recent, hash), pos |-> c.pos,
     ok |-> c.ok /\ Contains(c.recent, hash)]

PushFront(c, hash) ==
    [result |-> c.result, recent |-> <<hash>> \o c.recent, pos |-> c.pos \cup {hash},
     ok |-> c.ok]

\* Mutant of Evict: the iterator of the evicted hash is kept.
EvictKeepingPos(c) ==
    LET old == ThroughInt(Last(c.recent))
    IN  [result |-> Without(c.result, old), recent |-> Front(c.recent), pos |-> c.pos,
         ok |-> c.ok]

Evict(c) ==
    LET old == ThroughInt(Last(c.recent))
    IN  [result |-> Without(c.result, old), recent |-> Front(c.recent),
         pos |-> c.pos \ {old}, ok |-> c.ok]

\* ResultCache::use
Use(c, hash) ==
    PushFront(IF hash \in c.pos THEN EraseNode(c, hash)
              ELSE IF Len(c.recent) >= MaxNumEntry THEN Evict(c)
              ELSE c,
              hash)

Fresh(entry, validFor, now) == (entry.at + validFor) % TimeModulus > now

\* ResultCache::check.  An entry that is too old is erased from all three ...
Expire(c, hash) ==
    LET e == EraseNode(c, hash)
    IN  [result |-> Without(c.result, hash), recent |-> e.recent, pos |-> c.pos \ {hash},
         ok |-> e.ok /\ hash \in c.pos]

\* ... and one that is not is used.
Check(c, hash, validFor, now) ==
    IF hash \notin DOMAIN c.result
    THEN [hit |-> FALSE, allowed |-> FALSE, cache |-> c]
    ELSE IF Fresh(c.result[hash], validFor, now)
    THEN [hit |-> TRUE, allowed |-> c.result[hash].allowed, cache |-> Use(c, hash)]
    ELSE [hit |-> FALSE, allowed |-> FALSE, cache |-> Expire(c, hash)]

\* ResultCache::add.  emplace leaves an entry that is already there as it is.
Add(c, hash, allowed, now) ==
    LET u == Use(c, hash)
    IN  [result |-> [h \in DOMAIN u.result \cup {hash} |->
                        IF h \in DOMAIN u.result THEN u.result[h]
                        ELSE [allowed |-> allowed, at |-> now]],
         recent |-> u.recent, pos |-> u.pos, ok |-> u.ok]

=============================================================================
