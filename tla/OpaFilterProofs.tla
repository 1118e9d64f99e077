-------------------------- MODULE OpaFilterProofs --------------------------
(***************************************************************************)
(* What is proved of the Open Policy Agent filter and of its decision      *)
(* cache, for every set of streams, payloads and configurations and every  *)
(* size of the cache.                                                      *)
(***************************************************************************)
EXTENDS OpaFilter, FiniteSetTheorems, FunctionTheorems, SequenceTheorems, DataProofs,
        TLAPS

----------------------------------------------------------------------------
(* recent_: the three ways it changes *)

\* Each hash has one node.
Distinct(s) == \A i, j \in 1 .. Len(s) : s[i] = s[j] => i = j

\* A list without duplicates is as long as it has elements.
LEMMA DistinctCardinality ==
    ASSUME NEW S, NEW s \in Seq(S), Distinct(s)
    PROVE  /\ IsFiniteSet(ToSet(s))
           /\ Cardinality(ToSet(s)) = Len(s)
<1> DEFINE n == Len(s)
<1>1. n \in Nat /\ DOMAIN s = 1 .. n /\ s \in [1 .. n -> S]
  BY LenProperties
<1>2. s \in [1 .. n -> ToSet(s)]
  BY <1>1 DEF ToSet
<1>3. \A t \in ToSet(s) : \E i \in 1 .. n : s[i] = t
  BY <1>1 DEF ToSet
<1>4. s \in Bijection(1 .. n, ToSet(s))
  BY <1>2, <1>3 DEF Distinct, Bijection, Injection, IsInjective, Surjection
<1>5. ExistsBijection(1 .. n, ToSet(s))
  BY <1>4 DEF ExistsBijection
<1>6. IsFiniteSet(1 .. n) /\ Cardinality(1 .. n) = n
  BY <1>1, FS_Interval
<1> QED
  BY <1>5, <1>6, FS_Bijection

\* emplace_front
LEMMA PushFrontOfList ==
    ASSUME NEW S, NEW s \in Seq(S), NEW e \in S
    PROVE  /\ <<e>> \o s \in Seq(S)
           /\ Len(<<e>> \o s) = Len(s) + 1
           /\ ToSet(<<e>> \o s) = ToSet(s) \cup {e}
           /\ Distinct(s) /\ e \notin ToSet(s) => Distinct(<<e>> \o s)
<1> DEFINE t == <<e>> \o s
<1>1. <<e>> \in Seq(S) /\ Len(<<e>>) = 1 /\ <<e>>[1] = e
  OBVIOUS
<1>2. /\ t \in Seq(S)
      /\ Len(t) = Len(s) + 1
      /\ \A i \in 1 .. Len(s) + 1 : t[i] = IF i <= 1 THEN <<e>>[i] ELSE s[i - 1]
  BY <1>1, ConcatProperties
<1>3. Len(s) \in Nat /\ DOMAIN s = 1 .. Len(s) /\ DOMAIN t = 1 .. Len(s) + 1
  BY <1>2, LenProperties
<1>4. t[1] = e /\ \A i \in 1 .. Len(s) : t[i + 1] = s[i]
  BY <1>1, <1>2, <1>3
<1> HIDE DEF t
<1>5. ToSet(t) = ToSet(s) \cup {e}
  <2>1. ASSUME NEW x \in ToSet(t) PROVE x \in ToSet(s) \cup {e}
    <3>1. PICK i \in 1 .. Len(s) + 1 : x = t[i]
      BY <1>3 DEF ToSet
    <3>2. i = 1 \/ (i - 1 \in 1 .. Len(s) /\ t[(i - 1) + 1] = t[i])
      BY <1>3
    <3> QED
      BY <1>3, <1>4, <3>1, <3>2 DEF ToSet
  <2>2. ASSUME NEW x \in ToSet(s) \cup {e} PROVE x \in ToSet(t)
    <3>1. CASE x = e
      BY <1>3, <1>4, <3>1 DEF ToSet
    <3>2. CASE x \in ToSet(s)
      <4>1. PICK i \in 1 .. Len(s) : x = s[i]
        BY <1>3, <3>2 DEF ToSet
      <4>2. i + 1 \in DOMAIN t /\ t[i + 1] = x
        BY <1>3, <1>4, <4>1
      <4> QED
        BY <4>2 DEF ToSet
    <3> QED
      BY <3>1, <3>2
  <2> QED
    BY <2>1, <2>2
<1>6. ASSUME Distinct(s), e \notin ToSet(s) PROVE Distinct(t)
  <2> SUFFICES ASSUME NEW i \in 1 .. Len(s) + 1, NEW j \in 1 .. Len(s) + 1, t[i] = t[j]
               PROVE  i = j
    BY <1>2 DEF Distinct, t
  <2>1. \A k \in 1 .. Len(s) : s[k] # e
    BY <1>3, <1>6 DEF ToSet
  <2>2. \A k \in 2 .. Len(s) + 1 : k - 1 \in 1 .. Len(s) /\ t[k] = s[k - 1]
    BY <1>3, <1>4, <1>2 DEF t
  <2>3. CASE i = 1 \/ j = 1
    BY <2>1, <2>2, <2>3, <1>4, <1>3
  <2>4. CASE i # 1 /\ j # 1
    <3>1. i \in 2 .. Len(s) + 1 /\ j \in 2 .. Len(s) + 1
      BY <2>4, <1>3
    <3>2. s[i - 1] = s[j - 1]
      BY <2>2, <3>1
    <3>3. i - 1 = j - 1
      BY <1>6, <2>2, <3>1, <3>2 DEF Distinct
    <3> QED
      BY <3>3, <3>1, <1>3
  <2> QED
    BY <2>3, <2>4
<1> QED
  BY <1>2, <1>5, <1>6 DEF t

\* pop_back
LEMMA FrontOfList ==
    ASSUME NEW S, NEW s \in Seq(S), Len(s) > 0
    PROVE  /\ Last(s) \in ToSet(s) /\ Last(s) \in S
           /\ Front(s) \in Seq(S)
           /\ Len(Front(s)) = Len(s) - 1
           /\ ToSet(Front(s)) \subseteq ToSet(s)
           /\ ToSet(s) \subseteq ToSet(Front(s)) \cup {Last(s)}
           /\ Distinct(s) =>
                 Distinct(Front(s)) /\ ToSet(Front(s)) = ToSet(s) \ {Last(s)}
<1> DEFINE n == Len(s)
           t == Front(s)
<1>1. n \in Nat /\ DOMAIN s = 1 .. n /\ \A i \in 1 .. n : s[i] \in S
  BY LenProperties
<1>2. \A i \in 1 .. n - 1 : s[i] \in S
  BY <1>1
<1>3. /\ t \in Seq(S)
      /\ Len(t) = n - 1
      /\ \A i \in 1 .. n - 1 : t[i] = s[i]
  BY <1>1, <1>2, SubSeqProperties DEF Front
<1>4. DOMAIN t = 1 .. n - 1
  BY <1>3, LenProperties
<1> HIDE DEF t
<1>5. n \in 1 .. n /\ Last(s) = s[n]
  BY <1>1 DEF Last
<1>6. ToSet(t) \subseteq ToSet(s)
  BY <1>1, <1>3, <1>4 DEF ToSet
<1>7. ToSet(s) \subseteq ToSet(t) \cup {s[n]}
  <2>1. ASSUME NEW i \in 1 .. n, i # n PROVE s[i] \in ToSet(t)
    <3>1. n \in Nat
      BY <1>1
    <3>2. i \in 1 .. n - 1
      BY <2>1, <3>1
    <3> QED
      BY <3>2, <1>3, <1>4 DEF ToSet
  <2> QED
    BY <2>1, <1>1 DEF ToSet
<1>8. ASSUME Distinct(s) PROVE Distinct(t) /\ s[n] \notin ToSet(t)
  <2>1. Distinct(t)
    BY <1>1, <1>3, <1>8 DEF Distinct
  <2>2. ASSUME NEW i \in 1 .. n - 1 PROVE t[i] # s[n]
    BY <1>1, <1>3, <1>8 DEF Distinct
  <2> QED
    BY <2>1, <2>2, <1>4 DEF ToSet
<1> QED
  BY <1>1, <1>3, <1>5, <1>6, <1>7, <1>8 DEF ToSet, t

\* erase
LEMMA RemoveFirstOfList ==
    ASSUME NEW S, NEW s \in Seq(S), NEW e
    PROVE  /\ RemoveFirst(s, e) \in Seq(S)
           /\ Contains(s, e) <=> e \in ToSet(s)
           /\ Len(RemoveFirst(s, e)) = IF e \in ToSet(s) THEN Len(s) - 1 ELSE Len(s)
           /\ ToSet(RemoveFirst(s, e)) \subseteq ToSet(s)
           /\ ToSet(s) \subseteq ToSet(RemoveFirst(s, e)) \cup {e}
           /\ Distinct(s) =>
                 Distinct(RemoveFirst(s, e)) /\ ToSet(RemoveFirst(s, e)) = ToSet(s) \ {e}
<1> DEFINE n == Len(s)
<1>1. n \in Nat /\ DOMAIN s = 1 .. n /\ \A i \in 1 .. n : s[i] \in S
  BY LenProperties
<1>2. Contains(s, e) <=> e \in ToSet(s)
  BY <1>1 DEF Contains, ToSet
<1>3. CASE e \notin ToSet(s)
  <2>1. ~ \E i \in 1 .. Len(s) : s[i] = e
    BY <1>1, <1>3 DEF ToSet
  <2>2. RemoveFirst(s, e) = s
    BY <2>1, Zenon DEF RemoveFirst
  <2> QED
    BY <1>2, <1>3, <2>2
<1>4. CASE e \in ToSet(s)
  <2>1. PICK k \in 1 .. n : RemoveFirst(s, e) = RemoveAt(s, k) /\ s[k] = e
    <3>1. \E i \in 1 .. Len(s) : s[i] = e
      BY <1>1, <1>4 DEF ToSet
    <3> DEFINE k == SelectInSeq(s, LAMBDA v : v = e)
    <3>2. RemoveFirst(s, e) = RemoveAt(s, k)
      BY <3>1, Zenon DEF RemoveFirst
    <3>3. k \in 1 .. n /\ s[k] = e
      <4> DEFINE I == {i \in 1 .. Len(s) : s[i] = e}
      <4>1. I # {} /\ I \in SUBSET Nat
        BY <3>1, <1>1
      <4>2. k = Min(I)
        BY <4>1, Zenon DEF SelectInSeq
      <4>3. \E x \in I : \A y \in I : x <= y
        BY <4>1, LeastElement
      <4>4. Min(I) \in I
        BY <4>3 DEF Min
      <4> QED
        BY <4>2, <4>4
    <3> QED
      BY <3>2, <3>3
  <2> DEFINE a == SubSeq(s, 1, k - 1)
             b == SubSeq(s, k + 1, n)
             t == RemoveFirst(s, e)
  <2>2. /\ a \in Seq(S) /\ Len(a) = k - 1
        /\ \A i \in 1 .. k - 1 : a[i] = s[i]
    <3>1. \A i \in 1 .. k - 1 : s[i] \in S
      BY <1>1
    <3> QED
      BY <3>1, SubSeqProperties
  <2>3. /\ b \in Seq(S) /\ Len(b) = n - k
        /\ \A i \in 1 .. n - k : b[i] = s[k + i]
    <3>1. \A i \in k + 1 .. n : s[i] \in S
      BY <1>1
    <3>2. /\ b \in Seq(S)
          /\ Len(b) = IF k + 1 <= n THEN n - (k + 1) + 1 ELSE 0
          /\ \A i \in 1 .. n - (k + 1) + 1 : b[i] = s[(k + 1) + i - 1]
      BY <3>1, <1>1, SubSeqProperties
    <3> HIDE DEF b
    <3>3. n \in Nat
      BY <1>1
    <3>4. Len(b) = n - k
      BY <3>2, <3>3
    <3>5. ASSUME NEW i \in 1 .. n - k PROVE b[i] = s[k + i]
      <4>1. i \in 1 .. n - (k + 1) + 1 /\ (k + 1) + i - 1 = k + i
        BY <3>3
      <4> QED
        BY <4>1, <3>2
    <3> QED
      BY <3>2, <3>4, <3>5
  <2> HIDE DEF a, b
  <2>4. /\ t \in Seq(S) /\ Len(t) = n - 1
        /\ \A i \in 1 .. n - 1 : t[i] = IF i < k THEN s[i] ELSE s[i + 1]
    <3>1. t = a \o b
      BY <2>1 DEF RemoveAt, a, b
    <3> HIDE DEF t
    <3>2. /\ t \in Seq(S) /\ Len(t) = (k - 1) + (n - k)
          /\ \A i \in 1 .. (k - 1) + (n - k) :
                t[i] = IF i <= k - 1 THEN a[i] ELSE b[i - (k - 1)]
      <4>1. /\ t \in Seq(S) /\ Len(t) = Len(a) + Len(b)
            /\ \A i \in 1 .. Len(a) + Len(b) :
                  t[i] = IF i <= Len(a) THEN a[i] ELSE b[i - Len(a)]
        BY <3>1, <2>2, <2>3, ConcatProperties
      <4> QED
        BY <4>1, <2>2, <2>3
    <3>3. ASSUME NEW i \in 1 .. n - 1 PROVE t[i] = IF i < k THEN s[i] ELSE s[i + 1]
      <4>1. t[i] = IF i <= k - 1 THEN a[i] ELSE b[i - (k - 1)]
        BY <3>2, <1>1
      <4>2. CASE i < k
        BY <4>1, <4>2, <2>2, <1>1
      <4>3. CASE i >= k
        <5>1. i - (k - 1) \in 1 .. n - k /\ k + (i - (k - 1)) = i + 1
          BY <4>3, <1>1
        <5>2. b[i - (k - 1)] = s[i + 1]
          BY <5>1, <2>3
        <5> QED
          BY <4>1, <4>3, <5>2, <1>1
      <4> QED
        BY <4>2, <4>3, <1>1
    <3> QED
      BY <3>2, <3>3, <1>1
  <2> HIDE DEF t
  <2>5. DOMAIN t = 1 .. n - 1
    BY <2>4, LenProperties
  <2>6. ToSet(t) \subseteq ToSet(s)
    <3>1. ASSUME NEW i \in 1 .. n - 1 PROVE t[i] \in ToSet(s)
      <4>1. i \in 1 .. n /\ i + 1 \in 1 .. n
        BY <1>1
      <4> QED
        BY <4>1, <2>4, <1>1 DEF ToSet
    <3> QED
      BY <3>1, <2>5 DEF ToSet
  <2>7. ASSUME NEW i \in 1 .. n, s[i] # e PROVE s[i] \in ToSet(t)
    <3>1. CASE i < k
      BY <3>1, <2>4, <2>5, <1>1 DEF ToSet
    <3>2. CASE i > k
      <4>1. i - 1 \in 1 .. n - 1 /\ t[i - 1] = s[i]
        BY <3>2, <2>4, <1>1
      <4> QED
        BY <4>1, <2>5 DEF ToSet
    <3> QED
      BY <3>1, <3>2, <2>1, <2>7, <1>1
  <2>8. ToSet(s) \subseteq ToSet(t) \cup {e}
    BY <2>7, <1>1 DEF ToSet
  <2>9. ASSUME Distinct(s) PROVE Distinct(t) /\ ToSet(t) = ToSet(s) \ {e}
    <3>1. Distinct(t)
      BY <2>4, <2>9, <1>1 DEF Distinct
    <3>2. ASSUME NEW i \in 1 .. n - 1 PROVE t[i] # e
      BY <2>1, <2>4, <2>9, <1>1 DEF Distinct
    <3>3. e \notin ToSet(t)
      BY <3>2, <2>5 DEF ToSet
    <3> QED
      BY <3>1, <3>3, <2>6, <2>8
  <2> QED
    BY <1>2, <1>4, <2>4, <2>6, <2>8, <2>9 DEF t
<1> QED
  BY <1>2, <1>3, <1>4

----------------------------------------------------------------------------
(* The operations of the cache *)

CacheTypeOK(c) ==
    /\ c.recent \in Seq(Hash) /\ c.pos \subseteq Hash /\ c.ok \in BOOLEAN
    /\ DOMAIN c.result \subseteq Hash
    /\ \A h \in DOMAIN c.result : c.result[h] \in [allowed : BOOLEAN, at : 0 .. MaxClock]

\* The keys of the two maps, and the length of the list, whatever the hashes are:
\* they hold as long as no dangling iterator was used.
Paired(c) ==
    /\ DOMAIN c.result = c.pos
    /\ c.ok => Len(c.recent) <= MaxNumEntry

\* The entries without a node in the list.
Leaked(c) == c.pos \ ToSet(c.recent)

\* What the list and the maps have in common, while no dangling iterator was used.
InStep(c) ==
    c.ok =>
        /\ \A g \in Leaked(c) : ThroughInt(g) # g
        /\ Leaked(c) = {} => ToSet(c.recent) = c.pos /\ Distinct(c.recent)

\* Taking a multiple of the modulus more does not change a remainder.
LEMMA ModOfMultiple ==
    ASSUME NEW H \in Nat, NEW I \in Nat \ {0}, H % I = 0, NEW low \in 0 .. I - 1
    PROVE  (H - I + low) % I = low
<1> DEFINE k == H \div I
<1>1. k \in Int /\ H = I * k
  OBVIOUS
<1> HIDE DEF k
<1>2. H - I + low = I * (k - 1) + low
  BY <1>1
<1> DEFINE q == k - 1
<1>3. q \in Int
  BY <1>1
<1> HIDE DEF q
<1>4. (I * q + low) % I = low
  <2> DEFINE x == I * q + low
             d == x \div I
             r == x % I
  <2>1. x \in Int /\ d \in Int /\ r \in 0 .. I - 1 /\ x = I * d + r
    BY <1>3
  <2>2. I * q + low = I * d + r
    BY <2>1
  <2> HIDE DEF x, d, r
  <2>3. I * (q - d) = r - low
    BY <2>1, <2>2, <1>3
  <2>4. q = d
    <3>1. CASE q > d
      <4>1. q - d \in Nat /\ q - d >= 1
        BY <3>1, <1>3, <2>1
      <4>2. I * (q - d) >= I
        BY <4>1
      <4> QED
        BY <4>2, <2>3, <2>1
    <3>2. CASE q < d
      <4>1. d - q \in Nat /\ d - q >= 1
        BY <3>2, <1>3, <2>1
      <4>2. I * (d - q) >= I
        BY <4>1
      <4>3. I * (d - q) = low - r
        BY <2>2, <2>1, <1>3
      <4> QED
        BY <4>2, <4>3, <2>1
    <3> QED
      BY <3>1, <3>2, <1>3, <2>1
  <2>5. r = low
    BY <2>2, <2>4, <2>1
  <2> QED
    BY <2>5 DEF r, x
<1> QED
  BY <1>2, <1>4 DEF q

\* What evict reads back from its int would come through an int unchanged.
LEMMA ThroughIntTwice ==
    ASSUME NEW h \in Hash PROVE ThroughInt(ThroughInt(h)) = ThroughInt(h)
<1> DEFINE low == h % IntModulus
           top == HashModulus - IntModulus + low
<1>1. /\ IntModulus \in Nat \ {0} /\ HashModulus \in Nat \ {0} /\ h \in Nat
      /\ HashModulus % IntModulus = 0
  BY CacheAssumption DEF Hash
<1>2. low \in 0 .. IntModulus - 1
  BY <1>1
<1> HIDE DEF low
<1>3. low % IntModulus = low
  BY <1>1, <1>2
<1>4. top % IntModulus = low
  BY <1>1, <1>2, ModOfMultiple
<1>5. ThroughInt(h) = IF low < IntModulus \div 2 THEN low ELSE top
  BY DEF ThroughInt, low
<1> HIDE DEF top
<1> QED
  BY <1>3, <1>4, <1>5 DEF ThroughInt, top

\* Of the entries of c no more than some are left in d.
FewerEntries(c, d) ==
    /\ DOMAIN d.result \subseteq DOMAIN c.result
    /\ \A h \in DOMAIN d.result : d.result[h] = c.result[h]

\* A cache that will be in step once h is pushed.
Ready(b, h) ==
    LET rest == b.pos \ (ToSet(b.recent) \cup {h})
    IN  b.ok =>
        /\ \A g \in rest : ThroughInt(g) # g
        /\ rest = {} => ToSet(b.recent) = b.pos \ {h} /\ Distinct(b.recent)

\* use: what is written to the cache's three containers, with or without an
\* eviction.
LEMMA UseCache ==
    ASSUME NEW c, NEW h \in Hash, CacheTypeOK(c)
    PROVE  /\ CacheTypeOK(Use(c, h))
           /\ FewerEntries(c, Use(c, h))
           /\ Paired(c) => /\ Use(c, h).pos = DOMAIN Use(c, h).result \cup {h}
                           /\ Use(c, h).ok => Len(Use(c, h).recent) <= MaxNumEntry
           /\ InStep(c) => InStep(Use(c, h))
<1>1. /\ c.recent \in Seq(Hash) /\ Len(c.recent) \in Nat
      /\ MaxNumEntry \in Nat \ {0}
  BY CacheAssumption, LenProperties DEF CacheTypeOK
<1> DEFINE b == IF h \in c.pos THEN EraseNode(c, h)
                ELSE IF Len(c.recent) >= MaxNumEntry THEN Evict(c) ELSE c
<1>2. /\ CacheTypeOK(b)
      /\ FewerEntries(c, b)
      /\ Paired(c) => /\ b.pos \cup {h} = DOMAIN b.result \cup {h}
                      /\ b.ok => Len(b.recent) < MaxNumEntry
      /\ InStep(c) => Ready(b, h)
  <2>1. CASE h \in c.pos
    <3>1. /\ b.result = c.result /\ b.pos = c.pos
          /\ b.recent = RemoveFirst(c.recent, h)
          /\ b.ok = (c.ok /\ Contains(c.recent, h))
      BY <2>1 DEF EraseNode
    <3> HIDE DEF b
    <3>2. /\ b.recent \in Seq(Hash)
          /\ Contains(c.recent, h) <=> h \in ToSet(c.recent)
          /\ Len(b.recent) = IF h \in ToSet(c.recent) THEN Len(c.recent) - 1 ELSE Len(c.recent)
          /\ ToSet(b.recent) \subseteq ToSet(c.recent)
          /\ ToSet(c.recent) \subseteq ToSet(b.recent) \cup {h}
          /\ Distinct(c.recent) =>
                Distinct(b.recent) /\ ToSet(b.recent) = ToSet(c.recent) \ {h}
      BY <1>1, <3>1, RemoveFirstOfList
    <3>3. CacheTypeOK(b) /\ FewerEntries(c, b)
      BY <3>1, <3>2 DEF CacheTypeOK, FewerEntries
    <3>4. ASSUME Paired(c)
          PROVE  /\ b.pos \cup {h} = DOMAIN b.result \cup {h}
                 /\ b.ok => Len(b.recent) < MaxNumEntry
      <4>1. b.pos \cup {h} = DOMAIN b.result \cup {h}
        BY <3>1, <3>4 DEF Paired
      <4>2. ASSUME b.ok PROVE Len(b.recent) < MaxNumEntry
        <5>1. c.ok /\ h \in ToSet(c.recent)
          BY <4>2, <3>1, <3>2
        <5>2. Len(c.recent) <= MaxNumEntry
          BY <5>1, <3>4 DEF Paired
        <5> QED
          BY <5>1, <5>2, <3>2, <1>1
      <4> QED
        BY <4>1, <4>2
    <3>5. ASSUME InStep(c), b.ok PROVE Ready(b, h)
      <4>1. c.ok /\ h \in ToSet(c.recent)
        BY <3>1, <3>2, <3>5
      <4>2. b.pos \ (ToSet(b.recent) \cup {h}) = Leaked(c)
        BY <3>1, <3>2, <4>1 DEF Leaked
      <4>3. Leaked(c) = {} => ToSet(b.recent) = b.pos \ {h} /\ Distinct(b.recent)
        BY <3>1, <3>2, <3>5, <4>1 DEF InStep
      <4> QED
        BY <3>5, <4>1, <4>2, <4>3 DEF Ready, InStep
    <3> QED
      BY <3>3, <3>4, <3>5 DEF Ready
  <2>2. CASE h \notin c.pos /\ Len(c.recent) >= MaxNumEntry
    <3> DEFINE old == ThroughInt(Last(c.recent))
    <3>1. /\ b.result = Restrict(c.result, DOMAIN c.result \ {old})
          /\ b.pos = c.pos \ {old}
          /\ b.recent = Front(c.recent)
          /\ b.ok = c.ok
      BY <2>2 DEF Evict, Without
    <3> HIDE DEF b, old
    <3>2. /\ Last(c.recent) \in ToSet(c.recent) /\ Last(c.recent) \in Hash
          /\ b.recent \in Seq(Hash)
          /\ Len(b.recent) = Len(c.recent) - 1
          /\ ToSet(c.recent) \subseteq ToSet(b.recent) \cup {Last(c.recent)}
          /\ ToSet(b.recent) \subseteq ToSet(c.recent)
          /\ Distinct(c.recent) =>
                Distinct(b.recent) /\ ToSet(b.recent) = ToSet(c.recent) \ {Last(c.recent)}
      BY <1>1, <2>2, <3>1, FrontOfList
    <3>3. /\ DOMAIN b.result = DOMAIN c.result \ {old}
          /\ \A g \in DOMAIN b.result : b.result[g] = c.result[g]
      BY <3>1 DEF Restrict
    <3>4. CacheTypeOK(b) /\ FewerEntries(c, b)
      BY <3>1, <3>2, <3>3 DEF CacheTypeOK, FewerEntries
    <3>5. ASSUME Paired(c)
          PROVE  /\ b.pos \cup {h} = DOMAIN b.result \cup {h}
                 /\ b.ok => Len(b.recent) < MaxNumEntry
      BY <1>1, <2>2, <3>1, <3>2, <3>3, <3>5 DEF Paired
    <3>6. ASSUME InStep(c), b.ok PROVE Ready(b, h)
      <4> DEFINE rest == b.pos \ (ToSet(b.recent) \cup {h})
                 end == Last(c.recent)
      <4>1. ThroughInt(old) = old /\ old = ThroughInt(end)
        BY <3>2, ThroughIntTwice DEF old
      <4>2. /\ \A g \in Leaked(c) : ThroughInt(g) # g
            /\ Leaked(c) = {} => ToSet(c.recent) = c.pos /\ Distinct(c.recent)
        BY <3>1, <3>6 DEF InStep
      <4> HIDE DEF end
      <4>3. ASSUME NEW g \in rest PROVE ThroughInt(g) # g
        <5>1. g \in c.pos /\ g # old /\ (g \in Leaked(c) \/ g = end)
          BY <3>1, <3>2, <4>3 DEF Leaked, end
        <5> QED
          BY <4>1, <4>2, <5>1
      <4>4. Leaked(c) \subseteq rest
        BY <2>2, <3>1, <3>2, <4>1, <4>2 DEF Leaked
      <4>5. ASSUME rest = {} PROVE ToSet(b.recent) = b.pos \ {h} /\ Distinct(b.recent)
        <5>1. ToSet(c.recent) = c.pos /\ Distinct(c.recent)
          BY <4>2, <4>4, <4>5
        <5>2. /\ ToSet(b.recent) = c.pos \ {end} /\ Distinct(b.recent)
              /\ end \in c.pos
          BY <3>2, <5>1 DEF end
        <5>3. old = end
          BY <2>2, <3>1, <4>5, <5>2
        <5> QED
          BY <2>2, <3>1, <5>2, <5>3
      <4> QED
        BY <4>3, <4>5 DEF Ready
    <3> QED
      BY <3>4, <3>5, <3>6 DEF Ready
  <2>3. CASE h \notin c.pos /\ ~ (Len(c.recent) >= MaxNumEntry)
    <3>1. b = c
      BY <2>3
    <3> HIDE DEF b
    <3>2. FewerEntries(c, b)
      BY <3>1 DEF FewerEntries
    <3>3. ASSUME Paired(c)
          PROVE  /\ b.pos \cup {h} = DOMAIN b.result \cup {h}
                 /\ b.ok => Len(b.recent) < MaxNumEntry
      BY <1>1, <2>3, <3>1, <3>3 DEF Paired
    <3>4. ASSUME InStep(c), b.ok PROVE Ready(b, h)
      <4>1. b.pos \ (ToSet(b.recent) \cup {h}) = Leaked(c)
        BY <2>3, <3>1 DEF Leaked
      <4>2. Leaked(c) = {} => ToSet(b.recent) = b.pos \ {h} /\ Distinct(b.recent)
        BY <2>3, <3>1, <3>4 DEF InStep
      <4> QED
        BY <3>1, <3>4, <4>1, <4>2 DEF Ready, InStep
    <3> QED
      BY <3>1, <3>2, <3>3, <3>4 DEF Ready
  <2> HIDE DEF b
  <2> QED
    BY <2>1, <2>2, <2>3
<1> DEFINE u == Use(c, h)
<1>3. /\ u.result = b.result /\ u.pos = b.pos \cup {h} /\ u.ok = b.ok
      /\ u.recent = <<h>> \o b.recent
  BY DEF Use, PushFront
<1> HIDE DEF b, u
<1>4. /\ u.recent \in Seq(Hash) /\ Len(u.recent) = Len(b.recent) + 1
      /\ ToSet(u.recent) = ToSet(b.recent) \cup {h}
      /\ Distinct(b.recent) /\ h \notin ToSet(b.recent) => Distinct(u.recent)
  <2>1. b.recent \in Seq(Hash)
    BY <1>2 DEF CacheTypeOK
  <2> QED
    BY <2>1, <1>3, PushFrontOfList
<1>5. Len(b.recent) \in Nat
  BY <1>2, LenProperties DEF CacheTypeOK
<1>6. CacheTypeOK(u) /\ FewerEntries(c, u)
  BY <1>2, <1>3, <1>4 DEF CacheTypeOK, FewerEntries
<1>7. ASSUME Paired(c)
      PROVE  u.pos = DOMAIN u.result \cup {h} /\ (u.ok => Len(u.recent) <= MaxNumEntry)
  BY <1>1, <1>2, <1>3, <1>4, <1>5, <1>7
<1>8. ASSUME InStep(c), u.ok PROVE InStep(u)
  <2> DEFINE rest == b.pos \ (ToSet(b.recent) \cup {h})
  <2>1. Leaked(u) = rest
    BY <1>3, <1>4 DEF Leaked
  <2>2. /\ \A g \in rest : ThroughInt(g) # g
        /\ rest = {} => ToSet(b.recent) = b.pos \ {h} /\ Distinct(b.recent)
    BY <1>2, <1>3, <1>8 DEF Ready
  <2> HIDE DEF rest
  <2>3. ASSUME rest = {} PROVE ToSet(u.recent) = u.pos /\ Distinct(u.recent)
    BY <1>3, <1>4, <2>2, <2>3
  <2> QED
    BY <2>1, <2>2, <2>3 DEF InStep
<1> QED
  BY <1>6, <1>7, <1>8 DEF InStep, u

\* check, for an entry that is too old: it leaves all three containers.
LEMMA ExpireCache ==
    ASSUME NEW c, NEW h \in Hash, CacheTypeOK(c)
    PROVE  /\ CacheTypeOK(Expire(c, h))
           /\ FewerEntries(c, Expire(c, h))
           /\ Paired(c) => Paired(Expire(c, h))
           /\ InStep(c) => InStep(Expire(c, h))
<1> DEFINE e == Expire(c, h)
<1>1. /\ c.recent \in Seq(Hash) /\ Len(c.recent) \in Nat
      /\ MaxNumEntry \in Nat \ {0}
  BY CacheAssumption, LenProperties DEF CacheTypeOK
<1>2. /\ e.result = Restrict(c.result, DOMAIN c.result \ {h})
      /\ e.recent = RemoveFirst(c.recent, h)
      /\ e.pos = c.pos \ {h}
      /\ e.ok = ((c.ok /\ Contains(c.recent, h)) /\ h \in c.pos)
  BY DEF Expire, EraseNode, Without
<1> HIDE DEF e
<1>3. /\ e.recent \in Seq(Hash)
      /\ Contains(c.recent, h) <=> h \in ToSet(c.recent)
      /\ Len(e.recent) = IF h \in ToSet(c.recent) THEN Len(c.recent) - 1 ELSE Len(c.recent)
      /\ ToSet(e.recent) \subseteq ToSet(c.recent)
      /\ ToSet(c.recent) \subseteq ToSet(e.recent) \cup {h}
      /\ Distinct(c.recent) =>
            Distinct(e.recent) /\ ToSet(e.recent) = ToSet(c.recent) \ {h}
  BY <1>1, <1>2, RemoveFirstOfList
<1>4. /\ DOMAIN e.result = DOMAIN c.result \ {h}
      /\ \A g \in DOMAIN e.result : e.result[g] = c.result[g]
  BY <1>2 DEF Restrict
<1>5. CacheTypeOK(e) /\ FewerEntries(c, e)
  BY <1>2, <1>3, <1>4 DEF CacheTypeOK, FewerEntries
<1>6. ASSUME Paired(c) PROVE Paired(e)
  <2>1. ASSUME e.ok PROVE Len(e.recent) <= MaxNumEntry
    <3>1. c.ok
      BY <2>1, <1>2
    <3> QED
      BY <3>1, <1>1, <1>3, <1>6 DEF Paired
  <2> QED
    BY <2>1, <1>2, <1>4, <1>6 DEF Paired
<1>7. ASSUME InStep(c), e.ok PROVE InStep(e)
  <2>1. c.ok /\ h \in c.pos /\ h \in ToSet(c.recent)
    BY <1>2, <1>3, <1>7
  <2>2. Leaked(e) = Leaked(c)
    BY <1>2, <1>3, <2>1 DEF Leaked
  <2>3. Leaked(c) = {} => ToSet(e.recent) = e.pos /\ Distinct(e.recent)
    BY <1>2, <1>3, <1>7, <2>1 DEF InStep
  <2> QED
    BY <1>7, <2>1, <2>2, <2>3 DEF InStep
<1> QED
  BY <1>5, <1>6, <1>7 DEF InStep, e

\* add: an entry that is already there stays as it is.
LEMMA AddToCache ==
    ASSUME NEW c, NEW h \in Hash, NEW allowed \in BOOLEAN, NEW at \in 0 .. MaxClock,
           CacheTypeOK(c)
    PROVE  /\ CacheTypeOK(Add(c, h, allowed, at))
           /\ \A g \in DOMAIN Add(c, h, allowed, at).result :
                 \/ /\ g \in DOMAIN c.result
                    /\ Add(c, h, allowed, at).result[g] = c.result[g]
                 \/ /\ g = h
                    /\ Add(c, h, allowed, at).result[g] = [allowed |-> allowed, at |-> at]
           /\ Paired(c) => Paired(Add(c, h, allowed, at))
           /\ InStep(c) => InStep(Add(c, h, allowed, at))
<1> DEFINE a == Add(c, h, allowed, at)
           u == Use(c, h)
           new == [allowed |-> allowed, at |-> at]
<1>1. /\ a.result = [g \in DOMAIN u.result \cup {h} |->
                        IF g \in DOMAIN u.result THEN u.result[g] ELSE new]
      /\ a.recent = u.recent /\ a.pos = u.pos /\ a.ok = u.ok
  BY DEF Add
<1>2. /\ CacheTypeOK(u)
      /\ FewerEntries(c, u)
      /\ Paired(c) => u.pos = DOMAIN u.result \cup {h} /\ (u.ok => Len(u.recent) <= MaxNumEntry)
      /\ InStep(c) => InStep(u)
  BY UseCache
<1>3. new \in [allowed : BOOLEAN, at : 0 .. MaxClock]
  OBVIOUS
<1> HIDE DEF a, u, new
<1>4. DOMAIN a.result = DOMAIN u.result \cup {h}
  BY <1>1
<1>5. \A g \in DOMAIN a.result :
         a.result[g] = IF g \in DOMAIN u.result THEN u.result[g] ELSE new
  BY <1>1
<1>6. CacheTypeOK(a)
  BY <1>1, <1>2, <1>3, <1>4, <1>5 DEF CacheTypeOK
<1>7. \A g \in DOMAIN a.result : \/ g \in DOMAIN c.result /\ a.result[g] = c.result[g]
                                 \/ g = h /\ a.result[g] = new
  BY <1>2, <1>4, <1>5 DEF FewerEntries
<1>8. ASSUME Paired(c) PROVE Paired(a)
  BY <1>1, <1>2, <1>4, <1>8 DEF Paired
<1>9. ASSUME InStep(c) PROVE InStep(a)
  BY <1>1, <1>2, <1>9 DEF InStep, Leaked
<1> QED
  BY <1>6, <1>7, <1>8, <1>9 DEF a, new

\* check: what it leaves of the cache, and that a hit is a fresh entry.
LEMMA CheckOfCache ==
    ASSUME NEW c, NEW h \in Hash, NEW validFor, NEW at, CacheTypeOK(c)
    PROVE  LET r == Check(c, h, validFor, at)
           IN  /\ CacheTypeOK(r.cache)
               /\ FewerEntries(c, r.cache)
               /\ Paired(c) => Paired(r.cache)
               /\ InStep(c) => InStep(r.cache)
               /\ r.hit => /\ h \in DOMAIN c.result
                           /\ r.allowed = c.result[h].allowed
                           /\ Fresh(c.result[h], validFor, at)
<1> DEFINE r == Check(c, h, validFor, at)
<1>1. CASE h \notin DOMAIN c.result
  <2>1. r.cache = c /\ ~ r.hit
    BY <1>1 DEF Check
  <2> QED
    BY <2>1 DEF FewerEntries
<1>2. CASE h \in DOMAIN c.result /\ Fresh(c.result[h], validFor, at)
  <2>1. r.cache = Use(c, h) /\ r.allowed = c.result[h].allowed
    BY <1>2 DEF Check
  <2> HIDE DEF r
  <2>2. /\ CacheTypeOK(r.cache)
        /\ FewerEntries(c, r.cache)
        /\ Paired(c) => /\ r.cache.pos = DOMAIN r.cache.result \cup {h}
                        /\ r.cache.ok => Len(r.cache.recent) <= MaxNumEntry
        /\ InStep(c) => InStep(r.cache)
    BY <2>1, UseCache
  <2>3. ASSUME Paired(c) PROVE h \in DOMAIN r.cache.result
    <3>1. h \in c.pos
      BY <1>2, <2>3 DEF Paired
    <3> QED
      BY <1>2, <2>1, <3>1 DEF Use, EraseNode, PushFront
  <2>4. Paired(c) => Paired(r.cache)
    BY <2>2, <2>3 DEF Paired
  <2> QED
    BY <1>2, <2>1, <2>2, <2>4 DEF r
<1>3. CASE h \in DOMAIN c.result /\ ~ Fresh(c.result[h], validFor, at)
  <2>1. r.cache = Expire(c, h) /\ ~ r.hit
    BY <1>3 DEF Check
  <2> QED
    BY <1>3, <2>1, ExpireCache
<1> QED
  BY <1>1, <1>2, <1>3

----------------------------------------------------------------------------
(* The filter *)

\* An entry of the cache is a decision of the OPA server about a payload with its hash.
EntryOf(c, h, a) ==
    /\ ComputeHash(a.payload) = h
    /\ a.allowed = c.result[h].allowed
    /\ a.at = c.result[h].at

EntriesAnswered(c, as) == \A h \in DOMAIN c.result : \E a \in as : EntryOf(c, h, a)

\* Once a configuration was accepted, the cache knows the validity in force.
ValidityInForce == accepted => config.validFor = ValidDuration(config.validSec)

\* The call of a paused stream is not answered yet.
PausedHasCall == \A s \in Stream : state[s] = "waiting" => s \in DOMAIN calls

\* The inductive invariant.
OpaInv ==
    /\ TypeOK
    /\ PausedHasCall
    /\ ValidityInForce
    /\ EntriesAnswered(cache, answers)
    /\ Paired(cache) /\ InStep(cache)
    /\ DecisionJustified

\* The hypothesis that no two payloads have the same hash.
HashesDiffer == \A p, q \in Payload : ComputeHash(p) = ComputeHash(q) => p = q

\* Products of naturals, which the solver does not type by itself.
LEMMA Products ==
    ASSUME NEW a \in Nat, NEW b \in Nat PROVE a * b \in Nat
  OBVIOUS

\* computeHash stays within the width of a hash.
LEMMA HashType ==
    ASSUME NEW p \in Payload PROVE ComputeHash(p) \in Hash
<1>1. /\ KMul \in Nat /\ HashModulus \in Nat \ {0}
      /\ p.source_principal \in Nat /\ p.destination_workload \in Nat
      /\ p.request_method \in Nat /\ p.request_url_path \in Nat
  BY CacheAssumption, OpaAssumption DEF Hash
<1> DEFINE sum == p.source_principal + p.destination_workload
                  + p.request_method + p.request_url_path
<1>2. sum \in Nat
  BY <1>1
<1> HIDE DEF sum
<1>3. sum * KMul \in Nat
  BY <1>1, <1>2, Products
<1>4. (sum * KMul) % HashModulus \in 0 .. HashModulus - 1
  BY <1>1, <1>3
<1> QED
  BY <1>4 DEF ComputeHash, Hash, sum

\* A validity is a time stamp.
LEMMA ValidDurationType ==
    ASSUME NEW sec \in Nat
    PROVE  /\ ValidDuration(sec) \in 0 .. TimeModulus - 1
           /\ sec * NanosPerSec \in Nat
           /\ ValidDuration(sec) <= sec * NanosPerSec
<1>1. NanosPerSec \in Nat /\ TimeModulus \in Nat \ {0}
  BY CacheAssumption
<1> DEFINE x == sec * NanosPerSec
<1>2. x \in Nat
  BY <1>1, Products
<1> HIDE DEF x
<1>3. x % TimeModulus \in 0 .. TimeModulus - 1 /\ x % TimeModulus <= x
  BY <1>1, <1>2
<1> QED
  BY <1>2, <1>3 DEF ValidDuration, x

\* What Fresh says: the sum wraps, and only to something smaller.
LEMMA FreshIsValid ==
    ASSUME NEW entry, entry.at \in Nat, NEW sec \in Nat, NEW at \in Nat,
           Fresh(entry, ValidDuration(sec), at)
    PROVE  entry.at + sec * NanosPerSec > at
<1> DEFINE x == sec * NanosPerSec
           v == ValidDuration(sec)
<1>1. TimeModulus \in Nat \ {0} /\ x \in Nat /\ v \in Nat /\ v <= x
  BY CacheAssumption, ValidDurationType
<1>2. (entry.at + v) % TimeModulus > at
  BY DEF Fresh
<1> HIDE DEF x, v
<1>3. (entry.at + v) % TimeModulus <= entry.at + v
  BY <1>1
<1>4. (entry.at + v) % TimeModulus \in Nat
  BY <1>1
<1>5. entry.at + x > at
  BY <1>1, <1>2, <1>3, <1>4
<1> QED
  BY <1>5 DEF x

\* What parseConfiguration leaves.
LEMMA ParsedType ==
    ASSUME TypeOK, ValidityInForce, NEW c \in Config
    PROVE  /\ Parsed(c) \in [host : {""} \cup Hosts, cluster : {""} \cup Clusters,
                             validSec : 0 .. TimeModulus - 1, validFor : 0 .. TimeModulus - 1]
           /\ ValidSec(c) \in 0 .. TimeModulus - 1
           /\ accepted \/ Parses(c) => Parsed(c).validFor = ValidDuration(Parsed(c).validSec)
<1>1. /\ config.host \in {""} \cup Hosts /\ config.cluster \in {""} \cup Clusters
      /\ config.validSec \in 0 .. TimeModulus - 1 /\ config.validFor \in 0 .. TimeModulus - 1
  BY DEF TypeOK
<1>2. TimeModulus \in Nat \ {0}
  BY CacheAssumption
<1>3. ValidSec(c) \in 0 .. TimeModulus - 1
  <2>1. CASE ~ ProvidesValidity(c)
    BY <1>1, <2>1 DEF ValidSec
  <2>2. CASE ProvidesValidity(c)
    <3> DEFINE j == c.object.check_result_cache_valid_sec
    <3>1. IsJsonUint(j, TimeModulus)
      BY <2>2 DEF Parses, ProvidesValidity
    <3>2. Is("number", j) => j.number \in Int
      BY <2>2, OpaAssumption DEF ProvidesValidity
    <3>3. ValidSec(c) = JsonUint(j, TimeModulus)
      BY <2>2 DEF ValidSec
    <3> HIDE DEF j
    <3>4. CASE Is("number", j)
      <4>1. j.number % TimeModulus \in 0 .. TimeModulus - 1
        BY <1>2, <3>2, <3>4
      <4> QED
        BY <3>3, <3>4, <4>1 DEF JsonUint
    <3>5. CASE ~ Is("number", j)
      BY <3>1, <3>3, <3>5 DEF JsonUint, IsJsonUint
    <3> QED
      BY <3>4, <3>5
  <2> QED
    BY <2>1, <2>2
<1>4. HostRead(c) => c.object.opa_service_host.string \in Hosts
  BY DEF Hosts
<1>5. ClusterRead(c) => c.object.opa_cluster_name.string \in Clusters
  BY DEF Clusters
<1>6. ValidDuration(ValidSec(c)) \in 0 .. TimeModulus - 1
  BY <1>2, <1>3, ValidDurationType
<1>7. Parsed(c) \in [host : {""} \cup Hosts, cluster : {""} \cup Clusters,
                     validSec : 0 .. TimeModulus - 1, validFor : 0 .. TimeModulus - 1]
  BY <1>1, <1>3, <1>4, <1>5, <1>6 DEF Parsed
<1>8. ASSUME accepted \/ Parses(c)
      PROVE  Parsed(c).validFor = ValidDuration(Parsed(c).validSec)
  <2>1. CASE Parses(c)
    BY <2>1 DEF Parsed
  <2>2. CASE ~ Parses(c)
    <3>1. ValidSec(c) = config.validSec
      BY <2>2 DEF ValidSec, ProvidesValidity
    <3> QED
      BY <1>8, <2>2, <3>1 DEF Parsed, ValidityInForce
  <2> QED
    BY <2>1, <2>2
<1> QED
  BY <1>3, <1>7, <1>8

\* The cache's part of the type invariant.
LEMMA TypedCache == TypeOK => CacheTypeOK(cache)
  BY DEF TypeOK, CacheTypeOK

\* onRequestHeaders: what looking a payload up leaves, and what a hit means.
LEMMA CheckedKeeps ==
    ASSUME OpaInv, NEW p \in Payload
    PROVE  /\ CacheTypeOK(Checked(p).cache)
           /\ EntriesAnswered(Checked(p).cache, answers)
           /\ Paired(Checked(p).cache) /\ InStep(Checked(p).cache)
           /\ Checked(p).hit /\ accepted =>
                 /\ Checked(p).allowed \in BOOLEAN
                 /\ \E a \in answers :
                       /\ ComputeHash(a.payload) = ComputeHash(p)
                       /\ a.allowed = Checked(p).allowed
                       /\ a.at + config.validSec * NanosPerSec > now
<1> DEFINE h == ComputeHash(p)
           r == Checked(p)
<1>1. h \in Hash /\ CacheTypeOK(cache)
  BY HashType, TypedCache DEF OpaInv
<1>2. /\ CacheTypeOK(r.cache)
      /\ FewerEntries(cache, r.cache)
      /\ Paired(cache) => Paired(r.cache)
      /\ InStep(cache) => InStep(r.cache)
      /\ r.hit => /\ h \in DOMAIN cache.result
                  /\ r.allowed = cache.result[h].allowed
                  /\ Fresh(cache.result[h], config.validFor, now)
  BY <1>1, CheckOfCache DEF Checked
<1> HIDE DEF r, h
<1>3. EntriesAnswered(r.cache, answers)
  BY <1>2 DEF OpaInv, EntriesAnswered, EntryOf, FewerEntries
<1>4. ASSUME r.hit, accepted
      PROVE  /\ r.allowed \in BOOLEAN
             /\ \E a \in answers :
                   /\ ComputeHash(a.payload) = h
                   /\ a.allowed = r.allowed
                   /\ a.at + config.validSec * NanosPerSec > now
  <2> DEFINE e == cache.result[h]
  <2>1. e \in [allowed : BOOLEAN, at : 0 .. MaxClock]
    BY <1>1, <1>2, <1>4 DEF CacheTypeOK
  <2>2. MaxClock \in Nat /\ now \in Nat /\ config.validSec \in Nat
    <3>1. MaxClock \in Nat /\ TimeModulus \in Nat
      BY OpaAssumption, CacheAssumption
    <3>2. now \in 0 .. MaxClock /\ config.validSec \in 0 .. TimeModulus - 1
      BY DEF OpaInv, TypeOK
    <3> QED
      BY <3>1, <3>2
  <2>3. Fresh(e, ValidDuration(config.validSec), now)
    BY <1>2, <1>4 DEF OpaInv, ValidityInForce
  <2>4. e.at + config.validSec * NanosPerSec > now
    BY <2>1, <2>2, <2>3, FreshIsValid
  <2>5. PICK a \in answers : EntryOf(cache, h, a)
    BY <1>2, <1>4 DEF OpaInv, EntriesAnswered
  <2> QED
    BY <1>2, <1>4, <2>1, <2>4, <2>5 DEF EntryOf
<1> QED
  BY <1>2, <1>3, <1>4 DEF OpaInv, r, h

\* The callback: what caching a decision leaves.
LEMMA RememberedKeeps ==
    ASSUME OpaInv, NEW p \in Payload, NEW allowed \in BOOLEAN
    PROVE  /\ CacheTypeOK(Add(cache, ComputeHash(p), allowed, now))
           /\ EntriesAnswered(Add(cache, ComputeHash(p), allowed, now),
                  answers \cup {[payload |-> p, allowed |-> allowed, at |-> now]})
           /\ Paired(Add(cache, ComputeHash(p), allowed, now))
           /\ InStep(Add(cache, ComputeHash(p), allowed, now))
<1> DEFINE h == ComputeHash(p)
           c == Add(cache, h, allowed, now)
           new == [payload |-> p, allowed |-> allowed, at |-> now]
<1>1. h \in Hash /\ CacheTypeOK(cache) /\ now \in 0 .. MaxClock
  BY HashType, TypedCache DEF OpaInv, TypeOK
<1>2. new.payload = p /\ new.allowed = allowed /\ new.at = now
  OBVIOUS
<1> HIDE DEF h, new
<1>3. /\ CacheTypeOK(c)
      /\ Paired(cache) => Paired(c)
      /\ InStep(cache) => InStep(c)
      /\ \A g \in DOMAIN c.result :
            \/ g \in DOMAIN cache.result /\ c.result[g] = cache.result[g]
            \/ g = h /\ c.result[g] = [allowed |-> allowed, at |-> now]
  BY <1>1, AddToCache
<1> HIDE DEF c
<1>4. ASSUME NEW g \in DOMAIN c.result
      PROVE  \E a \in answers \cup {new} : EntryOf(c, g, a)
  <2>1. CASE g \in DOMAIN cache.result /\ c.result[g] = cache.result[g]
    <3>1. PICK a \in answers : EntryOf(cache, g, a)
      BY <2>1 DEF OpaInv, EntriesAnswered
    <3> QED
      BY <2>1, <3>1 DEF EntryOf
  <2>2. CASE g = h /\ c.result[g] = [allowed |-> allowed, at |-> now]
    <3>1. EntryOf(c, g, new)
      BY <1>2, <2>2 DEF EntryOf, h
    <3> QED
      BY <3>1
  <2> QED
    BY <1>3, <2>1, <2>2
<1> QED
  BY <1>3, <1>4 DEF OpaInv, EntriesAnswered, c, h, new

\* Before the first configuration the cache is empty and nobody waits.
LEMMA OpaInit == Init => OpaInv
<1> SUFFICES ASSUME Init PROVE OpaInv
  OBVIOUS
<1>1. /\ MaxClock \in Nat /\ MaxConfigs \in Nat /\ MaxNumEntry \in Nat
      /\ TimeModulus \in Nat \ {0}
  BY OpaAssumption, CacheAssumption
<1>2. ValidDuration(10) \in 0 .. TimeModulus - 1
  BY ValidDurationType
<1>3. /\ cache.result = <<>> /\ cache.recent = <<>> /\ cache.pos = {} /\ cache.ok = TRUE
  BY DEF Init, EmptyCache
<1>4. /\ DOMAIN cache.result = {} /\ Len(cache.recent) = 0
      /\ cache.recent \in Seq(Hash) /\ ToSet(cache.recent) = {}
  BY <1>3 DEF ToSet
<1>5. Paired(cache) /\ InStep(cache) /\ EntriesAnswered(cache, answers) /\ CacheTypeOK(cache)
  <2>1. Paired(cache)
    BY <1>1, <1>3, <1>4 DEF Paired
  <2>2. InStep(cache)
    BY <1>3, <1>4 DEF InStep, Leaked, Distinct
  <2>3. EntriesAnswered(cache, answers)
    BY <1>4 DEF EntriesAnswered
  <2>4. CacheTypeOK(cache)
    BY <1>3, <1>4 DEF CacheTypeOK
  <2> QED
    BY <2>1, <2>2, <2>3, <2>4
<1>6. DOMAIN calls = {} /\ Range(calls) = {}
  <2>1. calls = <<>>
    BY DEF Init
  <2>2. DOMAIN calls = {}
    BY <2>1
  <2> QED
    BY <2>2 DEF Range
<1>7. TypeOK
  <2>1. config \in [host : {""} \cup Hosts, cluster : {""} \cup Clusters,
                    validSec : 0 .. TimeModulus - 1, validFor : 0 .. TimeModulus - 1]
    <3>1. config = [host |-> "", cluster |-> "", validSec |-> 0,
                    validFor |-> ValidDuration(10)]
      BY DEF Init
    <3>2. 0 \in 0 .. TimeModulus - 1
      BY <1>1
    <3> QED
      BY <1>2, <3>1, <3>2
  <2>2. /\ accepted \in BOOLEAN /\ loads \in 0 .. MaxConfigs /\ now \in 0 .. MaxClock
        /\ last = NoDecision /\ answers = {}
    <3>1. accepted \in BOOLEAN
      BY Zenon DEF Init
    <3>2. loads = 0 /\ now = 0 /\ last = NoDecision /\ answers = {}
      BY DEF Init
    <3>3. loads \in 0 .. MaxConfigs /\ now \in 0 .. MaxClock
      BY <1>1, <3>2
    <3> QED
      BY <3>1, <3>2, <3>3
  <2>3. /\ state \in [Stream -> {"new", "waiting", "gone", "done"}]
        /\ vm \in {"running", "trapped", "undefined"}
    BY DEF Init
  <2> QED
    BY <2>1, <2>2, <2>3, <1>5, <1>6 DEF TypeOK, CacheTypeOK
<1>8. PausedHasCall /\ ValidityInForce /\ DecisionJustified
  BY DEF Init, PausedHasCall, ValidityInForce, DecisionJustified
<1> QED
  BY <1>5, <1>7, <1>8 DEF OpaInv

\* The parts of TypeOK, by what the actions change together.
SettingsTypeOK ==
    /\ config \in [host : {""} \cup Hosts, cluster : {""} \cup Clusters,
                   validSec : 0 .. TimeModulus - 1, validFor : 0 .. TimeModulus - 1]
    /\ accepted \in BOOLEAN /\ loads \in 0 .. MaxConfigs

StreamsTypeOK ==
    /\ state \in [Stream -> {"new", "waiting", "gone", "done"}]
    /\ DOMAIN calls \subseteq Stream /\ \A s \in DOMAIN calls : calls[s] \in Payload

DecisionsTypeOK ==
    /\ last = NoDecision \/ last \in [payload : Payload, allowed : BOOLEAN, cached : BOOLEAN]
    /\ answers \subseteq [payload : Payload, allowed : BOOLEAN, at : 0 .. MaxClock]

\* The type invariant in parts that an action leaves alone or not.
LEMMA TypeParts ==
    TypeOK <=> /\ SettingsTypeOK /\ StreamsTypeOK /\ DecisionsTypeOK
               /\ CacheTypeOK(cache) /\ now \in 0 .. MaxClock
               /\ vm \in {"running", "trapped", "undefined"}
<1>1. Range(calls) \subseteq Payload <=> \A s \in DOMAIN calls : calls[s] \in Payload
  BY DEF Range
<1> QED
  BY <1>1 DEF TypeOK, SettingsTypeOK, StreamsTypeOK, DecisionsTypeOK, CacheTypeOK

\* Every step of the filter keeps the invariant.
LEMMA OpaStep == OpaInv /\ [Next]_vars => OpaInv'
<1> SUFFICES ASSUME OpaInv, [Next]_vars PROVE OpaInv'
  OBVIOUS
<1>1. /\ SettingsTypeOK /\ StreamsTypeOK /\ DecisionsTypeOK
      /\ CacheTypeOK(cache) /\ now \in 0 .. MaxClock
      /\ vm \in {"running", "trapped", "undefined"}
  BY TypeParts DEF OpaInv
<1>2. ASSUME /\ SettingsTypeOK' /\ StreamsTypeOK' /\ DecisionsTypeOK'
             /\ CacheTypeOK(cache') /\ now' \in 0 .. MaxClock
             /\ vm' \in {"running", "trapped", "undefined"}
      PROVE  TypeOK'
  <2>1. Range(calls') \subseteq Payload
    BY <1>2 DEF StreamsTypeOK, Range
  <2> QED
    BY <1>2, <2>1 DEF TypeOK, SettingsTypeOK, StreamsTypeOK, DecisionsTypeOK, CacheTypeOK
<1>3. ASSUME NEW s \in Stream, NEW p \in Payload, CheckHit(s, p) PROVE OpaInv'
  <2> DEFINE r == Checked(p)
  <2>1. /\ CacheTypeOK(r.cache) /\ EntriesAnswered(r.cache, answers) /\ Paired(r.cache) /\ InStep(r.cache)
        /\ r.allowed \in BOOLEAN
        /\ \E a \in answers :
              /\ ComputeHash(a.payload) = ComputeHash(p)
              /\ a.allowed = r.allowed
              /\ a.at + config.validSec * NanosPerSec > now
    BY <1>3, CheckedKeeps DEF CheckHit
  <2>2. /\ cache' = r.cache /\ vm' = IF r.cache.ok THEN vm ELSE "undefined"
        /\ state' = [state EXCEPT ![s] = "done"]
        /\ last' = [payload |-> p, allowed |-> r.allowed, cached |-> TRUE]
        /\ UNCHANGED <<config, accepted, loads, now, calls, answers>>
    BY <1>3 DEF CheckHit, SetCache, Respond, settings
  <2> HIDE DEF r
  <2>3. TypeOK'
    <3>1. SettingsTypeOK'
      BY <1>1, <2>2 DEF SettingsTypeOK
    <3>2. StreamsTypeOK'
      BY <1>1, <2>2 DEF StreamsTypeOK
    <3>3. DecisionsTypeOK'
      BY <1>1, <2>1, <2>2 DEF DecisionsTypeOK
    <3> QED
      BY <1>1, <1>2, <2>1, <2>2, <3>1, <3>2, <3>3
  <2>4. PausedHasCall'
    BY <1>1, <2>2 DEF OpaInv, PausedHasCall, StreamsTypeOK
  <2>5. ValidityInForce'
    BY <2>2 DEF OpaInv, ValidityInForce
  <2>6. DecisionJustified'
    <3>1. last'.payload = p /\ last'.allowed = r.allowed /\ last'.cached
      BY <2>2
    <3> QED
      BY <2>1, <2>2, <3>1 DEF DecisionJustified
  <2> QED
    BY <2>1, <2>2, <2>3, <2>4, <2>5, <2>6 DEF OpaInv
<1>4. ASSUME NEW s \in Stream, NEW p \in Payload, CheckMiss(s, p) PROVE OpaInv'
  <2> DEFINE r == Checked(p)
  <2>1. CacheTypeOK(r.cache) /\ EntriesAnswered(r.cache, answers) /\ Paired(r.cache) /\ InStep(r.cache)
    BY CheckedKeeps
  <2>2. /\ cache' = r.cache /\ vm' = IF r.cache.ok THEN vm ELSE "undefined"
        /\ calls' = [t \in DOMAIN calls \cup {s} |-> IF t = s THEN p ELSE calls[t]]
        /\ state' = [state EXCEPT ![s] = "waiting"]
        /\ last' = NoDecision
        /\ UNCHANGED <<config, accepted, loads, now, answers>>
    BY <1>4 DEF CheckMiss, SetCache, settings
  <2> HIDE DEF r
  <2>3. /\ DOMAIN calls' = DOMAIN calls \cup {s}
        /\ \A q \in DOMAIN calls' : calls'[q] \in Payload
    BY <1>1, <2>2 DEF StreamsTypeOK
  <2>4. TypeOK'
    <3>1. SettingsTypeOK'
      BY <1>1, <2>2 DEF SettingsTypeOK
    <3>2. StreamsTypeOK'
      BY <1>1, <2>2, <2>3 DEF StreamsTypeOK
    <3>3. DecisionsTypeOK'
      BY <1>1, <2>2 DEF DecisionsTypeOK
    <3> QED
      BY <1>1, <1>2, <2>1, <2>2, <3>1, <3>2, <3>3
  <2>5. PausedHasCall'
    BY <1>1, <2>2, <2>3 DEF OpaInv, PausedHasCall, StreamsTypeOK
  <2>6. ValidityInForce'
    BY <2>2 DEF OpaInv, ValidityInForce
  <2>7. DecisionJustified'
    BY <2>2 DEF DecisionJustified
  <2> QED
    BY <2>1, <2>2, <2>4, <2>5, <2>6, <2>7 DEF OpaInv
<1>5. ASSUME NEW s \in Stream, NEW p \in Payload, CheckMissNoCall(s, p) PROVE OpaInv'
  <2> DEFINE r == Checked(p)
  <2>1. CacheTypeOK(r.cache) /\ EntriesAnswered(r.cache, answers) /\ Paired(r.cache) /\ InStep(r.cache)
    BY CheckedKeeps
  <2>2. /\ cache' = r.cache /\ vm' = IF r.cache.ok THEN vm ELSE "undefined"
        /\ state' = [state EXCEPT ![s] = "done"]
        /\ last' = NoDecision
        /\ UNCHANGED <<config, accepted, loads, now, calls, answers>>
    BY <1>5 DEF CheckMissNoCall, SetCache, RespondError, settings
  <2> HIDE DEF r
  <2>3. TypeOK'
    <3>1. SettingsTypeOK'
      BY <1>1, <2>2 DEF SettingsTypeOK
    <3>2. StreamsTypeOK'
      BY <1>1, <2>2 DEF StreamsTypeOK
    <3>3. DecisionsTypeOK'
      BY <1>1, <2>2 DEF DecisionsTypeOK
    <3> QED
      BY <1>1, <1>2, <2>1, <2>2, <3>1, <3>2, <3>3
  <2>4. PausedHasCall'
    BY <1>1, <2>2 DEF OpaInv, PausedHasCall, StreamsTypeOK
  <2>5. ValidityInForce' /\ DecisionJustified'
    BY <2>2 DEF OpaInv, ValidityInForce, DecisionJustified
  <2> QED
    BY <2>1, <2>2, <2>3, <2>4, <2>5 DEF OpaInv
<1>6. ASSUME NEW s \in Stream, NEW allowed \in BOOLEAN, Answered(s), Remember(s, allowed),
             \/ state[s] = "waiting" /\ Respond(s, calls[s], allowed, FALSE)
             \/ state[s] = "gone" /\ last' = NoDecision /\ UNCHANGED state,
             UNCHANGED <<config, accepted, loads, now>>
      PROVE  OpaInv'
  <2> DEFINE p == calls[s]
             c == Add(cache, ComputeHash(p), allowed, now)
             new == [payload |-> p, allowed |-> allowed, at |-> now]
  <2>1. s \in DOMAIN calls /\ p \in Payload
    BY <1>1, <1>6 DEF Answered, StreamsTypeOK
  <2>2. CacheTypeOK(c) /\ EntriesAnswered(c, answers \cup {new}) /\ Paired(c) /\ InStep(c)
    BY <2>1, RememberedKeeps
  <2>3. /\ cache' = c /\ vm' = IF c.ok THEN vm ELSE "undefined"
        /\ answers' = answers \cup {new}
        /\ calls' = Restrict(calls, DOMAIN calls \ {s})
    BY <1>6 DEF Answered, Remember, SetCache
  <2>4. \/ /\ state' = [state EXCEPT ![s] = "done"]
           /\ last' = [payload |-> p, allowed |-> allowed, cached |-> FALSE]
        \/ state[s] = "gone" /\ state' = state /\ last' = NoDecision
    BY <1>6 DEF Respond
  <2>5. new \in [payload : Payload, allowed : BOOLEAN, at : 0 .. MaxClock]
    BY <1>1, <2>1
  <2>6. new.payload = p /\ new.allowed = allowed /\ new.at = now
    OBVIOUS
  <2> HIDE DEF c, p, new
  <2>7. /\ DOMAIN calls' = DOMAIN calls \ {s}
        /\ \A q \in DOMAIN calls' : calls'[q] \in Payload
    BY <1>1, <2>3 DEF Restrict, StreamsTypeOK
  <2>8. TypeOK'
    <3>1. SettingsTypeOK'
      BY <1>1, <1>6 DEF SettingsTypeOK
    <3>2. StreamsTypeOK'
      BY <1>1, <2>4, <2>7 DEF StreamsTypeOK
    <3>3. DecisionsTypeOK'
      <4>1. answers' \subseteq [payload : Payload, allowed : BOOLEAN, at : 0 .. MaxClock]
        BY <1>1, <2>3, <2>5 DEF DecisionsTypeOK
      <4>2. [payload |-> p, allowed |-> allowed, cached |-> FALSE]
               \in [payload : Payload, allowed : BOOLEAN, cached : BOOLEAN]
        BY <1>6, <2>1
      <4> QED
        BY <2>4, <4>1, <4>2 DEF DecisionsTypeOK
    <3> QED
      BY <1>1, <1>2, <1>6, <2>2, <2>3, <3>1, <3>2, <3>3
  <2>9. PausedHasCall'
    BY <1>1, <2>4, <2>7 DEF OpaInv, PausedHasCall, StreamsTypeOK
  <2>10. ValidityInForce'
    BY <1>6 DEF OpaInv, ValidityInForce
  <2>11. DecisionJustified'
    <3>1. CASE last' = NoDecision
      BY <3>1 DEF DecisionJustified
    <3>2. CASE last' = [payload |-> p, allowed |-> allowed, cached |-> FALSE]
      <4>1. last'.payload = p /\ last'.allowed = allowed /\ ~ last'.cached
        BY <3>2
      <4>2. new \in answers'
        BY <2>3
      <4> QED
        BY <1>6, <2>6, <4>1, <4>2 DEF DecisionJustified
    <3> QED
      BY <2>4, <3>1, <3>2
  <2> QED
    BY <2>2, <2>3, <2>8, <2>9, <2>10, <2>11 DEF OpaInv
<1>7. ASSUME NEW s \in Stream, NEW allowed \in BOOLEAN, AnswerDecision(s, allowed)
      PROVE  OpaInv'
  BY <1>6, <1>7 DEF AnswerDecision, settings
<1>8. ASSUME NEW s \in Stream, Answered(s),
             \/ state[s] = "waiting" /\ state' = [state EXCEPT ![s] = "done"]
             \/ state[s] = "gone" /\ UNCHANGED state,
             vm' \in {vm, "trapped"}, last' = NoDecision,
             UNCHANGED <<config, accepted, loads, now, cache, answers>>
      PROVE  OpaInv'
  <2>1. calls' = Restrict(calls, DOMAIN calls \ {s})
    BY <1>8 DEF Answered
  <2>2. /\ DOMAIN calls' = DOMAIN calls \ {s}
        /\ \A q \in DOMAIN calls' : calls'[q] \in Payload
    BY <1>1, <2>1 DEF Restrict, StreamsTypeOK
  <2>3. TypeOK'
    <3>1. SettingsTypeOK'
      BY <1>1, <1>8 DEF SettingsTypeOK
    <3>2. StreamsTypeOK'
      BY <1>1, <1>8, <2>2 DEF StreamsTypeOK
    <3>3. DecisionsTypeOK'
      BY <1>1, <1>8 DEF DecisionsTypeOK
    <3> QED
      BY <1>1, <1>2, <1>8, <3>1, <3>2, <3>3
  <2>4. PausedHasCall'
    BY <1>1, <1>8, <2>2 DEF OpaInv, PausedHasCall, StreamsTypeOK
  <2>5. ValidityInForce' /\ DecisionJustified'
    BY <1>8 DEF OpaInv, ValidityInForce, DecisionJustified
  <2> QED
    BY <1>8, <2>3, <2>4, <2>5 DEF OpaInv
<1>9. ASSUME NEW s \in Stream, AnswerInvalid(s) PROVE OpaInv'
  BY <1>8, <1>9 DEF AnswerInvalid, RespondError, settings
<1>10. ASSUME NEW s \in Stream, AnswerTraps(s) PROVE OpaInv'
  BY <1>8, <1>10 DEF AnswerTraps, settings
<1>11. ASSUME NEW s \in Stream, AnswerGone(s) PROVE OpaInv'
  <2>1. /\ Answered(s) /\ state[s] = "gone" /\ last' = NoDecision
        /\ UNCHANGED <<config, accepted, loads, now, state>>
    BY <1>11 DEF AnswerGone, settings
  <2>2. CASE \E allowed \in BOOLEAN : Remember(s, allowed)
    BY <1>6, <2>1, <2>2
  <2>3. CASE UNCHANGED <<cache, vm, answers>>
    BY <1>8, <2>1, <2>3
  <2> QED
    BY <1>11, <2>2, <2>3 DEF AnswerGone
<1>12. ASSUME NEW s \in Stream, StreamEnds(s) PROVE OpaInv'
  <2>1. /\ state[s] = "waiting" /\ state' = [state EXCEPT ![s] = "gone"]
        /\ last' = NoDecision
        /\ UNCHANGED <<config, accepted, loads, now, cache, calls, vm, answers>>
    BY <1>12 DEF StreamEnds, settings
  <2>2. TypeOK'
    <3>1. SettingsTypeOK' /\ StreamsTypeOK' /\ DecisionsTypeOK'
      BY <1>1, <2>1 DEF SettingsTypeOK, StreamsTypeOK, DecisionsTypeOK
    <3> QED
      BY <1>1, <1>2, <2>1, <3>1
  <2>3. PausedHasCall'
    BY <1>1, <2>1 DEF OpaInv, PausedHasCall, StreamsTypeOK
  <2>4. ValidityInForce' /\ DecisionJustified'
    BY <2>1 DEF OpaInv, ValidityInForce, DecisionJustified
  <2> QED
    BY <2>1, <2>2, <2>3, <2>4 DEF OpaInv
<1>13. ASSUME NEW c \in Config, OnConfigure(c) PROVE OpaInv'
  <2>1. /\ loads < MaxConfigs /\ loads' = loads + 1
        /\ config' = Parsed(c) /\ accepted' = (accepted \/ Parses(c))
        /\ last' = NoDecision
        /\ UNCHANGED <<now, cache, state, calls, vm, answers>>
    BY <1>13 DEF OnConfigure
  <2>2. /\ Parsed(c) \in [host : {""} \cup Hosts, cluster : {""} \cup Clusters,
                          validSec : 0 .. TimeModulus - 1, validFor : 0 .. TimeModulus - 1]
        /\ ValidSec(c) \in 0 .. TimeModulus - 1
        /\ accepted \/ Parses(c) => Parsed(c).validFor = ValidDuration(Parsed(c).validSec)
    BY ParsedType DEF OpaInv
  <2>3. TypeOK'
    <3>1. accepted' \in BOOLEAN
      BY <2>1, Zenon
    <3>2. loads' \in 0 .. MaxConfigs
      <4>1. MaxConfigs \in Nat /\ loads \in 0 .. MaxConfigs
        BY <1>1, OpaAssumption DEF SettingsTypeOK
      <4>2. loads < MaxConfigs /\ loads' = loads + 1
        BY <2>1
      <4> QED
        BY <4>1, <4>2
    <3>3. SettingsTypeOK'
      BY <2>1, <2>2, <3>1, <3>2 DEF SettingsTypeOK
    <3>4. StreamsTypeOK' /\ DecisionsTypeOK'
      BY <1>1, <2>1 DEF StreamsTypeOK, DecisionsTypeOK
    <3> QED
      BY <1>1, <1>2, <2>1, <3>3, <3>4
  <2>4. ValidityInForce'
    BY <2>1, <2>2 DEF ValidityInForce
  <2>5. PausedHasCall' /\ DecisionJustified'
    BY <2>1 DEF OpaInv, PausedHasCall, DecisionJustified
  <2> QED
    BY <2>1, <2>3, <2>4, <2>5 DEF OpaInv
<1>14. ASSUME ClockTick PROVE OpaInv'
  <2>1. /\ now < MaxClock /\ now' = now + 1 /\ last' = NoDecision
        /\ UNCHANGED <<config, accepted, loads, cache, state, calls, vm, answers>>
    BY <1>14 DEF ClockTick, settings
  <2>2. now' \in 0 .. MaxClock
    BY <1>1, <2>1, OpaAssumption
  <2>3. TypeOK'
    <3>1. SettingsTypeOK' /\ StreamsTypeOK' /\ DecisionsTypeOK'
      BY <1>1, <2>1 DEF SettingsTypeOK, StreamsTypeOK, DecisionsTypeOK
    <3> QED
      BY <1>1, <1>2, <2>1, <2>2, <3>1
  <2>4. ValidityInForce' /\ PausedHasCall' /\ DecisionJustified'
    BY <2>1 DEF OpaInv, ValidityInForce, PausedHasCall, DecisionJustified
  <2> QED
    BY <2>1, <2>3, <2>4 DEF OpaInv
<1>15. ASSUME UNCHANGED vars PROVE OpaInv'
  <2>1. UNCHANGED <<config, accepted, loads, now, cache, state, calls, vm, last, answers>>
    BY <1>15 DEF vars, settings
  <2>2. TypeOK'
    <3>1. SettingsTypeOK' /\ StreamsTypeOK' /\ DecisionsTypeOK'
      BY <1>1, <2>1 DEF SettingsTypeOK, StreamsTypeOK, DecisionsTypeOK
    <3> QED
      BY <1>1, <1>2, <2>1, <3>1
  <2>3. ValidityInForce' /\ PausedHasCall' /\ DecisionJustified'
    BY <2>1 DEF OpaInv, ValidityInForce, PausedHasCall, DecisionJustified
  <2> QED
    BY <2>1, <2>2, <2>3 DEF OpaInv
<1> QED
  BY <1>3, <1>4, <1>5, <1>7, <1>9, <1>10, <1>11, <1>12, <1>13, <1>14, <1>15
     DEF Next, Answer

\* The inductive invariant holds in every reachable state.
LEMMA OpaInvariant == Spec => []OpaInv
  BY OpaInit, OpaStep, PTL DEF Spec

----------------------------------------------------------------------------
(* The theorems *)

\* Type correctness: whatever configurations arrive, and in whatever order the
\* callbacks of onRequestHeaders and of the OPA calls run, the members of the root
\* context and the cache hold values of their types.
THEOREM OpaTypeCorrect == Spec => []TypeOK
<1>1. OpaInv => TypeOK
  BY DEF OpaInv
<1> QED
  BY <1>1, OpaInvariant, PTL

\* The answer of a paused stream's call is taken only by a step that responds to it.
AnswerResponds ==
    \A s \in Stream : state[s] = "waiting" /\ s \notin DOMAIN calls' => state'[s] = "done"

\* Every step takes no paused stream's call, or responds to the stream.
LEMMA RespondsStep == OpaInv /\ Next => AnswerResponds
<1> SUFFICES ASSUME OpaInv, Next, NEW t \in Stream, state[t] = "waiting", t \notin DOMAIN calls'
             PROVE  state'[t] = "done"
  BY DEF AnswerResponds
<1>1. t \in DOMAIN calls /\ state \in [Stream -> {"new", "waiting", "gone", "done"}]
  BY TypeParts DEF OpaInv, PausedHasCall, StreamsTypeOK
<1>2. ASSUME NEW s \in Stream, Answered(s) PROVE t = s
  <2>1. DOMAIN calls' = DOMAIN calls \ {s}
    BY <1>2 DEF Answered, Restrict
  <2> QED
    BY <1>1, <2>1
<1>3. ASSUME NEW s \in Stream, NEW allowed \in BOOLEAN, AnswerDecision(s, allowed)
      PROVE  state'[t] = "done"
  BY <1>1, <1>2, <1>3 DEF AnswerDecision, Respond
<1>4. ASSUME NEW s \in Stream, AnswerInvalid(s) PROVE state'[t] = "done"
  BY <1>1, <1>2, <1>4 DEF AnswerInvalid, RespondError
<1>5. ASSUME NEW s \in Stream, AnswerTraps(s) \/ AnswerGone(s) PROVE FALSE
  BY <1>2, <1>5 DEF AnswerTraps, AnswerGone
<1>6. ASSUME NEW s \in Stream, NEW p \in Payload,
             CheckHit(s, p) \/ CheckMiss(s, p) \/ CheckMissNoCall(s, p)
      PROVE  FALSE
  BY <1>1, <1>6 DEF CheckHit, CheckMiss, CheckMissNoCall
<1>7. ASSUME NEW s \in Stream, StreamEnds(s) PROVE FALSE
  BY <1>1, <1>7 DEF StreamEnds
<1>8. ASSUME NEW c \in Config, OnConfigure(c) PROVE FALSE
  BY <1>1, <1>8 DEF OnConfigure
<1>9. ASSUME ClockTick PROVE FALSE
  BY <1>1, <1>9 DEF ClockTick
<1> QED
  BY <1>3, <1>4, <1>5, <1>6, <1>7, <1>8, <1>9 DEF Next, Answer

\* The safety half of PausedIsResumed, for any number of streams: the call of a
\* stream that onRequestHeaders has paused is unanswered as long as it waits, and
\* only a step that gives the stream its response takes the answer; the callback of
\* another stream, of one that is gone or a refused call never does.  That the
\* answer is taken at all is not claimed: after a trap it is not.
THEOREM OpaAnswerResponds == Spec => []PausedHasCall /\ [][AnswerResponds]_vars
<1>1. OpaInv => PausedHasCall
  BY DEF OpaInv
<1>2. OpaInv /\ [Next]_vars => [AnswerResponds]_vars
  BY RespondsStep
<1> QED
  BY <1>1, <1>2, OpaInvariant, PTL DEF Spec

\* What use, evict, check and add keep of the agreement of recent_ with the two maps,
\* whatever the hashes are: only an entry whose hash is no int can lose its node, and
\* until one does the three containers hold the same entries, each once.
THEOREM OpaCacheInStep == Spec => []CacheInStep
<1>1. ASSUME OpaInv PROVE CacheInStep
  <2> SUFFICES ASSUME cache.ok PROVE CacheInStep
    BY DEF CacheInStep
  <2>1. /\ cache.recent \in Seq(Hash)
        /\ DOMAIN cache.result = cache.pos /\ Len(cache.recent) <= MaxNumEntry
        /\ \A h \in Leaked(cache) : ThroughInt(h) # h
        /\ Leaked(cache) = {} => ToSet(cache.recent) = cache.pos /\ Distinct(cache.recent)
    BY <1>1, TypedCache DEF OpaInv, CacheTypeOK, Paired, InStep
  <2>2. ASSUME Leaked(cache) = {}
        PROVE  ToSet(cache.recent) = cache.pos /\ Len(cache.recent) = Cardinality(cache.pos)
    BY <2>1, <2>2, DistinctCardinality
  <2> QED
    BY <2>1, <2>2 DEF CacheInStep, Leaked
<1> QED
  BY <1>1, OpaInvariant, PTL

\* A request is let through or refused only on a decision the OPA server made about
\* a payload of the same hash, within the validity the plugin holds; no hypothesis on
\* the hashes.  Time stamps and the validity may wrap: they only make an entry stale
\* too early.
THEOREM OpaDecisionJustified == Spec => []DecisionJustified
<1>1. OpaInv => DecisionJustified
  BY DEF OpaInv
<1> QED
  BY <1>1, OpaInvariant, PTL

\* If no two payloads have the same hash, that decision was about the same payload.
THEOREM OpaDecisionAboutPayload ==
    ASSUME HashesDiffer
    PROVE  Spec => [](last # NoDecision =>
                        \E a \in answers : a.payload = last.payload /\ a.allowed = last.allowed)
<1>1. ASSUME OpaInv, last # NoDecision
      PROVE  \E a \in answers : a.payload = last.payload /\ a.allowed = last.allowed
  <2>1. last.payload \in Payload /\ \A a \in answers : a.payload \in Payload
    BY <1>1, TypeParts DEF OpaInv, DecisionsTypeOK
  <2>2. PICK a \in answers : /\ ComputeHash(a.payload) = ComputeHash(last.payload)
                             /\ a.allowed = last.allowed
    BY <1>1 DEF OpaInv, DecisionJustified
  <2> QED
    BY <2>1, <2>2 DEF HashesDiffer
<1>2. OpaInv => (last # NoDecision =>
                    \E a \in answers : a.payload = last.payload /\ a.allowed = last.allowed)
  BY <1>1
<1> QED
  BY <1>2, OpaInvariant, PTL

=============================================================================
