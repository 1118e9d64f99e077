----------------------------- MODULE DataProofs -----------------------------
(***************************************************************************)
(* Facts about data that the proofs of several plugins rest on: induction  *)
(* with sets in place of predicates, what it says of the folds that model  *)
(* the loops of the plugins, and, by it, what Base64::encode computes.     *)
(*                                                                         *)
(* The library states its induction theorems for an operator P(_), which   *)
(* the provers cannot be given; a set {n \in 0 .. k : P(n)} they can.      *)
(***************************************************************************)
EXTENDS Base64, FiniteSets, FiniteSetTheorems, SequenceTheorems, WellFoundedInduction, TLAPS

----------------------------------------------------------------------------
(* Sequences *)

\* The elements of a sequence that one was appended to.
LEMMA ToSetAppend ==
    ASSUME NEW S, NEW s \in Seq(S), NEW e
    PROVE  ToSet(Append(s, e)) = ToSet(s) \cup {e}
<1>1. /\ DOMAIN s = 1 .. Len(s) /\ Len(s) \in Nat
      /\ DOMAIN Append(s, e) = 1 .. Len(s) + 1
      /\ \A i \in 1 .. Len(s) : Append(s, e)[i] = s[i]
      /\ Append(s, e)[Len(s) + 1] = e
  OBVIOUS
<1>2. 1 .. Len(s) + 1 = (1 .. Len(s)) \cup {Len(s) + 1}
  BY <1>1
<1> QED
  BY <1>1, <1>2 DEF ToSet

----------------------------------------------------------------------------
(* Induction *)

\* A set of natural numbers that is not empty has a least element.
LEMMA LeastElement ==
    ASSUME NEW T \in SUBSET Nat, T # {}
    PROVE  \E x \in T : \A y \in T : x <= y
<1>1. PICK x \in T : \A y \in T : ~ (<<y, x>> \in OpToRel(<, Nat))
  BY NatLessThanWellFounded, WFMin
<1>2. \A y \in T : ~ (y < x)
  BY <1>1 DEF OpToRel
<1> QED
  BY <1>2

\* Induction up to n.
LEMMA RangeInduction ==
    ASSUME NEW n \in Nat, NEW S, 0 \in S,
           \A k \in 0 .. n - 1 : k \in S => k + 1 \in S
    PROVE  \A k \in 0 .. n : k \in S
<1> SUFFICES ASSUME NEW k \in 0 .. n, k \notin S PROVE FALSE
  OBVIOUS
<1> DEFINE T == {j \in 0 .. n : j \notin S}
<1>1. PICK x \in T : \A y \in T : x <= y
  <2>1. T \in SUBSET Nat /\ T # {}
    OBVIOUS
  <2> HIDE DEF T
  <2> QED
    BY <2>1, LeastElement
<1>2. x # 0 /\ x - 1 \in 0 .. n - 1
  OBVIOUS
<1>3. x - 1 \in S
  BY <1>1, <1>2
<1>4. (x - 1) + 1 \in S
  BY <1>2, <1>3
<1> QED
  BY <1>2, <1>4

\* The greatest element of a set of indices.
LEMMA MaxOfIndices ==
    ASSUME NEW n \in Nat, NEW s \in SUBSET (1 .. n), s # {}
    PROVE  Max(s) \in s /\ \A y \in s : y <= Max(s)
<1> DEFINE T == {n - x : x \in s}
<1>1. T \in SUBSET Nat /\ T # {}
  <2>1. \A x \in s : n - x \in Nat
    OBVIOUS
  <2> QED
    BY <2>1
<1>2. PICK t \in T : \A y \in T : t <= y
  <2> HIDE DEF T
  <2> QED
    BY <1>1, LeastElement
<1>3. PICK x \in s : t = n - x
  OBVIOUS
<1>4. \A y \in s : x >= y
  <2> SUFFICES ASSUME NEW y \in s PROVE x >= y
    OBVIOUS
  <2>1. n - y \in T
    OBVIOUS
  <2>2. n - x <= n - y
    BY <1>2, <1>3, <2>1
  <2> QED
    BY <2>2
<1>5. Max(s) \in s /\ \A y \in s : Max(s) >= y
  BY <1>4 DEF Max
<1> QED
  BY <1>5

\* The last index, and the indices before it.
LEMMA MaxOfPrefix ==
    ASSUME NEW k \in Nat \ {0}
    PROVE  Max(1 .. k) = k /\ (1 .. k) \ {Max(1 .. k)} = 1 .. k - 1
<1>1. Max(1 .. k) \in 1 .. k /\ \A y \in 1 .. k : y <= Max(1 .. k)
  <2>1. 1 .. k \in SUBSET (1 .. k) /\ 1 .. k # {}
    OBVIOUS
  <2> QED
    BY <2>1, MaxOfIndices
<1>2. Max(1 .. k) = k
  BY <1>1
<1> QED
  BY <1>2

\* One index more.
LEMMA NextPrefix ==
    ASSUME NEW n \in Nat, NEW k \in 0 .. n - 1
    PROVE  /\ k + 1 \in 1 .. n /\ 1 .. k \in SUBSET (1 .. n)
           /\ 1 .. k + 1 \in SUBSET (1 .. n) /\ 1 .. k + 1 # {}
           /\ Max(1 .. k + 1) = k + 1 /\ (1 .. k + 1) \ {Max(1 .. k + 1)} = 1 .. k
           /\ 1 .. k + 1 = (1 .. k) \cup {k + 1}
<1>1. k + 1 \in Nat \ {0} /\ (k + 1) - 1 = k
  OBVIOUS
<1>2. Max(1 .. k + 1) = k + 1
  BY <1>1, MaxOfPrefix
<1>3. (1 .. k + 1) \ {k + 1} = 1 .. k
  OBVIOUS
<1>4. 1 .. k + 1 = (1 .. k) \cup {k + 1}
  OBVIOUS
<1> QED
  BY <1>2, <1>3, <1>4

\* FoldLeft recurs on the set of the indices that are left, greatest first.
FoldRecursion(h, n, base, F) ==
    h = [s \in SUBSET (1 .. n) |->
           IF s = {} THEN base ELSE F[<<h[s \ {Max(s)}], Max(s)>>]]

\* For a step F that stays in V, a function with this recursion exists.
LEMMA FoldExists ==
    ASSUME NEW n \in Nat, NEW V, NEW base \in V, NEW F \in [V \X (1 .. n) -> V]
    PROVE  \E h \in [SUBSET (1 .. n) -> V] : FoldRecursion(h, n, base, F)
<1> DEFINE Solves(h, k) ==
             \A s \in SUBSET (1 .. k) :
                h[s] = IF s = {} THEN base ELSE F[<<h[s \ {Max(s)}], Max(s)>>]
           Solved == {k \in 0 .. n : \E h \in [SUBSET (1 .. k) -> V] : Solves(h, k)}
<1>1. 0 \in Solved
  <2> DEFINE h == [s \in SUBSET (1 .. 0) |-> base]
  <2>1. h \in [SUBSET (1 .. 0) -> V] /\ Solves(h, 0)
    OBVIOUS
  <2>2. \E f \in [SUBSET (1 .. 0) -> V] : Solves(f, 0)
    <3> HIDE DEF h, Solves
    <3> QED
      BY <2>1
  <2>3. 0 \in 0 .. n
    OBVIOUS
  <2> HIDE DEF Solves
  <2> QED
    BY <2>2, <2>3
<1>2. ASSUME NEW k \in 0 .. n - 1, k \in Solved PROVE k + 1 \in Solved
  <2>1. PICK g \in [SUBSET (1 .. k) -> V] : Solves(g, k)
    BY <1>2
  <2> DEFINE h == [s \in SUBSET (1 .. k + 1) |->
                     IF s = {} THEN base ELSE F[<<g[s \ {Max(s)}], Max(s)>>]]
  <2>2. ASSUME NEW s \in SUBSET (1 .. k + 1), s # {}
        PROVE  Max(s) \in 1 .. n /\ s \ {Max(s)} \in SUBSET (1 .. k)
    <3>1. k + 1 \in Nat
      OBVIOUS
    <3>2. Max(s) \in s /\ \A y \in s : y <= Max(s)
      BY <2>2, <3>1, MaxOfIndices
    <3>3. Max(s) \in 1 .. k + 1
      BY <3>2
    <3>4. \A y \in s \ {Max(s)} : y \in 1 .. k
      <4> SUFFICES ASSUME NEW y \in s, y # Max(s) PROVE y \in 1 .. k
        OBVIOUS
      <4>1. y \in 1 .. k + 1 /\ y <= Max(s)
        BY <3>2
      <4> QED
        BY <3>3, <4>1
    <3>5. Max(s) \in 1 .. n
      BY <3>3
    <3> HIDE DEF Solved, Solves
    <3> QED
      BY <3>4, <3>5
  <2>3. h \in [SUBSET (1 .. k + 1) -> V]
    <3> SUFFICES ASSUME NEW s \in SUBSET (1 .. k + 1), s # {}
                 PROVE  F[<<g[s \ {Max(s)}], Max(s)>>] \in V
      OBVIOUS
    <3>1. g[s \ {Max(s)}] \in V /\ Max(s) \in 1 .. n
      BY <2>2
    <3> QED
      BY <3>1
  <2>4. \A s \in SUBSET (1 .. k) : h[s] = g[s]
    <3> SUFFICES ASSUME NEW s \in SUBSET (1 .. k) PROVE h[s] = g[s]
      OBVIOUS
    <3>1. s \in SUBSET (1 .. k + 1)
      OBVIOUS
    <3>2. h[s] = IF s = {} THEN base ELSE F[<<g[s \ {Max(s)}], Max(s)>>]
      BY <3>1
    <3> HIDE DEF h
    <3> QED
      BY <2>1, <3>2
  <2>5. Solves(h, k + 1)
    <3> SUFFICES ASSUME NEW s \in SUBSET (1 .. k + 1)
                 PROVE  h[s] = IF s = {} THEN base ELSE F[<<h[s \ {Max(s)}], Max(s)>>]
      OBVIOUS
    <3>1. h[s] = IF s = {} THEN base ELSE F[<<g[s \ {Max(s)}], Max(s)>>]
      OBVIOUS
    <3> HIDE DEF h
    <3> QED
      BY <2>2, <2>4, <3>1
  <2>6. \E f \in [SUBSET (1 .. k + 1) -> V] : Solves(f, k + 1)
    <3> HIDE DEF h, Solves
    <3> QED
      BY <2>3, <2>5
  <2>7. k + 1 \in 0 .. n
    OBVIOUS
  <2> HIDE DEF Solves
  <2> QED
    BY <2>6, <2>7
<1>3. n \in Solved
  <2> HIDE DEF Solved
  <2> QED
    BY <1>1, <1>2, RangeInduction
<1>4. PICK h \in [SUBSET (1 .. n) -> V] : Solves(h, n)
  BY <1>3
<1>5. h = [s \in SUBSET (1 .. n) |-> h[s]]
  OBVIOUS
<1>6. FoldRecursion(h, n, base, F)
  BY <1>4, <1>5 DEF FoldRecursion
<1> QED
  BY <1>6

\* What every step of such a recursion keeps, its result has.
LEMMA FoldStays ==
    ASSUME NEW n \in Nat, NEW V, NEW it, it[{}] \in V,
           \A s \in SUBSET (1 .. n) : s # {} /\ it[s \ {Max(s)}] \in V => it[s] \in V
    PROVE  it[1 .. n] \in V
<1> DEFINE S == {k \in 0 .. n : it[1 .. k] \in V}
<1>1. 0 \in S
  <2>1. 1 .. 0 = {}
    OBVIOUS
  <2> QED
    BY <2>1
<1>2. ASSUME NEW k \in 0 .. n - 1, k \in S PROVE k + 1 \in S
  <2>1. k + 1 \in Nat \ {0} /\ k + 1 \in 0 .. n
    OBVIOUS
  <2>2. (1 .. k + 1) \ {Max(1 .. k + 1)} = 1 .. (k + 1) - 1
    BY <2>1, MaxOfPrefix
  <2>3. 1 .. (k + 1) - 1 = 1 .. k /\ it[1 .. k] \in V
    BY <1>2
  <2>4. 1 .. k + 1 \in SUBSET (1 .. n) /\ 1 .. k + 1 # {}
    <3>1. \A i \in 1 .. k + 1 : i \in 1 .. n
      OBVIOUS
    <3>2. 1 \in 1 .. k + 1
      OBVIOUS
    <3> QED
      BY <3>1, <3>2
  <2>5. it[1 .. k + 1] \in V
    BY <2>2, <2>3, <2>4
  <2> QED
    BY <2>1, <2>5
<1>3. n \in S
  <2> HIDE DEF S
  <2> QED
    BY <1>1, <1>2, RangeInduction
<1> QED
  BY <1>3

\* The states that such a recursion passes through, one for every prefix.
FoldStates(p, n, it, F) ==
    /\ p[0] = it[{}] /\ p[n] = it[1 .. n]
    /\ \A k \in 1 .. n : p[k] = F[<<p[k - 1], k>>]

\* A recursion with steps in V passes through states in V.
LEMMA FoldPasses ==
    ASSUME NEW n \in Nat, NEW V, NEW F \in [V \X (1 .. n) -> V], NEW it, it[{}] \in V,
           \A s \in SUBSET (1 .. n) : s # {} /\ it[s \ {Max(s)}] \in V =>
              it[s] = F[<<it[s \ {Max(s)}], Max(s)>>]
    PROVE  \E p \in [0 .. n -> V] : FoldStates(p, n, it, F)
<1> DEFINE S == {k \in 0 .. n : it[1 .. k] \in V}
           p == [k \in 0 .. n |-> it[1 .. k]]
<1>1. 1 .. 0 = {} /\ 0 \in 0 .. n
  OBVIOUS
<1>2. 0 \in S
  BY <1>1
<1>3. ASSUME NEW k \in 0 .. n - 1, it[1 .. k] \in V
      PROVE  it[1 .. k + 1] \in V /\ it[1 .. k + 1] = F[<<it[1 .. k], k + 1>>]
  <2>1. /\ k + 1 \in 1 .. n /\ 1 .. k + 1 \in SUBSET (1 .. n) /\ 1 .. k + 1 # {}
        /\ Max(1 .. k + 1) = k + 1 /\ (1 .. k + 1) \ {Max(1 .. k + 1)} = 1 .. k
    BY NextPrefix
  <2>2. it[1 .. k + 1] = F[<<it[1 .. k], k + 1>>]
    BY <1>3, <2>1
  <2> QED
    BY <1>3, <2>1, <2>2
<1>4. ASSUME NEW k \in 0 .. n - 1, k \in S PROVE k + 1 \in S
  <2>1. k + 1 \in 0 .. n /\ it[1 .. k] \in V
    BY <1>4
  <2> QED
    BY <1>3, <2>1
<1>5. \A k \in 0 .. n : k \in S
  <2> HIDE DEF S
  <2> QED
    BY <1>2, <1>4, RangeInduction
<1>6. p \in [0 .. n -> V]
  BY <1>5
<1>7. p[0] = it[{}] /\ p[n] = it[1 .. n]
  BY <1>1
<1>8. ASSUME NEW k \in 1 .. n PROVE p[k] = F[<<p[k - 1], k>>]
  <2>1. k - 1 \in 0 .. n - 1 /\ (k - 1) + 1 = k /\ k - 1 \in 0 .. n /\ k \in 0 .. n
    OBVIOUS
  <2>2. it[1 .. k - 1] \in V
    BY <1>5, <2>1
  <2>3. it[1 .. (k - 1) + 1] = F[<<it[1 .. k - 1], (k - 1) + 1>>]
    BY <1>3, <2>1, <2>2
  <2> QED
    BY <2>1, <2>3
<1> HIDE DEF p
<1> QED
  BY <1>6, <1>7, <1>8 DEF FoldStates

----------------------------------------------------------------------------
(* FoldSet recurs on the set that is left, without an element it chooses. *)

SomeOf(s) == CHOOSE x \in s : TRUE

SetFoldRecursion(h, S, base, F) ==
    h = [s \in SUBSET S |-> IF s = {} THEN base ELSE F[<<SomeOf(s), h[s \ {SomeOf(s)}]>>]]

\* For a finite set, and a step F that stays in V, a function with this recursion
\* exists: the functions for the subsets of at most k elements are extended.
LEMMA SetFoldExists ==
    ASSUME NEW S, IsFiniteSet(S), NEW V, NEW base \in V, NEW F \in [S \X V -> V]
    PROVE  \E h \in [SUBSET S -> V] : SetFoldRecursion(h, S, base, F)
<1> DEFINE n == Cardinality(S)
           Upto(k) == {s \in SUBSET S : Cardinality(s) <= k}
           Solves(h, k) ==
             \A s \in Upto(k) :
                h[s] = IF s = {} THEN base ELSE F[<<SomeOf(s), h[s \ {SomeOf(s)}]>>]
           Solved == {k \in 0 .. n : \E h \in [Upto(k) -> V] : Solves(h, k)}
<1>1. n \in Nat
  BY FS_CardinalityType
<1>2. ASSUME NEW s \in SUBSET S
      PROVE  IsFiniteSet(s) /\ Cardinality(s) \in Nat /\ Cardinality(s) <= n
  BY FS_Subset, FS_CardinalityType
<1>3. ASSUME NEW s \in SUBSET S, s # {}
      PROVE  /\ SomeOf(s) \in S /\ s \ {SomeOf(s)} \in SUBSET S
             /\ Cardinality(s \ {SomeOf(s)}) = Cardinality(s) - 1
  <2>1. SomeOf(s) \in s
    BY <1>3 DEF SomeOf
  <2> QED
    BY <2>1, <1>2, FS_RemoveElement
<1> HIDE DEF n
<1>4. 0 \in Solved
  <2> DEFINE h == [s \in Upto(0) |-> base]
  <2>1. \A s \in Upto(0) : s = {}
    BY <1>2, FS_EmptySet
  <2>2. h \in [Upto(0) -> V]
    OBVIOUS
  <2>3. Solves(h, 0)
    BY <2>1
  <2>4. 0 \in 0 .. n
    BY <1>1
  <2> HIDE DEF h, Solves, Upto
  <2> QED
    BY <2>2, <2>3, <2>4
<1>5. ASSUME NEW k \in 0 .. n - 1, k \in Solved PROVE k + 1 \in Solved
  <2>1. PICK g \in [Upto(k) -> V] : Solves(g, k)
    BY <1>5
  <2> DEFINE h == [s \in Upto(k + 1) |->
                     IF s = {} THEN base ELSE F[<<SomeOf(s), g[s \ {SomeOf(s)}]>>]]
  <2>2. ASSUME NEW s \in Upto(k + 1), s # {}
        PROVE  SomeOf(s) \in S /\ s \ {SomeOf(s)} \in Upto(k)
    <3>1. s \in SUBSET S /\ Cardinality(s) <= k + 1 /\ Cardinality(s) \in Nat
      BY <1>2
    <3>2. SomeOf(s) \in S /\ s \ {SomeOf(s)} \in SUBSET S
      BY <1>3, <2>2, <3>1
    <3>3. Cardinality(s \ {SomeOf(s)}) = Cardinality(s) - 1
      BY <1>3, <2>2, <3>1
    <3>4. Cardinality(s \ {SomeOf(s)}) <= k
      BY <1>1, <3>1, <3>3
    <3> QED
      BY <3>2, <3>4
  <2>3. \A s \in Upto(k) : s \in Upto(k + 1)
    <3> SUFFICES ASSUME NEW s \in Upto(k) PROVE Cardinality(s) <= k + 1
      OBVIOUS
    <3>1. Cardinality(s) \in Nat /\ Cardinality(s) <= k
      BY <1>2
    <3> QED
      BY <1>1, <3>1
  <2>4. k + 1 \in 0 .. n
    BY <1>1
  <2> HIDE DEF Upto
  <2>5. h \in [Upto(k + 1) -> V]
    <3> SUFFICES ASSUME NEW s \in Upto(k + 1), s # {}
                 PROVE  F[<<SomeOf(s), g[s \ {SomeOf(s)}]>>] \in V
      OBVIOUS
    <3>1. g[s \ {SomeOf(s)}] \in V /\ SomeOf(s) \in S
      BY <2>2
    <3> QED
      BY <3>1
  <2>6. \A s \in Upto(k) : h[s] = g[s]
    <3> SUFFICES ASSUME NEW s \in Upto(k) PROVE h[s] = g[s]
      OBVIOUS
    <3>1. h[s] = IF s = {} THEN base ELSE F[<<SomeOf(s), g[s \ {SomeOf(s)}]>>]
      BY <2>3
    <3> HIDE DEF h
    <3> QED
      BY <2>1, <3>1
  <2>7. Solves(h, k + 1)
    <3> SUFFICES ASSUME NEW s \in Upto(k + 1)
                 PROVE  h[s] = IF s = {} THEN base ELSE F[<<SomeOf(s), h[s \ {SomeOf(s)}]>>]
      OBVIOUS
    <3>1. h[s] = IF s = {} THEN base ELSE F[<<SomeOf(s), g[s \ {SomeOf(s)}]>>]
      OBVIOUS
    <3> HIDE DEF h
    <3> QED
      BY <2>2, <2>6, <3>1
  <2> HIDE DEF h, Solves
  <2> QED
    BY <2>4, <2>5, <2>7
<1>6. n \in Solved
  <2> HIDE DEF Solved
  <2> QED
    BY <1>1, <1>4, <1>5, RangeInduction
<1>7. Upto(n) = SUBSET S
  BY <1>2
<1>8. PICK h \in [SUBSET S -> V] : Solves(h, n)
  BY <1>6, <1>7
<1>9. \A s \in SUBSET S :
         h[s] = IF s = {} THEN base ELSE F[<<SomeOf(s), h[s \ {SomeOf(s)}]>>]
  BY <1>7, <1>8
<1>10. h = [s \in SUBSET S |-> h[s]]
  OBVIOUS
<1>11. SetFoldRecursion(h, S, base, F)
  BY <1>9, <1>10 DEF SetFoldRecursion
<1> QED
  BY <1>11

\* What every step of such a recursion keeps, its result has.
LEMMA SetFoldStays ==
    ASSUME NEW S, IsFiniteSet(S), NEW V, NEW it, it[{}] \in V,
           \A s \in SUBSET S : s # {} /\ it[s \ {SomeOf(s)}] \in V => it[s] \in V
    PROVE  it[S] \in V
<1> DEFINE n == Cardinality(S)
           K == {k \in 0 .. n : \A s \in SUBSET S : Cardinality(s) = k => it[s] \in V}
<1>1. n \in Nat
  BY FS_CardinalityType
<1>2. ASSUME NEW s \in SUBSET S
      PROVE  IsFiniteSet(s) /\ Cardinality(s) \in Nat /\ Cardinality(s) <= n
  BY FS_Subset, FS_CardinalityType
<1>3. ASSUME NEW s \in SUBSET S, s # {}
      PROVE  /\ s \ {SomeOf(s)} \in SUBSET S
             /\ Cardinality(s \ {SomeOf(s)}) = Cardinality(s) - 1
  <2>1. SomeOf(s) \in s
    BY <1>3 DEF SomeOf
  <2> QED
    BY <2>1, <1>2, FS_RemoveElement
<1> HIDE DEF n
<1>4. 0 \in K
  <2>1. \A s \in SUBSET S : Cardinality(s) = 0 => s = {}
    BY <1>2, FS_EmptySet
  <2>2. \A s \in SUBSET S : Cardinality(s) = 0 => it[s] \in V
    BY <2>1
  <2>3. 0 \in 0 .. n
    BY <1>1
  <2> QED
    BY <2>2, <2>3
<1>5. ASSUME NEW k \in 0 .. n - 1, k \in K PROVE k + 1 \in K
  <2>1. ASSUME NEW s \in SUBSET S, Cardinality(s) = k + 1 PROVE it[s] \in V
    <3>1. s # {}
      BY <1>1, <2>1, FS_EmptySet
    <3>2. s \ {SomeOf(s)} \in SUBSET S /\ Cardinality(s \ {SomeOf(s)}) = (k + 1) - 1
      BY <1>3, <2>1, <3>1
    <3>3. it[s \ {SomeOf(s)}] \in V
      BY <1>1, <1>5, <3>2
    <3> QED
      BY <3>1, <3>3
  <2>2. k + 1 \in 0 .. n
    BY <1>1
  <2>3. \A s \in SUBSET S : Cardinality(s) = k + 1 => it[s] \in V
    BY <2>1
  <2> QED
    BY <2>2, <2>3
<1>6. n \in K
  <2> HIDE DEF K
  <2> QED
    BY <1>1, <1>4, <1>5, RangeInduction
<1> QED
  BY <1>6 DEF n

\* The states that such a recursion passes through, one for every subset.
LEMMA SetFoldPasses ==
    ASSUME NEW S, IsFiniteSet(S), NEW V, NEW it, it[{}] \in V,
           \A s \in SUBSET S : s # {} /\ it[s \ {SomeOf(s)}] \in V => it[s] \in V
    PROVE  \A s \in SUBSET S : it[s] \in V
<1> TAKE s \in SUBSET S
<1>1. IsFiniteSet(s)
  BY FS_Subset
<1>2. \A t \in SUBSET s : t # {} /\ it[t \ {SomeOf(t)}] \in V => it[t] \in V
  OBVIOUS
<1> QED
  BY <1>1, <1>2, SetFoldStays

----------------------------------------------------------------------------
(* Base64: the reference, six bits as parts of two bytes *)

\* A byte of a string, zero beyond its end.
ByteAt(s, n) == IF n < Len(s) THEN s[n + 1] ELSE 0

\* The eight bits of a byte.
LEMMA BitsOfByte ==
    ASSUME NEW s \in Seq(Byte), NEW n \in Nat
    PROVE  /\ ByteAt(s, n) \in Byte
           /\ Bit(s, 8 * n) = (ByteAt(s, n) \div 128) % 2
           /\ Bit(s, 8 * n + 1) = (ByteAt(s, n) \div 64) % 2
           /\ Bit(s, 8 * n + 2) = (ByteAt(s, n) \div 32) % 2
           /\ Bit(s, 8 * n + 3) = (ByteAt(s, n) \div 16) % 2
           /\ Bit(s, 8 * n + 4) = (ByteAt(s, n) \div 8) % 2
           /\ Bit(s, 8 * n + 5) = (ByteAt(s, n) \div 4) % 2
           /\ Bit(s, 8 * n + 6) = (ByteAt(s, n) \div 2) % 2
           /\ Bit(s, 8 * n + 7) = ByteAt(s, n) % 2
<1> DEFINE Part(w) == IF n >= Len(s) THEN 0 ELSE (s[n + 1] \div w) % 2
           b == ByteAt(s, n)
<1>1. Len(s) \in Nat /\ (n < Len(s) => n + 1 \in 1 .. Len(s)) /\ (n >= Len(s) <=> ~ n < Len(s))
  OBVIOUS
<1>2. b \in Byte
  <2>1. 0 \in Byte
    BY DEF Byte
  <2> QED
    BY <1>1, <2>1 DEF ByteAt
<1>3. \A e \in 0 .. 7 : (8 * n + e) \div 8 = n /\ (8 * n + e) % 8 = e
  OBVIOUS
<1>4. \A e \in 0 .. 7 : Bit(s, 8 * n + e) = Part(Weight[e + 1])
  BY <1>3 DEF Bit
<1>5. /\ Part(128) = (b \div 128) % 2 /\ Part(64) = (b \div 64) % 2
      /\ Part(32) = (b \div 32) % 2 /\ Part(16) = (b \div 16) % 2
      /\ Part(8) = (b \div 8) % 2 /\ Part(4) = (b \div 4) % 2
      /\ Part(2) = (b \div 2) % 2 /\ Part(1) = b % 2
  <2>1. CASE n < Len(s)
    <3>1. b = s[n + 1]
      BY <2>1 DEF ByteAt
    <3> HIDE DEF b
    <3>2. b \in Int /\ b \div 1 = b
      BY <1>2 DEF Byte
    <3> QED
      BY <1>1, <2>1, <3>1, <3>2
  <2>2. CASE ~ n < Len(s)
    <3>1. b = 0
      BY <2>2 DEF ByteAt
    <3> HIDE DEF b
    <3> QED
      BY <1>1, <2>2, <3>1
  <2> QED
    BY <2>1, <2>2
<1>6. /\ Weight[1] = 128 /\ Weight[2] = 64 /\ Weight[3] = 32 /\ Weight[4] = 16
      /\ Weight[5] = 8 /\ Weight[6] = 4 /\ Weight[7] = 2 /\ Weight[8] = 1
  BY DEF Weight
<1>7. /\ 8 * n + 0 = 8 * n
      /\ 0 + 1 = 1 /\ 1 + 1 = 2 /\ 2 + 1 = 3 /\ 3 + 1 = 4
      /\ 4 + 1 = 5 /\ 5 + 1 = 6 /\ 6 + 1 = 7 /\ 7 + 1 = 8
  OBVIOUS
<1> HIDE DEF Part, b
<1>8. /\ Bit(s, 8 * n + 0) = Part(Weight[0 + 1]) /\ Bit(s, 8 * n + 1) = Part(Weight[1 + 1])
      /\ Bit(s, 8 * n + 2) = Part(Weight[2 + 1]) /\ Bit(s, 8 * n + 3) = Part(Weight[3 + 1])
      /\ Bit(s, 8 * n + 4) = Part(Weight[4 + 1]) /\ Bit(s, 8 * n + 5) = Part(Weight[5 + 1])
      /\ Bit(s, 8 * n + 6) = Part(Weight[6 + 1]) /\ Bit(s, 8 * n + 7) = Part(Weight[7 + 1])
  BY <1>4
<1> QED
  BY <1>2, <1>5, <1>6, <1>7, <1>8 DEF b

\* Two sums of bits in one.
LEMMA SumsOfBits ==
    ASSUME NEW t \in Int, NEW u \in Int, NEW v \in Int, NEW w \in Int, NEW x \in Int, NEW y \in Int
    PROVE  /\ 32 * t + 16 * u + 8 * v + 4 * w + 2 * x + y
                = (32 * t + 16 * u) + (8 * v + 4 * w + 2 * x + y)
           /\ 32 * t + 16 * u + 8 * v + 4 * w + 2 * x + y
                = (32 * t + 16 * u + 8 * v + 4 * w) + (2 * x + y)
  OBVIOUS

\* The parts of a byte that sextets are made of.
LEMMA PartsOfByte ==
    ASSUME NEW b \in Byte
    PROVE  /\ 32 * ((b \div 128) % 2) + 16 * ((b \div 64) % 2) + 8 * ((b \div 32) % 2)
              + 4 * ((b \div 16) % 2) + 2 * ((b \div 8) % 2) + ((b \div 4) % 2) = b \div 4
           /\ 32 * ((b \div 2) % 2) + 16 * (b % 2) = (b % 4) * 16
           /\ 8 * ((b \div 128) % 2) + 4 * ((b \div 64) % 2) + 2 * ((b \div 32) % 2)
              + ((b \div 16) % 2) = b \div 16
           /\ 32 * ((b \div 8) % 2) + 16 * ((b \div 4) % 2) + 8 * ((b \div 2) % 2)
              + 4 * (b % 2) = (b % 16) * 4
           /\ 2 * ((b \div 128) % 2) + ((b \div 64) % 2) = b \div 64
           /\ 32 * ((b \div 32) % 2) + 16 * ((b \div 16) % 2) + 8 * ((b \div 8) % 2)
              + 4 * ((b \div 4) % 2) + 2 * ((b \div 2) % 2) + (b % 2) = b % 64
<1> USE DEF Byte
<1>1. 32 * ((b \div 128) % 2) + 16 * ((b \div 64) % 2) + 8 * ((b \div 32) % 2)
      + 4 * ((b \div 16) % 2) + 2 * ((b \div 8) % 2) + ((b \div 4) % 2) = b \div 4
  OBVIOUS
<1>2. 32 * ((b \div 2) % 2) + 16 * (b % 2) = (b % 4) * 16
  OBVIOUS
<1>3. 8 * ((b \div 128) % 2) + 4 * ((b \div 64) % 2) + 2 * ((b \div 32) % 2)
      + ((b \div 16) % 2) = b \div 16
  OBVIOUS
<1>4. 32 * ((b \div 8) % 2) + 16 * ((b \div 4) % 2) + 8 * ((b \div 2) % 2)
      + 4 * (b % 2) = (b % 16) * 4
  OBVIOUS
<1>5. 2 * ((b \div 128) % 2) + ((b \div 64) % 2) = b \div 64
  OBVIOUS
<1>6. 32 * ((b \div 32) % 2) + 16 * ((b \div 16) % 2) + 8 * ((b \div 8) % 2)
      + 4 * ((b \div 4) % 2) + 2 * ((b \div 2) % 2) + (b % 2) = b % 64
  OBVIOUS
<1> QED
  BY <1>1, <1>2, <1>3, <1>4, <1>5, <1>6

\* The four sextets of three bytes.
LEMMA SextetsOfBytes ==
    ASSUME NEW s \in Seq(Byte), NEW q \in Nat
    PROVE  /\ Sextet(s, 4 * q) = ByteAt(s, 3 * q) \div 4
           /\ Sextet(s, 4 * q + 1) = (ByteAt(s, 3 * q) % 4) * 16 + ByteAt(s, 3 * q + 1) \div 16
           /\ Sextet(s, 4 * q + 2) = (ByteAt(s, 3 * q + 1) % 16) * 4 + ByteAt(s, 3 * q + 2) \div 64
           /\ Sextet(s, 4 * q + 3) = ByteAt(s, 3 * q + 2) % 64
<1> DEFINE a == ByteAt(s, 3 * q)
           b == ByteAt(s, 3 * q + 1)
           c == ByteAt(s, 3 * q + 2)
           B(k) == Bit(s, 24 * q + k)
<1>1. /\ a \in Byte
      /\ B(0) = (a \div 128) % 2 /\ B(1) = (a \div 64) % 2 /\ B(2) = (a \div 32) % 2
      /\ B(3) = (a \div 16) % 2 /\ B(4) = (a \div 8) % 2 /\ B(5) = (a \div 4) % 2
      /\ B(6) = (a \div 2) % 2 /\ B(7) = a % 2
  <2> DEFINE m == 3 * q
  <2>1. m \in Nat
    OBVIOUS
  <2>2. /\ 8 * m = 24 * q + 0 /\ 8 * m + 1 = 24 * q + 1 /\ 8 * m + 2 = 24 * q + 2
        /\ 8 * m + 3 = 24 * q + 3 /\ 8 * m + 4 = 24 * q + 4 /\ 8 * m + 5 = 24 * q + 5
        /\ 8 * m + 6 = 24 * q + 6 /\ 8 * m + 7 = 24 * q + 7
    OBVIOUS
  <2>3. a = ByteAt(s, m)
    OBVIOUS
  <2> HIDE DEF m, a
  <2>4. /\ ByteAt(s, m) \in Byte
        /\ Bit(s, 8 * m) = (ByteAt(s, m) \div 128) % 2
        /\ Bit(s, 8 * m + 1) = (ByteAt(s, m) \div 64) % 2
        /\ Bit(s, 8 * m + 2) = (ByteAt(s, m) \div 32) % 2
        /\ Bit(s, 8 * m + 3) = (ByteAt(s, m) \div 16) % 2
        /\ Bit(s, 8 * m + 4) = (ByteAt(s, m) \div 8) % 2
        /\ Bit(s, 8 * m + 5) = (ByteAt(s, m) \div 4) % 2
        /\ Bit(s, 8 * m + 6) = (ByteAt(s, m) \div 2) % 2
        /\ Bit(s, 8 * m + 7) = ByteAt(s, m) % 2
    BY <2>1, BitsOfByte
  <2> QED
    BY <2>2, <2>3, <2>4
<1>2. /\ b \in Byte
      /\ B(8) = (b \div 128) % 2 /\ B(9) = (b \div 64) % 2 /\ B(10) = (b \div 32) % 2
      /\ B(11) = (b \div 16) % 2 /\ B(12) = (b \div 8) % 2 /\ B(13) = (b \div 4) % 2
      /\ B(14) = (b \div 2) % 2 /\ B(15) = b % 2
  <2> DEFINE m == 3 * q + 1
  <2>1. m \in Nat
    OBVIOUS
  <2>2. /\ 8 * m = 24 * q + 8 /\ 8 * m + 1 = 24 * q + 9 /\ 8 * m + 2 = 24 * q + 10
        /\ 8 * m + 3 = 24 * q + 11 /\ 8 * m + 4 = 24 * q + 12 /\ 8 * m + 5 = 24 * q + 13
        /\ 8 * m + 6 = 24 * q + 14 /\ 8 * m + 7 = 24 * q + 15
    OBVIOUS
  <2>3. b = ByteAt(s, m)
    OBVIOUS
  <2> HIDE DEF m, b
  <2>4. /\ ByteAt(s, m) \in Byte
        /\ Bit(s, 8 * m) = (ByteAt(s, m) \div 128) % 2
        /\ Bit(s, 8 * m + 1) = (ByteAt(s, m) \div 64) % 2
        /\ Bit(s, 8 * m + 2) = (ByteAt(s, m) \div 32) % 2
        /\ Bit(s, 8 * m + 3) = (ByteAt(s, m) \div 16) % 2
        /\ Bit(s, 8 * m + 4) = (ByteAt(s, m) \div 8) % 2
        /\ Bit(s, 8 * m + 5) = (ByteAt(s, m) \div 4) % 2
        /\ Bit(s, 8 * m + 6) = (ByteAt(s, m) \div 2) % 2
        /\ Bit(s, 8 * m + 7) = ByteAt(s, m) % 2
    BY <2>1, BitsOfByte
  <2> QED
    BY <2>2, <2>3, <2>4
<1>3. /\ c \in Byte
      /\ B(16) = (c \div 128) % 2 /\ B(17) = (c \div 64) % 2 /\ B(18) = (c \div 32) % 2
      /\ B(19) = (c \div 16) % 2 /\ B(20) = (c \div 8) % 2 /\ B(21) = (c \div 4) % 2
      /\ B(22) = (c \div 2) % 2 /\ B(23) = c % 2
  <2> DEFINE m == 3 * q + 2
  <2>1. m \in Nat
    OBVIOUS
  <2>2. /\ 8 * m = 24 * q + 16 /\ 8 * m + 1 = 24 * q + 17 /\ 8 * m + 2 = 24 * q + 18
        /\ 8 * m + 3 = 24 * q + 19 /\ 8 * m + 4 = 24 * q + 20 /\ 8 * m + 5 = 24 * q + 21
        /\ 8 * m + 6 = 24 * q + 22 /\ 8 * m + 7 = 24 * q + 23
    OBVIOUS
  <2>3. c = ByteAt(s, m)
    OBVIOUS
  <2> HIDE DEF m, c
  <2>4. /\ ByteAt(s, m) \in Byte
        /\ Bit(s, 8 * m) = (ByteAt(s, m) \div 128) % 2
        /\ Bit(s, 8 * m + 1) = (ByteAt(s, m) \div 64) % 2
        /\ Bit(s, 8 * m + 2) = (ByteAt(s, m) \div 32) % 2
        /\ Bit(s, 8 * m + 3) = (ByteAt(s, m) \div 16) % 2
        /\ Bit(s, 8 * m + 4) = (ByteAt(s, m) \div 8) % 2
        /\ Bit(s, 8 * m + 5) = (ByteAt(s, m) \div 4) % 2
        /\ Bit(s, 8 * m + 6) = (ByteAt(s, m) \div 2) % 2
        /\ Bit(s, 8 * m + 7) = ByteAt(s, m) % 2
    BY <2>1, BitsOfByte
  <2> QED
    BY <2>2, <2>3, <2>4
<1>4. /\ Sextet(s, 4 * q) = 32 * B(0) + 16 * B(1) + 8 * B(2) + 4 * B(3) + 2 * B(4) + B(5)
      /\ Sextet(s, 4 * q + 1) = 32 * B(6) + 16 * B(7) + 8 * B(8) + 4 * B(9) + 2 * B(10) + B(11)
      /\ Sextet(s, 4 * q + 2) =
            32 * B(12) + 16 * B(13) + 8 * B(14) + 4 * B(15) + 2 * B(16) + B(17)
      /\ Sextet(s, 4 * q + 3) =
            32 * B(18) + 16 * B(19) + 8 * B(20) + 4 * B(21) + 2 * B(22) + B(23)
  <2>1. /\ 6 * (4 * q) = 24 * q /\ 6 * (4 * q + 1) = 24 * q + 6
        /\ 6 * (4 * q + 2) = 24 * q + 12 /\ 6 * (4 * q + 3) = 24 * q + 18 /\ 24 * q + 0 = 24 * q
    OBVIOUS
  <2>2. \A m \in {0, 6, 12, 18} : \A e \in 0 .. 5 : 24 * q + m + e = 24 * q + (m + e)
    OBVIOUS
  <2> QED
    BY <2>1, <2>2 DEF Sextet
<1> HIDE DEF a, b, c, B
<1>5. a \in Int /\ b \in Int /\ c \in Int
  BY <1>1, <1>2, <1>3 DEF Byte
<1>6. /\ 32 * B(0) + 16 * B(1) + 8 * B(2) + 4 * B(3) + 2 * B(4) + B(5) = a \div 4
      /\ 32 * B(6) + 16 * B(7) = (a % 4) * 16
  BY <1>1, PartsOfByte
<1>7. /\ 8 * B(8) + 4 * B(9) + 2 * B(10) + B(11) = b \div 16
      /\ 32 * B(12) + 16 * B(13) + 8 * B(14) + 4 * B(15) = (b % 16) * 4
  BY <1>2, PartsOfByte
<1>8. /\ 2 * B(16) + B(17) = c \div 64
      /\ 32 * B(18) + 16 * B(19) + 8 * B(20) + 4 * B(21) + 2 * B(22) + B(23) = c % 64
  BY <1>3, PartsOfByte
<1>9. \A x \in Int : /\ (x \div 128) % 2 \in Int /\ (x \div 64) % 2 \in Int
                     /\ (x \div 32) % 2 \in Int /\ (x \div 16) % 2 \in Int
                     /\ (x \div 8) % 2 \in Int /\ (x \div 4) % 2 \in Int
                     /\ (x \div 2) % 2 \in Int /\ x % 2 \in Int
  OBVIOUS
<1>10. Sextet(s, 4 * q + 1) = (a % 4) * 16 + b \div 16
  <2>1. B(6) \in Int /\ B(7) \in Int
    BY <1>1, <1>5, <1>9
  <2>2. B(8) \in Int /\ B(9) \in Int /\ B(10) \in Int /\ B(11) \in Int
    BY <1>2, <1>5, <1>9
  <2>3. 32 * B(6) + 16 * B(7) + 8 * B(8) + 4 * B(9) + 2 * B(10) + B(11)
          = (32 * B(6) + 16 * B(7)) + (8 * B(8) + 4 * B(9) + 2 * B(10) + B(11))
    <3> DEFINE t == B(6)
               u == B(7)
               v == B(8)
               w == B(9)
               x == B(10)
               y == B(11)
    <3>1. t \in Int /\ u \in Int /\ v \in Int /\ w \in Int /\ x \in Int /\ y \in Int
      BY <2>1, <2>2
    <3> HIDE DEF t, u, v, w, x, y
    <3>2. /\ 32 * t + 16 * u + 8 * v + 4 * w + 2 * x + y
               = (32 * t + 16 * u) + (8 * v + 4 * w + 2 * x + y)
          /\ 32 * t + 16 * u + 8 * v + 4 * w + 2 * x + y
               = (32 * t + 16 * u + 8 * v + 4 * w) + (2 * x + y)
      BY <3>1, SumsOfBits
    <3> QED
      BY <3>2, Zenon DEF t, u, v, w, x, y
  <2> QED
    BY <1>4, <1>6, <1>7, <2>3
<1>11. Sextet(s, 4 * q + 2) = (b % 16) * 4 + c \div 64
  <2>1. B(12) \in Int /\ B(13) \in Int /\ B(14) \in Int /\ B(15) \in Int
    BY <1>2, <1>5, <1>9
  <2>2. B(16) \in Int /\ B(17) \in Int
    BY <1>3, <1>5, <1>9
  <2>3. 32 * B(12) + 16 * B(13) + 8 * B(14) + 4 * B(15) + 2 * B(16) + B(17)
          = (32 * B(12) + 16 * B(13) + 8 * B(14) + 4 * B(15)) + (2 * B(16) + B(17))
    <3> DEFINE t == B(12)
               u == B(13)
               v == B(14)
               w == B(15)
               x == B(16)
               y == B(17)
    <3>1. t \in Int /\ u \in Int /\ v \in Int /\ w \in Int /\ x \in Int /\ y \in Int
      BY <2>1, <2>2
    <3> HIDE DEF t, u, v, w, x, y
    <3>2. /\ 32 * t + 16 * u + 8 * v + 4 * w + 2 * x + y
               = (32 * t + 16 * u) + (8 * v + 4 * w + 2 * x + y)
          /\ 32 * t + 16 * u + 8 * v + 4 * w + 2 * x + y
               = (32 * t + 16 * u + 8 * v + 4 * w) + (2 * x + y)
      BY <3>1, SumsOfBits
    <3> QED
      BY <3>2, Zenon DEF t, u, v, w, x, y
  <2> QED
    BY <1>4, <1>7, <1>8, <2>3
<1> QED
  BY <1>4, <1>6, <1>8, <1>10, <1>11 DEF a, b, c

----------------------------------------------------------------------------
(* Base64: encode *)

\* The characters of the reference without padding, the first m of them.
Codes(s) == [i \in Nat |-> CharTable[Sextet(s, i)]]
FirstCodes(codes, m) == [i \in 1 .. m |-> codes[i - 1]]

\* One more character.
LEMMA FirstGrows ==
    ASSUME NEW V, NEW codes \in [Nat -> V], NEW m \in Nat
    PROVE  /\ FirstCodes(codes, m) \in Seq(V)
           /\ FirstCodes(codes, m + 1) = FirstCodes(codes, m) \o <<codes[m]>>
           /\ FirstCodes(codes, m + 2) = FirstCodes(codes, m) \o <<codes[m], codes[m + 1]>>
<1>1. ASSUME NEW n \in Nat
      PROVE  /\ FirstCodes(codes, n) \in Seq(V) /\ Len(FirstCodes(codes, n)) = n
             /\ \A i \in 1 .. n : FirstCodes(codes, n)[i] = codes[i - 1]
  BY DEF FirstCodes
<1>2. m + 1 \in Nat /\ m + 2 \in Nat /\ codes[m] \in V /\ codes[m + 1] \in V
  OBVIOUS
<1> DEFINE f == FirstCodes(codes, m)
           g == FirstCodes(codes, m + 1)
           h == FirstCodes(codes, m + 2)
           c == codes[m]
           d == codes[m + 1]
<1>3. /\ f \in Seq(V) /\ Len(f) = m /\ \A i \in 1 .. m : f[i] = codes[i - 1]
      /\ g \in Seq(V) /\ Len(g) = m + 1 /\ \A i \in 1 .. m + 1 : g[i] = codes[i - 1]
      /\ h \in Seq(V) /\ Len(h) = m + 2 /\ \A i \in 1 .. m + 2 : h[i] = codes[i - 1]
  BY <1>1, <1>2
<1>4. /\ \A i \in 1 .. m : f[i] = codes[i - 1] /\ g[i] = codes[i - 1] /\ h[i] = codes[i - 1]
      /\ g[m + 1] = c /\ h[m + 1] = c /\ h[m + 2] = d
  <2>1. /\ \A i \in 1 .. m : i \in 1 .. m + 1 /\ i \in 1 .. m + 2
        /\ m + 1 \in 1 .. m + 1 /\ m + 1 \in 1 .. m + 2 /\ m + 2 \in 1 .. m + 2
        /\ (m + 1) - 1 = m /\ (m + 2) - 1 = m + 1
    OBVIOUS
  <2> HIDE DEF f, g, h
  <2> QED
    BY <1>3, <2>1
<1> HIDE DEF f, g, h, c, d
<1>5. c \in V /\ d \in V
  BY <1>2 DEF c, d
<1>6. g = f \o <<c>>
  BY <1>3, <1>4, <1>5
<1>7. h = f \o <<c, d>>
  BY <1>3, <1>4, <1>5
<1> QED
  BY <1>3, <1>6, <1>7 DEF f, g, h, c, d

\* What encode has written and carries over after k characters.
Carry(s, k) ==
    CASE k % 3 = 0 -> 0
      [] k % 3 = 1 -> (s[k] % 4) * 16
      [] k % 3 = 2 -> (s[k] % 16) * 4

EncodeState(s, k) ==
    [pos |-> k, next |-> Carry(s, k), ret |-> FirstCodes(Codes(s), (8 * k) \div 6)]

\* The loop body, case by case.
LEMMA EncodeBaseIs ==
    ASSUME NEW st, st.pos \in Nat, NEW cur
    PROVE  EncodeBase(st, cur) =
             [pos |-> st.pos + 1,
              next |-> CASE st.pos % 3 = 0 -> (cur % 4) * 16
                         [] st.pos % 3 = 1 -> (cur % 16) * 4
                         [] st.pos % 3 = 2 -> 0,
              ret |-> CASE st.pos % 3 = 0 -> st.ret \o <<CharTable[cur \div 4]>>
                        [] st.pos % 3 = 1 -> st.ret \o <<CharTable[st.next + cur \div 16]>>
                        [] st.pos % 3 = 2 -> st.ret \o <<CharTable[st.next + cur \div 64],
                                                         CharTable[cur % 64]>>]
<1>1. \A x : [i \in DOMAIN <<x>> |-> CharTable[<<x>>[i]]] = <<CharTable[x]>>
  OBVIOUS
<1>2. \A x, y : [i \in DOMAIN <<x, y>> |-> CharTable[<<x, y>>[i]]] = <<CharTable[x], CharTable[y]>>
  OBVIOUS
<1> QED
  BY <1>1, <1>2, Zenon DEF EncodeBase

\* One character takes encode from one of these states to the next.
LEMMA EncodeStep ==
    ASSUME NEW s \in Seq(Byte), NEW k \in 0 .. Len(s) - 1
    PROVE  EncodeBase(EncodeState(s, k), s[k + 1]) = EncodeState(s, k + 1)
<1> DEFINE cur == s[k + 1]
           st == EncodeState(s, k)
           C == Codes(s)
           V == {C[i] : i \in Nat}
<1>1. k \in Nat /\ k + 1 \in 1 .. Len(s) /\ cur \in Byte /\ k + 1 \in Nat
  OBVIOUS
<1>2. C \in [Nat -> V] /\ \A i \in Nat : C[i] = CharTable[Sextet(s, i)]
  BY DEF Codes
<1>3. st.pos = k /\ st.next = Carry(s, k) /\ st.ret = FirstCodes(C, (8 * k) \div 6)
  BY DEF EncodeState
<1> DEFINE e == EncodeBase(st, cur)
<1>4. e = [pos |-> st.pos + 1,
           next |-> CASE st.pos % 3 = 0 -> (cur % 4) * 16
                      [] st.pos % 3 = 1 -> (cur % 16) * 4
                      [] st.pos % 3 = 2 -> 0,
           ret |-> CASE st.pos % 3 = 0 -> st.ret \o <<CharTable[cur \div 4]>>
                     [] st.pos % 3 = 1 -> st.ret \o <<CharTable[st.next + cur \div 16]>>
                     [] st.pos % 3 = 2 -> st.ret \o <<CharTable[st.next + cur \div 64],
                                                      CharTable[cur % 64]>>]
  <2> HIDE DEF st, cur
  <2> QED
    BY <1>1, <1>3, EncodeBaseIs, Zenon
<1>5. ByteAt(s, k) = cur /\ cur \in Int
  <2>1. Len(s) \in Nat /\ k < Len(s)
    OBVIOUS
  <2>2. ByteAt(s, k) = cur
    BY <2>1 DEF ByteAt
  <2> HIDE DEF cur
  <2>3. cur \in Int
    BY <1>1 DEF Byte
  <2> QED
    BY <2>2, <2>3
<1>6. EncodeState(s, k + 1) =
        [pos |-> k + 1, next |-> Carry(s, k + 1), ret |-> FirstCodes(C, (8 * (k + 1)) \div 6)]
  BY Zenon DEF EncodeState
<1>7. PICK q \in Nat : k = 3 * q \/ k = 3 * q + 1 \/ k = 3 * q + 2
  <2>1. k \div 3 \in Nat /\ (k = 3 * (k \div 3) \/ k = 3 * (k \div 3) + 1 \/ k = 3 * (k \div 3) + 2)
    BY <1>1
  <2> QED
    BY <2>1
<1>8. /\ C[4 * q] = CharTable[ByteAt(s, 3 * q) \div 4]
      /\ C[4 * q + 1] = CharTable[(ByteAt(s, 3 * q) % 4) * 16 + ByteAt(s, 3 * q + 1) \div 16]
      /\ C[4 * q + 2] = CharTable[(ByteAt(s, 3 * q + 1) % 16) * 4 + ByteAt(s, 3 * q + 2) \div 64]
      /\ C[4 * q + 3] = CharTable[ByteAt(s, 3 * q + 2) % 64]
  <2>1. 4 * q \in Nat /\ 4 * q + 1 \in Nat /\ 4 * q + 2 \in Nat /\ 4 * q + 3 \in Nat
    OBVIOUS
  <2>2. /\ Sextet(s, 4 * q) = ByteAt(s, 3 * q) \div 4
        /\ Sextet(s, 4 * q + 1) = (ByteAt(s, 3 * q) % 4) * 16 + ByteAt(s, 3 * q + 1) \div 16
        /\ Sextet(s, 4 * q + 2) = (ByteAt(s, 3 * q + 1) % 16) * 4 + ByteAt(s, 3 * q + 2) \div 64
        /\ Sextet(s, 4 * q + 3) = ByteAt(s, 3 * q + 2) % 64
    BY SextetsOfBytes
  <2> HIDE DEF C, V
  <2> QED
    BY <1>2, <2>1, <2>2
<1> HIDE DEF C, V, st, cur, e
<1> DEFINE Pick(m, x, y, z) == CASE m = 0 -> x [] m = 1 -> y [] m = 2 -> z
<1>p. \A m, x, y, z : /\ m = 0 => Pick(m, x, y, z) = x
                      /\ m = 1 => Pick(m, x, y, z) = y
                      /\ m = 2 => Pick(m, x, y, z) = z
  OBVIOUS
<1>r. e = [pos |-> st.pos + 1,
           next |-> Pick(st.pos % 3, (cur % 4) * 16, (cur % 16) * 4, 0),
           ret |-> Pick(st.pos % 3, st.ret \o <<CharTable[cur \div 4]>>,
                        st.ret \o <<CharTable[st.next + cur \div 16]>>,
                        st.ret \o <<CharTable[st.next + cur \div 64], CharTable[cur % 64]>>)]
  BY <1>4, Zenon
<1> HIDE DEF Pick
<1>9. CASE k = 3 * q
  <2>1. /\ k % 3 = 0 /\ (k + 1) % 3 = 1 /\ (8 * k) \div 6 = 4 * q
        /\ (8 * (k + 1)) \div 6 = 4 * q + 1 /\ 4 * q \in Nat
    BY <1>9
  <2>2. e = [pos |-> k + 1, next |-> (cur % 4) * 16,
             ret |-> FirstCodes(C, 4 * q) \o <<CharTable[cur \div 4]>>]
    <3>1. st.pos % 3 = 0 /\ st.pos + 1 = k + 1 /\ st.next = Carry(s, k)
          /\ st.ret = FirstCodes(C, 4 * q)
      BY <1>3, <2>1
    <3>2. \A x, y, z : Pick(st.pos % 3, x, y, z) = x
      BY <1>p, <3>1
    <3> QED
      BY <1>r, <3>1, <3>2, Zenon
  <2>3. C[4 * q] = CharTable[cur \div 4]
    BY <1>5, <1>8, <1>9
  <2>4. FirstCodes(C, 4 * q + 1) = FirstCodes(C, 4 * q) \o <<C[4 * q]>>
    BY <1>2, <2>1, FirstGrows
  <2>5. Carry(s, k + 1) = (cur % 4) * 16
    BY <2>1 DEF Carry, cur
  <2>6. e = EncodeState(s, k + 1)
    BY <1>6, <2>1, <2>2, <2>3, <2>4, <2>5, Zenon
  <2> QED
    BY <2>6 DEF e, st, cur
<1>10. CASE k = 3 * q + 1
  <2>1. /\ k % 3 = 1 /\ (k + 1) % 3 = 2 /\ (8 * k) \div 6 = 4 * q + 1
        /\ (8 * (k + 1)) \div 6 = (4 * q + 1) + 1 /\ 4 * q + 1 \in Nat
    BY <1>10
  <2>2. e = [pos |-> k + 1, next |-> (cur % 16) * 4,
             ret |-> FirstCodes(C, 4 * q + 1) \o <<CharTable[Carry(s, k) + cur \div 16]>>]
    <3>1. st.pos % 3 = 1 /\ st.pos + 1 = k + 1 /\ st.next = Carry(s, k)
          /\ st.ret = FirstCodes(C, 4 * q + 1)
      BY <1>3, <2>1
    <3>2. \A x, y, z : Pick(st.pos % 3, x, y, z) = y
      BY <1>p, <3>1
    <3>3. st.ret \o <<CharTable[st.next + cur \div 16]>>
            = FirstCodes(C, 4 * q + 1) \o <<CharTable[Carry(s, k) + cur \div 16]>>
      BY <3>1, Zenon
    <3>4. Pick(st.pos % 3, (cur % 4) * 16, (cur % 16) * 4, 0) = (cur % 16) * 4
      BY <3>2, Zenon
    <3> DEFINE x == st.ret \o <<CharTable[cur \div 4]>>
               y == st.ret \o <<CharTable[st.next + cur \div 16]>>
               z == st.ret \o <<CharTable[st.next + cur \div 64], CharTable[cur % 64]>>
    <3>5. Pick(st.pos % 3, x, y, z) = y
      <4> HIDE DEF x, y, z
      <4> QED
        BY <3>2, Zenon
    <3>6. st.pos + 1 = k + 1
      BY <3>1
    <3> QED
      BY <1>r, <3>3, <3>4, <3>5, <3>6, Zenon
  <2>3. Carry(s, k) = (ByteAt(s, 3 * q) % 4) * 16
    <3>1. 3 * q < Len(s) /\ s[3 * q + 1] = ByteAt(s, 3 * q)
      BY <1>1, <1>10 DEF ByteAt
    <3> QED
      BY <1>10, <2>1, <3>1 DEF Carry
  <2>4. C[4 * q + 1] = CharTable[Carry(s, k) + cur \div 16]
    BY <1>5, <1>8, <1>10, <2>3
  <2>5. FirstCodes(C, (4 * q + 1) + 1) = FirstCodes(C, 4 * q + 1) \o <<C[4 * q + 1]>>
    BY <1>2, <2>1, FirstGrows
  <2>6. Carry(s, k + 1) = (cur % 16) * 4
    BY <2>1 DEF Carry, cur
  <2>7. e = EncodeState(s, k + 1)
    <3>1. FirstCodes(C, (8 * (k + 1)) \div 6)
            = FirstCodes(C, 4 * q + 1) \o <<CharTable[Carry(s, k) + cur \div 16]>>
      BY <2>1, <2>4, <2>5, Zenon
    <3> QED
      BY <1>6, <2>2, <2>6, <3>1, Zenon
  <2> QED
    BY <2>7 DEF e, st, cur
<1>11. CASE k = 3 * q + 2
  <2>1. /\ k % 3 = 2 /\ (k + 1) % 3 = 0 /\ (8 * k) \div 6 = 4 * q + 2
        /\ (8 * (k + 1)) \div 6 = (4 * q + 2) + 2 /\ 4 * q + 2 \in Nat /\ (4 * q + 2) + 1 = 4 * q + 3
    BY <1>11
  <2>2. e = [pos |-> k + 1, next |-> 0,
             ret |-> FirstCodes(C, 4 * q + 2) \o <<CharTable[Carry(s, k) + cur \div 64],
                                              CharTable[cur % 64]>>]
    <3>1. st.pos % 3 = 2 /\ st.pos + 1 = k + 1 /\ st.next = Carry(s, k)
          /\ st.ret = FirstCodes(C, 4 * q + 2)
      BY <1>3, <2>1
    <3>2. \A x, y, z : Pick(st.pos % 3, x, y, z) = z
      BY <1>p, <3>1
    <3>3. st.ret \o <<CharTable[st.next + cur \div 64], CharTable[cur % 64]>>
            = FirstCodes(C, 4 * q + 2) \o <<CharTable[Carry(s, k) + cur \div 64], CharTable[cur % 64]>>
      BY <3>1, Zenon
    <3>4. Pick(st.pos % 3, (cur % 4) * 16, (cur % 16) * 4, 0) = 0
      BY <3>2, Zenon
    <3> DEFINE x == st.ret \o <<CharTable[cur \div 4]>>
               y == st.ret \o <<CharTable[st.next + cur \div 16]>>
               z == st.ret \o <<CharTable[st.next + cur \div 64], CharTable[cur % 64]>>
    <3>5. Pick(st.pos % 3, x, y, z) = z
      <4> HIDE DEF x, y, z
      <4> QED
        BY <3>2, Zenon
    <3>6. st.pos + 1 = k + 1
      BY <3>1
    <3> QED
      BY <1>r, <3>3, <3>4, <3>5, <3>6, Zenon
  <2>3. Carry(s, k) = (ByteAt(s, 3 * q + 1) % 16) * 4
    <3>1. 3 * q + 1 < Len(s) /\ s[(3 * q + 1) + 1] = ByteAt(s, 3 * q + 1) /\ k = (3 * q + 1) + 1
      BY <1>1, <1>11 DEF ByteAt
    <3> QED
      BY <2>1, <3>1 DEF Carry
  <2>4. /\ C[4 * q + 2] = CharTable[Carry(s, k) + cur \div 64]
        /\ C[4 * q + 3] = CharTable[cur % 64]
    BY <1>5, <1>8, <1>11, <2>3
  <2>5. FirstCodes(C, (4 * q + 2) + 2) = FirstCodes(C, 4 * q + 2) \o <<C[4 * q + 2], C[(4 * q + 2) + 1]>>
    BY <1>2, <2>1, FirstGrows
  <2>6. Carry(s, k + 1) = 0
    <3>1. Carry(s, k + 1) = Pick((k + 1) % 3, 0, (s[k + 1] % 4) * 16, (s[k + 1] % 16) * 4)
      BY Zenon DEF Carry, Pick
    <3> QED
      BY <1>p, <2>1, <3>1
  <2>7. e = EncodeState(s, k + 1)
    <3>1. FirstCodes(C, (8 * (k + 1)) \div 6)
            = FirstCodes(C, 4 * q + 2) \o <<CharTable[Carry(s, k) + cur \div 64], CharTable[cur % 64]>>
      BY <2>1, <2>4, <2>5, Zenon
    <3> QED
      BY <1>6, <2>2, <2>6, <3>1, Zenon
  <2> QED
    BY <2>7 DEF e, st, cur
<1> QED
  BY <1>7, <1>9, <1>10, <1>11

\* The type of the state of the loop: what it writes are entries of the table.
TableEntry == {CharTable[x] : x \in Int}
EncodeLoopState == [pos : Nat, next : Int, ret : Seq(TableEntry)]

\* Each character leaves a state of this type.
LEMMA EncodeBaseType ==
    ASSUME NEW st \in EncodeLoopState, NEW cur \in Byte
    PROVE  EncodeBase(st, cur) \in EncodeLoopState
<1>1. /\ st.pos \in Nat /\ st.next \in Int /\ st.ret \in Seq(TableEntry)
  BY DEF EncodeLoopState
<1>2. cur \in Int
  BY DEF Byte
<1> DEFINE w == CharTable[cur \div 4]
           x == CharTable[st.next + cur \div 16]
           y == CharTable[st.next + cur \div 64]
           z == CharTable[cur % 64]
           pos == st.pos
           next == st.next
           ret == st.ret
           u == (cur % 4) * 16
           v == (cur % 16) * 4
<1>3. w \in TableEntry /\ x \in TableEntry /\ y \in TableEntry /\ z \in TableEntry
  <2>1. /\ cur \div 4 \in Int /\ st.next + cur \div 16 \in Int
        /\ st.next + cur \div 64 \in Int /\ cur % 64 \in Int
    <3>1. cur \div 4 \in Int /\ cur \div 16 \in Int /\ cur \div 64 \in Int /\ cur % 64 \in Int
      BY <1>2
    <3> QED
      BY <1>1, <3>1
  <2>2. \A i \in Int : CharTable[i] \in TableEntry
    BY DEF TableEntry
  <2> QED
    BY <2>1, <2>2, Zenon
<1>4. u \in Int /\ v \in Int
  BY <1>2
<1>5. EncodeBase(st, cur) =
        [pos |-> pos + 1,
         next |-> CASE pos % 3 = 0 -> u [] pos % 3 = 1 -> v [] pos % 3 = 2 -> 0,
         ret |-> CASE pos % 3 = 0 -> ret \o <<w>>
                   [] pos % 3 = 1 -> ret \o <<x>>
                   [] pos % 3 = 2 -> ret \o <<y, z>>]
  BY <1>1, EncodeBaseIs, Zenon
<1>6. pos \in Nat /\ ret \in Seq(TableEntry)
  BY <1>1
<1> HIDE DEF u, v, w, x, y, z, pos, next, ret, TableEntry
<1>7. pos + 1 \in Nat /\ (pos % 3 = 0 \/ pos % 3 = 1 \/ pos % 3 = 2)
  BY <1>6
<1>8. (CASE pos % 3 = 0 -> u [] pos % 3 = 1 -> v [] pos % 3 = 2 -> 0) \in Int
  BY <1>4, <1>7
<1>9. ret \o <<w>> \in Seq(TableEntry) /\ ret \o <<x>> \in Seq(TableEntry) /\ ret \o <<y, z>> \in Seq(TableEntry)
  BY <1>3, <1>6
<1>10. (CASE pos % 3 = 0 -> ret \o <<w>>
          [] pos % 3 = 1 -> ret \o <<x>>
          [] pos % 3 = 2 -> ret \o <<y, z>>) \in Seq(TableEntry)
  <2> DEFINE f == ret \o <<w>>
             g == ret \o <<x>>
             h == ret \o <<y, z>>
  <2> HIDE DEF f, g, h
  <2>1. f \in Seq(TableEntry) /\ g \in Seq(TableEntry) /\ h \in Seq(TableEntry)
    BY <1>9 DEF f, g, h
  <2>2. (CASE pos % 3 = 0 -> f [] pos % 3 = 1 -> g [] pos % 3 = 2 -> h) \in Seq(TableEntry)
    <3> DEFINE Q == Seq(TableEntry)
    <3> HIDE DEF Q
    <3>1. f \in Q /\ g \in Q /\ h \in Q
      BY <2>1 DEF Q
    <3>2. (CASE pos % 3 = 0 -> f [] pos % 3 = 1 -> g [] pos % 3 = 2 -> h) \in Q
      BY <1>7, <3>1
    <3> QED
      BY <3>2 DEF Q
  <2> QED
    BY <2>2 DEF f, g, h
<1>11. \A i \in Nat : \A j \in Int : \A r \in Seq(TableEntry) :
          [pos |-> i, next |-> j, ret |-> r] \in EncodeLoopState
  BY Zenon DEF EncodeLoopState
<1> QED
  BY <1>5, <1>7, <1>8, <1>10, <1>11, Zenon

\* The recursion that the loop over the input is the result of.
EncodeStart == [pos |-> 0, next |-> 0, ret |-> <<>>]
EncodeRecursion(it, n, s) ==
    it = [t \in SUBSET (1 .. n) |->
            IF t = {} THEN [pos |-> 0, next |-> 0, ret |-> <<>>]
            ELSE EncodeBase(it[t \ {Max(t)}], s[Max(t)])]

\* After the loop the whole input is written, up to what is carried over.
LEMMA EncodeLoopIs ==
    ASSUME NEW s \in Seq(Byte)
    PROVE  FoldLeft(EncodeBase, [pos |-> 0, next |-> 0, ret |-> <<>>], s) = EncodeState(s, Len(s))
<1> DEFINE n == Len(s)
           F == [p \in EncodeLoopState \X (1 .. n) |-> EncodeBase(p[1], s[p[2]])]
           it == CHOOSE h : EncodeRecursion(h, n, s)
<1>1. n \in Nat /\ DOMAIN s = 1 .. n /\ \A i \in 1 .. n : s[i] \in Byte
  OBVIOUS
<1>2. FoldLeft(EncodeBase, [pos |-> 0, next |-> 0, ret |-> <<>>], s) = it[1 .. n]
  BY <1>1, Zenon DEF FoldLeft, MapThenFoldSet, EncodeRecursion
<1> HIDE DEF it, n
<1>3. F \in [EncodeLoopState \X (1 .. n) -> EncodeLoopState]
  <2>1. \A v \in EncodeLoopState : \A i \in 1 .. n : EncodeBase(v, s[i]) \in EncodeLoopState
    BY <1>1, EncodeBaseType
  <2> QED
    BY <2>1
<1> HIDE DEF F
<1>4. EncodeStart \in EncodeLoopState
  <2>1. 0 \in Nat /\ 0 \in Int /\ <<>> \in Seq(TableEntry)
    OBVIOUS
  <2> QED
    BY <2>1, Zenon DEF EncodeStart, EncodeLoopState
<1>5. PICK h \in [SUBSET (1 .. n) -> EncodeLoopState] : FoldRecursion(h, n, EncodeStart, F)
  BY <1>1, <1>3, <1>4, FoldExists
<1>6. EncodeRecursion(h, n, s)
  <2>1. ASSUME NEW t \in SUBSET (1 .. n), t # {}
        PROVE  F[<<h[t \ {Max(t)}], Max(t)>>] = EncodeBase(h[t \ {Max(t)}], s[Max(t)])
    <3>1. Max(t) \in 1 .. n
      BY <1>1, <2>1, MaxOfIndices
    <3>2. h[t \ {Max(t)}] \in EncodeLoopState
      OBVIOUS
    <3> QED
      BY <3>1, <3>2 DEF F
  <2> QED
    BY <1>5, <2>1, Zenon DEF EncodeRecursion, FoldRecursion, EncodeStart
<1>7. EncodeRecursion(it, n, s)
  BY <1>6 DEF it
<1> DEFINE S == {k \in 0 .. n : it[1 .. k] = EncodeState(s, k)}
<1>8. 0 \in S
  <2>1. 1 .. 0 = {} /\ {} \in SUBSET (1 .. n)
    OBVIOUS
  <2>2. it[{}] = [pos |-> 0, next |-> 0, ret |-> <<>>]
    BY <1>7, <2>1, Zenon DEF EncodeRecursion
  <2>3. 0 % 3 = 0 /\ (8 * 0) \div 6 = 0 /\ 0 \in 0 .. n
    BY <1>1
  <2>4. Carry(s, 0) = 0
    <3>1. \A m, x, y : m = 0 => (CASE m = 0 -> 0 [] m = 1 -> x [] m = 2 -> y) = 0
      OBVIOUS
    <3> QED
      BY <2>3, <3>1, Zenon DEF Carry
  <2>5. FirstCodes(Codes(s), 0) = <<>>
    BY <2>1 DEF FirstCodes
  <2>6. EncodeState(s, 0) = [pos |-> 0, next |-> 0, ret |-> <<>>]
    BY <2>3, <2>4, <2>5, Zenon DEF EncodeState
  <2> QED
    BY <2>1, <2>2, <2>3, <2>6
<1>9. ASSUME NEW k \in 0 .. n - 1, k \in S PROVE k + 1 \in S
  <2>1. /\ Max(1 .. k + 1) = k + 1 /\ (1 .. k + 1) \ {Max(1 .. k + 1)} = 1 .. k
        /\ 1 .. k + 1 \in SUBSET (1 .. n) /\ 1 .. k + 1 # {} /\ k + 1 \in 1 .. n
    BY <1>1, NextPrefix
  <2>2. it[1 .. k + 1] = EncodeBase(it[1 .. k], s[k + 1])
    <3> DEFINE t == 1 .. k + 1
    <3>1. it[t] = EncodeBase(it[t \ {Max(t)}], s[Max(t)])
      BY <1>7, <2>1, Zenon DEF EncodeRecursion
    <3>2. Max(t) = k + 1 /\ t \ {Max(t)} = 1 .. k
      BY <2>1
    <3> HIDE DEF t
    <3>3. it[t] = EncodeBase(it[1 .. k], s[k + 1])
      BY <3>1, <3>2, Zenon
    <3> QED
      BY <3>3 DEF t
  <2>3. it[1 .. k] = EncodeState(s, k)
    BY <1>9
  <2>4. EncodeBase(EncodeState(s, k), s[k + 1]) = EncodeState(s, k + 1)
    BY EncodeStep DEF n
  <2>5. it[1 .. k + 1] = EncodeState(s, k + 1) /\ k + 1 \in 0 .. n
    BY <1>1, <2>2, <2>3, <2>4
  <2> QED
    BY <2>5
<1>10. n \in S
  <2> HIDE DEF S
  <2>1. \A k \in 0 .. n - 1 : k \in S => k + 1 \in S
    BY <1>9
  <2>2. \A k \in 0 .. n : k \in S
    BY <1>1, <1>8, <2>1, RangeInduction, Zenon
  <2> QED
    BY <1>1, <2>2
<1> QED
  BY <1>2, <1>10 DEF n

\* m characters, one more and p of padding.
WithPadding(codes, m, p) ==
    [i \in 1 .. m + 1 + p |-> IF i <= m + 1 THEN codes[i - 1] ELSE Pad]

\* The last character and the padding.
LEMMA Padded ==
    ASSUME NEW V, Pad \in V, NEW codes \in [Nat -> V], NEW m \in Nat, NEW p \in Nat, NEW c,
           c = codes[m]
    PROVE  Append(FirstCodes(codes, m), c) \o [i \in 1 .. p |-> Pad] = WithPadding(codes, m, p)
<1> DEFINE f == FirstCodes(codes, m)
           g == Append(f, codes[m])
           pads == [i \in 1 .. p |-> Pad]
           h == g \o pads
           r == [i \in 1 .. m + 1 + p |-> IF i <= m + 1 THEN codes[i - 1] ELSE Pad]
<1>1. f \in Seq(V) /\ Len(f) = m /\ \A i \in 1 .. m : f[i] = codes[i - 1]
  BY DEF FirstCodes
<1>2. codes[m] \in V /\ m + 1 \in Nat /\ (m + 1) - 1 = m
  OBVIOUS
<1> HIDE DEF f
<1>3. g \in Seq(V) /\ Len(g) = m + 1 /\ (\A i \in 1 .. m : g[i] = f[i]) /\ g[m + 1] = codes[m]
  BY <1>1, <1>2
<1>4. \A i \in 1 .. m + 1 : g[i] = codes[i - 1]
  <2> HIDE DEF g
  <2>1. \A i \in 1 .. m + 1 : i \in 1 .. m \/ i = m + 1
    OBVIOUS
  <2> QED
    BY <1>1, <1>2, <1>3, <2>1
<1>5. pads \in Seq(V) /\ Len(pads) = p /\ \A i \in 1 .. p : pads[i] = Pad
  OBVIOUS
<1> HIDE DEF g, pads
<1>6. /\ h \in Seq(V) /\ Len(h) = Len(g) + Len(pads)
      /\ \A i \in 1 .. Len(g) + Len(pads) :
            h[i] = IF i <= Len(g) THEN g[i] ELSE pads[i - Len(g)]
  <2>1. g \in Seq(V) /\ pads \in Seq(V)
    BY <1>3, <1>5
  <2> QED
    BY <2>1, ConcatProperties, Zenon
<1> HIDE DEF h
<1>7. Len(h) = m + 1 + p /\ \A i \in 1 .. m + 1 + p :
            h[i] = IF i <= m + 1 THEN g[i] ELSE pads[i - (m + 1)]
  BY <1>3, <1>5, <1>6
<1>8. ASSUME NEW i \in 1 .. m + 1 + p PROVE h[i] = IF i <= m + 1 THEN codes[i - 1] ELSE Pad
  <2>1. CASE i <= m + 1
    <3>1. i \in 1 .. m + 1
      BY <2>1
    <3> QED
      BY <1>4, <1>7, <2>1, <3>1
  <2>2. CASE ~ (i <= m + 1)
    <3>1. i - (m + 1) \in 1 .. p
      BY <2>2
    <3> QED
      BY <1>5, <1>7, <2>2, <3>1
  <2> QED
    BY <2>1, <2>2
<1>9. h = r
  <2>1. DOMAIN h = 1 .. m + 1 + p /\ h = [i \in DOMAIN h |-> h[i]]
    BY <1>6, <1>7
  <2> QED
    BY <1>8, <2>1, Zenon
<1> QED
  BY <1>9, Zenon DEF f, g, pads, h, r, WithPadding

\* What is carried over after the last character are the bits of the character that
\* is missing.
LEMMA CarryIsNext ==
    ASSUME NEW s \in Seq(Byte), Len(s) % 3 # 0
    PROVE  Sextet(s, (8 * Len(s)) \div 6) = Carry(s, Len(s))
<1> DEFINE n == Len(s)
           Pick(m, x, y, z) == CASE m = 0 -> x [] m = 1 -> y [] m = 2 -> z
<1>1. n \in Nat /\ \A b \in Byte : b \in Int
  BY DEF Byte
<1>2. PICK q \in Nat : n = 3 * q + 1 \/ n = 3 * q + 2
  <2>1. n \div 3 \in Nat /\ (n = 3 * (n \div 3) + 1 \/ n = 3 * (n \div 3) + 2)
    BY <1>1
  <2> QED
    BY <2>1
<1>3. /\ Sextet(s, 4 * q + 1) = (ByteAt(s, 3 * q) % 4) * 16 + ByteAt(s, 3 * q + 1) \div 16
      /\ Sextet(s, 4 * q + 2) = (ByteAt(s, 3 * q + 1) % 16) * 4 + ByteAt(s, 3 * q + 2) \div 64
  BY SextetsOfBytes
<1>4. \A m, x, y, z : (m = 1 => Pick(m, x, y, z) = y) /\ (m = 2 => Pick(m, x, y, z) = z)
  OBVIOUS
<1>5. Carry(s, n) = Pick(n % 3, 0, (s[n] % 4) * 16, (s[n] % 16) * 4)
  BY Zenon DEF Carry
<1> HIDE DEF Pick
<1>6. CASE n = 3 * q + 1
  <2>1. n % 3 = 1 /\ (8 * n) \div 6 = 4 * q + 1
    BY <1>6
  <2>2. ByteAt(s, 3 * q) = s[n] /\ ByteAt(s, 3 * q + 1) = 0 /\ s[n] \in Int
    <3>1. s[n] \in Byte /\ 3 * q < n /\ ~ (3 * q + 1 < n)
      BY <1>6
    <3>2. s[n] \in Int
      BY <1>1, <3>1, Zenon
    <3> QED
      BY <1>6, <3>1, <3>2 DEF ByteAt
  <2>3. Carry(s, n) = (s[n] % 4) * 16
    BY <1>4, <1>5, <2>1
  <2>4. (s[n] % 4) * 16 + 0 \div 16 = (s[n] % 4) * 16
    BY <2>2
  <2> QED
    BY <1>3, <2>1, <2>2, <2>3, <2>4
<1>7. CASE n = 3 * q + 2
  <2>1. n % 3 = 2 /\ (8 * n) \div 6 = 4 * q + 2
    BY <1>7
  <2>2. ByteAt(s, 3 * q + 1) = s[n] /\ ByteAt(s, 3 * q + 2) = 0 /\ s[n] \in Int
    <3>1. s[n] \in Byte /\ 3 * q + 1 < n /\ ~ (3 * q + 2 < n) /\ (3 * q + 1) + 1 = n
      BY <1>7
    <3>2. s[n] \in Int
      BY <1>1, <3>1, Zenon
    <3> QED
      BY <1>7, <3>1, <3>2 DEF ByteAt
  <2>3. Carry(s, n) = (s[n] % 16) * 4
    BY <1>4, <1>5, <2>1
  <2>4. (s[n] % 16) * 4 + 0 \div 64 = (s[n] % 16) * 4
    BY <2>2
  <2> QED
    BY <1>3, <2>1, <2>2, <2>3, <2>4
<1> QED
  BY <1>2, <1>6, <1>7

\* The characters that stand for the bits of a string.
UsedChars(s) == (8 * Len(s) + 5) \div 6

\* What encode writes: the characters of the bits in groups of six, and the padding
\* if it is asked for.
LEMMA EncodeIs ==
    ASSUME NEW s \in Seq(Byte), NEW padding \in BOOLEAN
    PROVE  /\ Len(s) % 3 = 0 => Encode(s, padding) = FirstCodes(Codes(s), UsedChars(s))
           /\ Len(s) % 3 # 0 =>
                 /\ UsedChars(s) - 1 \in Nat
                 /\ Encode(s, padding) =
                      WithPadding(Codes(s), UsedChars(s) - 1, IF padding THEN 3 - (Len(s) % 3) ELSE 0)
<1> DEFINE n == Len(s)
           C == Codes(s)
           V == {C[i] : i \in Nat} \cup {Pad}
           st == EncodeState(s, n)
           p == IF padding THEN 3 - (n % 3) ELSE 0
           m == (8 * n) \div 6
<1>1. n \in Nat /\ m \in Nat
  OBVIOUS
<1>2. C \in [Nat -> V] /\ Pad \in V /\ \A i \in Nat : C[i] = CharTable[Sextet(s, i)]
  BY DEF Codes
<1>3. Encode(s, padding) = EncodeLast(st, padding)
  BY EncodeLoopIs, Zenon DEF Encode
<1>4. st.pos = n /\ st.next = Carry(s, n) /\ st.ret = FirstCodes(C, m)
  BY DEF EncodeState
<1>5. EncodeLast(st, padding) =
        IF n % 3 = 0 THEN FirstCodes(C, m)
        ELSE Append(FirstCodes(C, m), CharTable[Carry(s, n)]) \o [i \in 1 .. p |-> Pad]
  <2> HIDE DEF st, m
  <2> QED
    BY <1>4, Zenon DEF EncodeLast
<1>6. CASE n % 3 = 0
  <2>1. m = UsedChars(s)
    BY <1>1, <1>6 DEF UsedChars
  <2> HIDE DEF n, C, m
  <2>2. Encode(s, padding) = FirstCodes(C, UsedChars(s))
    BY <1>3, <1>5, <1>6, <2>1, Zenon
  <2> QED
    BY <1>6, <2>2 DEF n, C
<1>7. CASE n % 3 # 0
  <2>1. m = UsedChars(s) - 1
    BY <1>1, <1>7 DEF UsedChars
  <2>2. Sextet(s, m) = Carry(s, n)
    BY <1>1, <1>7, CarryIsNext
  <2>3. CharTable[Carry(s, n)] = C[m]
    <3> HIDE DEF C, V, m
    <3> QED
      BY <1>1, <1>2, <2>2
  <2>4. p \in Nat
    BY <1>1
  <2> HIDE DEF C, V, m, p, n
  <2>5. Append(FirstCodes(C, m), CharTable[Carry(s, n)]) \o [i \in 1 .. p |-> Pad] = WithPadding(C, m, p)
    BY <1>1, <1>2, <2>3, <2>4, Padded, Zenon
  <2>6. Encode(s, padding) = WithPadding(C, UsedChars(s) - 1, p)
    BY <1>3, <1>5, <1>7, <2>1, <2>5, Zenon
  <2> QED
    BY <1>1, <1>7, <2>1, <2>6 DEF n, C, p
<1> QED
  BY <1>6, <1>7

\* encode writes what RFC 4648 says, for every string: the characters of its bits in
\* groups of six, and the padding.
THEOREM EncodeIsRfc4648 ==
    ASSUME NEW s \in Seq(Byte)
    PROVE  Encode(s, TRUE) = Rfc4648(s)
<1> DEFINE n == Len(s)
           C == Codes(s)
           V == {C[i] : i \in Nat}
           u == UsedChars(s)
           all == 4 * ((n + 2) \div 3)
           Rest(m, p) == [i \in 1 .. m + 1 + p |-> IF i <= m + 1 THEN C[i - 1] ELSE Pad]
<1>1. n \in Nat /\ all \in Nat
  OBVIOUS
<1>2. C \in [Nat -> V] /\ \A i \in Nat : C[i] = CharTable[Sextet(s, i)]
  BY DEF Codes
<1>3. Rfc4648(s) = [i \in 1 .. all |-> IF i <= u THEN C[i - 1] ELSE Pad]
  <2>1. Rfc4648(s) = [i \in 1 .. all |-> IF i <= u THEN CharTable[Sextet(s, i - 1)] ELSE Pad]
    BY Zenon DEF Rfc4648, UsedChars
  <2>2. \A i \in 1 .. all : i - 1 \in Nat
    BY <1>1
  <2>3. \A i \in 1 .. all : C[i - 1] = CharTable[Sextet(s, i - 1)]
    <3> HIDE DEF C, all, V
    <3> QED
      BY <1>2, <2>2
  <2> HIDE DEF C, all, u
  <2> QED
    BY <2>1, <2>3, Zenon
<1>4. CASE n % 3 = 0
  <2>1. u = all
    BY <1>1, <1>4 DEF UsedChars
  <2>2. \A i \in 1 .. all : i <= all
    BY <1>1
  <2> HIDE DEF C, all, u
  <2>3. [i \in 1 .. all |-> IF i <= all THEN C[i - 1] ELSE Pad] = [i \in 1 .. all |-> C[i - 1]]
    BY <2>2, Zenon
  <2>4. Encode(s, TRUE) = FirstCodes(C, u)
    BY <1>4, EncodeIs DEF C, u
  <2> QED
    BY <1>3, <2>1, <2>3, <2>4, Zenon DEF FirstCodes
<1>5. CASE n % 3 # 0
  <2> DEFINE m == u - 1
             p == 3 - (n % 3)
  <2>1. m + 1 + p = all /\ m + 1 = u
    BY <1>1, <1>5 DEF UsedChars
  <2>2. Encode(s, TRUE) = WithPadding(C, m, p)
    BY <1>5, EncodeIs
  <2> HIDE DEF C, all, u, m, p
  <2> QED
    BY <1>3, <2>1, <2>2, Zenon DEF WithPadding
<1> QED
  BY <1>4, <1>5

\* Without padding, encode writes the characters of the bits and nothing else.
LEMMA EncodeUnpadded ==
    ASSUME NEW s \in Seq(Byte)
    PROVE  Encode(s, FALSE) = FirstCodes(Codes(s), UsedChars(s))
<1> DEFINE C == Codes(s)
           m == UsedChars(s) - 1
<1>1. CASE Len(s) % 3 = 0
  BY <1>1, EncodeIs
<1>2. CASE Len(s) % 3 # 0
  <2>1. m \in Nat /\ Encode(s, FALSE) = WithPadding(C, m, 0)
    BY <1>2, EncodeIs
  <2>2. m + 1 = UsedChars(s) /\ m + 1 + 0 = UsedChars(s)
    BY <2>1 DEF UsedChars
  <2> DEFINE u == UsedChars(s)
  <2>3. \A i \in 1 .. u : i <= u
    BY <2>1, <2>2
  <2> HIDE DEF C, m, u
  <2>4. WithPadding(C, m, 0) = [i \in 1 .. u |-> IF i <= u THEN C[i - 1] ELSE Pad]
    BY <2>2, Zenon DEF WithPadding, u
  <2>5. [i \in 1 .. u |-> IF i <= u THEN C[i - 1] ELSE Pad] = FirstCodes(C, u)
    BY <2>3, Zenon DEF FirstCodes
  <2> QED
    BY <2>1, <2>4, <2>5 DEF u, C
<1> QED
  BY <1>1, <1>2

=============================================================================
