-------------------------- MODULE BasicAuthProofs --------------------------
(***************************************************************************)
(* What is proved of the basic auth plugin, for every set of               *)
(* configurations and of requests.                                         *)
(***************************************************************************)
EXTENDS BasicAuth, FiniteSetTheorems, SequenceTheorems, DataProofs, TLAPS

----------------------------------------------------------------------------
(* JsonArrayIterate *)

\* A loop over n elements that stops at the first bad one stops somewhere.
LEMMA StopExists ==
    ASSUME NEW n \in Nat, NEW good
    PROVE  \E k \in 0 .. n : /\ \A i \in 1 .. k : i \in good
                             /\ k < n => k + 1 \notin good
<1> DEFINE bad == {i \in 1 .. n : i \notin good}
<1>1. CASE bad = {}
  BY <1>1
<1>2. CASE bad # {}
  <2>0. bad \in SUBSET Nat
    OBVIOUS
  <2>1. PICK b \in bad : \A y \in bad : b <= y
    <3> HIDE DEF bad
    <3> QED
      BY <1>2, <2>0, LeastElement
  <2>2. b - 1 \in 0 .. n /\ (\A i \in 1 .. b - 1 : i \in good) /\ (b - 1) + 1 \notin good
    BY <2>1
  <2> QED
    BY <2>2
<1> QED
  BY <1>1, <1>2

\* The number of rule objects that are read.
LEMMA RulesIterated ==
    ASSUME NEW s, s \in Seq(ToSet(s))
    PROVE  LET n == Iterated(s, Extractable)
           IN  /\ n \in 0 .. Len(s)
               /\ \A i \in 1 .. n : Extractable(s[i])
               /\ n < Len(s) => ~ Extractable(s[n + 1])
<1> DEFINE good == {i \in 1 .. Len(s) : Extractable(s[i])}
<1>1. Len(s) \in Nat
  OBVIOUS
<1>2. PICK k \in 0 .. Len(s) : /\ \A i \in 1 .. k : i \in good
                               /\ k < Len(s) => k + 1 \notin good
  <2> HIDE DEF good
  <2> QED
    BY <1>1, StopExists
<1>3. /\ \A i \in 1 .. k : Extractable(s[i])
      /\ k < Len(s) => ~ Extractable(s[k + 1])
  BY <1>1, <1>2
<1> QED
  BY <1>3 DEF Iterated

\* The number of strings that are read.
LEMMA StringsIterated ==
    ASSUME NEW s, s \in Seq(ToSet(s))
    PROVE  Iterated(s, IsJsonString) = Len(s) => \A e \in ToSet(s) : IsJsonString(e)
<1> DEFINE good == {i \in 1 .. Len(s) : IsJsonString(s[i])}
<1>1. Len(s) \in Nat /\ DOMAIN s = 1 .. Len(s)
  OBVIOUS
<1>2. PICK k \in 0 .. Len(s) : /\ \A i \in 1 .. k : i \in good
                               /\ k < Len(s) => k + 1 \notin good
  <2> HIDE DEF good
  <2> QED
    BY <1>1, StopExists
<1>3. /\ \A i \in 1 .. k : IsJsonString(s[i])
      /\ k < Len(s) => ~ IsJsonString(s[k + 1])
  BY <1>1, <1>2
<1>4. LET n == Iterated(s, IsJsonString)
      IN  /\ n \in 0 .. Len(s)
          /\ \A i \in 1 .. n : IsJsonString(s[i])
          /\ n < Len(s) => ~ IsJsonString(s[n + 1])
  BY <1>3 DEF Iterated
<1> QED
  BY <1>1, <1>4 DEF ToSet

\* The number of credentials that are read.
LEMMA CredentialsIterated ==
    ASSUME NEW s, s \in Seq(ToSet(s))
    PROVE  Iterated(s, IsCredential) = Len(s) => \A e \in ToSet(s) : IsCredential(e)
<1> DEFINE good == {i \in 1 .. Len(s) : IsCredential(s[i])}
<1>1. Len(s) \in Nat /\ DOMAIN s = 1 .. Len(s)
  OBVIOUS
<1>2. PICK k \in 0 .. Len(s) : /\ \A i \in 1 .. k : i \in good
                               /\ k < Len(s) => k + 1 \notin good
  <2> HIDE DEF good
  <2> QED
    BY <1>1, StopExists
<1>3. /\ \A i \in 1 .. k : IsCredential(s[i])
      /\ k < Len(s) => ~ IsCredential(s[k + 1])
  BY <1>1, <1>2
<1>4. LET n == Iterated(s, IsCredential)
      IN  /\ n \in 0 .. Len(s)
          /\ \A i \in 1 .. n : IsCredential(s[i])
          /\ n < Len(s) => ~ IsCredential(s[n + 1])
  BY <1>3 DEF Iterated
<1> QED
  BY <1>1, <1>4 DEF ToSet

\* What is read of a configuration's rules.
LEMMA ReadIs ==
    ASSUME NEW c \in Config
    PROVE  /\ DOMAIN ReadObjects(c) = 1 .. Len(ReadObjects(c)) /\ Len(ReadObjects(c)) \in Nat
           /\ \A i \in DOMAIN ReadObjects(c) :
                 ReadObjects(c)[i] \in RuleObjects /\ Extractable(ReadObjects(c)[i])
           /\ ToSet(ReadObjects(c)) = GoodObjects(Elements(c, "basic_auth_rules"))
           /\ RulesRead(c) <=>
                 (HasField(c, "basic_auth_rules") =>
                     /\ Is("array", c.object.basic_auth_rules)
                     /\ \A j \in ToSet(Elements(c, "basic_auth_rules")) : Extractable(j))
<1> DEFINE s == Elements(c, "basic_auth_rules")
           n == Iterated(s, Extractable)
<1>1. s \in Seq(ToSet(s)) /\ Len(s) \in Nat /\ DOMAIN s = 1 .. Len(s)
  BY BasicAuthAssumption DEF IsArray
<1>2. /\ n \in 0 .. Len(s)
      /\ \A i \in 1 .. n : Extractable(s[i])
      /\ n < Len(s) => ~ Extractable(s[n + 1])
  BY <1>1, RulesIterated
<1>3. ToSet(s) \subseteq RuleObjects
  BY DEF RuleObjects
<1>4. ReadObjects(c) = SubSeq(s, 1, n)
  BY DEF ReadObjects
<1>5. RulesRead(c) <=> (HasField(c, "basic_auth_rules") =>
                          Is("array", c.object.basic_auth_rules) /\ n = Len(s))
  BY DEF RulesRead, JsonArrayIterate
<1> HIDE DEF s, n
<1>6. /\ Len(SubSeq(s, 1, n)) = n /\ DOMAIN SubSeq(s, 1, n) = 1 .. n
      /\ \A i \in 1 .. n : SubSeq(s, 1, n)[i] = s[i]
  BY <1>1, <1>2
<1>7. \A i \in 1 .. n : s[i] \in RuleObjects /\ Extractable(s[i])
  BY <1>1, <1>2, <1>3 DEF ToSet
<1>8. \A i \in 1 .. Len(s) : (\A e \in 1 .. i : Extractable(s[e])) <=> i <= n
  BY <1>1, <1>2
<1>9. ToSet(SubSeq(s, 1, n)) = {s[i] : i \in 1 .. n}
  BY <1>6 DEF ToSet
<1>10. GoodObjects(s) = {s[i] : i \in 1 .. n}
  BY <1>1, <1>2, <1>8 DEF GoodObjects
<1>11. n = Len(s) <=> \A j \in ToSet(s) : Extractable(j)
  BY <1>1, <1>2 DEF ToSet
<1>12. /\ DOMAIN ReadObjects(c) = 1 .. Len(ReadObjects(c)) /\ Len(ReadObjects(c)) \in Nat
       /\ \A i \in DOMAIN ReadObjects(c) :
             ReadObjects(c)[i] \in RuleObjects /\ Extractable(ReadObjects(c)[i])
  BY <1>2, <1>4, <1>6, <1>7
<1>13. ToSet(ReadObjects(c)) = GoodObjects(s)
  BY <1>4, <1>9, <1>10
<1>14. RulesRead(c) <=>
         (HasField(c, "basic_auth_rules") =>
             /\ Is("array", c.object.basic_auth_rules)
             /\ \A j \in ToSet(s) : Extractable(j))
  BY <1>5, <1>11
<1> QED
  BY <1>12, <1>13, <1>14 DEF s

----------------------------------------------------------------------------
(* The rules that are added *)

\* The rules that configurations can lead to.
Rule == UNION {{RuleOf(j, g) : g \in Garbage} : j \in RuleObjects}

\* A rule object is about a request method.
Names(j, m) == \E e \in ToSet(Elements(j, "request_methods")) : e.string = m

\* Appending a rule for one method.
LEMMA AppendRule ==
    ASSUME NEW rs \in [Method -> Seq(Rule)], NEW x \in Rule, NEW q
    PROVE  /\ [rs EXCEPT ![q] = Append(@, x)] \in [Method -> Seq(Rule)]
           /\ \A m \in Method : ToSet([rs EXCEPT ![q] = Append(@, x)][m]) =
                 IF m = q THEN ToSet(rs[m]) \cup {x} ELSE ToSet(rs[m])
<1>1. ASSUME NEW t \in Seq(Rule)
      PROVE  Append(t, x) \in Seq(Rule) /\ ToSet(Append(t, x)) = ToSet(t) \cup {x}
  <2>1. Append(t, x) \in Seq(Rule)
    OBVIOUS
  <2> QED
    BY <2>1, ToSetAppend
<1>2. \A m \in Method : rs[m] \in Seq(Rule)
  OBVIOUS
<1> QED
  BY <1>1, <1>2

\* The recursion that AddRule is the result of.
AddRecursion(it, n, rs, x, ms) ==
    it = [s \in SUBSET (1 .. n) |->
            IF s = {} THEN rs
            ELSE [it[s \ {Max(s)}] EXCEPT ![ms[Max(s)].string] = Append(@, x)]]

\* A rule object adds its rule for the methods it names, and nothing else.
LEMMA AddRuleIs ==
    ASSUME NEW rs \in [Method -> Seq(Rule)], NEW j \in RuleObjects, NEW g \in Garbage
    PROVE  /\ AddRule(rs, j, g) \in [Method -> Seq(Rule)]
           /\ \A m \in Method : ToSet(AddRule(rs, j, g)[m]) =
                 IF Names(j, m) THEN ToSet(rs[m]) \cup {RuleOf(j, g)} ELSE ToSet(rs[m])
<1> DEFINE ms == Elements(j, "request_methods")
           n == Len(ms)
           x == RuleOf(j, g)
           V == [Method -> Seq(Rule)]
           F == [p \in V \X (1 .. n) |-> [p[1] EXCEPT ![ms[p[2]].string] = Append(@, x)]]
           it == CHOOSE h : AddRecursion(h, n, rs, x, ms)
<1>1. ms \in Seq(ToSet(ms)) /\ n \in Nat /\ DOMAIN ms = 1 .. n
  BY BasicAuthAssumption DEF IsArray
<1>2. x \in Rule
  BY DEF Rule
<1>3. AddRule(rs, j, g) = it[1 .. n]
  BY <1>1, Zenon DEF AddRule, FoldLeft, MapThenFoldSet, AddRecursion
<1>4. \A m : Names(j, m) <=> \E i \in 1 .. n : ms[i].string = m
  BY <1>1 DEF Names, ToSet
<1> HIDE DEF it, n, ms, x
<1>5. \A v \in V : \A i \in 1 .. n : [v EXCEPT ![ms[i].string] = Append(@, x)] \in V
  BY <1>2, AppendRule
<1>6. F \in [V \X (1 .. n) -> V]
  BY <1>5
<1> HIDE DEF F, V
<1>7. rs \in V
  BY DEF V
<1>8. PICK h \in [SUBSET (1 .. n) -> V] : FoldRecursion(h, n, rs, F)
  BY <1>1, <1>6, <1>7, FoldExists
<1>9. AddRecursion(h, n, rs, x, ms)
  <2>1. ASSUME NEW s \in SUBSET (1 .. n), s # {}
        PROVE  F[<<h[s \ {Max(s)}], Max(s)>>]
                 = [h[s \ {Max(s)}] EXCEPT ![ms[Max(s)].string] = Append(@, x)]
    <3>1. Max(s) \in 1 .. n
      BY <1>1, <2>1, MaxOfIndices
    <3>2. h[s \ {Max(s)}] \in V
      OBVIOUS
    <3> QED
      BY <3>1, <3>2 DEF F
  <2> QED
    BY <1>8, <2>1 DEF AddRecursion, FoldRecursion
<1>10. AddRecursion(it, n, rs, x, ms)
  BY <1>9 DEF it
<1> DEFINE Added(k, m) == IF \E i \in 1 .. k : ms[i].string = m
                          THEN ToSet(rs[m]) \cup {x} ELSE ToSet(rs[m])
           S == {k \in 0 .. n : it[1 .. k] \in V
                                 /\ \A m \in Method : ToSet(it[1 .. k][m]) = Added(k, m)}
<1>11. 0 \in S
  <2>1. 1 .. 0 = {} /\ it[{}] = rs
    BY <1>10 DEF AddRecursion
  <2> QED
    BY <1>1, <1>7, <2>1
<1>12. ASSUME NEW k \in 0 .. n - 1, k \in S PROVE k + 1 \in S
  <2> DEFINE v == it[1 .. k]
             q == ms[k + 1].string
  <2>1. /\ Max(1 .. k + 1) = k + 1 /\ (1 .. k + 1) \ {Max(1 .. k + 1)} = 1 .. k
        /\ 1 .. k + 1 \in SUBSET (1 .. n) /\ 1 .. k + 1 # {}
    BY <1>1, NextPrefix
  <2>2. it[1 .. k + 1] = [v EXCEPT ![q] = Append(@, x)]
    BY <1>10, <2>1 DEF AddRecursion
  <2>3. v \in V /\ \A m \in Method : ToSet(v[m]) = Added(k, m)
    BY <1>12
  <2> HIDE DEF v, q, Added
  <2>4. /\ it[1 .. k + 1] \in V
        /\ \A m \in Method : ToSet(it[1 .. k + 1][m]) =
              IF m = q THEN ToSet(v[m]) \cup {x} ELSE ToSet(v[m])
    <3>1. v \in [Method -> Seq(Rule)]
      BY <2>3 DEF V
    <3>2. /\ [v EXCEPT ![q] = Append(@, x)] \in [Method -> Seq(Rule)]
          /\ \A m \in Method : ToSet([v EXCEPT ![q] = Append(@, x)][m]) =
                IF m = q THEN ToSet(v[m]) \cup {x} ELSE ToSet(v[m])
      BY <1>2, <3>1, AppendRule, Zenon
    <3> QED
      BY <2>2, <3>2, Zenon DEF V
  <2>5. ASSUME NEW m \in Method PROVE ToSet(it[1 .. k + 1][m]) = Added(k + 1, m)
    <3>1. 1 .. k + 1 = (1 .. k) \cup {k + 1}
      BY <1>1
    <3> QED
      BY <2>3, <2>4, <3>1 DEF Added, q
  <2> QED
    BY <1>1, <2>4, <2>5
<1>13. n \in S
  <2> HIDE DEF S
  <2>1. \A k \in 0 .. n - 1 : k \in S => k + 1 \in S
    BY <1>12
  <2>2. \A k \in 0 .. n : k \in S
    BY <1>1, <1>11, <2>1, RangeInduction, Zenon
  <2> QED
    BY <1>1, <2>2
<1>14. it[1 .. n] \in V /\ \A m \in Method : ToSet(it[1 .. n][m]) = Added(n, m)
  BY <1>13
<1> QED
  BY <1>3, <1>4, <1>14 DEF V, x

\* What path_pattern holds after a rule object was read.
Left(c, garbage, i) == IF i \in Pathless(c) THEN garbage[i] ELSE "Unknown"

\* The rules of the first k objects of a configuration for a method.
AddedRules(c, garbage, k, m) ==
    {RuleOf(ReadObjects(c)[i], Left(c, garbage, i)) :
       i \in {e \in 1 .. k : Names(ReadObjects(c)[e], m)}}

\* The recursion that RulesWith is the result of.
RulesRecursion(it, n, rs, c, garbage, ids) ==
    it = [s \in SUBSET (1 .. n) |->
            IF s = {} THEN rs
            ELSE AddRule(it[s \ {Max(s)}], ReadObjects(c)[ids[Max(s)]],
                         IF ids[Max(s)] \in Pathless(c) THEN garbage[ids[Max(s)]] ELSE "Unknown")]

\* onConfigure adds the rules of the objects it reads to those there are.
LEMMA RulesWithIs ==
    ASSUME NEW c \in Config, NEW garbage \in [Pathless(c) -> Garbage],
           rules \in [Method -> Seq(Rule)]
    PROVE  /\ RulesWith(c, garbage) \in [Method -> Seq(Rule)]
           /\ \A m \in Method : ToSet(RulesWith(c, garbage)[m]) =
                 ToSet(rules[m]) \cup AddedRules(c, garbage, Len(ReadObjects(c)), m)
<1> DEFINE O == ReadObjects(c)
           n == Len(O)
           ids == [i \in DOMAIN O |-> i]
           V == [Method -> Seq(Rule)]
           F == [p \in V \X (1 .. n) |-> AddRule(p[1], O[p[2]], Left(c, garbage, p[2]))]
           it == CHOOSE h : RulesRecursion(h, n, rules, c, garbage, ids)
<1>1. DOMAIN O = 1 .. n /\ n \in Nat /\ \A i \in 1 .. n : O[i] \in RuleObjects
  BY ReadIs
<1>2. DOMAIN ids = 1 .. n /\ \A i \in 1 .. n : ids[i] = i
  BY <1>1
<1>3. RulesWith(c, garbage) = it[1 .. n]
  BY <1>2, Zenon DEF RulesWith, FoldLeft, MapThenFoldSet, RulesRecursion
<1>4. \A i \in 1 .. n : Left(c, garbage, i) \in Garbage
  BY DEF Left, Garbage
<1>5. \A v \in V : \A i \in 1 .. n : AddRule(v, O[i], Left(c, garbage, i)) \in V
  BY <1>1, <1>4, AddRuleIs
<1> HIDE DEF it, n, ids
<1>6. F \in [V \X (1 .. n) -> V]
  BY <1>5
<1> HIDE DEF F, V, O
<1>7. rules \in V
  BY DEF V
<1>8. PICK h \in [SUBSET (1 .. n) -> V] : FoldRecursion(h, n, rules, F)
  BY <1>1, <1>6, <1>7, FoldExists
<1>9. RulesRecursion(h, n, rules, c, garbage, ids)
  <2>1. ASSUME NEW s \in SUBSET (1 .. n), s # {}
        PROVE  F[<<h[s \ {Max(s)}], Max(s)>>]
                 = AddRule(h[s \ {Max(s)}], O[ids[Max(s)]],
                      IF ids[Max(s)] \in Pathless(c) THEN garbage[ids[Max(s)]] ELSE "Unknown")
    <3>1. Max(s) \in 1 .. n
      BY <1>1, <2>1, MaxOfIndices
    <3>2. h[s \ {Max(s)}] \in V
      OBVIOUS
    <3> QED
      BY <1>2, <3>1, <3>2 DEF F, Left
  <2> QED
    BY <1>8, <2>1 DEF RulesRecursion, FoldRecursion, O
<1>10. RulesRecursion(it, n, rules, c, garbage, ids)
  BY <1>9 DEF it
<1> DEFINE Goal(k, m) == ToSet(rules[m]) \cup AddedRules(c, garbage, k, m)
           S == {k \in 0 .. n : it[1 .. k] \in V
                                 /\ \A m \in Method : ToSet(it[1 .. k][m]) = Goal(k, m)}
<1>11. 0 \in S
  <2>1. 1 .. 0 = {} /\ it[{}] = rules
    BY <1>10 DEF RulesRecursion
  <2>2. \A m \in Method : AddedRules(c, garbage, 0, m) = {}
    BY <2>1 DEF AddedRules
  <2> QED
    BY <1>1, <1>7, <2>1, <2>2
<1>12. ASSUME NEW k \in 0 .. n - 1, k \in S PROVE k + 1 \in S
  <2> DEFINE v == it[1 .. k]
             g == Left(c, garbage, k + 1)
  <2>1. /\ Max(1 .. k + 1) = k + 1 /\ (1 .. k + 1) \ {Max(1 .. k + 1)} = 1 .. k
        /\ 1 .. k + 1 \in SUBSET (1 .. n) /\ 1 .. k + 1 # {} /\ k + 1 \in 1 .. n
        /\ 1 .. k + 1 = (1 .. k) \cup {k + 1}
    BY <1>1, NextPrefix
  <2>2. it[1 .. k + 1] = AddRule(v, O[k + 1], g)
    <3> DEFINE t == 1 .. k + 1
    <3>1. it[t] = AddRule(it[t \ {Max(t)}], O[ids[Max(t)]],
                    IF ids[Max(t)] \in Pathless(c) THEN garbage[ids[Max(t)]] ELSE "Unknown")
      BY <1>10, <2>1 DEF RulesRecursion, O
    <3>2. ids[Max(t)] = k + 1 /\ t \ {Max(t)} = 1 .. k
      BY <1>2, <2>1
    <3> HIDE DEF t
    <3>3. it[t] = AddRule(it[1 .. k], O[k + 1],
                    IF k + 1 \in Pathless(c) THEN garbage[k + 1] ELSE "Unknown")
      BY <3>1, <3>2
    <3> QED
      BY <3>3, Zenon DEF t, Left
  <2>3. v \in V /\ \A m \in Method : ToSet(v[m]) = Goal(k, m)
    BY <1>12
  <2> HIDE DEF v, g, Goal
  <2>4. O[k + 1] \in RuleObjects /\ g \in Garbage
    BY <1>1, <1>4, <2>1 DEF g
  <2>5. /\ it[1 .. k + 1] \in V
        /\ \A m \in Method : ToSet(it[1 .. k + 1][m]) =
              IF Names(O[k + 1], m) THEN ToSet(v[m]) \cup {RuleOf(O[k + 1], g)}
              ELSE ToSet(v[m])
    <3>1. v \in [Method -> Seq(Rule)]
      BY <2>3 DEF V
    <3>2. /\ AddRule(v, O[k + 1], g) \in [Method -> Seq(Rule)]
          /\ \A m \in Method : ToSet(AddRule(v, O[k + 1], g)[m]) =
                IF Names(O[k + 1], m) THEN ToSet(v[m]) \cup {RuleOf(O[k + 1], g)}
                ELSE ToSet(v[m])
      BY <2>4, <3>1, AddRuleIs, Zenon
    <3> QED
      BY <2>2, <3>2, Zenon DEF V
  <2>6. ASSUME NEW m \in Method PROVE ToSet(it[1 .. k + 1][m]) = Goal(k + 1, m)
    <3>1. AddedRules(c, garbage, k + 1, m) =
            IF Names(O[k + 1], m) THEN AddedRules(c, garbage, k, m) \cup {RuleOf(O[k + 1], g)}
            ELSE AddedRules(c, garbage, k, m)
      <4> DEFINE R(i) == RuleOf(ReadObjects(c)[i], Left(c, garbage, i))
                 I(i) == {e \in 1 .. i : Names(ReadObjects(c)[e], m)}
      <4>1. I(k + 1) = IF Names(O[k + 1], m) THEN I(k) \cup {k + 1} ELSE I(k)
        BY <2>1 DEF O
      <4> HIDE DEF R, I
      <4>2. {R(i) : i \in I(k + 1)} = IF Names(O[k + 1], m) THEN {R(i) : i \in I(k)} \cup {R(k + 1)}
                                     ELSE {R(i) : i \in I(k)}
        BY <4>1
      <4> QED
        BY <4>2, Zenon DEF R, I, AddedRules, O, g
    <3> QED
      BY <2>3, <2>5, <3>1 DEF Goal
  <2> QED
    BY <1>1, <2>1, <2>5, <2>6
<1>13. n \in S
  <2> HIDE DEF S
  <2>1. \A k \in 0 .. n - 1 : k \in S => k + 1 \in S
    BY <1>12
  <2>2. \A k \in 0 .. n : k \in S
    BY <1>1, <1>11, <2>1, RangeInduction, Zenon
  <2> QED
    BY <1>1, <2>2
<1>14. it[1 .. n] \in V /\ \A m \in Method : ToSet(it[1 .. n][m]) = Goal(n, m)
  BY <1>13
<1> QED
  BY <1>3, <1>14 DEF V, n, O

----------------------------------------------------------------------------
(* The inductive invariant *)

\* The rules are those of the objects in force, method by method.
RulesInv ==
    /\ rules \in [Method -> Seq(Rule)]
    /\ \A m \in Method : \A x \in ToSet(rules[m]) :
          \E j \in InForce : Names(j, m) /\ \E g \in Garbage : x = RuleOf(j, g)
    /\ \A m \in Method : \A j \in InForce :
          Names(j, m) => \E g \in Garbage : RuleOf(j, g) \in ToSet(rules[m])

\* The configurations that set the realm, and the one the last of them set.
Naming(configs) ==
    {k \in DOMAIN configs : ReadToEnd(configs[k]) /\ NamesRealm(configs[k])}

NamedRealm(configs) ==
    IF Naming(configs) = {} THEN "istio" ELSE configs[Max(Naming(configs))].object.realm.string

\* An answer is one of the rules and the realm that are still in force.
AnswerInv ==
    \/ last = NoAnswer
    \/ \E r \in Request :
          last = [answered |-> TRUE, request |-> r, response |-> Response(rules, r), realm |-> realm]

AuthInv ==
    /\ loaded \in Seq(Config) /\ Len(loaded) <= MaxConfigs
    /\ RulesInv
    /\ realm = NamedRealm(loaded)
    /\ AnswerInv

\* A configuration adds the objects before its first bad one to those in force.
LEMMA InForceGrows ==
    ASSUME NEW c, loaded \in Seq(Config), loaded' = Append(loaded, c)
    PROVE  InForce' = InForce \cup GoodObjects(Elements(c, "basic_auth_rules"))
<1>1. ToSet(loaded') = ToSet(loaded) \cup {c}
  BY ToSetAppend
<1> QED
  BY <1>1 DEF InForce

\* A rule object in force was read.
LEMMA InForceGood ==
    ASSUME loaded \in Seq(Config), NEW j \in InForce
    PROVE  j \in RuleObjects /\ Extractable(j)
<1>1. PICK c \in ToSet(loaded) : j \in GoodObjects(Elements(c, "basic_auth_rules"))
  BY DEF InForce
<1>2. c \in Config
  BY <1>1 DEF ToSet
<1>3. j \in ToSet(ReadObjects(c))
  BY <1>1, <1>2, ReadIs
<1>4. PICK i \in DOMAIN ReadObjects(c) : j = ReadObjects(c)[i]
  BY <1>3 DEF ToSet
<1> QED
  BY <1>2, <1>4, ReadIs

\* A configuration that is read to its end and names a realm sets it.
LEMMA RealmGrows ==
    ASSUME NEW s \in Seq(Config), NEW c \in Config
    PROVE  NamedRealm(Append(s, c)) =
             IF ReadToEnd(c) /\ NamesRealm(c) THEN c.object.realm.string ELSE NamedRealm(s)
<1> DEFINE n == Len(s)
           t == Append(s, c)
<1>1. /\ n \in Nat /\ DOMAIN s = 1 .. n /\ DOMAIN t = 1 .. n + 1
      /\ \A i \in 1 .. n : t[i] = s[i]
      /\ t[n + 1] = c
  OBVIOUS
<1> HIDE DEF n, t
<1>2. 1 .. n + 1 = (1 .. n) \cup {n + 1} /\ n + 1 \notin 1 .. n
  BY <1>1
<1>3. CASE ReadToEnd(c) /\ NamesRealm(c)
  <2>1. Naming(t) \in SUBSET (1 .. n + 1) /\ n + 1 \in Naming(t)
    BY <1>1, <1>2, <1>3 DEF Naming
  <2>2. Max(Naming(t)) \in Naming(t) /\ n + 1 <= Max(Naming(t)) /\ n + 1 \in Nat
    <3>1. n + 1 \in Nat /\ Naming(t) # {}
      BY <1>1, <2>1
    <3> QED
      BY <2>1, <3>1, MaxOfIndices, Zenon
  <2>3. Max(Naming(t)) = n + 1
    BY <1>1, <2>1, <2>2
  <2> QED
    BY <1>1, <1>3, <2>1, <2>3 DEF NamedRealm, t
<1>4. CASE ~ (ReadToEnd(c) /\ NamesRealm(c))
  <2>1. Naming(t) = Naming(s)
    BY <1>1, <1>2, <1>4 DEF Naming
  <2>2. CASE Naming(s) = {}
    BY <1>4, <2>1, <2>2 DEF NamedRealm, t
  <2>3. CASE Naming(s) # {}
    <3>1. Naming(s) \in SUBSET (1 .. n)
      BY <1>1 DEF Naming
    <3>2. Max(Naming(s)) \in 1 .. n
      BY <1>1, <2>3, <3>1, MaxOfIndices
    <3>3. t[Max(Naming(t))] = s[Max(Naming(s))]
      BY <1>1, <2>1, <3>2
    <3> QED
      BY <1>4, <2>1, <2>3, <3>3 DEF NamedRealm, t
  <2> QED
    BY <2>2, <2>3
<1> QED
  BY <1>3, <1>4

\* At the start nothing is loaded.
LEMMA AuthInit == Init => AuthInv
<1> SUFFICES ASSUME Init PROVE AuthInv
  OBVIOUS
<1>1. loaded \in Seq(Config) /\ Len(loaded) <= MaxConfigs /\ DOMAIN loaded = {}
  BY BasicAuthAssumption DEF Init
<1>2. InForce = {}
  BY <1>1 DEF InForce, ToSet
<1>3. rules \in [Method -> Seq(Rule)] /\ \A m \in Method : ToSet(rules[m]) = {}
  BY DEF Init, ToSet
<1>4. Naming(loaded) = {}
  BY <1>1 DEF Naming
<1>5. realm = NamedRealm(loaded)
  BY <1>4 DEF Init, NamedRealm
<1>6. RulesInv
  BY <1>2, <1>3 DEF RulesInv
<1>7. AnswerInv
  BY DEF Init, AnswerInv
<1> QED
  BY <1>1, <1>5, <1>6, <1>7 DEF AuthInv

\* onConfigure, with all it reads.
LEMMA ConfigureKeeps ==
    ASSUME AuthInv, NEW c \in Config, Configure(c)
    PROVE  /\ AuthInv'
           /\ \A m \in Method : ToSet(rules[m]) \subseteq ToSet(rules'[m])
<1>1. /\ loaded \in Seq(Config) /\ Len(loaded) < MaxConfigs /\ Len(loaded) \in Nat
      /\ loaded' = Append(loaded, c) /\ ~ last.answered /\ last' = last
  BY DEF Configure, Load, AuthInv
<1>2. loaded' \in Seq(Config) /\ Len(loaded') <= MaxConfigs
  BY <1>1, BasicAuthAssumption
<1>3. PICK garbage \in [Pathless(c) -> Garbage] : rules' = RulesWith(c, garbage)
  BY DEF Configure
<1> DEFINE O == ReadObjects(c)
           n == Len(O)
<1>4. rules \in [Method -> Seq(Rule)]
  BY DEF AuthInv, RulesInv
<1>5. /\ rules' \in [Method -> Seq(Rule)]
      /\ \A m \in Method : ToSet(rules'[m]) = ToSet(rules[m]) \cup AddedRules(c, garbage, n, m)
  BY <1>3, <1>4, RulesWithIs
<1>6. DOMAIN O = 1 .. n /\ n \in Nat
  BY ReadIs
<1>7. InForce' = InForce \cup {O[i] : i \in 1 .. n}
  <2>1. InForce' = InForce \cup GoodObjects(Elements(c, "basic_auth_rules"))
    BY <1>1, InForceGrows
  <2>2. ToSet(O) = GoodObjects(Elements(c, "basic_auth_rules"))
    BY ReadIs
  <2>3. ToSet(O) = {O[i] : i \in 1 .. n}
    BY <1>6 DEF ToSet
  <2> QED
    BY <2>1, <2>2, <2>3
<1>8. \A i \in 1 .. n : Left(c, garbage, i) \in Garbage
  BY DEF Left, Garbage
<1>9. ASSUME NEW m \in Method
      PROVE  /\ \A x \in AddedRules(c, garbage, n, m) : \E i \in 1 .. n :
                   Names(O[i], m) /\ \E g \in Garbage : x = RuleOf(O[i], g)
             /\ \A i \in 1 .. n : Names(O[i], m) =>
                   \E g \in Garbage : RuleOf(O[i], g) \in AddedRules(c, garbage, n, m)
  BY <1>8 DEF AddedRules
<1> HIDE DEF O, n
<1>10. ASSUME NEW m \in Method, NEW x \in ToSet(rules'[m])
       PROVE  \E j \in InForce' : Names(j, m) /\ \E g \in Garbage : x = RuleOf(j, g)
  <2>1. CASE x \in ToSet(rules[m])
    BY <1>7, <2>1 DEF AuthInv, RulesInv
  <2>2. CASE x \in AddedRules(c, garbage, n, m)
    BY <1>7, <1>9, <2>2
  <2> QED
    BY <1>5, <2>1, <2>2
<1>11. ASSUME NEW m \in Method, NEW j \in InForce', Names(j, m)
       PROVE  \E g \in Garbage : RuleOf(j, g) \in ToSet(rules'[m])
  <2>1. CASE j \in InForce
    BY <1>5, <1>11, <2>1 DEF AuthInv, RulesInv
  <2>2. CASE j \in {O[i] : i \in 1 .. n}
    BY <1>5, <1>9, <1>11, <2>2
  <2> QED
    BY <1>7, <2>1, <2>2
<1>12. RulesInv'
  BY <1>5, <1>10, <1>11 DEF RulesInv, Names
<1>13. realm' = NamedRealm(loaded')
  <2>1. RulesRead(c) <=> ReadToEnd(c)
    BY ReadIs DEF ReadToEnd
  <2>2. realm = NamedRealm(loaded)
    BY DEF AuthInv
  <2>3. NamedRealm(loaded') = IF ReadToEnd(c) /\ NamesRealm(c)
                              THEN c.object.realm.string ELSE NamedRealm(loaded)
    BY <1>1, RealmGrows
  <2> QED
    BY <2>1, <2>2, <2>3 DEF Configure, RealmWith
<1>14. AnswerInv'
  BY <1>1 DEF AuthInv, AnswerInv
<1>15. AuthInv'
  BY <1>2, <1>12, <1>13, <1>14 DEF AuthInv
<1> QED
  BY <1>5, <1>15

\* A configuration that does not parse has no rules and no realm.
LEMMA IgnoredKeeps ==
    ASSUME AuthInv, NEW c \in Config, ConfigureIgnored(c)
    PROVE  AuthInv'
<1>1. /\ loaded \in Seq(Config) /\ Len(loaded) < MaxConfigs /\ Len(loaded) \in Nat
      /\ loaded' = Append(loaded, c) /\ ~ last.answered /\ last' = last
      /\ rules' = rules /\ realm' = realm /\ ~ JsonParses(c)
  BY DEF ConfigureIgnored, Load, AuthInv
<1>2. loaded' \in Seq(Config) /\ Len(loaded') <= MaxConfigs
  BY <1>1, BasicAuthAssumption
<1>3. Elements(c, "basic_auth_rules") = <<>> /\ ~ NamesRealm(c)
  BY <1>1 DEF Elements, HasField, JsonParses, NamesRealm
<1>4. GoodObjects(Elements(c, "basic_auth_rules")) = {}
  BY <1>3 DEF GoodObjects
<1>5. InForce' = InForce
  BY <1>1, <1>4, InForceGrows
<1>6. RulesInv'
  BY <1>1, <1>5 DEF AuthInv, RulesInv, Names
<1>7. NamedRealm(loaded') = NamedRealm(loaded)
  BY <1>1, <1>3, RealmGrows
<1>8. AnswerInv'
  BY <1>1 DEF AuthInv, AnswerInv
<1> QED
  BY <1>1, <1>2, <1>6, <1>7, <1>8 DEF AuthInv

\* Every callback keeps the inductive invariant.
LEMMA AuthNext == AuthInv /\ [Next]_vars => AuthInv'
<1> SUFFICES ASSUME AuthInv, [Next]_vars PROVE AuthInv'
  OBVIOUS
<1>1. ASSUME NEW c \in Config, ConfigureIgnored(c) PROVE AuthInv'
  BY <1>1, IgnoredKeeps
<1>2. ASSUME NEW c \in Config, Configure(c) PROVE AuthInv'
  BY <1>2, ConfigureKeeps
<1>3. ASSUME UNCHANGED <<rules, realm, loaded>>, AnswerInv' PROVE AuthInv'
  <2>1. InForce' = InForce
    BY <1>3 DEF InForce
  <2> QED
    BY <1>3, <2>1 DEF AuthInv, RulesInv
<1>4. ASSUME NEW r \in Request, Check(r) PROVE AuthInv'
  <2>1. AnswerInv'
    BY <1>4 DEF Check, AnswerInv, Response
  <2> QED
    BY <1>3, <1>4, <2>1 DEF Check
<1>5. CASE Answered
  <2>1. AnswerInv'
    BY <1>5 DEF Answered, AnswerInv
  <2> QED
    BY <1>3, <1>5, <2>1 DEF Answered
<1>6. CASE UNCHANGED vars
  <2>1. AnswerInv'
    BY <1>6 DEF vars, AuthInv, AnswerInv, Response
  <2> QED
    BY <1>3, <1>6, <2>1 DEF vars
<1> QED
  BY <1>1, <1>2, <1>4, <1>5, <1>6 DEF Next

\* The inductive invariant holds in every reachable state.
LEMMA AuthInvariant == Spec => []AuthInv
  BY AuthInit, AuthNext, PTL DEF Spec

\* A configuration that sets the realm is one that is accepted.
LEMMA NamingAccepted ==
    ASSUME NEW s \in Seq(Config)
    PROVE  Naming(s) = {k \in AcceptedIn(s) : NamesRealm(s[k])}
  BY DEF Naming, AcceptedIn, Accepted, NamesRealm, HasField, JsonParses

\* A 401 challenges with the realm the configuration accepted last names, and with
\* the default while none has named one, for every sequence of configurations.
THEOREM AuthRealmAsConfigured == Spec => []RealmAsConfigured
<1>1. ASSUME AuthInv, last.answered PROVE RealmAsConfigured
  <2> DEFINE good == AcceptedIn(loaded)
             named == Naming(loaded)
  <2>1. /\ last.realm = NamedRealm(loaded)
        /\ loaded \in Seq(Config) /\ Len(loaded) \in Nat
    BY <1>1, LenProperties DEF AuthInv, AnswerInv, NoAnswer
  <2>2. named = {k \in good : NamesRealm(loaded[k])}
    BY <2>1, NamingAccepted
  <2>3. good \in SUBSET (1 .. Len(loaded)) /\ \A k \in good : k \in Nat
    BY <2>1 DEF AcceptedIn
  <2> HIDE DEF good, named
  <2>4. ASSUME good # {}, NamesRealm(loaded[Max(good)])
        PROVE  last.realm = loaded[Max(good)].object.realm.string
    <3>1. Max(good) \in good /\ \A k \in good : k <= Max(good)
      BY <2>1, <2>3, <2>4, MaxOfIndices
    <3>2. Max(good) \in named /\ named \in SUBSET (1 .. Len(loaded)) /\ named # {}
      BY <2>2, <2>3, <2>4, <3>1
    <3>3. Max(named) \in named /\ \A k \in named : k <= Max(named)
      BY <2>1, <3>2, MaxOfIndices
    <3>4. Max(named) \in good /\ Max(named) <= Max(good) /\ Max(good) <= Max(named)
      BY <2>2, <3>1, <3>2, <3>3
    <3>5. Max(named) = Max(good)
      <4>1. Max(named) \in Nat /\ Max(good) \in Nat
        BY <2>3, <3>1, <3>4, Zenon
      <4> QED
        BY <3>4, <4>1
    <3> QED
      BY <2>1, <3>2, <3>5 DEF NamedRealm, named
  <2>5. ASSUME \A k \in good : ~ NamesRealm(loaded[k]) PROVE last.realm = "istio"
    <3>1. named = {}
      BY <2>2, <2>5
    <3> QED
      BY <2>1, <3>1 DEF NamedRealm, named
  <2> QED
    BY <2>4, <2>5 DEF RealmAsConfigured, good
<1>2. AuthInv => RealmAsConfigured
  BY <1>1 DEF RealmAsConfigured
<1> QED
  BY <1>2, AuthInvariant, PTL

----------------------------------------------------------------------------
(* check *)

\* The rules check looks at the credentials for.
Applying(rs, r) ==
    {x \in ToSet(rs[r.method]) :
        /\ HostMatch(x, Authority(r))
        /\ Matches(x.path_pattern, x.request_path, r.path)}

\* A request goes on if all of them accept, and else gets the answer of one that
\* does not.
LEMMA ResponseIs ==
    ASSUME NEW rs, NEW r
    PROVE  /\ Response(rs, r) = "Continue" <=>
                 \A x \in Applying(rs, r) : CredentialsCheck(x, r.authorization) = "Continue"
           /\ Response(rs, r) # "Continue" =>
                 \E x \in Applying(rs, r) : Response(rs, r) = CredentialsCheck(x, r.authorization)
<1> DEFINE responses == {CredentialsCheck(x, r.authorization) : x \in Applying(rs, r)}
<1>1. Response(rs, r) = IF responses \subseteq {"Continue"} THEN "Continue"
                        ELSE CHOOSE x \in responses : x # "Continue"
  BY Zenon DEF Response, Applying
<1>2. responses \subseteq {"Continue"} <=>
         \A x \in Applying(rs, r) : CredentialsCheck(x, r.authorization) = "Continue"
  OBVIOUS
<1>3. \A y \in responses : \E x \in Applying(rs, r) : y = CredentialsCheck(x, r.authorization)
  OBVIOUS
<1> HIDE DEF responses
<1>4. ASSUME ~ responses \subseteq {"Continue"}
      PROVE  Response(rs, r) \in responses /\ Response(rs, r) # "Continue"
  <2>1. \E x \in responses : x # "Continue"
    BY <1>4
  <2>2. Response(rs, r) = CHOOSE x \in responses : x # "Continue"
    BY <1>1, <1>4
  <2> QED
    BY <2>1, <2>2
<1> QED
  BY <1>1, <1>2, <1>3, <1>4

\* With more rules no request is let through that was denied.
LEMMA MoreRulesDeny ==
    ASSUME NEW r \in Request, NEW old, NEW new,
           ToSet(old[r.method]) \subseteq ToSet(new[r.method]),
           Response(old, r) # "Continue"
    PROVE  Response(new, r) # "Continue"
<1>1. Applying(old, r) \subseteq Applying(new, r)
  BY DEF Applying
<1> QED
  BY <1>1, ResponseIs

\* No configuration, refused or not, lets a request through that was denied before.
THEOREM AuthDeniedStaysDenied == Spec => DeniedStaysDenied
<1> DEFINE Grows == \A r \in Request :
                      Response(rules, r) # "Continue" => Response(rules', r) # "Continue"
<1>1. AuthInv /\ [Next]_vars => [Grows]_rules
  <2> SUFFICES ASSUME AuthInv, [Next]_vars, rules' # rules PROVE Grows
    OBVIOUS
  <2>1. PICK c \in Config : Configure(c)
    BY DEF Next, ConfigureIgnored, Check, Answered, vars
  <2>2. \A m \in Method : ToSet(rules[m]) \subseteq ToSet(rules'[m])
    BY <2>1, ConfigureKeeps
  <2> QED
    BY <2>2, MoreRulesDeny, BasicAuthAssumption
<1> QED
  BY <1>1, AuthInvariant, PTL DEF Spec, DeniedStaysDenied

----------------------------------------------------------------------------
(* Types *)

\* The one path field of a rule object.
LEMMA PathFieldIs ==
    ASSUME NEW j \in RuleObjects, Extractable(j)
    PROVE  \E f \in {"prefix", "exact", "suffix"} :
              /\ PathFieldsOf(j) = {f} /\ HasField(j, f)
              /\ \A e \in {"prefix", "exact", "suffix"} \ {f} : ~ HasField(j, e)
              /\ PathOf(j) = j.object[f].string /\ PathOf(j) \in Seq(STRING)
              /\ PathField[CHOOSE e \in PathFieldsOf(j) : TRUE] = PathField[f]
<1>1. DOMAIN PathField = {"prefix", "exact", "suffix"}
  BY DEF PathField
<1>2. PathFieldsOf(j) \subseteq {"prefix", "exact", "suffix"}
  BY <1>1 DEF PathFieldsOf
<1>3. IsFiniteSet(PathFieldsOf(j))
  <2>1. IsFiniteSet({"prefix"}) /\ IsFiniteSet({"exact"}) /\ IsFiniteSet({"suffix"})
    BY FS_Singleton
  <2>2. IsFiniteSet({"prefix"} \cup {"exact"})
    BY <2>1, FS_Union
  <2>3. IsFiniteSet(({"prefix"} \cup {"exact"}) \cup {"suffix"})
    BY <2>1, <2>2, FS_Union
  <2>4. PathFieldsOf(j) \in SUBSET (({"prefix"} \cup {"exact"}) \cup {"suffix"})
    BY <1>2
  <2> QED
    BY <2>3, <2>4, FS_Subset
<1>4. Cardinality(PathFieldsOf(j)) = 1 /\ \A f \in PathFieldsOf(j) : IsJsonString(j.object[f])
  BY DEF Extractable
<1>5. PICK f : PathFieldsOf(j) = {f}
  BY <1>3, <1>4, FS_Singleton
<1>6. f \in {"prefix", "exact", "suffix"} /\ HasField(j, f) /\ IsJsonString(j.object[f])
  BY <1>2, <1>4, <1>5 DEF PathFieldsOf
<1>7. \A e \in {"prefix", "exact", "suffix"} \ {f} : ~ HasField(j, e)
  BY <1>1, <1>5 DEF PathFieldsOf
<1>8. (CHOOSE e \in PathFieldsOf(j) : TRUE) = f
  BY <1>5
<1>9. PathOf(j) = j.object[f].string
  BY <1>8 DEF PathOf
<1>10. j.object[f].string \in Seq(STRING)
  BY <1>1, <1>6, BasicAuthAssumption
<1> QED
  BY <1>5, <1>6, <1>7, <1>8, <1>9, <1>10

\* What a rule of an extractable object consists of.
LEMMA RuleGood ==
    ASSUME NEW j \in RuleObjects, Extractable(j), NEW g \in Garbage
    PROVE  LET x == RuleOf(j, g)
           IN  /\ x.path_pattern \in IF x.request_path = <<>> THEN Garbage ELSE MatchType
               /\ \A h \in x.hosts : h.type \in MatchType
               /\ x.encoded_credentials # {}
<1>1. PICK f \in {"prefix", "exact", "suffix"} :
         PathField[CHOOSE e \in PathFieldsOf(j) : TRUE] = PathField[f]
  BY PathFieldIs
<1>2. PathField[f] \in MatchType
  BY DEF PathField, MatchType
<1>3. \A t : HostPattern(t).type \in MatchType
  BY DEF HostPattern, MatchType
<1>4. ToSet(Elements(j, "credentials")) # {}
  <2> DEFINE s == Elements(j, "credentials")
  <2>1. s \in Seq(ToSet(s)) /\ s # <<>>
    BY BasicAuthAssumption DEF IsArray, Extractable
  <2>2. Len(s) \in Nat /\ Len(s) # 0 /\ DOMAIN s = 1 .. Len(s)
    BY <2>1
  <2> QED
    BY <2>2 DEF ToSet
<1>5. /\ RuleOf(j, g).request_path = PathOf(j)
      /\ RuleOf(j, g).path_pattern = IF PathOf(j) = <<>> THEN g
                                     ELSE PathField[CHOOSE e \in PathFieldsOf(j) : TRUE]
      /\ RuleOf(j, g).hosts = {HostPattern(h.string) : h \in ToSet(Elements(j, "hosts"))}
      /\ RuleOf(j, g).encoded_credentials
           = {Encoded(c.string) : c \in ToSet(Elements(j, "credentials"))}
  BY DEF RuleOf
<1>6. RuleOf(j, g).path_pattern \in IF RuleOf(j, g).request_path = <<>> THEN Garbage ELSE MatchType
  BY <1>1, <1>2, <1>5
<1>7. \A h \in RuleOf(j, g).hosts : h.type \in MatchType
  BY <1>3, <1>5
<1>8. RuleOf(j, g).encoded_credentials # {}
  BY <1>4, <1>5
<1> QED
  BY <1>6, <1>7, <1>8

\* The realm is the default one or one that a configuration names.
LEMMA RealmType ==
    ASSUME loaded \in Seq(Config)
    PROVE  NamedRealm(loaded) \in
             {"istio"} \cup {c.object.realm.string : c \in {d \in Config : NamesRealm(d)}}
<1>1. CASE Naming(loaded) = {}
  BY <1>1 DEF NamedRealm
<1>2. CASE Naming(loaded) # {}
  <2>1. Naming(loaded) \in SUBSET (1 .. Len(loaded)) /\ Len(loaded) \in Nat
    BY DEF Naming
  <2>2. Max(Naming(loaded)) \in Naming(loaded)
    BY <1>2, <2>1, MaxOfIndices
  <2>3. loaded[Max(Naming(loaded))] \in {d \in Config : NamesRealm(d)}
    BY <2>1, <2>2 DEF Naming
  <2> QED
    BY <1>2, <2>3 DEF NamedRealm
<1> QED
  BY <1>1, <1>2

\* Every rule can be used by check, and every answer is one of its three.
THEOREM AuthTypeCorrect == Spec => []TypeOK
<1>1. AuthInv => TypeOK
  <2> SUFFICES ASSUME AuthInv PROVE TypeOK
    OBVIOUS
  <2>1. realm \in {"istio"} \cup {c.object.realm.string : c \in {d \in Config : NamesRealm(d)}}
    BY RealmType DEF AuthInv
  <2>2. DOMAIN rules = Method
    BY DEF AuthInv, RulesInv
  <2>3. ASSUME NEW m \in Method, NEW x \in ToSet(rules[m])
        PROVE  /\ x.path_pattern \in IF x.request_path = <<>> THEN Garbage ELSE MatchType
               /\ \A h \in x.hosts : h.type \in MatchType
               /\ x.encoded_credentials # {}
    <3>1. PICK j \in InForce : \E g \in Garbage : x = RuleOf(j, g)
      BY DEF AuthInv, RulesInv
    <3>2. j \in RuleObjects /\ Extractable(j)
      BY InForceGood DEF AuthInv
    <3> QED
      BY <3>1, <3>2, RuleGood, Zenon
  <2>4. ASSUME last.answered
        PROVE  /\ last.request \in Request
               /\ last.response \in {"Continue", "NoBasicAuthData", "InvalidCredentials"}
    <3>1. PICK r \in Request : last.request = r /\ last.response = Response(rules, r)
      BY <2>4 DEF AuthInv, AnswerInv, NoAnswer
    <3>2. \A x : CredentialsCheck(x, r.authorization) \in
                    {"Continue", "NoBasicAuthData", "InvalidCredentials"}
      BY DEF CredentialsCheck
    <3>3. Response(rules, r) \in {"Continue", "NoBasicAuthData", "InvalidCredentials"}
      BY <3>2, ResponseIs
    <3> QED
      BY <3>1, <3>3
  <2> QED
    BY <2>1, <2>2, <2>3, <2>4 DEF TypeOK, AuthInv
<1> QED
  BY <1>1, AuthInvariant, PTL

----------------------------------------------------------------------------
(* The host and the path of a request *)

\* rfind finds the last one, and 0 stands for none.
LEMMA RFindIs ==
    ASSUME NEW S, NEW s \in Seq(S), NEW ch
    PROVE  /\ RFind(s, ch) \in 0 .. Len(s)
           /\ RFind(s, ch) # 0 => s[RFind(s, ch)] = ch
           /\ \A i \in 1 .. Len(s) : s[i] = ch => i <= RFind(s, ch)
<1> DEFINE n == Len(s)
           U == {0} \cup {i \in DOMAIN s : s[i] = ch}
<1>1. n \in Nat /\ DOMAIN s = 1 .. n
  OBVIOUS
<1>2. U \in SUBSET (0 .. n) /\ 0 \in U
  BY <1>1
<1>3. RFind(s, ch) = CHOOSE x \in U : \A y \in U : x >= y
  BY Zenon DEF RFind, Max
<1>4. \E x \in U : \A y \in U : x >= y
  <2> HIDE DEF U, n
  <2> DEFINE D == {n - x : x \in U}
  <2>1. D \in SUBSET Nat /\ D # {}
    BY <1>1, <1>2
  <2>2. PICK d \in D : \A e \in D : d <= e
    <3> HIDE DEF D
    <3> QED
      BY <2>1, LeastElement
  <2>3. PICK x \in U : d = n - x
    BY <2>2
  <2>4. \A y \in U : n - x <= n - y
    BY <2>2, <2>3
  <2>5. \A y \in U : x >= y
    BY <1>1, <1>2, <2>4
  <2> QED
    BY <2>5
<1>5. RFind(s, ch) \in U /\ \A y \in U : RFind(s, ch) >= y
  <2> HIDE DEF U
  <2> QED
    BY <1>3, <1>4, Zenon
<1> QED
  BY <1>1, <1>2, <1>5

\* Joined sequences, element by element.
LEMMA JoinIs ==
    ASSUME NEW S, NEW s \in Seq(S), NEW t \in Seq(S)
    PROVE  /\ s \o t \in Seq(S) /\ Len(s \o t) = Len(s) + Len(t)
           /\ \A i \in 1 .. Len(s) : (s \o t)[i] = s[i]
           /\ \A i \in 1 .. Len(t) : (s \o t)[Len(s) + i] = t[i]
  OBVIOUS

\* A part of a sequence, element by element.
LEMMA PartIs ==
    ASSUME NEW S, NEW s \in Seq(S), NEW m \in 1 .. Len(s) + 1, NEW n \in m - 1 .. Len(s)
    PROVE  /\ SubSeq(s, m, n) \in Seq(S) /\ Len(SubSeq(s, m, n)) = n - m + 1
           /\ \A i \in 1 .. n - m + 1 : SubSeq(s, m, n)[i] = s[m + i - 1]
  OBVIOUS

\* Off a name, a colon and a port with neither a colon nor a bracket, StripPort
\* takes the colon and the port.
LEMMA StripsPort ==
    ASSUME NEW S, ":" \in S, NEW name \in Seq(S), NEW port \in Seq(S),
           \A i \in 1 .. Len(port) : port[i] # ":" /\ port[i] # "]"
    PROVE  StripPort(name \o <<":">> \o port) = name
<1> DEFINE colon == <<":">>
           na == name \o colon
           a == na \o port
           l == Len(name)
           k == Len(port)
<1>1. colon \in Seq(S) /\ Len(colon) = 1 /\ colon[1] = ":"
  OBVIOUS
<1> HIDE DEF colon
<1>2. l \in Nat /\ k \in Nat
  OBVIOUS
<1>3. /\ na \in Seq(S) /\ Len(na) = l + Len(colon)
      /\ \A i \in 1 .. l : na[i] = name[i]
      /\ \A i \in 1 .. Len(colon) : na[l + i] = colon[i]
  BY <1>1, JoinIs
<1>4. Len(na) = l + 1 /\ na[l + 1] = ":"
  BY <1>1, <1>2, <1>3
<1> HIDE DEF na
<1>5. /\ a \in Seq(S) /\ Len(a) = Len(na) + k
      /\ \A i \in 1 .. Len(na) : a[i] = na[i]
      /\ \A i \in 1 .. k : a[Len(na) + i] = port[i]
  <2>1. na \in Seq(S)
    BY <1>3
  <2> QED
    BY <2>1, JoinIs
<1> HIDE DEF a
<1> HIDE DEF l, k
<1>6. /\ Len(a) = l + 1 + k /\ a[l + 1] = ":"
      /\ \A i \in 1 .. l : a[i] = name[i]
      /\ \A i \in 1 .. k : a[l + 1 + i] = port[i]
  <2>1. l + 1 \in 1 .. l + 1 /\ \A i \in 1 .. l : i \in 1 .. l + 1
    BY <1>2
  <2>2. Len(a) = l + 1 + k /\ \A i \in 1 .. k : a[l + 1 + i] = port[i]
    BY <1>4, <1>5
  <2>3. \A i \in 1 .. l + 1 : a[i] = na[i]
    BY <1>4, <1>5
  <2>4. a[l + 1] = ":"
    BY <1>4, <2>1, <2>3
  <2>5. \A i \in 1 .. l : a[i] = name[i]
    BY <1>3, <2>1, <2>3
  <2> QED
    BY <2>2, <2>4, <2>5
<1>7. \A i \in l + 2 .. l + 1 + k : a[i] # ":" /\ a[i] # "]"
  <2> SUFFICES ASSUME NEW i \in l + 2 .. l + 1 + k PROVE a[i] # ":" /\ a[i] # "]"
    OBVIOUS
  <2>1. i - l - 1 \in 1 .. k /\ l + 1 + (i - l - 1) = i
    BY <1>2
  <2>2. a[i] = port[i - l - 1]
    BY <1>6, <2>1
  <2> QED
    BY <2>1, <2>2 DEF k
<1> DEFINE c == RFind(a, ":")
           b == RFind(a, "]")
<1>8. /\ c \in 0 .. Len(a) /\ (c # 0 => a[c] = ":")
      /\ \A i \in 1 .. Len(a) : a[i] = ":" => i <= c
  BY <1>5, RFindIs
<1>9. b \in 0 .. Len(a) /\ (b # 0 => a[b] = "]")
  BY <1>5, RFindIs
<1> HIDE DEF b, c
<1>10. c = l + 1
  BY <1>2, <1>6, <1>7, <1>8
<1>11. b < l + 1
  <2>1. b # l + 1
    BY <1>2, <1>6, <1>9
  <2> QED
    BY <1>2, <1>6, <1>7, <1>9, <2>1
<1>12. StripPort(a) = SubSeq(a, 1, c - 1)
  BY <1>2, <1>10, <1>11 DEF StripPort, b, c
<1>13. SubSeq(a, 1, l) = name
  <2> DEFINE w == SubSeq(a, 1, l)
  <2>1. 1 \in 1 .. Len(a) + 1 /\ l \in 1 - 1 .. Len(a)
    BY <1>2, <1>6
  <2>2. w \in Seq(S) /\ Len(w) = l - 1 + 1 /\ \A i \in 1 .. l - 1 + 1 : w[i] = a[1 + i - 1]
    BY <1>5, <2>1, PartIs
  <2>3. Len(w) = l /\ \A i \in 1 .. l : w[i] = name[i]
    BY <1>2, <1>6, <2>2
  <2> HIDE DEF w
  <2>4. w = name
    BY <2>2, <2>3, SeqEqual DEF l
  <2> QED
    BY <2>4 DEF w
<1>14. StripPort(a) = name
  BY <1>2, <1>10, <1>12, <1>13
<1> QED
  BY <1>14 DEF a, na, colon

\* The port is all that is removed from the authority: no part of a v6 address.
LEMMA StripIs ==
    ASSUME NEW r \in Request
    PROVE  StripPort(Authority(r)) = r.name
<1> DEFINE Char == STRING \cup {":"}
           name == r.name
           port == r.port
<1>1. name \in Seq(STRING) /\ port \in Seq(STRING)
  BY BasicAuthAssumption
<1>2. /\ name \in Seq(Char) /\ Len(name) \in Nat /\ DOMAIN name = 1 .. Len(name)
      /\ port \in Seq(Char) /\ Len(port) \in Nat /\ DOMAIN port = 1 .. Len(port)
      /\ ":" \in Char
  <2> HIDE DEF name, port
  <2> QED
    BY <1>1
<1> HIDE DEF Char
<1>3. ToSet(port) \cap {":", "]"} = {}
  BY AuthorityAssumption
<1>4. \A i \in DOMAIN name : name[i] = ":" => \E k \in DOMAIN name : k > i /\ name[k] = "]"
  BY AuthorityAssumption
<1>5. Authority(r) = IF port = <<>> THEN name ELSE name \o <<":">> \o port
  BY DEF Authority
<1> HIDE DEF name, port
<1>6. CASE port = <<>>
  <2> DEFINE c == RFind(name, ":")
             b == RFind(name, "]")
  <2>1. ASSUME c # 0 PROVE ~ (b < c)
    <3>1. c \in 1 .. Len(name) /\ name[c] = ":"
      BY <1>2, <2>1, RFindIs
    <3>2. PICK q \in 1 .. Len(name) : q > c /\ name[q] = "]"
      BY <1>2, <1>4, <3>1
    <3>3. b \in 0 .. Len(name) /\ q <= b
      BY <1>2, <3>2, RFindIs
    <3> HIDE DEF b, c
    <3> QED
      BY <1>2, <3>1, <3>2, <3>3
  <2>2. StripPort(name) = name
    BY <2>1 DEF StripPort
  <2> QED
    BY <1>5, <1>6, <2>2 DEF name
<1>7. CASE port # <<>>
  <2>1. \A i \in 1 .. Len(port) : port[i] # ":" /\ port[i] # "]"
    BY <1>2, <1>3 DEF ToSet
  <2>2. StripPort(name \o <<":">> \o port) = name
    BY <1>2, <2>1, StripsPort
  <2> QED
    BY <1>5, <1>7, <2>2 DEF name
<1> QED
  BY <1>6, <1>7

\* Prefixes and suffixes.
LEMMA PrefixIs ==
    ASSUME NEW S, NEW s \in Seq(S), NEW t \in Seq(S)
    PROVE  /\ IsPrefix(s, t) <=> Len(s) <= Len(t) /\ SubSeq(t, 1, Len(s)) = s
           /\ IsPrefix(s, t) <=> Len(s) <= Len(t) /\ \A i \in 1 .. Len(s) : t[i] = s[i]
<1>1. SubSeq(s, 1, Len(s)) = s
  OBVIOUS
<1>2. Len(s) <= Len(t) => (SubSeq(t, 1, Len(s)) = s <=> \A i \in 1 .. Len(s) : t[i] = s[i])
  OBVIOUS
<1> QED
  BY <1>1, <1>2 DEF IsPrefix

\* IsSuffix is IsPrefix of the reversed sequences.
LEMMA SuffixIs ==
    ASSUME NEW S, NEW s \in Seq(S), NEW t \in Seq(S)
    PROVE  /\ IsSuffix(s, t) <=>
                 Len(s) <= Len(t) /\ SubSeq(t, Len(t) - Len(s) + 1, Len(t)) = s
           /\ IsSuffix(s, t) <=>
                 Len(s) <= Len(t) /\ \A i \in 1 .. Len(s) : t[Len(t) - Len(s) + i] = s[i]
<1> DEFINE m == Len(s)
           n == Len(t)
           u == Reverse(s)
           v == Reverse(t)
<1>1. m \in Nat /\ n \in Nat /\ DOMAIN s = 1 .. m /\ DOMAIN t = 1 .. n
  OBVIOUS
<1>2. /\ u \in Seq(S) /\ Len(u) = m /\ \A i \in 1 .. m : u[i] = s[m - i + 1]
      /\ v \in Seq(S) /\ Len(v) = n /\ \A i \in 1 .. n : v[i] = t[n - i + 1]
  BY <1>1 DEF Reverse
<1>3. IsSuffix(s, t) <=> m <= n /\ \A i \in 1 .. m : v[i] = u[i]
  <2> HIDE DEF u, v
  <2>1. IsPrefix(u, v) <=> Len(u) <= Len(v) /\ \A i \in 1 .. Len(u) : v[i] = u[i]
    BY <1>2, PrefixIs
  <2> QED
    BY <1>2, <2>1 DEF IsSuffix, u, v
<1> HIDE DEF u, v
<1>4. ASSUME m <= n
      PROVE  (\A i \in 1 .. m : v[i] = u[i]) <=> \A i \in 1 .. m : t[n - m + i] = s[i]
  <2>1. ASSUME \A i \in 1 .. m : v[i] = u[i], NEW i \in 1 .. m PROVE t[n - m + i] = s[i]
    <3>1. m - i + 1 \in 1 .. m /\ m - i + 1 \in 1 .. n
      BY <1>1, <1>4
    <3>2. n - (m - i + 1) + 1 = n - m + i /\ m - (m - i + 1) + 1 = i
      BY <1>1
    <3>3. v[m - i + 1] = t[n - m + i] /\ u[m - i + 1] = s[i]
      BY <1>2, <3>1, <3>2
    <3> QED
      BY <2>1, <3>1, <3>3
  <2>2. ASSUME \A i \in 1 .. m : t[n - m + i] = s[i], NEW i \in 1 .. m PROVE v[i] = u[i]
    <3>1. m - i + 1 \in 1 .. m /\ i \in 1 .. n
      BY <1>1, <1>4
    <3>2. n - m + (m - i + 1) = n - i + 1
      BY <1>1
    <3>3. t[n - i + 1] = s[m - i + 1]
      BY <2>2, <3>1, <3>2
    <3> QED
      BY <1>2, <3>1, <3>3
  <2> QED
    BY <2>1, <2>2
<1>5. ASSUME m <= n
      PROVE  (SubSeq(t, n - m + 1, n) = s) <=> \A i \in 1 .. m : t[n - m + i] = s[i]
  <2> DEFINE f == n - m + 1
             w == SubSeq(t, f, n)
  <2>1. f \in 1 .. Len(t) + 1 /\ n \in f - 1 .. Len(t) /\ n - f + 1 = m
    BY <1>1, <1>5
  <2>2. /\ w \in Seq(S) /\ Len(w) = n - f + 1
        /\ \A i \in 1 .. n - f + 1 : w[i] = t[f + i - 1]
    <3> HIDE DEF f
    <3> QED
      BY <2>1, PartIs
  <2>3. Len(w) = m /\ \A i \in 1 .. m : w[i] = t[n - m + i]
    <3> HIDE DEF w
    <3> QED
      BY <1>1, <1>5, <2>1, <2>2
  <2> HIDE DEF w
  <2>4. (\A i \in 1 .. m : t[n - m + i] = s[i]) => w = s
    BY <2>2, <2>3, SeqEqual
  <2>5. w = s => \A i \in 1 .. m : t[n - m + i] = s[i]
    BY <2>3
  <2> QED
    BY <2>4, <2>5 DEF w
<1> QED
  BY <1>3, <1>4, <1>5

\* The pattern a host of a rule becomes stands for what the README says it does.
LEMMA HostStands ==
    ASSUME NEW S, "*" \in S, NEW host \in Seq(S), NEW name \in Seq(S)
    PROVE  Matches(HostPattern(host).type, HostPattern(host).text, name) <=> Stands(host, name)
<1> DEFINE star == <<"*">>
           h == Len(host)
           l == Len(name)
<1>1. star \in Seq(S) /\ Len(star) = 1 /\ star[1] = "*"
  OBVIOUS
<1> HIDE DEF star
<1>2. h \in Nat /\ l \in Nat
  OBVIOUS
<1>3. IsPrefix(star, host) <=> 1 <= h /\ host[1] = "*"
  <2>1. IsPrefix(star, host) <=> Len(star) <= h /\ \A i \in 1 .. Len(star) : host[i] = star[i]
    BY <1>1, PrefixIs
  <2> QED
    BY <1>1, <1>2, <2>1
<1>4. IsSuffix(star, host) <=> 1 <= h /\ host[h] = "*"
  <2>1. IsSuffix(star, host) <=>
            Len(star) <= h /\ \A i \in 1 .. Len(star) : host[h - Len(star) + i] = star[i]
    BY <1>1, SuffixIs
  <2>2. h - 1 + 1 = h
    BY <1>2
  <2> QED
    BY <1>1, <1>2, <2>1, <2>2
<1>5. ASSUME NEW n \in 0 .. l
      PROVE  host = star \o SubSeq(name, n + 1, l) <=>
                /\ h = 1 + (l - n) /\ host[1] = "*"
                /\ \A i \in 1 .. l - n : host[1 + i] = name[n + i]
  <2> DEFINE w == SubSeq(name, n + 1, l)
             z == star \o w
  <2>1. n + 1 \in 1 .. l + 1 /\ l \in n + 1 - 1 .. l /\ l - (n + 1) + 1 = l - n
    BY <1>2
  <2>2. /\ w \in Seq(S) /\ Len(w) = l - n
        /\ \A i \in 1 .. l - n : w[i] = name[n + i]
    <3> DEFINE f == n + 1
    <3>1. /\ w \in Seq(S) /\ Len(w) = l - f + 1
          /\ \A i \in 1 .. l - f + 1 : w[i] = name[f + i - 1]
      <4>1. f \in 1 .. Len(name) + 1 /\ l \in f - 1 .. Len(name)
        BY <2>1
      <4>2. w = SubSeq(name, f, l)
        OBVIOUS
      <4> HIDE DEF f, w
      <4> QED
        BY <4>1, <4>2, PartIs
    <3> HIDE DEF w
    <3>2. \A i \in Int : n + 1 + i - 1 = n + i
      BY <1>2
    <3> QED
      BY <2>1, <3>1, <3>2
  <2> HIDE DEF w
  <2>3. /\ z \in Seq(S) /\ Len(z) = Len(star) + Len(w)
        /\ \A i \in 1 .. Len(star) : z[i] = star[i]
        /\ \A i \in 1 .. Len(w) : z[Len(star) + i] = w[i]
    <3>1. star \in Seq(S)
      BY <1>1
    <3>2. w \in Seq(S)
      BY <2>2
    <3> QED
      BY <3>1, <3>2, JoinIs
  <2> HIDE DEF z
  <2>4. /\ Len(z) = 1 + (l - n) /\ z[1] = "*"
        /\ \A i \in 1 .. l - n : z[1 + i] = name[n + i]
    BY <1>1, <2>2, <2>3
  <2>5. ASSUME h = 1 + (l - n), host[1] = "*", \A i \in 1 .. l - n : host[1 + i] = name[n + i]
        PROVE  host = z
    <3>1. \A i \in 1 .. h : host[i] = z[i]
      <4> SUFFICES ASSUME NEW i \in 1 .. h PROVE host[i] = z[i]
        OBVIOUS
      <4>1. CASE i = 1
        BY <2>4, <2>5, <4>1
      <4>2. CASE i # 1
        <5>1. i - 1 \in 1 .. l - n /\ 1 + (i - 1) = i
          BY <1>2, <2>5, <4>2
        <5> QED
          BY <2>4, <2>5, <5>1
      <4> QED
        BY <4>1, <4>2
    <3>2. z \in Seq(S) /\ Len(host) = Len(z)
      BY <2>3, <2>4, <2>5
    <3> QED
      BY <3>1, <3>2, SeqEqual
  <2>6. host = z => /\ h = 1 + (l - n) /\ host[1] = "*"
                    /\ \A i \in 1 .. l - n : host[1 + i] = name[n + i]
    BY <2>4
  <2> QED
    BY <2>5, <2>6 DEF z, w
<1>6. ASSUME NEW n \in 1 .. l
      PROVE  host = SubSeq(name, 1, n) \o star <=>
                /\ h = n + 1 /\ host[n + 1] = "*"
                /\ \A i \in 1 .. n : host[i] = name[i]
  <2> DEFINE w == SubSeq(name, 1, n)
             z == w \o star
  <2>1. 1 \in 1 .. l + 1 /\ n \in 1 - 1 .. l /\ n - 1 + 1 = n
    BY <1>2
  <2>2. w \in Seq(S) /\ Len(w) = n /\ \A i \in 1 .. n : w[i] = name[i]
    <3>1. /\ w \in Seq(S) /\ Len(w) = n - 1 + 1
          /\ \A i \in 1 .. n - 1 + 1 : w[i] = name[1 + i - 1]
      BY <2>1, PartIs
    <3> HIDE DEF w
    <3>2. \A i \in Int : 1 + i - 1 = i
      OBVIOUS
    <3> QED
      BY <2>1, <3>1, <3>2
  <2> HIDE DEF w
  <2>3. /\ z \in Seq(S) /\ Len(z) = Len(w) + Len(star)
        /\ \A i \in 1 .. Len(w) : z[i] = w[i]
        /\ \A i \in 1 .. Len(star) : z[Len(w) + i] = star[i]
    <3>1. star \in Seq(S)
      BY <1>1
    <3>2. w \in Seq(S)
      BY <2>2
    <3> QED
      BY <3>1, <3>2, JoinIs
  <2> HIDE DEF z
  <2>4. Len(z) = n + 1 /\ z[n + 1] = "*" /\ \A i \in 1 .. n : z[i] = name[i]
    BY <1>1, <2>2, <2>3
  <2>5. ASSUME h = n + 1, host[n + 1] = "*", \A i \in 1 .. n : host[i] = name[i]
        PROVE  host = z
    <3>1. \A i \in 1 .. h : host[i] = z[i]
      BY <1>2, <2>4, <2>5
    <3>2. z \in Seq(S) /\ Len(host) = Len(z)
      BY <2>3, <2>4, <2>5
    <3> QED
      BY <3>1, <3>2, SeqEqual
  <2>6. host = z => /\ h = n + 1 /\ host[n + 1] = "*"
                    /\ \A i \in 1 .. n : host[i] = name[i]
    BY <2>4
  <2> QED
    BY <2>5, <2>6 DEF z, w
<1> DEFINE Ends(n) == /\ h = 1 + (l - n) /\ host[1] = "*"
                      /\ \A i \in 1 .. l - n : host[1 + i] = name[n + i]
           Begins(n) == /\ h = n + 1 /\ host[n + 1] = "*"
                        /\ \A i \in 1 .. n : host[i] = name[i]
<1>7. Stands(host, name) <=>
        \/ host = name
        \/ \E n \in 0 .. l : Ends(n)
        \/ \E n \in 1 .. l : Begins(n) /\ name[1] # "*"
  BY <1>5, <1>6, Zenon DEF Stands, star
<1>8. CASE IsPrefix(star, host)
  <2>1. Matches(HostPattern(host).type, HostPattern(host).text, name) <=> IsSuffix(Tail(host), name)
    BY <1>8 DEF HostPattern, Matches, star
  <2> DEFINE u == Tail(host)
  <2>2. 1 <= h /\ host[1] = "*"
    BY <1>3, <1>8
  <2>3. u \in Seq(S) /\ Len(u) = h - 1 /\ \A i \in 1 .. h - 1 : u[i] = host[1 + i]
    BY <1>2, <2>2
  <2> HIDE DEF u
  <2>4. IsSuffix(u, name) <=> Len(u) <= l /\ \A i \in 1 .. Len(u) : name[l - Len(u) + i] = u[i]
    BY <2>3, SuffixIs
  <2>5. IsSuffix(u, name) <=> h - 1 <= l /\ \A i \in 1 .. h - 1 : name[l - (h - 1) + i] = host[1 + i]
    BY <2>3, <2>4
  <2>6. IsSuffix(u, name) => \E n \in 0 .. l : Ends(n)
    <3> SUFFICES ASSUME IsSuffix(u, name) PROVE \E n \in 0 .. l : Ends(n)
      OBVIOUS
    <3> DEFINE n == l - (h - 1)
    <3>1. n \in 0 .. l /\ l - n = h - 1 /\ h = 1 + (l - n)
      BY <1>2, <2>2, <2>5
    <3>2. \A i \in 1 .. l - n : host[1 + i] = name[n + i]
      BY <2>5, <3>1
    <3> HIDE DEF n
    <3> QED
      BY <2>2, <3>1, <3>2
  <2>7. ASSUME NEW n \in 0 .. l, Ends(n) PROVE IsSuffix(u, name)
    <3>1. h - 1 = l - n /\ l - (h - 1) = n /\ h - 1 <= l
      BY <1>2, <2>7
    <3> QED
      BY <2>5, <2>7, <3>1
  <2>8. host = name => IsSuffix(u, name)
    <3> SUFFICES ASSUME host = name PROVE IsSuffix(u, name)
      OBVIOUS
    <3>1. h = l /\ h - 1 <= l /\ l - (h - 1) = 1
      BY <1>2
    <3> QED
      BY <2>5, <3>1
  <2>9. ASSUME NEW n \in 1 .. l, Begins(n), name[1] # "*" PROVE FALSE
    BY <1>2, <2>2, <2>9
  <2> QED
    BY <1>7, <2>1, <2>6, <2>7, <2>8, <2>9, Zenon DEF u
<1>9. CASE ~ IsPrefix(star, host) /\ IsSuffix(star, host)
  <2>1. Matches(HostPattern(host).type, HostPattern(host).text, name) <=> IsPrefix(Front(host), name)
    BY <1>9 DEF HostPattern, Matches, star
  <2> DEFINE u == Front(host)
  <2>2. 2 <= h /\ host[1] # "*" /\ host[h] = "*"
    BY <1>2, <1>3, <1>4, <1>9
  <2>3. u \in Seq(S) /\ Len(u) = h - 1 /\ \A i \in 1 .. h - 1 : u[i] = host[i]
    <3> DEFINE w == SubSeq(host, 1, h - 1)
    <3>1. 1 \in 1 .. h + 1 /\ h - 1 \in 1 - 1 .. h /\ (h - 1) - 1 + 1 = h - 1
      BY <1>2, <2>2
    <3>2. /\ w \in Seq(S) /\ Len(w) = (h - 1) - 1 + 1
          /\ \A i \in 1 .. (h - 1) - 1 + 1 : w[i] = host[1 + i - 1]
      BY <3>1, PartIs
    <3>3. u = w
      BY DEF Front
    <3> HIDE DEF w, u
    <3>4. \A i \in 1 .. h - 1 : 1 + i - 1 = i
      BY <1>2
    <3>5. w \in Seq(S) /\ Len(w) = h - 1 /\ \A i \in 1 .. h - 1 : w[i] = host[1 + i - 1]
      BY <3>1, <3>2
    <3> QED
      BY <3>3, <3>4, <3>5
  <2> HIDE DEF u
  <2>4. IsPrefix(u, name) <=> Len(u) <= l /\ \A i \in 1 .. Len(u) : name[i] = u[i]
    BY <2>3, PrefixIs
  <2>5. IsPrefix(u, name) <=> h - 1 <= l /\ \A i \in 1 .. h - 1 : name[i] = host[i]
    BY <2>3, <2>4
  <2>6. IsPrefix(u, name) => \E n \in 1 .. l : Begins(n) /\ name[1] # "*"
    <3> SUFFICES ASSUME IsPrefix(u, name) PROVE \E n \in 1 .. l : Begins(n) /\ name[1] # "*"
      OBVIOUS
    <3> DEFINE n == h - 1
    <3>1. n \in 1 .. l /\ h = n + 1 /\ 1 \in 1 .. n
      BY <1>2, <2>2, <2>5
    <3>2. \A i \in 1 .. n : host[i] = name[i]
      BY <2>5
    <3> HIDE DEF n
    <3> QED
      BY <2>2, <3>1, <3>2
  <2>7. ASSUME NEW n \in 1 .. l, Begins(n), name[1] # "*" PROVE IsPrefix(u, name)
    <3>1. h - 1 = n /\ h - 1 <= l
      BY <1>2, <2>7
    <3> QED
      BY <2>5, <2>7, <3>1
  <2>8. host = name => IsPrefix(u, name)
    <3> SUFFICES ASSUME host = name PROVE IsPrefix(u, name)
      OBVIOUS
    <3>1. h = l /\ h - 1 <= l
      BY <1>2
    <3> QED
      BY <2>5, <3>1
  <2>9. ASSUME NEW n \in 0 .. l, Ends(n) PROVE FALSE
    BY <2>2, <2>9
  <2> QED
    BY <1>7, <2>1, <2>6, <2>7, <2>8, <2>9, Zenon DEF u
<1>10. CASE ~ IsPrefix(star, host) /\ ~ IsSuffix(star, host)
  <2>1. Matches(HostPattern(host).type, HostPattern(host).text, name) <=> host = name
    BY <1>10 DEF HostPattern, Matches, star
  <2>2. ASSUME NEW n \in 0 .. l, Ends(n) PROVE FALSE
    BY <1>2, <1>3, <1>10, <2>2
  <2>3. ASSUME NEW n \in 1 .. l, Begins(n) PROVE FALSE
    BY <1>2, <1>4, <1>10, <2>3
  <2> QED
    BY <1>7, <2>1, <2>2, <2>3, Zenon
<1> QED
  BY <1>8, <1>9, <1>10

\* The hosts of a rule cover a request whatever its port is.
LEMMA HostsCover ==
    ASSUME NEW j \in RuleObjects, Extractable(j), NEW g, NEW r \in Request
    PROVE  HostMatch(RuleOf(j, g), Authority(r)) <=>
             \/ Elements(j, "hosts") = <<>>
             \/ \E h \in ToSet(Elements(j, "hosts")) : Stands(h.string, r.name)
<1> DEFINE s == Elements(j, "hosts")
           Char == STRING \cup {"*"}
           hosts == {HostPattern(h.string) : h \in ToSet(s)}
           name == r.name
<1>1. s \in Seq(ToSet(s))
  BY BasicAuthAssumption DEF IsArray
<1>2. \A h \in ToSet(s) : IsJsonString(h)
  <2>1. s = <<>> \/ Iterated(s, IsJsonString) = Len(s)
    BY DEF Extractable, JsonArrayIterate, Elements
  <2>2. s = <<>> => ToSet(s) = {}
    BY DEF ToSet
  <2> QED
    BY <1>1, <2>1, <2>2, StringsIterated
<1>3. s = <<>> <=> ToSet(s) = {}
  <2> HIDE DEF s
  <2>1. Len(s) \in Nat /\ DOMAIN s = 1 .. Len(s) /\ (s = <<>> <=> Len(s) = 0)
    BY <1>1
  <2>2. s = <<>> <=> DOMAIN s = {}
    BY <2>1
  <2>3. ToSet(s) = {} <=> DOMAIN s = {}
    BY DEF ToSet
  <2> QED
    BY <2>2, <2>3
<1>4. \A h \in ToSet(s) : h.string \in Seq(STRING)
  BY <1>2, BasicAuthAssumption
<1>5. name \in Seq(STRING)
  BY BasicAuthAssumption
<1>6. \A t \in Seq(STRING) : t \in Seq(Char)
  OBVIOUS
<1>7. "*" \in Char
  OBVIOUS
<1>8. RuleOf(j, g).hosts = hosts
  BY DEF RuleOf
<1>9. StripPort(Authority(r)) = name
  BY StripIs
<1> HIDE DEF s, Char, name
<1>10. \A h \in ToSet(s) :
          Matches(HostPattern(h.string).type, HostPattern(h.string).text, name)
            <=> Stands(h.string, name)
  BY <1>4, <1>5, <1>6, <1>7, HostStands
<1>11. HostMatch(RuleOf(j, g), Authority(r)) <=>
          hosts = {} \/ \E p \in hosts : Matches(p.type, p.text, name)
  <2> HIDE DEF hosts
  <2> QED
    BY <1>8, <1>9 DEF HostMatch
<1>12. (\E p \in hosts : Matches(p.type, p.text, name)) <=>
          \E h \in ToSet(s) :
             Matches(HostPattern(h.string).type, HostPattern(h.string).text, name)
  OBVIOUS
<1>13. hosts = {} <=> ToSet(s) = {}
  OBVIOUS
<1>14. HostMatch(RuleOf(j, g), Authority(r)) <=>
          s = <<>> \/ \E h \in ToSet(s) : Stands(h.string, name)
  <2> HIDE DEF hosts
  <2> QED
    BY <1>3, <1>10, <1>11, <1>12, <1>13
<1> QED
  BY <1>14 DEF s, name

\* So does its path, unless it is empty.
LEMMA PathCovers ==
    ASSUME NEW j \in RuleObjects, Extractable(j), NEW g, NEW r \in Request, PathOf(j) # <<>>
    PROVE  Matches(RuleOf(j, g).path_pattern, RuleOf(j, g).request_path, r.path) <=> OnPath(j, r)
<1> DEFINE path == PathOf(j)
           t == r.path
<1>1. PICK f \in {"prefix", "exact", "suffix"} :
         /\ HasField(j, f)
         /\ \A e \in {"prefix", "exact", "suffix"} \ {f} : ~ HasField(j, e)
         /\ path \in Seq(STRING)
         /\ PathField[CHOOSE e \in PathFieldsOf(j) : TRUE] = PathField[f]
  BY PathFieldIs
<1>2. RuleOf(j, g).request_path = path /\ RuleOf(j, g).path_pattern = PathField[f]
  BY <1>1 DEF RuleOf
<1>3. t \in Seq(STRING)
  BY BasicAuthAssumption
<1>4. OnPath(j, r) =
        CASE HasField(j, "exact")  -> t = path
          [] HasField(j, "prefix") -> Len(t) >= Len(path) /\ SubSeq(t, 1, Len(path)) = path
          [] HasField(j, "suffix") ->
                Len(t) >= Len(path) /\ SubSeq(t, Len(t) - Len(path) + 1, Len(t)) = path
  BY Zenon DEF OnPath
<1> HIDE DEF path, t
<1>5. Len(t) \in Nat /\ Len(path) \in Nat
  BY <1>1, <1>3
<1>6. CASE f = "exact"
  <2>1. OnPath(j, r) <=> t = path
    BY <1>1, <1>4, <1>6
  <2> QED
    BY <1>2, <1>6, <2>1 DEF Matches, PathField, t
<1>7. CASE f = "prefix"
  <2>1. OnPath(j, r) <=> Len(t) >= Len(path) /\ SubSeq(t, 1, Len(path)) = path
    BY <1>1, <1>4, <1>7
  <2>2. IsPrefix(path, t) <=> Len(path) <= Len(t) /\ SubSeq(t, 1, Len(path)) = path
    BY <1>1, <1>3, PrefixIs
  <2>3. IsPrefix(path, t) <=> OnPath(j, r)
    BY <1>5, <2>1, <2>2
  <2> QED
    BY <1>2, <1>7, <2>3 DEF Matches, PathField, t
<1>8. CASE f = "suffix"
  <2>1. OnPath(j, r) <=>
            Len(t) >= Len(path) /\ SubSeq(t, Len(t) - Len(path) + 1, Len(t)) = path
    BY <1>1, <1>4, <1>8
  <2>2. IsSuffix(path, t) <=>
            Len(path) <= Len(t) /\ SubSeq(t, Len(t) - Len(path) + 1, Len(t)) = path
    BY <1>1, <1>3, SuffixIs
  <2>3. IsSuffix(path, t) <=> OnPath(j, r)
    BY <1>5, <2>1, <2>2
  <2> QED
    BY <1>2, <1>8, <2>3 DEF Matches, PathField, t
<1> QED
  BY <1>1, <1>6, <1>7, <1>8

\* A rule accepts the credentials it lists, and its refusals say why.
LEMMA CredentialsCover ==
    ASSUME NEW j \in RuleObjects, Extractable(j), NEW g, NEW r
    PROVE  /\ CredentialsCheck(RuleOf(j, g), r.authorization) = "Continue" <=> HasAccess(j, r)
           /\ CredentialsCheck(RuleOf(j, g), r.authorization) # "Continue" =>
                 (CredentialsCheck(RuleOf(j, g), r.authorization) = "NoBasicAuthData"
                    <=> r.authorization.scheme # "Basic")
<1> DEFINE s == Elements(j, "credentials")
           a == r.authorization
<1>1. s \in Seq(ToSet(s))
  BY BasicAuthAssumption DEF IsArray
<1>2. \A c \in ToSet(s) : IsCredential(c)
  <2>1. s = <<>> \/ Iterated(s, IsCredential) = Len(s)
    BY DEF Extractable, JsonArrayIterate, Elements
  <2>2. s = <<>> => ToSet(s) = {}
    BY DEF ToSet
  <2> QED
    BY <1>1, <2>1, <2>2, CredentialsIterated
<1>3. \A c \in ToSet(s) : c.string \in Seq(Byte)
  BY <1>2, BasicAuthAssumption DEF IsCredential
<1>4. \A c \in ToSet(s) : Encoded(c.string) =
                            IF Colon \in ToSet(c.string) THEN Rfc4648(c.string) ELSE c.string
  BY <1>3, EncodeIsRfc4648 DEF Encoded
<1>5. RuleOf(j, g).encoded_credentials = {Encoded(c.string) : c \in ToSet(s)}
  BY DEF RuleOf
<1>6. HasAccess(j, r) <=>
        /\ a.scheme = "Basic"
        /\ \E c \in {e.string : e \in ToSet(s)} :
              a.credential = IF Colon \in ToSet(c) THEN Rfc4648(c) ELSE c
  BY DEF HasAccess
<1> HIDE DEF s, a
<1>7. a.credential \in RuleOf(j, g).encoded_credentials <=>
        \E c \in {e.string : e \in ToSet(s)} :
              a.credential = IF Colon \in ToSet(c) THEN Rfc4648(c) ELSE c
  BY <1>4, <1>5
<1>8. /\ CredentialsCheck(RuleOf(j, g), a) = "Continue" <=> HasAccess(j, r)
      /\ CredentialsCheck(RuleOf(j, g), a) # "Continue" =>
            (CredentialsCheck(RuleOf(j, g), a) = "NoBasicAuthData" <=> a.scheme # "Basic")
  BY <1>6, <1>7 DEF CredentialsCheck
<1> QED
  BY <1>8 DEF a

\* A request is denied exactly if some rule in force covers it and does not list
\* its credentials, for every sequence of configurations, refused ones included.
THEOREM AuthAccessAsConfigured == Spec => []AccessAsConfigured
<1>1. AuthInv => AccessAsConfigured
  <2> SUFFICES ASSUME AuthInv, last.answered PROVE AccessAsConfigured
    BY DEF AccessAsConfigured
  <2>1. PICK r \in Request : last.request = r /\ last.response = Response(rules, r)
    BY DEF AuthInv, AnswerInv, NoAnswer
  <2>2. r.method \in Method
    BY BasicAuthAssumption
  <2>3. \A j \in InForce : j \in RuleObjects /\ Extractable(j)
    BY InForceGood DEF AuthInv
  <2> DEFINE Denies(j) == Covers(j, r) /\ ~ HasAccess(j, r)
  <2>4. ASSUME NEW j \in InForce, Denies(j), PathOf(j) # <<>>, OnPath(j, r)
        PROVE  last.response # "Continue"
    <3>1. Names(j, r.method)
      BY <2>4 DEF Covers, Names
    <3>2. PICK g \in Garbage : RuleOf(j, g) \in ToSet(rules[r.method])
      BY <2>2, <3>1 DEF AuthInv, RulesInv
    <3>3. HostMatch(RuleOf(j, g), Authority(r))
      BY <2>3, <2>4, HostsCover, Zenon DEF Covers
    <3>4. Matches(RuleOf(j, g).path_pattern, RuleOf(j, g).request_path, r.path)
      BY <2>3, <2>4, PathCovers, Zenon
    <3>5. CredentialsCheck(RuleOf(j, g), r.authorization) # "Continue"
      BY <2>3, <2>4, CredentialsCover, Zenon
    <3>6. RuleOf(j, g) \in Applying(rules, r)
      BY <3>2, <3>3, <3>4, Zenon DEF Applying
    <3> QED
      BY <2>1, <3>5, <3>6, ResponseIs
  <2>5. ASSUME last.response # "Continue"
        PROVE  /\ \E j \in InForce : Denies(j) /\ (PathOf(j) = <<>> \/ OnPath(j, r))
               /\ last.response = "NoBasicAuthData" <=> r.authorization.scheme # "Basic"
    <3>1. PICK x \in Applying(rules, r) :
             last.response = CredentialsCheck(x, r.authorization)
      BY <2>1, <2>5, ResponseIs
    <3>2. /\ x \in ToSet(rules[r.method]) /\ HostMatch(x, Authority(r))
          /\ Matches(x.path_pattern, x.request_path, r.path)
      BY <3>1, Zenon DEF Applying
    <3>3. PICK j \in InForce : Names(j, r.method) /\ \E g \in Garbage : x = RuleOf(j, g)
      BY <2>2, <3>2 DEF AuthInv, RulesInv
    <3>4. PICK g \in Garbage : x = RuleOf(j, g)
      BY <3>3
    <3>5. j \in RuleObjects /\ Extractable(j)
      BY <2>3
    <3>6. Covers(j, r)
      <4>1. \/ Elements(j, "hosts") = <<>>
            \/ \E h \in ToSet(Elements(j, "hosts")) : Stands(h.string, r.name)
        BY <3>2, <3>4, <3>5, HostsCover, Zenon
      <4> QED
        BY <3>3, <4>1 DEF Covers, Names
    <3>7. ~ HasAccess(j, r)
      BY <2>5, <3>1, <3>4, <3>5, CredentialsCover, Zenon
    <3>8. PathOf(j) = <<>> \/ OnPath(j, r)
      BY <3>2, <3>4, <3>5, PathCovers, Zenon
    <3>9. last.response = "NoBasicAuthData" <=> r.authorization.scheme # "Basic"
      <4>1. last.response = CredentialsCheck(RuleOf(j, g), r.authorization)
        BY <3>1, <3>4
      <4>2. CredentialsCheck(RuleOf(j, g), r.authorization) # "Continue"
        BY <2>5, <4>1
      <4>3. CredentialsCheck(RuleOf(j, g), r.authorization) = "NoBasicAuthData"
                    <=> r.authorization.scheme # "Basic"
        BY <3>5, <4>2, CredentialsCover, Zenon
      <4> QED
        BY <4>1, <4>3
    <3> QED
      BY <3>6, <3>7, <3>8, <3>9
  <2> DEFINE denying == {j \in InForce : Covers(j, r) /\ ~ HasAccess(j, r)}
  <2>6. /\ (\E j \in denying : PathOf(j) # <<>> /\ OnPath(j, r)) => last.response # "Continue"
        /\ last.response # "Continue" =>
              /\ \E j \in denying : PathOf(j) = <<>> \/ OnPath(j, r)
              /\ (last.response = "NoBasicAuthData") = (r.authorization.scheme # "Basic")
    BY <2>4, <2>5, Zenon
  <2> QED
    BY <2>1, <2>6, Zenon DEF AccessAsConfigured
<1> QED
  BY <1>1, AuthInvariant, PTL

=============================================================================
