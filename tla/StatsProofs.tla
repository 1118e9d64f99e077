---------------------------- MODULE StatsProofs ----------------------------
(***************************************************************************)
(* What is proved of the stats plugin, for every set of streams and every  *)
(* configuration.                                                          *)
(***************************************************************************)
EXTENDS Stats, FiniteSetTheorems, FunctionTheorems, SequenceTheorems, DataProofs, TLAPS

----------------------------------------------------------------------------
(* initializeDimensions: what its loops work on *)

Tag == ToSet(DefaultTags) \cup STRING
StringExpression == [token : Nat, expression : STRING]

\* The record the overrides work on, when the factories were f ...
DraftType(f) ==
    [stop : BOOLEAN,
     factories : {[m \in D |-> f[m]] : D \in SUBSET DOMAIN f},
     tags : [DOMAIN f -> Seq(Tag)],
     indexes : [DOMAIN f -> UNION {[D -> Nat] : D \in SUBSET Tag}],
     expressions : Seq(StringExpression),
     next : Nat]

\* The tags of a metric are those with an index, and indexes lead to a dimension.
InRange(a, m) ==
    /\ ToSet(a.tags[m]) = DOMAIN a.indexes[m]
    /\ \A t \in DOMAIN a.indexes[m] :
          a.indexes[m][t] \in 0 .. CountStandardLabels + Len(a.expressions)

\* ... the tokens from first on went to its expressions, one by one, none of which
\* the host refuses, and the factories of K are not dropped.
Draft(f, K, first) ==
    {a \in DraftType(f) :
        /\ a.next = first + Len(a.expressions)
        /\ \A i \in 1 .. Len(a.expressions) :
              /\ a.expressions[i].token = first + i - 1
              /\ a.expressions[i].expression \notin BadExpression
        /\ \A m \in DOMAIN f : InRange(a, m)
        /\ K \subseteq DOMAIN a.factories}

\* A malformed part ends the loop and changes nothing else.
LEMMA StopKeeps ==
    ASSUME NEW f, NEW K, NEW first \in Nat, NEW a \in Draft(f, K, first)
    PROVE  [a EXCEPT !.stop = TRUE] \in Draft(f, K, first)
<1> DEFINE b == [a EXCEPT !.stop = TRUE]
<1>1. a \in DraftType(f)
  BY DEF Draft
<1>2. b \in DraftType(f)
  BY <1>1, Zenon DEF DraftType
<1>3. /\ b.next = a.next /\ b.expressions = a.expressions
      /\ b.tags = a.tags /\ b.indexes = a.indexes /\ b.factories = a.factories
  BY <1>1 DEF DraftType
<1> HIDE DEF b
<1>4. b \in Draft(f, K, first)
  BY <1>2, <1>3 DEF Draft, InRange
<1> QED
  BY <1>4 DEF b

\* addStringExpression gives each expression a token of its own, after the others.
LEMMA AddStringExpressionKeeps ==
    ASSUME NEW f, NEW K, NEW first \in Nat, NEW a \in Draft(f, K, first), NEW value \in STRING
    PROVE  /\ AddStringExpression(a, value) \in Draft(f, K, first)
           /\ AddStringExpression(a, value).tags = a.tags
           /\ AddStringExpression(a, value).indexes = a.indexes
<1> DEFINE e == [token |-> a.next, expression |-> value]
           b == [a EXCEPT !.expressions = Append(@, e), !.next = @ + 1]
<1>1. a \in DraftType(f) /\ a.expressions \in Seq(StringExpression) /\ a.next \in Nat
  BY DEF Draft, DraftType
<1>2. e \in StringExpression /\ e.token = a.next /\ e.expression = value
  BY <1>1 DEF StringExpression
<1> HIDE DEF e
<1>3. /\ Append(a.expressions, e) \in Seq(StringExpression)
      /\ Len(Append(a.expressions, e)) = Len(a.expressions) + 1
      /\ \A i \in 1 .. Len(a.expressions) : Append(a.expressions, e)[i] = a.expressions[i]
      /\ Append(a.expressions, e)[Len(a.expressions) + 1] = e
  BY <1>1, <1>2, AppendProperties
<1>4. a.next + 1 \in Nat /\ Len(a.expressions) \in Nat
  BY <1>1, LenProperties
<1>5. b \in DraftType(f)
  BY <1>1, <1>3, <1>4, Zenon DEF DraftType
<1>6. /\ b.next = a.next + 1 /\ b.expressions = Append(a.expressions, e)
      /\ b.tags = a.tags /\ b.indexes = a.indexes /\ b.factories = a.factories
  BY <1>1 DEF DraftType
<1> HIDE DEF b
<1>7. b.next = first + Len(b.expressions)
  BY <1>1, <1>3, <1>4, <1>6 DEF Draft
<1>8. ASSUME value \notin BadExpression, NEW i \in 1 .. Len(b.expressions)
      PROVE  /\ b.expressions[i].token = first + i - 1
             /\ b.expressions[i].expression \notin BadExpression
  <2>1. CASE i \in 1 .. Len(a.expressions)
    BY <1>3, <1>6, <2>1 DEF Draft
  <2>2. CASE i = Len(a.expressions) + 1
    <3>1. /\ b.expressions[i].token = a.next /\ a.next = first + Len(a.expressions)
          /\ b.expressions[i].expression = value
      BY <1>2, <1>3, <1>6, <2>2 DEF Draft
    <3> QED
      BY <1>4, <1>8, <2>2, <3>1
  <2> QED
    BY <1>3, <1>4, <1>6, <2>1, <2>2
<1>9. ASSUME NEW m \in DOMAIN f PROVE InRange(b, m)
  <2>1. InRange(a, m)
    BY DEF Draft
  <2>2. \A k \in 0 .. CountStandardLabels + Len(a.expressions) :
           k \in 0 .. CountStandardLabels + Len(b.expressions)
    BY <1>3, <1>4, <1>6 DEF CountStandardLabels
  <2> QED
    BY <1>6, <2>1, <2>2 DEF InRange
<1>10. ASSUME value \notin BadExpression PROVE b \in Draft(f, K, first)
  BY <1>5, <1>6, <1>7, <1>8, <1>9, <1>10 DEF Draft
<1> QED
  BY <1>6, <1>10 DEF AddStringExpression, b, e

\* Removing a tag keeps the draft: the index is emptied, the tag stays listed.
LEMMA RemoveTagKeeps ==
    ASSUME NEW f, NEW K, NEW first \in Nat, NEW a \in Draft(f, K, first), NEW m \in DOMAIN f,
           NEW tag \in STRING
    PROVE  RemoveTag(a, m, tag) \in Draft(f, K, first)
<1> DEFINE x == [t \in DOMAIN a.indexes[m] |-> IF t = tag THEN Removed ELSE a.indexes[m][t]]
           b == [a EXCEPT !.indexes[m] = [t \in DOMAIN @ |-> IF t = tag THEN Removed ELSE @[t]]]
<1>1. /\ a \in DraftType(f)
      /\ a.indexes \in [DOMAIN f -> UNION {[D -> Nat] : D \in SUBSET Tag}]
  BY DEF Draft, DraftType
<1>2. x \in UNION {[D -> Nat] : D \in SUBSET Tag}
  <2>1. a.indexes[m] \in UNION {[D -> Nat] : D \in SUBSET Tag}
    BY <1>1
  <2>2. PICK D \in SUBSET Tag : a.indexes[m] \in [D -> Nat]
    BY <2>1
  <2>3. x \in [D -> Nat]
    BY <2>2 DEF Removed
  <2> QED
    BY <2>3
<1>3. b = [a EXCEPT !.indexes[m] = x]
  OBVIOUS
<1> HIDE DEF x, b
<1>4. [a.indexes EXCEPT ![m] = x] \in [DOMAIN f -> UNION {[D -> Nat] : D \in SUBSET Tag}]
  BY <1>1, <1>2
<1>5. b \in DraftType(f)
  BY <1>1, <1>3, <1>4, Zenon DEF DraftType
<1>6. /\ b.next = a.next /\ b.expressions = a.expressions
      /\ b.tags = a.tags /\ b.indexes = [a.indexes EXCEPT ![m] = x] /\ b.factories = a.factories
  BY <1>1, <1>3 DEF DraftType
<1>7. ASSUME NEW k \in DOMAIN f PROVE InRange(b, k)
  <2>1. InRange(a, k) /\ Len(a.expressions) \in Nat
    BY <1>1, LenProperties DEF Draft, DraftType
  <2>2. CASE k # m
    <3>1. b.indexes[k] = a.indexes[k]
      BY <1>1, <1>6, <2>2
    <3> QED
      BY <1>6, <2>1, <3>1 DEF InRange
  <2>3. CASE k = m
    <3>1. b.indexes[k] = x
      BY <1>1, <1>6, <2>3
    <3>2. 0 \in 0 .. CountStandardLabels + Len(a.expressions)
      BY <2>1 DEF CountStandardLabels
    <3>3. DOMAIN x = DOMAIN a.indexes[m]
      BY DEF x
    <3>4. \A t \in DOMAIN x : x[t] \in 0 .. CountStandardLabels + Len(a.expressions)
      BY <2>1, <2>3, <3>2 DEF x, InRange, Removed
    <3> QED
      BY <1>6, <2>1, <2>3, <3>1, <3>3, <3>4 DEF InRange
  <2> QED
    BY <2>2, <2>3
<1>8. b \in Draft(f, K, first)
  BY <1>5, <1>6, <1>7 DEF Draft
<1> QED
  BY <1>8, StopKeeps DEF RemoveTag, b

\* The index of an expression lies within the dimensions there are by then.
LEMMA IndexOfType ==
    ASSUME NEW f, NEW K, NEW first \in Nat, NEW a \in Draft(f, K, first), NEW value
    PROVE  IndexOf(a, value) \in 0 .. CountStandardLabels + Len(a.expressions)
<1> DEFINE found == {i \in DOMAIN a.expressions : a.expressions[i].expression = value}
<1>1. DOMAIN a.expressions = 1 .. Len(a.expressions) /\ Len(a.expressions) \in Nat
  <2>1. a.expressions \in Seq(StringExpression)
    BY DEF Draft, DraftType
  <2> QED
    BY <2>1, LenProperties
<1>2. CASE found = {}
  BY <1>1, <1>2 DEF IndexOf, Removed, CountStandardLabels
<1>3. CASE found # {}
  <2>1. found \in SUBSET Nat /\ found \subseteq 1 .. Len(a.expressions)
    BY <1>1
  <2> HIDE DEF found
  <2>2. \E x \in found : \A y \in found : x <= y
    BY <1>3, <2>1, LeastElement
  <2>3. Min(found) \in found
    BY <2>2 DEF Min
  <2>4. Min(found) \in 1 .. Len(a.expressions)
    BY <2>1, <2>3
  <2>5. CountStandardLabels + Min(found) \in 0 .. CountStandardLabels + Len(a.expressions)
    BY <1>1, <2>4 DEF CountStandardLabels
  <2> QED
    BY <1>3, <2>5 DEF IndexOf, found
<1> QED
  BY <1>2, <1>3

\* Overriding a tag keeps the draft: a tag that is new is listed once.
LEMMA OverrideTagKeeps ==
    ASSUME NEW f, NEW K, NEW first \in Nat, NEW a \in Draft(f, K, first), NEW m \in DOMAIN f,
           NEW tag \in STRING, NEW value \in STRING
    PROVE  OverrideTag(a, m, tag, value) \in Draft(f, K, first)
<1> DEFINE b == AddStringExpression(a, value)
           ts == IF tag \in DOMAIN a.indexes[m] THEN b.tags[m] ELSE Append(b.tags[m], tag)
           x == [t \in DOMAIN b.indexes[m] \cup {tag} |->
                   IF t = tag THEN IndexOf(b, value) ELSE b.indexes[m][t]]
           c == [b EXCEPT
                   !.tags[m] = IF tag \in DOMAIN a.indexes[m] THEN @ ELSE Append(@, tag),
                   !.indexes[m] = [t \in DOMAIN @ \cup {tag} |->
                                     IF t = tag THEN IndexOf(b, value) ELSE @[t]]]
<1>1. /\ b \in Draft(f, K, first) /\ b.indexes = a.indexes
      /\ IndexOf(b, value) \in 0 .. CountStandardLabels + Len(b.expressions)
  BY AddStringExpressionKeeps, IndexOfType
<1>2. c = [b EXCEPT !.tags[m] = ts, !.indexes[m] = x]
  OBVIOUS
<1>3. OverrideTag(a, m, tag, value) \in {a, [a EXCEPT !.stop = TRUE], c}
  BY DEF OverrideTag
<1> HIDE DEF b
<1>4. /\ b \in DraftType(f) /\ b.expressions \in Seq(StringExpression)
      /\ b.tags \in [DOMAIN f -> Seq(Tag)]
      /\ b.indexes \in [DOMAIN f -> UNION {[D -> Nat] : D \in SUBSET Tag}]
  BY <1>1 DEF Draft, DraftType
<1>5. tag \in Tag
  BY DEF Tag
<1>6. x \in UNION {[D -> Nat] : D \in SUBSET Tag}
  <2>1. b.indexes[m] \in UNION {[D -> Nat] : D \in SUBSET Tag}
    BY <1>4
  <2>2. PICK D \in SUBSET Tag : b.indexes[m] \in [D -> Nat]
    BY <2>1
  <2>3. IndexOf(b, value) \in Nat
    BY <1>1, <1>4, LenProperties
  <2>4. x \in [D \cup {tag} -> Nat]
    BY <2>2, <2>3
  <2>5. D \cup {tag} \in SUBSET Tag
    BY <1>5
  <2> QED
    BY <2>5, <2>4
<1>7. ts \in Seq(Tag)
  BY <1>4, <1>5, AppendProperties
<1> HIDE DEF ts, x, c
<1>8. /\ [b.tags EXCEPT ![m] = ts] \in [DOMAIN f -> Seq(Tag)]
      /\ [b.indexes EXCEPT ![m] = x] \in [DOMAIN f -> UNION {[D -> Nat] : D \in SUBSET Tag}]
  BY <1>4, <1>6, <1>7
<1>9. c \in DraftType(f)
  BY <1>2, <1>4, <1>8, Zenon DEF DraftType
<1>10. /\ c.next = b.next /\ c.expressions = b.expressions /\ c.factories = b.factories
       /\ c.tags = [b.tags EXCEPT ![m] = ts] /\ c.indexes = [b.indexes EXCEPT ![m] = x]
  BY <1>2, <1>4 DEF DraftType
<1>11. ASSUME NEW k \in DOMAIN f PROVE InRange(c, k)
  <2>1. InRange(b, k)
    BY <1>1 DEF Draft
  <2>2. CASE k # m
    <3>1. c.indexes[k] = b.indexes[k] /\ c.tags[k] = b.tags[k]
      BY <1>4, <1>10, <2>2
    <3> QED
      BY <1>10, <2>1, <3>1 DEF InRange
  <2>3. CASE k = m
    <3>1. c.indexes[k] = x /\ c.tags[k] = ts
      BY <1>4, <1>10, <2>3
    <3>2. DOMAIN x = DOMAIN b.indexes[m] \cup {tag}
      BY DEF x
    <3>3. \A t \in DOMAIN x : x[t] \in 0 .. CountStandardLabels + Len(b.expressions)
      BY <1>1, <2>1, <2>3 DEF x, InRange
    <3>4. ToSet(ts) = ToSet(b.tags[m]) \cup {tag}
      <4>1. b.tags[m] \in Seq(Tag)
        BY <1>4
      <4>2. CASE tag \in DOMAIN a.indexes[m]
        BY <1>1, <2>1, <2>3, <4>2 DEF ts, InRange
      <4>3. CASE tag \notin DOMAIN a.indexes[m]
        <5>1. ts = Append(b.tags[m], tag)
          BY <4>3 DEF ts
        <5> QED
          BY <1>5, <4>1, <5>1, ToSetAppend
      <4> QED
        BY <4>2, <4>3
    <3> QED
      BY <1>10, <2>1, <2>3, <3>1, <3>2, <3>3, <3>4 DEF InRange
  <2> QED
    BY <2>2, <2>3
<1>12. c \in Draft(f, K, first)
  BY <1>1, <1>9, <1>10, <1>11 DEF Draft
<1> QED
  BY <1>3, <1>12, StopKeeps

----------------------------------------------------------------------------
(* The loops of the overrides stay within a draft. *)

\* The states of the loop, after each element.
RemoveLoop(p, a, m, tags) ==
    /\ p[0] = a /\ p[Len(tags)] = RemoveTags(a, m, tags)
    /\ \A k \in 1 .. Len(tags) : p[k] = RemoveTag(p[k - 1], m, tags[k])

RemoveRecursion(it, n, a, m, tags) ==
    it = [s \in SUBSET (1 .. n) |->
            IF s = {} THEN a ELSE RemoveTag(it[s \ {Max(s)}], m, tags[Max(s)])]

\* The loop over tags_to_remove goes from draft to draft.
LEMMA RemoveTagsPass ==
    ASSUME NEW f, NEW K, NEW first \in Nat, NEW a \in Draft(f, K, first), NEW m \in DOMAIN f,
           NEW tags \in Seq(STRING)
    PROVE  \E p \in [0 .. Len(tags) -> Draft(f, K, first)] : RemoveLoop(p, a, m, tags)
<1> DEFINE n == Len(tags)
           V == Draft(f, K, first)
           F == [p \in V \X (1 .. n) |-> RemoveTag(p[1], m, tags[p[2]])]
           it == CHOOSE h : RemoveRecursion(h, n, a, m, tags)
<1>1. n \in Nat /\ DOMAIN tags = 1 .. n /\ \A i \in 1 .. n : tags[i] \in STRING
  BY LenProperties
<1>2. RemoveTags(a, m, tags) = it[1 .. n]
  BY <1>1, Zenon DEF RemoveTags, FoldLeft, MapThenFoldSet, RemoveRecursion
<1>3. \A v \in V : \A i \in 1 .. n : RemoveTag(v, m, tags[i]) \in V
  BY <1>1, RemoveTagKeeps
<1> HIDE DEF it, n, V
<1>4. F \in [V \X (1 .. n) -> V]
  BY <1>3
<1>5. a \in V
  BY DEF V
<1> HIDE DEF F
<1>6. PICK h \in [SUBSET (1 .. n) -> V] : FoldRecursion(h, n, a, F)
  BY <1>1, <1>4, <1>5, FoldExists
<1>7. RemoveRecursion(h, n, a, m, tags)
  <2>1. ASSUME NEW s \in SUBSET (1 .. n), s # {}
        PROVE  F[<<h[s \ {Max(s)}], Max(s)>>] = RemoveTag(h[s \ {Max(s)}], m, tags[Max(s)])
    <3>1. Max(s) \in 1 .. n
      BY <1>1, <2>1, MaxOfIndices
    <3>2. h[s \ {Max(s)}] \in V
      OBVIOUS
    <3> QED
      BY <3>1, <3>2 DEF F
  <2> QED
    BY <1>6, <2>1 DEF RemoveRecursion, FoldRecursion
<1>8. RemoveRecursion(it, n, a, m, tags)
  BY <1>7 DEF it
<1>9. it[{}] = a
  BY <1>8 DEF RemoveRecursion
<1>10. ASSUME NEW s \in SUBSET (1 .. n), s # {}, it[s \ {Max(s)}] \in V
       PROVE  it[s] = F[<<it[s \ {Max(s)}], Max(s)>>]
  <2>1. Max(s) \in 1 .. n
    BY <1>1, <1>10, MaxOfIndices
  <2>2. it[s] = RemoveTag(it[s \ {Max(s)}], m, tags[Max(s)])
    BY <1>8, <1>10 DEF RemoveRecursion
  <2> QED
    BY <1>10, <2>1, <2>2 DEF F
<1>11. PICK p \in [0 .. n -> V] : FoldStates(p, n, it, F)
  <2>1. it[{}] \in V
    BY <1>5, <1>9
  <2> QED
    BY <1>1, <1>4, <1>10, <2>1, FoldPasses, Zenon
<1>12. ASSUME NEW k \in 1 .. n PROVE p[k] = RemoveTag(p[k - 1], m, tags[k])
  <2>1. k - 1 \in 0 .. n
    BY <1>1
  <2>2. p[k - 1] \in V
    BY <2>1
  <2> QED
    BY <1>11, <2>2 DEF F, FoldStates
<1> QED
  BY <1>2, <1>9, <1>11, <1>12 DEF V, n, FoldStates, RemoveLoop

\* The loop over tags_to_remove keeps the draft.
LEMMA RemoveTagsKeep ==
    ASSUME NEW f, NEW K, NEW first \in Nat, NEW a \in Draft(f, K, first), NEW m \in DOMAIN f,
           NEW tags \in Seq(STRING)
    PROVE  RemoveTags(a, m, tags) \in Draft(f, K, first)
<1>1. Len(tags) \in Nat
  BY LenProperties
<1>2. PICK p \in [0 .. Len(tags) -> Draft(f, K, first)] : RemoveLoop(p, a, m, tags)
  BY RemoveTagsPass
<1> QED
  BY <1>1, <1>2 DEF RemoveLoop

\* The states of the loop, after each element.
TagLoop(p, a, m, dims) ==
    /\ p[0] = a /\ p[Len(dims)] = OverrideTags(a, m, dims)
    /\ \A k \in 1 .. Len(dims) : p[k] = OverrideTag(p[k - 1], m, dims[k].tag, dims[k].value)

OverrideTagsRecursion(it, n, a, m, dims) ==
    it = [s \in SUBSET (1 .. n) |->
            IF s = {} THEN a
            ELSE OverrideTag(it[s \ {Max(s)}], m, dims[Max(s)].tag, dims[Max(s)].value)]

\* The loop over the dimensions of an override goes from draft to draft.
LEMMA OverrideTagsPass ==
    ASSUME NEW f, NEW K, NEW first \in Nat, NEW a \in Draft(f, K, first), NEW m \in DOMAIN f,
           NEW dims \in Seq([tag : STRING, value : STRING])
    PROVE  \E p \in [0 .. Len(dims) -> Draft(f, K, first)] : TagLoop(p, a, m, dims)
<1> DEFINE n == Len(dims)
           V == Draft(f, K, first)
           F == [p \in V \X (1 .. n) |-> OverrideTag(p[1], m, dims[p[2]].tag, dims[p[2]].value)]
           it == CHOOSE h : OverrideTagsRecursion(h, n, a, m, dims)
<1>1. /\ n \in Nat /\ DOMAIN dims = 1 .. n
      /\ \A i \in 1 .. n : dims[i].tag \in STRING /\ dims[i].value \in STRING
  <2>1. \A i \in 1 .. n : dims[i] \in [tag : STRING, value : STRING]
    BY ElementOfSeq
  <2> QED
    BY <2>1, LenProperties
<1>2. OverrideTags(a, m, dims) = it[1 .. n]
  BY <1>1, Zenon DEF OverrideTags, FoldLeft, MapThenFoldSet, OverrideTagsRecursion
<1>3. \A v \in V : \A i \in 1 .. n : OverrideTag(v, m, dims[i].tag, dims[i].value) \in V
  BY <1>1, OverrideTagKeeps
<1> HIDE DEF it, n, V
<1>4. F \in [V \X (1 .. n) -> V]
  BY <1>3
<1>5. a \in V
  BY DEF V
<1> HIDE DEF F
<1>6. PICK h \in [SUBSET (1 .. n) -> V] : FoldRecursion(h, n, a, F)
  BY <1>1, <1>4, <1>5, FoldExists
<1>7. OverrideTagsRecursion(h, n, a, m, dims)
  <2>1. ASSUME NEW s \in SUBSET (1 .. n), s # {}
        PROVE  F[<<h[s \ {Max(s)}], Max(s)>>] =
                  OverrideTag(h[s \ {Max(s)}], m, dims[Max(s)].tag, dims[Max(s)].value)
    <3>1. Max(s) \in 1 .. n
      BY <1>1, <2>1, MaxOfIndices
    <3>2. h[s \ {Max(s)}] \in V
      OBVIOUS
    <3> QED
      BY <3>1, <3>2 DEF F
  <2> QED
    BY <1>6, <2>1 DEF OverrideTagsRecursion, FoldRecursion
<1>8. OverrideTagsRecursion(it, n, a, m, dims)
  BY <1>7 DEF it
<1>9. it[{}] = a
  BY <1>8 DEF OverrideTagsRecursion
<1>10. ASSUME NEW s \in SUBSET (1 .. n), s # {}, it[s \ {Max(s)}] \in V
       PROVE  it[s] = F[<<it[s \ {Max(s)}], Max(s)>>]
  <2>1. Max(s) \in 1 .. n
    BY <1>1, <1>10, MaxOfIndices
  <2>2. it[s] = OverrideTag(it[s \ {Max(s)}], m, dims[Max(s)].tag, dims[Max(s)].value)
    BY <1>8, <1>10 DEF OverrideTagsRecursion
  <2> QED
    BY <1>10, <2>1, <2>2 DEF F
<1>11. PICK p \in [0 .. n -> V] : FoldStates(p, n, it, F)
  <2>1. it[{}] \in V
    BY <1>5, <1>9
  <2> QED
    BY <1>1, <1>4, <1>10, <2>1, FoldPasses, Zenon
<1>12. ASSUME NEW k \in 1 .. n PROVE p[k] = OverrideTag(p[k - 1], m, dims[k].tag, dims[k].value)
  <2>1. k - 1 \in 0 .. n
    BY <1>1
  <2>2. p[k - 1] \in V
    BY <2>1
  <2> QED
    BY <1>11, <2>2 DEF F, FoldStates
<1> QED
  BY <1>2, <1>9, <1>11, <1>12 DEF V, n, FoldStates, TagLoop

\* The loop over the dimensions of an override keeps the draft.
LEMMA OverrideTagsKeep ==
    ASSUME NEW f, NEW K, NEW first \in Nat, NEW a \in Draft(f, K, first), NEW m \in DOMAIN f,
           NEW dims \in Seq([tag : STRING, value : STRING])
    PROVE  OverrideTags(a, m, dims) \in Draft(f, K, first)
<1>1. Len(dims) \in Nat
  BY LenProperties
<1>2. PICK p \in [0 .. Len(dims) -> Draft(f, K, first)] : TagLoop(p, a, m, dims)
  BY OverrideTagsPass
<1> QED
  BY <1>1, <1>2 DEF TagLoop

Overriding == [name : STRING, object : BOOLEAN, drop : BOOLEAN, remove : Seq(STRING),
               dimensions : Seq([tag : STRING, value : STRING])]

\* An override that drops no metric of K.
Spares(o, K) == \A k \in K : o.drop => o.name \notin {"", k}

\* One override of one factory keeps the draft, and the metrics it has to spare.
LEMMA OverrideFactoryKeeps ==
    ASSUME NEW f, NEW K, NEW first \in Nat, NEW a \in Draft(f, K, first), NEW m \in DOMAIN f,
           NEW o \in Overriding, Spares(o, K)
    PROVE  OverrideFactory(a, m, o) \in Draft(f, K, first)
<1> DEFINE g == Restrict(a.factories, DOMAIN a.factories \ {m})
           b == [a EXCEPT !.factories = Restrict(@, DOMAIN @ \ {m})]
<1>1. /\ a \in DraftType(f)
      /\ a.factories \in {[k \in D |-> f[k]] : D \in SUBSET DOMAIN f}
  BY DEF Draft, DraftType
<1>2. g \in {[k \in D |-> f[k]] : D \in SUBSET DOMAIN f}
  <2>1. PICK D \in SUBSET DOMAIN f : a.factories = [k \in D |-> f[k]]
    BY <1>1
  <2>2. g = [k \in D \ {m} |-> f[k]] /\ D \ {m} \in SUBSET DOMAIN f
    BY <2>1 DEF Restrict
  <2> QED
    BY <2>2
<1>3. b = [a EXCEPT !.factories = g]
  OBVIOUS
<1> HIDE DEF g, b
<1>4. b \in DraftType(f)
  BY <1>1, <1>2, <1>3, Zenon DEF DraftType
<1>5. /\ b.next = a.next /\ b.expressions = a.expressions
      /\ b.tags = a.tags /\ b.indexes = a.indexes /\ b.factories = g
  BY <1>1, <1>3 DEF DraftType
<1>6. ASSUME o.drop, o.name \in {"", m} PROVE b \in Draft(f, K, first)
  <2>1. m \notin K
    BY <1>6 DEF Spares
  <2>2. DOMAIN g = DOMAIN a.factories \ {m}
    BY DEF g, Restrict
  <2>3. K \subseteq DOMAIN b.factories
    BY <1>5, <2>1, <2>2 DEF Draft
  <2> QED
    BY <1>4, <1>5, <2>3 DEF Draft, InRange
<1>7. o.remove \in Seq(STRING) /\ o.dimensions \in Seq([tag : STRING, value : STRING])
  BY DEF Overriding
<1>8. OverrideTags(RemoveTags(a, m, o.remove), m, o.dimensions) \in Draft(f, K, first)
  BY <1>7, RemoveTagsKeep, OverrideTagsKeep
<1> QED
  BY <1>6, <1>8 DEF OverrideFactory, b

\* The states of the loop, by the factories it has visited.
FactoryLoop(p, a, o) ==
    /\ p[{}] = a /\ p[DOMAIN a.factories] = OverrideFactories(a, o)
    /\ \A s \in SUBSET DOMAIN a.factories : s # {} =>
          p[s] = OverrideFactory(p[s \ {SomeOf(s)}], SomeOf(s), o)

OverrideFactoriesRecursion(it, S, a, o) ==
    it = [s \in SUBSET S |->
            IF s = {} THEN a ELSE OverrideFactory(it[s \ {SomeOf(s)}], SomeOf(s), o)]

\* The loop over the factories goes from draft to draft, in whatever order it visits
\* them.
LEMMA OverrideFactoriesPass ==
    ASSUME NEW f, NEW K, IsFiniteSet(DOMAIN f), NEW first \in Nat, NEW a \in Draft(f, K, first),
           NEW o \in Overriding, Spares(o, K)
    PROVE  \E p \in [SUBSET DOMAIN a.factories -> Draft(f, K, first)] : FactoryLoop(p, a, o)
<1> DEFINE S == DOMAIN a.factories
           V == Draft(f, K, first)
           F == [p \in S \X V |-> OverrideFactory(p[2], p[1], o)]
           it == CHOOSE h : OverrideFactoriesRecursion(h, S, a, o)
<1>1. S \subseteq DOMAIN f
  BY DEF Draft, DraftType
<1>2. IsFiniteSet(S)
  BY <1>1, FS_Subset
<1>3. OverrideFactories(a, o) = it[S]
  BY Zenon DEF OverrideFactories, FoldSet, MapThenFoldSet, OverrideFactoriesRecursion, SomeOf
<1>4. \A v \in V : \A m \in S : OverrideFactory(v, m, o) \in V
  BY <1>1, OverrideFactoryKeeps
<1>5. a \in V
  OBVIOUS
<1> HIDE DEF it, S, V
<1>6. F \in [S \X V -> V]
  BY <1>4
<1> HIDE DEF F
<1>7. PICK h \in [SUBSET S -> V] : SetFoldRecursion(h, S, a, F)
  BY <1>2, <1>5, <1>6, SetFoldExists
<1>8. \A s \in SUBSET S : s # {} => SomeOf(s) \in S
  BY DEF SomeOf
<1>9. OverrideFactoriesRecursion(h, S, a, o)
  <2>1. ASSUME NEW s \in SUBSET S, s # {}
        PROVE  F[<<SomeOf(s), h[s \ {SomeOf(s)}]>>] =
                  OverrideFactory(h[s \ {SomeOf(s)}], SomeOf(s), o)
    <3>1. SomeOf(s) \in S /\ h[s \ {SomeOf(s)}] \in V
      BY <1>8, <2>1
    <3> QED
      BY <3>1 DEF F
  <2> QED
    BY <1>7, <2>1 DEF OverrideFactoriesRecursion, SetFoldRecursion
<1>10. OverrideFactoriesRecursion(it, S, a, o)
  BY <1>9 DEF it
<1>11. it[{}] \in V
  BY <1>5, <1>10 DEF OverrideFactoriesRecursion
<1>12. ASSUME NEW s \in SUBSET S, s # {}, it[s \ {SomeOf(s)}] \in V PROVE it[s] \in V
  <2>1. it[s] = OverrideFactory(it[s \ {SomeOf(s)}], SomeOf(s), o)
    BY <1>10, <1>12 DEF OverrideFactoriesRecursion
  <2> QED
    BY <1>4, <1>8, <1>12, <2>1
<1>13. \A s \in SUBSET S : it[s] \in V
  BY <1>2, <1>11, <1>12, SetFoldPasses
<1>14. it \in [SUBSET S -> V]
  BY <1>10, <1>13 DEF OverrideFactoriesRecursion
<1>15. /\ it[{}] = a
       /\ \A s \in SUBSET S : s # {} => it[s] = OverrideFactory(it[s \ {SomeOf(s)}], SomeOf(s), o)
  BY <1>10 DEF OverrideFactoriesRecursion
<1> QED
  BY <1>3, <1>14, <1>15 DEF V, S, FactoryLoop

\* The loop over the factories keeps the draft, in whatever order it visits them.
LEMMA OverrideFactoriesKeep ==
    ASSUME NEW f, NEW K, IsFiniteSet(DOMAIN f), NEW first \in Nat, NEW a \in Draft(f, K, first),
           NEW o \in Overriding, Spares(o, K)
    PROVE  OverrideFactories(a, o) \in Draft(f, K, first)
<1>1. PICK p \in [SUBSET DOMAIN a.factories -> Draft(f, K, first)] : FactoryLoop(p, a, o)
  BY OverrideFactoriesPass
<1> QED
  BY <1>1 DEF FactoryLoop

\* The states of the loop, after each element.
OverrideLoop(p, a, os) ==
    /\ p[0] = a /\ p[Len(os)] = OverrideAll(a, os)
    /\ \A k \in 1 .. Len(os) : p[k] = Override(p[k - 1], os[k])

OverrideRecursion(it, n, a, overrides) ==
    it = [s \in SUBSET (1 .. n) |->
            IF s = {} THEN a ELSE Override(it[s \ {Max(s)}], overrides[Max(s)])]

\* The loop over the overrides goes from draft to draft.
LEMMA OverrideAllPasses ==
    ASSUME NEW f, NEW K, IsFiniteSet(DOMAIN f), NEW first \in Nat, NEW a \in Draft(f, K, first),
           NEW os \in Seq(Overriding), \A i \in DOMAIN os : Spares(os[i], K)
    PROVE  \E p \in [0 .. Len(os) -> Draft(f, K, first)] : OverrideLoop(p, a, os)
<1> DEFINE n == Len(os)
           V == Draft(f, K, first)
           F == [p \in V \X (1 .. n) |-> Override(p[1], os[p[2]])]
           it == CHOOSE h : OverrideRecursion(h, n, a, os)
<1>1. n \in Nat /\ DOMAIN os = 1 .. n /\ \A i \in 1 .. n : os[i] \in Overriding
  BY LenProperties
<1>2. OverrideAll(a, os) = it[1 .. n]
  BY <1>1, Zenon DEF OverrideAll, FoldLeft, MapThenFoldSet, OverrideRecursion
<1>3. \A v \in V : \A i \in 1 .. n : Override(v, os[i]) \in V
  BY <1>1, StopKeeps, OverrideFactoriesKeep DEF Override
<1> HIDE DEF it, n, V
<1>4. F \in [V \X (1 .. n) -> V]
  BY <1>3
<1>5. a \in V
  BY DEF V
<1> HIDE DEF F
<1>6. PICK h \in [SUBSET (1 .. n) -> V] : FoldRecursion(h, n, a, F)
  BY <1>1, <1>4, <1>5, FoldExists
<1>7. OverrideRecursion(h, n, a, os)
  <2>1. ASSUME NEW s \in SUBSET (1 .. n), s # {}
        PROVE  F[<<h[s \ {Max(s)}], Max(s)>>] = Override(h[s \ {Max(s)}], os[Max(s)])
    <3>1. Max(s) \in 1 .. n
      BY <1>1, <2>1, MaxOfIndices
    <3>2. h[s \ {Max(s)}] \in V
      OBVIOUS
    <3> QED
      BY <3>1, <3>2 DEF F
  <2> QED
    BY <1>6, <2>1 DEF OverrideRecursion, FoldRecursion
<1>8. OverrideRecursion(it, n, a, os)
  BY <1>7 DEF it
<1>9. it[{}] = a
  BY <1>8 DEF OverrideRecursion
<1>10. ASSUME NEW s \in SUBSET (1 .. n), s # {}, it[s \ {Max(s)}] \in V
       PROVE  it[s] = F[<<it[s \ {Max(s)}], Max(s)>>]
  <2>1. Max(s) \in 1 .. n
    BY <1>1, <1>10, MaxOfIndices
  <2>2. it[s] = Override(it[s \ {Max(s)}], os[Max(s)])
    BY <1>8, <1>10 DEF OverrideRecursion
  <2> QED
    BY <1>10, <2>1, <2>2 DEF F
<1>11. PICK p \in [0 .. n -> V] : FoldStates(p, n, it, F)
  <2>1. it[{}] \in V
    BY <1>5, <1>9
  <2> QED
    BY <1>1, <1>4, <1>10, <2>1, FoldPasses, Zenon
<1>12. ASSUME NEW k \in 1 .. n PROVE p[k] = Override(p[k - 1], os[k])
  <2>1. k - 1 \in 0 .. n
    BY <1>1
  <2>2. p[k - 1] \in V
    BY <2>1
  <2> QED
    BY <1>11, <2>2 DEF F, FoldStates
<1> QED
  BY <1>2, <1>9, <1>11, <1>12 DEF V, n, FoldStates, OverrideLoop

\* The loop over the overrides keeps the draft.
LEMMA OverrideAllKeeps ==
    ASSUME NEW f, NEW K, IsFiniteSet(DOMAIN f), NEW first \in Nat, NEW a \in Draft(f, K, first),
           NEW os \in Seq(Overriding), \A i \in DOMAIN os : Spares(os[i], K)
    PROVE  OverrideAll(a, os) \in Draft(f, K, first)
<1>1. Len(os) \in Nat
  BY LenProperties
<1>2. PICK p \in [0 .. Len(os) -> Draft(f, K, first)] : OverrideLoop(p, a, os)
  BY OverrideAllPasses
<1> QED
  BY <1>1, <1>2 DEF OverrideLoop

Definition == [name : STRING, value : STRING]

\* The accepted definitions are a prefix of the definitions.
LEMMA AcceptedType ==
    ASSUME NEW ds \in Seq(Definition)
    PROVE  /\ Accepted(ds) \in Seq(Definition) /\ Len(Accepted(ds)) <= Len(ds)
           /\ \A i \in 1 .. Len(Accepted(ds)) : i \in DOMAIN ds /\ Accepted(ds)[i] = ds[i]
<1> DEFINE Bad == {i \in DOMAIN ds :
                     ds[i].name = "" \/ ds[i].value \in {""} \cup BadExpression}
<1>1. Len(ds) \in Nat /\ DOMAIN ds = 1 .. Len(ds) /\ \A i \in 1 .. Len(ds) : ds[i] \in Definition
  BY LenProperties
<1>2. Accepted(ds) = IF Bad = {} THEN ds ELSE SubSeq(ds, 1, Min(Bad) - 1)
  BY DEF Accepted
<1>3. CASE Bad = {}
  <2>1. Accepted(ds) = ds
    BY <1>2, <1>3
  <2> QED
    BY <1>1, <2>1
<1>4. CASE Bad # {}
  <2>1. Bad \subseteq DOMAIN ds
    OBVIOUS
  <2> HIDE DEF Bad
  <2>2. Bad \subseteq 1 .. Len(ds) /\ Bad \in SUBSET Nat
    BY <1>1, <2>1
  <2>3. \E x \in Bad : \A y \in Bad : x <= y
    BY <1>4, <2>2, LeastElement
  <2>4. Min(Bad) \in 1 .. Len(ds)
    BY <2>2, <2>3 DEF Min
  <2>5. \A i \in 1 .. Min(Bad) - 1 : ds[i] \in Definition
    BY <1>1, <2>4
  <2>6. /\ SubSeq(ds, 1, Min(Bad) - 1) \in Seq(Definition)
        /\ Len(SubSeq(ds, 1, Min(Bad) - 1)) =
              IF 1 <= Min(Bad) - 1 THEN (Min(Bad) - 1) - 1 + 1 ELSE 0
    BY <1>1, <2>4, <2>5, SubSeqProperties
  <2>7. /\ Len(SubSeq(ds, 1, Min(Bad) - 1)) = Min(Bad) - 1
        /\ Min(Bad) - 1 <= Len(ds)
    BY <1>1, <2>4, <2>6
  <2>8. \A i \in 1 .. Min(Bad) - 1 : SubSeq(ds, 1, Min(Bad) - 1)[i] = ds[i]
    BY <1>1, <2>4, <2>7, SubSeqProperties
  <2>9. \A i \in 1 .. Min(Bad) - 1 : i \in DOMAIN ds
    BY <1>1, <2>4
  <2> QED
    BY <1>2, <1>4, <2>6, <2>7, <2>8, <2>9
<1> QED
  BY <1>3, <1>4

\* The names of the metrics: finitely many.
LEMMA FactoriesFinite ==
    ASSUME NEW ds \in Seq(Definition), NEW n \in Nat
    PROVE  /\ DOMAIN Factories(ds, n) = DOMAIN DefaultMetrics \cup {ds[i].name : i \in DOMAIN ds}
           /\ IsFiniteSet(DOMAIN Factories(ds, n))
<1> DEFINE names == {ds[i].name : i \in DOMAIN ds}
           g == [i \in 1 .. Len(ds) |-> ds[i].name]
<1>1. Len(ds) \in Nat /\ DOMAIN ds = 1 .. Len(ds)
  BY LenProperties
<1>2. g \in Surjection(1 .. Len(ds), names)
  BY <1>1 DEF Surjection
<1>3. IsFiniteSet(names)
  <2>1. IsFiniteSet(1 .. Len(ds))
    BY <1>1, FS_Interval
  <2> HIDE DEF g, names
  <2> QED
    BY <1>2, <2>1, FS_Surjection
<1>4. IsFiniteSet(DOMAIN DefaultMetrics)
  <2>1. DOMAIN DefaultMetrics =
           ((({"requests_total"} \cup {"request_messages_total"}) \cup {"tcp_sent_bytes_total"})
            \cup {"tcp_connections_opened_total"}) \cup {"tcp_connections_closed_total"}
    BY DEF DefaultMetrics
  <2>2. IsFiniteSet({"requests_total"})
    BY FS_Singleton
  <2>3. IsFiniteSet({"requests_total"} \cup {"request_messages_total"})
    BY <2>2, FS_AddElement
  <2>4. IsFiniteSet(({"requests_total"} \cup {"request_messages_total"})
                    \cup {"tcp_sent_bytes_total"})
    BY <2>3, FS_AddElement
  <2>5. IsFiniteSet((({"requests_total"} \cup {"request_messages_total"})
                     \cup {"tcp_sent_bytes_total"}) \cup {"tcp_connections_opened_total"})
    BY <2>4, FS_AddElement
  <2>6. IsFiniteSet(((({"requests_total"} \cup {"request_messages_total"})
                      \cup {"tcp_sent_bytes_total"}) \cup {"tcp_connections_opened_total"})
                    \cup {"tcp_connections_closed_total"})
    BY <2>5, FS_AddElement
  <2> QED
    BY <2>1, <2>6, Zenon
<1>5. DOMAIN Factories(ds, n) = DOMAIN DefaultMetrics \cup names
  BY DEF Factories
<1> HIDE DEF names
<1>6. IsFiniteSet(DOMAIN DefaultMetrics \cup names)
  BY <1>3, <1>4, FS_Union
<1> QED
  BY <1>5, <1>6 DEF names

\* A default tag leads to a standard label.
LEMMA StandardIndexType ==
    ASSUME NEW tag PROVE StandardIndex(tag) \in 0 .. CountStandardLabels /\ StandardIndex(tag) \in Nat
<1> DEFINE I == {i \in 1 .. Len(DefaultTags) : DefaultTags[i] = tag}
<1>1. StandardIndex(tag) = IF I # {} THEN Min(I) ELSE 0
  BY Zenon DEF StandardIndex, SelectInSeq
<1>2. I \in SUBSET Nat /\ I \subseteq 1 .. CountStandardLabels
  BY DEF DefaultTags, CountStandardLabels
<1> HIDE DEF I
<1>3. ASSUME I # {} PROVE Min(I) \in 1 .. CountStandardLabels
  <2>1. \E x \in I : \A y \in I : x <= y
    BY <1>2, <1>3, LeastElement
  <2> QED
    BY <1>2, <2>1 DEF Min
<1> QED
  BY <1>1, <1>3 DEF CountStandardLabels

\* The tags a factory starts with are tags.
LEMMA InitialTagsType == ASSUME NEW m PROVE InitialTags(m) \in Seq(Tag)
<1>1. CASE m \notin DOMAIN DefaultMetrics
  BY <1>1, EmptySeq DEF InitialTags
<1>2. CASE m \in DOMAIN DefaultMetrics
  <2> DEFINE k == DefaultMetrics[m].labels
  <2>1. k \in {1, 3, 4}
    BY <1>2 DEF DefaultMetrics, CountStandardLabels, CountPeerLabels, CountTcpLabels
  <2>2. Len(DefaultTags) = 4 /\ DOMAIN DefaultTags = 1 .. 4
    BY DEF DefaultTags
  <2>3. \A i \in 1 .. 4 : DefaultTags[i] \in Tag
    BY <2>2 DEF Tag, ToSet
  <2> HIDE DEF k
  <2>4. \A i \in 1 .. k : DefaultTags[i] \in Tag
    BY <2>1, <2>3
  <2>5. SubSeq(DefaultTags, 1, k) \in Seq(Tag)
    BY <2>1, <2>4, SubSeqProperties
  <2> QED
    BY <1>2, <2>5 DEF InitialTags, k
<1> QED
  BY <1>1, <1>2

\* The loops begin with a draft.
LEMMA NoOverridesDraft ==
    ASSUME NEW f, NEW K \in SUBSET DOMAIN f, NEW first \in Nat, f = [m \in DOMAIN f |-> f[m]]
    PROVE  NoOverrides(f, first) \in Draft(f, K, first)
<1> DEFINE a == NoOverrides(f, first)
           ts == [m \in DOMAIN f |-> InitialTags(m)]
           xs == [m \in DOMAIN f |-> [t \in ToSet(InitialTags(m)) |-> StandardIndex(t)]]
<1>1. ts \in [DOMAIN f -> Seq(Tag)]
  BY InitialTagsType
<1>2. xs \in [DOMAIN f -> UNION {[D -> Nat] : D \in SUBSET Tag}]
  <2> SUFFICES ASSUME NEW m \in DOMAIN f
               PROVE  [t \in ToSet(InitialTags(m)) |-> StandardIndex(t)]
                         \in UNION {[D -> Nat] : D \in SUBSET Tag}
    OBVIOUS
  <2>1. ToSet(InitialTags(m)) \in SUBSET Tag
    <3>1. InitialTags(m) \in Seq(Tag)
      BY InitialTagsType
    <3> QED
      BY <3>1 DEF ToSet
  <2>2. [t \in ToSet(InitialTags(m)) |-> StandardIndex(t)] \in [ToSet(InitialTags(m)) -> Nat]
    BY StandardIndexType
  <2> QED
    BY <2>1, <2>2
<1>3. f \in {[m \in D |-> f[m]] : D \in SUBSET DOMAIN f}
  OBVIOUS
<1>4. <<>> \in Seq(StringExpression) /\ Len(<<>>) = 0
  BY EmptySeq
<1>5. a = [stop |-> FALSE, factories |-> f, tags |-> ts, indexes |-> xs,
           expressions |-> <<>>, next |-> first]
  BY DEF NoOverrides
<1> HIDE DEF a, ts, xs
<1>6. a \in DraftType(f)
  BY <1>1, <1>2, <1>3, <1>4, <1>5 DEF DraftType
<1>7. /\ a.expressions = <<>> /\ a.next = first /\ a.factories = f
      /\ a.tags = ts /\ a.indexes = xs
  BY <1>5
<1>8. ASSUME NEW m \in DOMAIN f PROVE InRange(a, m)
  <2>1. a.tags[m] = InitialTags(m)
    BY <1>7 DEF ts
  <2>2. a.indexes[m] = [t \in ToSet(InitialTags(m)) |-> StandardIndex(t)]
    BY <1>7 DEF xs
  <2>3. \A k \in 0 .. CountStandardLabels :
           k \in 0 .. CountStandardLabels + Len(a.expressions)
    BY <1>4, <1>7 DEF CountStandardLabels
  <2> QED
    BY <2>1, <2>2, <2>3, StandardIndexType DEF InRange
<1>9. a \in Draft(f, K, first)
  BY <1>4, <1>6, <1>7, <1>8 DEF Draft
<1> QED
  BY <1>9 DEF a

KeptRecursion(it, n, x, tags) ==
    it = [s \in SUBSET (1 .. n) |->
            IF s = {} THEN <<>>
            ELSE IF x[tags[Max(s)]] = Removed THEN it[s \ {Max(s)}]
            ELSE Append(it[s \ {Max(s)}], tags[Max(s)])]

NotRemoved(a, m) == {t \in DOMAIN a.indexes[m] : a.indexes[m][t] # Removed}

\* The tags of a stat are the tags that were not removed.
LEMMA KeptTagsKept ==
    ASSUME NEW f, NEW K, NEW first \in Nat, NEW a \in Draft(f, K, first), NEW m \in DOMAIN f
    PROVE  KeptTags(a, m) \in Seq(NotRemoved(a, m)) /\ ToSet(KeptTags(a, m)) = NotRemoved(a, m)
<1> DEFINE x == a.indexes[m]
           tags == a.tags[m]
           n == Len(tags)
           S == {t \in DOMAIN x : x[t] # Removed}
           V == Seq(S)
           F == [p \in V \X (1 .. n) |->
                   IF x[tags[p[2]]] = Removed THEN p[1] ELSE Append(p[1], tags[p[2]])]
           it == CHOOSE h : KeptRecursion(h, n, x, tags)
<1>1. /\ n \in Nat /\ DOMAIN tags = 1 .. n /\ \A i \in 1 .. n : tags[i] \in DOMAIN x
      /\ \A t \in DOMAIN x : \E i \in 1 .. n : tags[i] = t
  <2>1. tags \in Seq(Tag) /\ InRange(a, m)
    BY DEF Draft, DraftType
  <2>2. n \in Nat /\ DOMAIN tags = 1 .. n
    BY <2>1, LenProperties
  <2> QED
    BY <2>1, <2>2 DEF InRange, ToSet
<1>2. KeptTags(a, m) = it[1 .. n]
  BY <1>1, Zenon DEF KeptTags, FoldLeft, MapThenFoldSet, KeptRecursion
<1>3. ASSUME NEW v \in V, NEW i \in 1 .. n
      PROVE  (IF x[tags[i]] = Removed THEN v ELSE Append(v, tags[i])) \in V
  <2>1. CASE x[tags[i]] = Removed
    BY <2>1
  <2>2. CASE x[tags[i]] # Removed
    <3>1. tags[i] \in S
      BY <1>1, <2>2
    <3> HIDE DEF S, x, tags
    <3>2. Append(v, tags[i]) \in V
      BY <3>1, AppendProperties
    <3> QED
      BY <2>2, <3>2
  <2> QED
    BY <2>1, <2>2
<1>4. <<>> \in V
  BY EmptySeq
<1>5. S = NotRemoved(a, m)
  BY DEF NotRemoved
<1> HIDE DEF it, n, V, x, tags
<1>6. F \in [V \X (1 .. n) -> V]
  BY <1>3
<1> HIDE DEF F
<1>7. PICK h \in [SUBSET (1 .. n) -> V] : FoldRecursion(h, n, <<>>, F)
  BY <1>1, <1>4, <1>6, FoldExists
<1>8. KeptRecursion(h, n, x, tags)
  <2>1. ASSUME NEW s \in SUBSET (1 .. n), s # {}
        PROVE  F[<<h[s \ {Max(s)}], Max(s)>>] =
                  IF x[tags[Max(s)]] = Removed THEN h[s \ {Max(s)}]
                  ELSE Append(h[s \ {Max(s)}], tags[Max(s)])
    <3>1. Max(s) \in 1 .. n
      BY <1>1, <2>1, MaxOfIndices
    <3>2. h[s \ {Max(s)}] \in V
      OBVIOUS
    <3> QED
      BY <3>1, <3>2 DEF F
  <2> QED
    BY <1>7, <2>1 DEF KeptRecursion, FoldRecursion
<1>9. KeptRecursion(it, n, x, tags)
  BY <1>8 DEF it
<1>10. it[{}] = <<>>
  BY <1>9 DEF KeptRecursion
<1>11. ASSUME NEW s \in SUBSET (1 .. n), s # {}, it[s \ {Max(s)}] \in V
       PROVE  it[s] = F[<<it[s \ {Max(s)}], Max(s)>>]
  <2>1. Max(s) \in 1 .. n
    BY <1>1, <1>11, MaxOfIndices
  <2>2. it[s] = IF x[tags[Max(s)]] = Removed THEN it[s \ {Max(s)}]
                ELSE Append(it[s \ {Max(s)}], tags[Max(s)])
    BY <1>9, <1>11 DEF KeptRecursion
  <2> QED
    BY <1>11, <2>1, <2>2 DEF F
<1>12. PICK p \in [0 .. n -> V] : FoldStates(p, n, it, F)
  <2>1. it[{}] \in V
    BY <1>4, <1>10
  <2> QED
    BY <1>1, <1>6, <1>11, <2>1, FoldPasses, Zenon
<1> DEFINE Listed == {k \in 0 .. n : \A i \in 1 .. k : tags[i] \in S => tags[i] \in ToSet(p[k])}
<1>13. 0 \in Listed
  BY <1>1
<1>14. ASSUME NEW k \in 0 .. n - 1, k \in Listed PROVE k + 1 \in Listed
  <2>1. /\ k + 1 \in 1 .. n /\ (k + 1) - 1 = k /\ k + 1 \in 0 .. n /\ k \in 0 .. n
        /\ 1 .. k + 1 = (1 .. k) \cup {k + 1}
    BY <1>1
  <2>2. p[k] \in V
    BY <2>1
  <2>3. p[k + 1] = IF x[tags[k + 1]] = Removed THEN p[k] ELSE Append(p[k], tags[k + 1])
    BY <1>12, <2>1, <2>2 DEF FoldStates, F
  <2>4. ToSet(Append(p[k], tags[k + 1])) = ToSet(p[k]) \cup {tags[k + 1]}
    BY <2>2, ToSetAppend DEF V
  <2>5. x[tags[k + 1]] = Removed => tags[k + 1] \notin S
    OBVIOUS
  <2> HIDE DEF S
  <2> QED
    BY <1>14, <2>1, <2>3, <2>4, <2>5
<1>15. n \in Listed
  <2> HIDE DEF Listed
  <2>1. \A k \in 0 .. n : k \in Listed
    BY <1>1, <1>13, <1>14, RangeInduction
  <2> QED
    BY <1>1, <2>1
<1>16. p[n] = KeptTags(a, m) /\ p[n] \in V
  BY <1>1, <1>2, <1>12 DEF FoldStates
<1>17. \A t \in S : t \in ToSet(p[n])
  BY <1>1, <1>15
<1>18. \A t \in ToSet(p[n]) : t \in S
  <2> HIDE DEF S
  <2> QED
    BY <1>16 DEF V, ToSet
<1> HIDE DEF S
<1>19. KeptTags(a, m) \in Seq(S) /\ ToSet(KeptTags(a, m)) = S
  BY <1>16, <1>17, <1>18 DEF V
<1> QED
  BY <1>5, <1>19

\* What a configuration leaves: every token from next on is held, by a definition or
\* by an expression; the stats are those of the factories, one for each name; the
\* metrics of K, which no override drops, are among them; and the tags of every stat
\* lead to a dimension.
LEMMA InitializeDimensionsHolds ==
    ASSUME NEW c \in ConfigType, NEW n \in Nat,
           NEW K \in SUBSET DOMAIN Factories(Accepted(c.definitions), n),
           \A i \in DOMAIN c.metrics : Spares(c.metrics[i], K)
    PROVE  LET r == InitializeDimensions(c, n)
               f == Factories(Accepted(c.definitions), n)
           IN  /\ r.next \in Nat /\ r.next >= n
               /\ r.expressions \in Seq(StringExpression)
               /\ {r.expressions[i].token : i \in DOMAIN r.expressions} \cup r.ints
                     = n .. r.next - 1
               /\ \A g \in r.stats :
                     /\ g.name \in DOMAIN f
                     /\ g.recurrent = f[g.name].recurrent
                     /\ g.protocols = f[g.name].protocols
                     /\ g.extractor = f[g.name].extractor
                     /\ \A k \in DOMAIN g.tags :
                           g.indexes[k] \in 1 .. CountStandardLabels + Len(r.expressions)
               /\ \A g, h \in r.stats : g.name = h.name => g = h
               /\ \A m \in K : \E g \in r.stats : g.name = m
<1> DEFINE ds == Accepted(c.definitions)
           f == Factories(ds, n)
           first == n + Len(ds)
           a == OverrideAll(NoOverrides(f, first), c.metrics)
           r == InitializeDimensions(c, n)
<1>1. ds \in Seq(Definition) /\ Len(ds) \in Nat
  <2>1. c.definitions \in Seq(Definition)
    BY DEF ConfigType, Definition
  <2> QED
    BY <2>1, AcceptedType, LenProperties
<1>2. IsFiniteSet(DOMAIN f) /\ f = [m \in DOMAIN f |-> f[m]]
  <2>1. f = [m \in DOMAIN f |-> f[m]]
    BY DEF Factories
  <2> QED
    BY <1>1, <2>1, FactoriesFinite
<1>3. c.metrics \in Seq(Overriding)
  BY DEF ConfigType, Overriding
<1>4. r.stats = StatGens(a) /\ r.expressions = a.expressions /\ r.next = a.next
      /\ r.ints = n .. n + Len(ds) - 1
  BY DEF InitializeDimensions
<1>5. first \in Nat
  BY <1>1
<1>6. K \in SUBSET DOMAIN f
  OBVIOUS
<1> HIDE DEF f
<1>7. a \in Draft(f, K, first)
  <2>1. NoOverrides(f, first) \in Draft(f, K, first)
    BY <1>2, <1>5, <1>6, NoOverridesDraft
  <2> HIDE DEF first
  <2> QED
    BY <1>2, <1>3, <1>5, <2>1, OverrideAllKeeps
<1> HIDE DEF a, r, ds
<1>8. /\ a.expressions \in Seq(StringExpression) /\ a.next = first + Len(a.expressions)
      /\ \A i \in 1 .. Len(a.expressions) : a.expressions[i].token = first + i - 1
      /\ a.factories \in {[m \in D |-> f[m]] : D \in SUBSET DOMAIN f}
  BY <1>7 DEF Draft, DraftType
<1>9. Len(a.expressions) \in Nat /\ DOMAIN a.expressions = 1 .. Len(a.expressions)
  BY <1>8, LenProperties
<1> DEFINE k == Len(a.expressions)
<1>10. first \in Nat /\ first >= n /\ k \in Nat /\ r.next = first + k
  BY <1>1, <1>4, <1>8, <1>9
<1> HIDE DEF first, k
<1>11. r.next \in Nat /\ r.next >= n
  BY <1>10
<1>12. {r.expressions[i].token : i \in DOMAIN r.expressions} \cup r.ints = n .. r.next - 1
  <2> DEFINE T == {a.expressions[i].token : i \in 1 .. k}
  <2>1. T = first .. first + k - 1
    <3>1. \A i \in 1 .. k : a.expressions[i].token = first + i - 1
      BY <1>8 DEF k
    <3>2. ASSUME NEW x \in T PROVE x \in first .. first + k - 1
      <4>1. \E i \in 1 .. k : x = a.expressions[i].token
        OBVIOUS
      <4>2. PICK i \in 1 .. k : x = first + i - 1
        BY <3>1, <4>1
      <4> QED
        BY <1>10, <4>2
    <3>3. ASSUME NEW x \in first .. first + k - 1 PROVE x \in T
      <4>1. x - first + 1 \in 1 .. k /\ first + (x - first + 1) - 1 = x
        BY <1>10
      <4> QED
        BY <3>1, <4>1
    <3> HIDE DEF T
    <3> QED
      BY <3>2, <3>3
  <2>2. {r.expressions[i].token : i \in DOMAIN r.expressions} = T
    BY <1>4, <1>9 DEF k
  <2> HIDE DEF T
  <2>3. r.ints = n .. first - 1
    BY <1>4 DEF first
  <2>4. (first .. first + k - 1) \cup (n .. first - 1) = n .. first + k - 1
    BY <1>10
  <2> QED
    BY <1>10, <2>1, <2>2, <2>3, <2>4
<1>13. \A m \in DOMAIN a.factories : m \in DOMAIN f /\ a.factories[m] = f[m]
  BY <1>8
<1>14. ASSUME NEW g \in r.stats
       PROVE  \E m \in DOMAIN a.factories :
                 g = [name |-> m,
                      recurrent |-> a.factories[m].recurrent,
                      protocols |-> a.factories[m].protocols,
                      extractor |-> a.factories[m].extractor,
                      tags |-> KeptTags(a, m),
                      indexes |-> [i \in DOMAIN KeptTags(a, m) |->
                                     a.indexes[m][KeptTags(a, m)[i]]]]
  BY <1>4 DEF StatGens
<1>15. \A g \in r.stats : /\ g.name \in DOMAIN f
                          /\ g.recurrent = f[g.name].recurrent
                          /\ g.protocols = f[g.name].protocols
                          /\ g.extractor = f[g.name].extractor
  BY <1>13, <1>14
<1>16. \A g, h \in r.stats : g.name = h.name => g = h
  BY <1>14
<1>17. ASSUME NEW g \in r.stats, NEW w \in DOMAIN g.tags
       PROVE  g.indexes[w] \in 1 .. CountStandardLabels + Len(r.expressions)
  <2>1. PICK m \in DOMAIN a.factories :
           /\ g.tags = KeptTags(a, m)
           /\ g.indexes = [i \in DOMAIN KeptTags(a, m) |-> a.indexes[m][KeptTags(a, m)[i]]]
    BY <1>14
  <2>2. m \in DOMAIN f
    BY <1>13
  <2> DEFINE S == {t \in DOMAIN a.indexes[m] : a.indexes[m][t] # Removed}
  <2>3. KeptTags(a, m) \in Seq(S)
    BY <1>7, <1>10, <2>2, KeptTagsKept DEF NotRemoved
  <2>4. \A t \in S : a.indexes[m][t] \in 1 .. CountStandardLabels + Len(a.expressions)
    <3>1. InRange(a, m)
      BY <1>7, <2>2 DEF Draft
    <3> QED
      BY <1>9, <3>1 DEF InRange, Removed, CountStandardLabels
  <2> HIDE DEF S
  <2>5. KeptTags(a, m)[w] \in S
    BY <2>1, <2>3, LenProperties
  <2> QED
    BY <1>4, <2>1, <2>4, <2>5
<1>18. ASSUME NEW m \in K PROVE \E g \in r.stats : g.name = m
  <2>1. m \in DOMAIN a.factories
    BY <1>7 DEF Draft
  <2> DEFINE g == [name |-> m,
                   recurrent |-> a.factories[m].recurrent,
                   protocols |-> a.factories[m].protocols,
                   extractor |-> a.factories[m].extractor,
                   tags |-> KeptTags(a, m),
                   indexes |-> [i \in DOMAIN KeptTags(a, m) |->
                                  a.indexes[m][KeptTags(a, m)[i]]]]
  <2>2. g \in r.stats
    BY <1>4, <2>1, Zenon DEF StatGens
  <2>3. g.name = m
    OBVIOUS
  <2> QED
    BY <2>2, <2>3, Zenon
<1>19. r.expressions \in Seq(StringExpression)
  BY <1>4, <1>8
<1> HIDE DEF StatGens
<1> QED
  BY <1>11, <1>12, <1>15, <1>16, <1>17, <1>18, <1>19 DEF r, f, ds

----------------------------------------------------------------------------
(* initializeDimensions: where the values of the tags come from *)

\* What an index leads to: a standard label, or an expression.
LeadsTo(expressions, index) ==
    IF index <= CountStandardLabels
    THEN <<"standard", DefaultTags[index]>>
    ELSE <<"expression", expressions[index - CountStandardLabels].expression>>

\* Where tag t of metric m gets its value in a draft, if it has one.
Meaning(a, m, t) ==
    IF t \in DOMAIN a.indexes[m] /\ a.indexes[m][t] # Removed
    THEN {LeadsTo(a.expressions, a.indexes[m][t])}
    ELSE {}

\* The expressions of b are those of a, and perhaps more.
Grown(a, b) ==
    /\ Len(a.expressions) <= Len(b.expressions)
    /\ \A i \in 1 .. Len(a.expressions) : b.expressions[i] = a.expressions[i]

\* A tag whose index is not touched keeps its meaning when expressions are added.
LEMMA MeaningStays ==
    ASSUME NEW f, NEW K, NEW first \in Nat, NEW a \in Draft(f, K, first), NEW b, Grown(a, b),
           NEW m \in DOMAIN f, NEW t,
           t \in DOMAIN b.indexes[m] <=> t \in DOMAIN a.indexes[m],
           t \in DOMAIN a.indexes[m] => b.indexes[m][t] = a.indexes[m][t]
    PROVE  Meaning(b, m, t) = Meaning(a, m, t)
<1>1. CASE ~ (t \in DOMAIN a.indexes[m] /\ a.indexes[m][t] # Removed)
  BY <1>1 DEF Meaning
<1>2. CASE t \in DOMAIN a.indexes[m] /\ a.indexes[m][t] # Removed
  <2> DEFINE i == a.indexes[m][t]
  <2>1. i \in 0 .. CountStandardLabels + Len(a.expressions)
    BY <1>2 DEF Draft, InRange
  <2>2. Len(a.expressions) \in Nat
    BY LenProperties DEF Draft, DraftType
  <2>3. b.indexes[m][t] = i /\ t \in DOMAIN b.indexes[m]
    BY <1>2
  <2>4. LeadsTo(b.expressions, i) = LeadsTo(a.expressions, i)
    <3> HIDE DEF i
    <3>1. CASE i <= CountStandardLabels
      BY <3>1 DEF LeadsTo
    <3>2. CASE ~ (i <= CountStandardLabels)
      <4>1. i - CountStandardLabels \in 1 .. Len(a.expressions)
        BY <2>1, <2>2, <3>2 DEF CountStandardLabels
      <4> QED
        BY <3>2, <4>1 DEF LeadsTo, Grown
    <3> QED
      BY <3>1, <3>2
  <2> QED
    BY <1>2, <2>3, <2>4 DEF Meaning
<1> QED
  BY <1>1, <1>2

\* Expressions are added at the end, and one that the host accepts is there then.
LEMMA AddStringExpressionGrows ==
    ASSUME NEW f, NEW K, NEW first \in Nat, NEW a \in Draft(f, K, first), NEW value \in STRING
    PROVE  LET b == AddStringExpression(a, value)
           IN  /\ Grown(a, b) /\ b.stop = a.stop /\ b.factories = a.factories
               /\ value \notin BadExpression =>
                     \E i \in DOMAIN b.expressions : b.expressions[i].expression = value
<1> DEFINE e == [token |-> a.next, expression |-> value]
           b == AddStringExpression(a, value)
           c == [a EXCEPT !.expressions = Append(@, e), !.next = @ + 1]
<1>1. a \in DraftType(f) /\ a.expressions \in Seq(StringExpression) /\ a.next \in Nat
  BY DEF Draft, DraftType
<1>2. Len(a.expressions) \in Nat
  BY <1>1, LenProperties
<1>3. CASE value \in BadExpression \/ \E x \in ToSet(a.expressions) : x.expression = value
  <2>1. b = a
    BY <1>3 DEF AddStringExpression
  <2>2. Grown(a, a)
    BY <1>2 DEF Grown
  <2>3. value \notin BadExpression =>
           \E i \in DOMAIN a.expressions : a.expressions[i].expression = value
    BY <1>3 DEF ToSet
  <2> HIDE DEF b
  <2> QED
    BY <2>1, <2>2, <2>3 DEF b
<1>4. CASE ~ (value \in BadExpression \/ \E x \in ToSet(a.expressions) : x.expression = value)
  <2>1. b = c
    BY <1>4 DEF AddStringExpression
  <2>2. e \in StringExpression /\ e.expression = value
    BY <1>1 DEF StringExpression
  <2>3. c.expressions = Append(a.expressions, e) /\ c.stop = a.stop /\ c.factories = a.factories
    BY <1>1 DEF DraftType
  <2> HIDE DEF e, c
  <2>4. /\ Len(c.expressions) = Len(a.expressions) + 1
        /\ DOMAIN c.expressions = 1 .. Len(a.expressions) + 1
        /\ \A i \in 1 .. Len(a.expressions) : c.expressions[i] = a.expressions[i]
        /\ c.expressions[Len(a.expressions) + 1] = e
    BY <1>1, <2>2, <2>3, AppendProperties
  <2>5. Grown(a, c)
    BY <1>2, <2>4 DEF Grown
  <2>6. \E i \in DOMAIN c.expressions : c.expressions[i].expression = value
    <3>1. Len(a.expressions) + 1 \in DOMAIN c.expressions
      BY <1>2, <2>4
    <3> QED
      BY <2>2, <2>4, <3>1
  <2> HIDE DEF b
  <2> QED
    BY <2>1, <2>3, <2>5, <2>6 DEF b
<1> QED
  BY <1>3, <1>4

\* The index of an expression that is there leads to it; one that the host refuses
\* has no index.
LEMMA IndexOfMeans ==
    ASSUME NEW f, NEW K, NEW first \in Nat, NEW a \in Draft(f, K, first), NEW value
    PROVE  /\ value \in BadExpression => IndexOf(a, value) = Removed
           /\ (\E i \in DOMAIN a.expressions : a.expressions[i].expression = value) =>
                 /\ IndexOf(a, value) # Removed
                 /\ LeadsTo(a.expressions, IndexOf(a, value)) = <<"expression", value>>
<1> DEFINE found == {i \in DOMAIN a.expressions : a.expressions[i].expression = value}
<1>1. DOMAIN a.expressions = 1 .. Len(a.expressions) /\ Len(a.expressions) \in Nat
  <2>1. a.expressions \in Seq(StringExpression)
    BY DEF Draft, DraftType
  <2> QED
    BY <2>1, LenProperties
<1>2. ASSUME value \in BadExpression PROVE IndexOf(a, value) = Removed
  <2>1. found = {}
    BY <1>1, <1>2 DEF Draft
  <2> QED
    BY <2>1 DEF IndexOf
<1>3. ASSUME \E i \in DOMAIN a.expressions : a.expressions[i].expression = value
      PROVE  /\ IndexOf(a, value) # Removed
             /\ LeadsTo(a.expressions, IndexOf(a, value)) = <<"expression", value>>
  <2>1. found # {} /\ found \in SUBSET Nat /\ found \subseteq 1 .. Len(a.expressions)
    BY <1>1, <1>3
  <2>2. IndexOf(a, value) = CountStandardLabels + Min(found)
    BY <2>1 DEF IndexOf
  <2>3. \A i \in found : a.expressions[i].expression = value
    OBVIOUS
  <2> HIDE DEF found
  <2>4. \E x \in found : \A y \in found : x <= y
    BY <2>1, LeastElement
  <2>5. Min(found) \in found
    BY <2>4 DEF Min
  <2>6. Min(found) \in 1 .. Len(a.expressions)
    BY <2>1, <2>5
  <2> DEFINE k == Min(found)
             i == IndexOf(a, value)
  <2>7. a.expressions[k].expression = value
    BY <2>3, <2>5
  <2> HIDE DEF k
  <2>8. i # Removed /\ ~ (i <= CountStandardLabels) /\ i - CountStandardLabels = k
    <3>1. i = CountStandardLabels + k /\ k \in 1 .. Len(a.expressions)
      BY <2>2, <2>6 DEF k
    <3> HIDE DEF i
    <3> QED
      BY <1>1, <3>1 DEF CountStandardLabels, Removed
  <2> HIDE DEF i
  <2>9. LeadsTo(a.expressions, i) = <<"expression", value>>
    BY <2>7, <2>8 DEF LeadsTo
  <2> QED
    BY <2>8, <2>9 DEF i
<1> QED
  BY <1>2, <1>3

\* Tag t0 of metric m now means M; nothing else has changed.
Sets(f, a, b, m, t0, M) ==
    /\ ~ b.stop /\ b.factories = a.factories
    /\ \A k \in DOMAIN f : \A t \in Tag :
          Meaning(b, k, t) = IF k = m /\ t = t0 THEN M ELSE Meaning(a, k, t)

\* A tag that is removed means nothing.
LEMMA RemoveTagMeans ==
    ASSUME NEW f, NEW K, NEW first \in Nat, NEW a \in Draft(f, K, first), NEW m \in DOMAIN f,
           NEW tag \in STRING, tag # Malformed, ~ a.stop
    PROVE  Sets(f, a, RemoveTag(a, m, tag), m, tag, {})
<1> DEFINE x == [t \in DOMAIN a.indexes[m] |-> IF t = tag THEN Removed ELSE a.indexes[m][t]]
           b == [a EXCEPT !.indexes[m] = [t \in DOMAIN @ |-> IF t = tag THEN Removed ELSE @[t]]]
<1>1. /\ a \in DraftType(f)
      /\ a.indexes \in [DOMAIN f -> UNION {[D -> Nat] : D \in SUBSET Tag}]
  BY DEF Draft, DraftType
<1>2. b = [a EXCEPT !.indexes[m] = x] /\ RemoveTag(a, m, tag) = b
  BY DEF RemoveTag
<1>3. DOMAIN x = DOMAIN a.indexes[m]
  OBVIOUS
<1>4. \A t \in DOMAIN x : x[t] = IF t = tag THEN Removed ELSE a.indexes[m][t]
  OBVIOUS
<1> HIDE DEF x, b
<1>5. /\ b.stop = a.stop /\ b.factories = a.factories /\ b.expressions = a.expressions
      /\ b.indexes = [a.indexes EXCEPT ![m] = x]
  BY <1>1, <1>2 DEF DraftType
<1>6. Grown(a, b)
  <2>1. Len(a.expressions) \in Nat
    BY LenProperties DEF Draft, DraftType
  <2> QED
    BY <1>5, <2>1 DEF Grown
<1>7. ASSUME NEW k \in DOMAIN f, NEW t \in Tag
      PROVE  Meaning(b, k, t) = IF k = m /\ t = tag THEN {} ELSE Meaning(a, k, t)
  <2>1. CASE k # m
    <3>1. b.indexes[k] = a.indexes[k]
      BY <1>1, <1>5, <2>1
    <3> QED
      BY <1>6, <2>1, <3>1, MeaningStays
  <2>2. CASE k = m /\ t # tag
    <3>1. b.indexes[k] = x
      BY <1>1, <1>5, <2>2
    <3> QED
      BY <1>3, <1>4, <1>6, <2>2, <3>1, MeaningStays
  <2>3. CASE k = m /\ t = tag
    <3>1. b.indexes[k] = x
      BY <1>1, <1>5, <2>3
    <3> QED
      BY <1>4, <2>3, <3>1 DEF Meaning
  <2> QED
    BY <2>1, <2>2, <2>3
<1> QED
  BY <1>2, <1>5, <1>7 DEF Sets

\* A tag that is overridden gets its value from the expression, or means nothing if the
\* host refuses that.
LEMMA OverrideTagMeans ==
    ASSUME NEW f, NEW K, NEW first \in Nat, NEW a \in Draft(f, K, first), NEW m \in DOMAIN f,
           NEW tag \in STRING, NEW value \in STRING, value # Malformed, ~ a.stop
    PROVE  Sets(f, a, OverrideTag(a, m, tag, value), m, tag,
                IF value \in BadExpression THEN {} ELSE {<<"expression", value>>})
<1> DEFINE b == AddStringExpression(a, value)
           ts == IF tag \in DOMAIN a.indexes[m] THEN b.tags[m] ELSE Append(b.tags[m], tag)
           x == [t \in DOMAIN b.indexes[m] \cup {tag} |->
                   IF t = tag THEN IndexOf(b, value) ELSE b.indexes[m][t]]
           c == [b EXCEPT
                   !.tags[m] = IF tag \in DOMAIN a.indexes[m] THEN @ ELSE Append(@, tag),
                   !.indexes[m] = [t \in DOMAIN @ \cup {tag} |->
                                     IF t = tag THEN IndexOf(b, value) ELSE @[t]]]
<1>1. c = [b EXCEPT !.tags[m] = ts, !.indexes[m] = x] /\ OverrideTag(a, m, tag, value) = c
  BY DEF OverrideTag
<1>2. b \in Draft(f, K, first) /\ b.indexes = a.indexes
  BY AddStringExpressionKeeps
<1>3. /\ Grown(a, b) /\ b.stop = a.stop /\ b.factories = a.factories
      /\ value \notin BadExpression =>
            \E i \in DOMAIN b.expressions : b.expressions[i].expression = value
  BY AddStringExpressionGrows
<1> HIDE DEF b
<1>4. /\ value \in BadExpression => IndexOf(b, value) = Removed
      /\ value \notin BadExpression =>
            /\ IndexOf(b, value) # Removed
            /\ LeadsTo(b.expressions, IndexOf(b, value)) = <<"expression", value>>
  BY <1>2, <1>3, IndexOfMeans
<1>5. DOMAIN x = DOMAIN a.indexes[m] \cup {tag}
  BY <1>2
<1>6. \A t \in DOMAIN x : x[t] = IF t = tag THEN IndexOf(b, value) ELSE a.indexes[m][t]
  BY <1>2
<1> HIDE DEF ts, x, c
<1>7. /\ b \in DraftType(f)
      /\ b.indexes \in [DOMAIN f -> UNION {[D -> Nat] : D \in SUBSET Tag}]
  BY <1>2 DEF Draft, DraftType
<1>8. /\ c.stop = b.stop /\ c.factories = b.factories /\ c.expressions = b.expressions
      /\ c.indexes = [b.indexes EXCEPT ![m] = x]
  BY <1>1, <1>7 DEF DraftType
<1>9. Grown(a, c)
  BY <1>3, <1>8 DEF Grown
<1> DEFINE M == IF value \in BadExpression THEN {} ELSE {<<"expression", value>>}
<1>10. ASSUME NEW k \in DOMAIN f, NEW t \in Tag
       PROVE  Meaning(c, k, t) = IF k = m /\ t = tag THEN M ELSE Meaning(a, k, t)
  <2>1. CASE k # m
    <3>1. c.indexes[k] = a.indexes[k]
      BY <1>2, <1>7, <1>8, <2>1
    <3> QED
      BY <1>9, <2>1, <3>1, MeaningStays
  <2>2. CASE k = m /\ t # tag
    <3>1. c.indexes[k] = x
      BY <1>7, <1>8, <2>2
    <3>2. /\ t \in DOMAIN c.indexes[k] <=> t \in DOMAIN a.indexes[k]
          /\ t \in DOMAIN a.indexes[k] => c.indexes[k][t] = a.indexes[k][t]
      BY <1>5, <1>6, <2>2, <3>1
    <3> QED
      BY <1>9, <2>2, <3>2, MeaningStays
  <2>3. CASE k = m /\ t = tag
    <3>1. c.indexes[k] = x
      BY <1>7, <1>8, <2>3
    <3>2. t \in DOMAIN c.indexes[k] /\ c.indexes[k][t] = IndexOf(b, value)
      BY <1>5, <1>6, <2>3, <3>1
    <3> QED
      BY <1>4, <1>8, <2>3, <3>2 DEF Meaning
  <2> QED
    BY <2>1, <2>2, <2>3
<1> HIDE DEF M
<1>11. Sets(f, a, c, m, tag, M)
  BY <1>3, <1>8, <1>10 DEF Sets
<1> QED
  BY <1>1, <1>11 DEF M

\* The tags of metric m in T now mean what M says; nothing else has changed.
SetsAll(f, a, b, m, T, M) ==
    /\ ~ b.stop /\ b.factories = a.factories
    /\ \A k \in DOMAIN f : \A t \in Tag :
          Meaning(b, k, t) = IF k = m /\ t \in T THEN M[t] ELSE Meaning(a, k, t)

\* One tag more.
LEMMA SetsOneMore ==
    ASSUME NEW f, NEW a, NEW b, NEW c, NEW m, NEW T, NEW M, NEW t0,
           SetsAll(f, a, b, m, T, M), Sets(f, b, c, m, t0, M[t0])
    PROVE  SetsAll(f, a, c, m, T \cup {t0}, M)
BY DEF SetsAll, Sets

\* The loop over tags_to_remove.
LEMMA RemoveTagsMean ==
    ASSUME NEW f, NEW K, NEW first \in Nat, NEW a \in Draft(f, K, first), NEW m \in DOMAIN f,
           NEW tags \in Seq(STRING), Malformed \notin ToSet(tags), ~ a.stop
    PROVE  SetsAll(f, a, RemoveTags(a, m, tags), m, ToSet(tags), [t \in Tag |-> {}])
<1> DEFINE n == Len(tags)
           M == [t \in Tag |-> {}]
           Done(k) == {tags[i] : i \in 1 .. k}
<1>1. n \in Nat /\ DOMAIN tags = 1 .. n /\ \A i \in 1 .. n : tags[i] \in STRING
  BY LenProperties
<1>2. PICK p \in [0 .. n -> Draft(f, K, first)] : RemoveLoop(p, a, m, tags)
  BY RemoveTagsPass
<1> DEFINE S == {k \in 0 .. n : SetsAll(f, a, p[k], m, Done(k), M)}
<1>3. 0 \in S
  <2>1. p[0] = a /\ Done(0) = {} /\ 0 \in 0 .. n
    BY <1>1, <1>2 DEF RemoveLoop
  <2> HIDE DEF Done, M
  <2> QED
    BY <2>1 DEF SetsAll
<1>4. ASSUME NEW k \in 0 .. n - 1, k \in S PROVE k + 1 \in S
  <2>1. /\ k + 1 \in 1 .. n /\ (k + 1) - 1 = k /\ k + 1 \in 0 .. n /\ k \in 0 .. n
        /\ 1 .. k + 1 = (1 .. k) \cup {k + 1}
    BY <1>1
  <2>2. p[k + 1] = RemoveTag(p[k], m, tags[k + 1])
    BY <1>2, <2>1 DEF RemoveLoop
  <2>3. p[k] \in Draft(f, K, first) /\ SetsAll(f, a, p[k], m, Done(k), M)
    BY <1>4, <2>1
  <2>4. tags[k + 1] \in STRING /\ tags[k + 1] # Malformed /\ M[tags[k + 1]] = {}
    BY <1>1, <2>1 DEF ToSet, Tag
  <2>5. Done(k + 1) = Done(k) \cup {tags[k + 1]}
    BY <2>1
  <2> DEFINE b == p[k]
             c == p[k + 1]
             tag == tags[k + 1]
             T == Done(k)
  <2> HIDE DEF n, M, Done, b, c, tag, T
  <2>6. Sets(f, b, c, m, tag, M[tag])
    <3>1. b \in Draft(f, K, first) /\ ~ b.stop
      BY <2>3 DEF SetsAll, b
    <3>2. c = RemoveTag(b, m, tag) /\ tag \in STRING /\ tag # Malformed /\ M[tag] = {}
      BY <2>2, <2>4 DEF b, c, tag
    <3>3. Sets(f, b, RemoveTag(b, m, tag), m, tag, {})
      BY <3>1, <3>2, RemoveTagMeans
    <3> QED
      BY <3>2, <3>3
  <2>7. SetsAll(f, a, c, m, T \cup {tag}, M)
    <3>1. SetsAll(f, a, b, m, T, M)
      BY <2>3 DEF b, T
    <3> QED
      BY <2>6, <3>1, SetsOneMore
  <2>8. SetsAll(f, a, p[k + 1], m, Done(k + 1), M)
    BY <2>5, <2>7 DEF c, T, tag
  <2> QED
    BY <2>1, <2>8
<1>5. n \in S
  <2> HIDE DEF S, n
  <2>1. \A k \in 0 .. n : k \in S
    BY <1>1, <1>3, <1>4, RangeInduction
  <2> QED
    BY <1>1, <2>1
<1>6. p[n] = RemoveTags(a, m, tags) /\ Done(n) = ToSet(tags)
  BY <1>1, <1>2 DEF RemoveLoop, ToSet
<1> QED
  BY <1>5, <1>6

\* What the dimensions of an override say of a tag.
Given(dims, t) ==
    {<<"expression", dims[n].value>> :
        n \in {k \in DOMAIN dims : dims[k].tag = t /\ dims[k].value \notin BadExpression}}

\* The tags are the keys of a JSON object.
Keyed(dims) == \A i, j \in DOMAIN dims : dims[i].tag = dims[j].tag => i = j

\* The loop over the dimensions of an override.
LEMMA OverrideTagsMean ==
    ASSUME NEW f, NEW K, NEW first \in Nat, NEW a \in Draft(f, K, first), NEW m \in DOMAIN f,
           NEW dims \in Seq([tag : STRING, value : STRING]), Keyed(dims),
           \A i \in DOMAIN dims : dims[i].value # Malformed, ~ a.stop
    PROVE  SetsAll(f, a, OverrideTags(a, m, dims), m, {dims[i].tag : i \in DOMAIN dims},
                   [t \in Tag |-> Given(dims, t)])
<1> DEFINE n == Len(dims)
           M == [t \in Tag |-> Given(dims, t)]
           Done(k) == {dims[i].tag : i \in 1 .. k}
<1>1. /\ n \in Nat /\ DOMAIN dims = 1 .. n
      /\ \A i \in 1 .. n : dims[i].tag \in STRING /\ dims[i].value \in STRING
  <2>1. \A i \in 1 .. n : dims[i] \in [tag : STRING, value : STRING]
    BY ElementOfSeq
  <2> QED
    BY <2>1, LenProperties
<1>2. PICK p \in [0 .. n -> Draft(f, K, first)] : TagLoop(p, a, m, dims)
  BY OverrideTagsPass
<1> DEFINE S == {k \in 0 .. n : SetsAll(f, a, p[k], m, Done(k), M)}
<1>3. 0 \in S
  <2>1. p[0] = a /\ Done(0) = {} /\ 0 \in 0 .. n
    BY <1>1, <1>2 DEF TagLoop
  <2> HIDE DEF Done, M
  <2> QED
    BY <2>1 DEF SetsAll
<1>4. ASSUME NEW k \in 0 .. n - 1, k \in S PROVE k + 1 \in S
  <2> DEFINE d == dims[k + 1]
  <2>1. /\ k + 1 \in 1 .. n /\ (k + 1) - 1 = k /\ k + 1 \in 0 .. n /\ k \in 0 .. n
        /\ 1 .. k + 1 = (1 .. k) \cup {k + 1}
    BY <1>1
  <2>2. p[k + 1] = OverrideTag(p[k], m, d.tag, d.value)
    BY <1>2, <2>1 DEF TagLoop
  <2>3. p[k] \in Draft(f, K, first) /\ SetsAll(f, a, p[k], m, Done(k), M)
    BY <1>4, <2>1
  <2>4. d.tag \in STRING /\ d.value \in STRING /\ d.value # Malformed /\ d.tag \in Tag
    BY <1>1, <2>1 DEF Tag
  <2>5. Done(k + 1) = Done(k) \cup {d.tag}
    BY <2>1
  <2>6. M[d.tag] = IF d.value \in BadExpression THEN {} ELSE {<<"expression", d.value>>}
    <3>1. {i \in DOMAIN dims : dims[i].tag = d.tag} = {k + 1}
      BY <1>1, <2>1 DEF Keyed
    <3>2. Given(dims, d.tag) = IF d.value \in BadExpression THEN {} ELSE {<<"expression", d.value>>}
      BY <3>1 DEF Given
    <3> HIDE DEF d
    <3> QED
      BY <2>4, <3>2
  <2> DEFINE b == p[k]
             c == p[k + 1]
             tag == d.tag
             value == d.value
             T == Done(k)
             New == IF value \in BadExpression THEN {} ELSE {<<"expression", value>>}
  <2> HIDE DEF n, M, Done, d, b, c, tag, value, T
  <2>7. Sets(f, b, c, m, tag, M[tag])
    <3>1. b \in Draft(f, K, first) /\ ~ b.stop
      BY <2>3 DEF SetsAll, b
    <3>2. /\ c = OverrideTag(b, m, tag, value) /\ tag \in STRING /\ value \in STRING
          /\ value # Malformed /\ M[tag] = New
      BY <2>2, <2>4, <2>6 DEF b, c, tag, value
    <3>3. Sets(f, b, OverrideTag(b, m, tag, value), m, tag, New)
      BY <3>1, <3>2, OverrideTagMeans
    <3> HIDE DEF New
    <3> QED
      BY <3>2, <3>3
  <2>8. SetsAll(f, a, c, m, T \cup {tag}, M)
    <3>1. SetsAll(f, a, b, m, T, M)
      BY <2>3 DEF b, T
    <3> QED
      BY <2>7, <3>1, SetsOneMore
  <2>9. SetsAll(f, a, p[k + 1], m, Done(k + 1), M)
    BY <2>5, <2>8 DEF c, T, tag
  <2> QED
    BY <2>1, <2>9
<1>5. n \in S
  <2> HIDE DEF S, n
  <2>1. \A k \in 0 .. n : k \in S
    BY <1>1, <1>3, <1>4, RangeInduction
  <2> QED
    BY <1>1, <2>1
<1>6. p[n] = OverrideTags(a, m, dims) /\ Done(n) = {dims[i].tag : i \in DOMAIN dims}
  BY <1>1, <1>2 DEF TagLoop
<1> QED
  BY <1>5, <1>6

\* An override that does not end the loop over the overrides.
Proper(o) ==
    /\ o.object /\ Malformed \notin ToSet(o.remove) /\ Keyed(o.dimensions)
    /\ \A n \in DOMAIN o.dimensions : o.dimensions[n].value # Malformed

\* One override has been applied to the factories in s.
Applied(f, a, b, o, s) ==
    /\ ~ b.stop
    /\ DOMAIN b.factories = {m \in DOMAIN a.factories : ~ (m \in s /\ o.drop /\ o.name \in {"", m})}
    /\ \A m \in DOMAIN f : \A t \in Tag :
          Meaning(b, m, t) =
             IF m \in s /\ o.name \in {"", m} /\ ~ o.drop /\ Mentions(o, t)
             THEN Given(o.dimensions, t) ELSE Meaning(a, m, t)

\* One override of one factory: the tags it mentions are as it says.
LEMMA OverrideFactoryMeans ==
    ASSUME NEW f, NEW K, NEW first \in Nat, NEW a \in Draft(f, K, first), NEW m \in DOMAIN f,
           NEW o \in Overriding, Proper(o), ~ a.stop
    PROVE  Applied(f, a, OverrideFactory(a, m, o), o, {m})
<1>1. CASE o.name \notin {"", m}
  <2>1. OverrideFactory(a, m, o) = a
    BY <1>1 DEF OverrideFactory
  <2> QED
    BY <1>1, <2>1 DEF Applied
<1>2. CASE o.name \in {"", m} /\ o.drop
  <2> DEFINE b == [a EXCEPT !.factories = Restrict(@, DOMAIN @ \ {m})]
  <2>1. OverrideFactory(a, m, o) = b
    BY <1>2 DEF OverrideFactory
  <2>2. a \in DraftType(f)
    BY DEF Draft
  <2>3. /\ b.stop = a.stop /\ b.expressions = a.expressions /\ b.indexes = a.indexes
        /\ b.factories = Restrict(a.factories, DOMAIN a.factories \ {m})
    BY <2>2 DEF DraftType
  <2>4. DOMAIN b.factories = DOMAIN a.factories \ {m}
    BY <2>3 DEF Restrict
  <2> HIDE DEF b
  <2>5. \A k, t : Meaning(b, k, t) = Meaning(a, k, t)
    BY <2>3 DEF Meaning
  <2> QED
    BY <1>2, <2>1, <2>3, <2>4, <2>5 DEF Applied
<1>3. CASE o.name \in {"", m} /\ ~ o.drop
  <2> DEFINE b == RemoveTags(a, m, o.remove)
             c == OverrideTags(b, m, o.dimensions)
             T == {o.dimensions[i].tag : i \in DOMAIN o.dimensions}
             N == [t \in Tag |-> {}]
             M == [t \in Tag |-> Given(o.dimensions, t)]
  <2>1. OverrideFactory(a, m, o) = c
    BY <1>3 DEF OverrideFactory
  <2>2. o.remove \in Seq(STRING) /\ o.dimensions \in Seq([tag : STRING, value : STRING])
    BY DEF Overriding
  <2>3. SetsAll(f, a, b, m, ToSet(o.remove), N)
    BY <2>2, RemoveTagsMean DEF Proper
  <2>4. b \in Draft(f, K, first) /\ ~ b.stop
    BY <2>2, <2>3, RemoveTagsKeep DEF SetsAll
  <2>5. SetsAll(f, b, c, m, T, M)
    <3> HIDE DEF b
    <3> QED
      BY <2>2, <2>4, OverrideTagsMean DEF Proper
  <2>6. \A t : Mentions(o, t) <=> t \in ToSet(o.remove) \/ t \in T
    BY DEF Mentions
  <2>7. \A t : t \notin T => Given(o.dimensions, t) = {}
    BY DEF Given
  <2>8. \A t \in Tag : M[t] = Given(o.dimensions, t) /\ N[t] = {}
    OBVIOUS
  <2> HIDE DEF b, c, T, M, N
  <2>9. ASSUME NEW k \in DOMAIN f, NEW t \in Tag
        PROVE  Meaning(c, k, t) = IF k = m /\ Mentions(o, t)
                                  THEN Given(o.dimensions, t) ELSE Meaning(a, k, t)
    <3>1. Meaning(b, k, t) = IF k = m /\ t \in ToSet(o.remove) THEN {} ELSE Meaning(a, k, t)
      BY <2>3, <2>8 DEF SetsAll
    <3>2. Meaning(c, k, t) = IF k = m /\ t \in T THEN Given(o.dimensions, t) ELSE Meaning(b, k, t)
      BY <2>5, <2>8 DEF SetsAll
    <3> QED
      BY <2>6, <2>7, <3>1, <3>2
  <2>10. ~ c.stop /\ c.factories = a.factories
    BY <2>3, <2>5 DEF SetsAll
  <2> QED
    BY <1>3, <2>1, <2>9, <2>10 DEF Applied
<1> QED
  BY <1>1, <1>2, <1>3

\* One factory more.
LEMMA AppliedToMore ==
    ASSUME NEW f, NEW a, NEW b, NEW c, NEW o, NEW s, NEW m, m \notin s,
           Applied(f, a, b, o, s), Applied(f, b, c, o, {m})
    PROVE  Applied(f, a, c, o, s \cup {m})
<1>1. DOMAIN c.factories =
         {k \in DOMAIN a.factories : ~ (k \in s \cup {m} /\ o.drop /\ o.name \in {"", k})}
  BY DEF Applied
<1>2. ASSUME NEW k \in DOMAIN f, NEW t \in Tag
      PROVE  Meaning(c, k, t) =
                IF k \in s \cup {m} /\ o.name \in {"", k} /\ ~ o.drop /\ Mentions(o, t)
                THEN Given(o.dimensions, t) ELSE Meaning(a, k, t)
  <2>1. Meaning(c, k, t) =
           IF k = m /\ o.name \in {"", k} /\ ~ o.drop /\ Mentions(o, t)
           THEN Given(o.dimensions, t) ELSE Meaning(b, k, t)
    BY DEF Applied
  <2>2. Meaning(b, k, t) =
           IF k \in s /\ o.name \in {"", k} /\ ~ o.drop /\ Mentions(o, t)
           THEN Given(o.dimensions, t) ELSE Meaning(a, k, t)
    BY DEF Applied
  <2> QED
    BY <2>1, <2>2
<1> QED
  BY <1>1, <1>2 DEF Applied

\* The loop over the factories: all of them are as the override says, whatever the order.
LEMMA OverrideFactoriesMean ==
    ASSUME NEW f, NEW K, IsFiniteSet(DOMAIN f), NEW first \in Nat, NEW a \in Draft(f, K, first),
           NEW o \in Overriding, Spares(o, K), Proper(o), ~ a.stop
    PROVE  Applied(f, a, OverrideFactories(a, o), o, DOMAIN a.factories)
<1> DEFINE S == DOMAIN a.factories
<1>1. S \subseteq DOMAIN f
  BY DEF Draft, DraftType
<1>2. IsFiniteSet(S)
  BY <1>1, FS_Subset
<1>3. PICK p \in [SUBSET S -> Draft(f, K, first)] : FactoryLoop(p, a, o)
  BY OverrideFactoriesPass
<1> DEFINE it == [s \in SUBSET S |-> s]
           V == {s \in SUBSET S : Applied(f, a, p[s], o, s)}
<1>4. it[{}] \in V
  <2>1. p[{}] = a
    BY <1>3 DEF FactoryLoop
  <2>2. Applied(f, a, a, o, {})
    BY DEF Applied
  <2> QED
    BY <2>1, <2>2
<1>5. ASSUME NEW s \in SUBSET S, s # {}, it[s \ {SomeOf(s)}] \in V PROVE it[s] \in V
  <2> DEFINE m == SomeOf(s)
             u == s \ {m}
  <2>1. m \in s
    BY <1>5 DEF SomeOf
  <2>2. p[s] = OverrideFactory(p[u], m, o)
    BY <1>3, <1>5 DEF FactoryLoop
  <2>3. u \in SUBSET S /\ Applied(f, a, p[u], o, u) /\ p[u] \in Draft(f, K, first)
    BY <1>5
  <2> HIDE DEF m
  <2>4. m \in DOMAIN f /\ m \notin u /\ u \cup {m} = s
    BY <1>1, <2>1
  <2> HIDE DEF u
  <2>5. ~ p[u].stop
    BY <2>3 DEF Applied
  <2>6. Applied(f, p[u], p[s], o, {m})
    BY <2>2, <2>3, <2>4, <2>5, OverrideFactoryMeans
  <2>7. Applied(f, a, p[s], o, s)
    BY <2>3, <2>4, <2>6, AppliedToMore
  <2> QED
    BY <2>7
<1>6. it[S] \in V
  <2> HIDE DEF it, V, S
  <2> QED
    BY <1>2, <1>4, <1>5, SetFoldStays
<1>7. p[S] = OverrideFactories(a, o)
  BY <1>3 DEF FactoryLoop
<1> QED
  BY <1>6, <1>7

\* Where the first n overrides say that tag t of metric m gets its value.
SourcesUpto(os, n, m, t) ==
    LET about == {i \in 1 .. n : os[i].name \in {"", m} /\ Mentions(os[i], t)}
    IN  IF about = {}
        THEN {<<"standard", x>> : x \in {t} \cap ToSet(InitialTags(m))}
        ELSE Given(os[Max(about)].dimensions, t)

\* An override more decides about the tags it mentions, and about no others.
LEMMA SourcesOneMore ==
    ASSUME NEW os, NEW k \in Nat, NEW m, NEW t
    PROVE  SourcesUpto(os, k + 1, m, t) =
              IF os[k + 1].name \in {"", m} /\ Mentions(os[k + 1], t)
              THEN Given(os[k + 1].dimensions, t) ELSE SourcesUpto(os, k, m, t)
<1> DEFINE About(n) == {i \in 1 .. n : os[i].name \in {"", m} /\ Mentions(os[i], t)}
<1>1. 1 .. k + 1 = (1 .. k) \cup {k + 1} /\ k + 1 \in Nat /\ k + 1 \in 1 .. k + 1
  OBVIOUS
<1>2. CASE os[k + 1].name \in {"", m} /\ Mentions(os[k + 1], t)
  <2>1. k + 1 \in About(k + 1) /\ About(k + 1) \in SUBSET (1 .. k + 1)
    BY <1>1, <1>2
  <2>2. Max(About(k + 1)) = k + 1
    <3> DEFINE A == About(k + 1)
    <3> HIDE DEF About, A
    <3>1. A \in SUBSET (1 .. k + 1) /\ A # {} /\ k + 1 \in A
      BY <2>1 DEF A
    <3>2. Max(A) \in A /\ \A y \in A : y <= Max(A)
      BY <1>1, <3>1, MaxOfIndices
    <3>3. Max(A) \in 1 .. k + 1 /\ k + 1 <= Max(A)
      BY <3>1, <3>2
    <3> QED
      BY <3>3 DEF A
  <2>3. SourcesUpto(os, k + 1, m, t) = Given(os[Max(About(k + 1))].dimensions, t)
    BY <2>1 DEF SourcesUpto
  <2> HIDE DEF About
  <2> QED
    BY <1>2, <2>2, <2>3
<1>3. CASE ~ (os[k + 1].name \in {"", m} /\ Mentions(os[k + 1], t))
  <2>1. About(k + 1) = About(k)
    BY <1>1, <1>3
  <2>2. SourcesUpto(os, k + 1, m, t) = SourcesUpto(os, k, m, t)
    BY <2>1, Zenon DEF SourcesUpto
  <2> QED
    BY <1>3, <2>2
<1> QED
  BY <1>2, <1>3

\* What is left of the factories f after the first n overrides, and what its tags mean,
\* is what they ask for.
AsAsked(f, b, os, n) ==
    /\ ~ b.stop
    /\ DOMAIN b.factories =
          {m \in DOMAIN f : \A i \in 1 .. n : os[i].drop => os[i].name \notin {"", m}}
    /\ \A m \in DOMAIN b.factories : \A t \in Tag : Meaning(b, m, t) = SourcesUpto(os, n, m, t)

\* A default tag leads to the standard label of that name.
LEMMA StandardIndexMeans ==
    ASSUME NEW m, NEW t \in ToSet(InitialTags(m))
    PROVE  StandardIndex(t) \in 1 .. CountStandardLabels /\ DefaultTags[StandardIndex(t)] = t
<1> DEFINE I == {i \in 1 .. Len(DefaultTags) : DefaultTags[i] = t}
<1>1. StandardIndex(t) = IF I # {} THEN Min(I) ELSE 0
  BY Zenon DEF StandardIndex, SelectInSeq
<1>2. I \in SUBSET Nat /\ I \subseteq 1 .. CountStandardLabels /\ \A i \in I : DefaultTags[i] = t
  BY DEF DefaultTags, CountStandardLabels
<1>3. I # {}
  <2>1. m \in DOMAIN DefaultMetrics
    <3>1. ToSet(<<>>) = {}
      BY DEF ToSet
    <3> QED
      BY <3>1 DEF InitialTags
  <2> DEFINE k == DefaultMetrics[m].labels
  <2>2. k \in {1, 3, 4}
    BY <2>1 DEF DefaultMetrics, CountStandardLabels, CountPeerLabels, CountTcpLabels
  <2>3. Len(DefaultTags) = 4 /\ DOMAIN DefaultTags = 1 .. 4
    BY DEF DefaultTags
  <2>4. InitialTags(m) = SubSeq(DefaultTags, 1, k)
    BY <2>1 DEF InitialTags
  <2> HIDE DEF k
  <2>5. \A i \in 1 .. k : i \in 1 .. 4 /\ DefaultTags[i] \in Tag
    <3>1. \A i \in 1 .. k : i \in 1 .. 4
      BY <2>2
    <3> QED
      BY <2>3, <3>1 DEF Tag, ToSet
  <2>6. DOMAIN SubSeq(DefaultTags, 1, k) = 1 .. k
        /\ \A i \in 1 .. k : SubSeq(DefaultTags, 1, k)[i] = DefaultTags[i]
    BY <2>2, <2>3, SubSeqProperties
  <2>7. \E i \in 1 .. k : t = DefaultTags[i]
    BY <2>4, <2>6 DEF ToSet
  <2> QED
    BY <2>3, <2>5, <2>7
<1> HIDE DEF I
<1>4. \E x \in I : \A y \in I : x <= y
  BY <1>2, <1>3, LeastElement
<1>5. Min(I) \in I
  BY <1>4 DEF Min
<1> QED
  BY <1>1, <1>2, <1>3, <1>5

\* Before the overrides the tags lead to the standard labels.
LEMMA NoOverridesMean ==
    ASSUME NEW f, NEW first, NEW os
    PROVE  AsAsked(f, NoOverrides(f, first), os, 0)
<1> DEFINE a == NoOverrides(f, first)
<1>1. ~ a.stop /\ a.factories = f
  BY DEF NoOverrides
<1>2. a.indexes = [m \in DOMAIN f |-> [t \in ToSet(InitialTags(m)) |-> StandardIndex(t)]]
  BY DEF NoOverrides
<1>3. 1 .. 0 = {}
  OBVIOUS
<1> HIDE DEF a
<1>4. ASSUME NEW m \in DOMAIN f, NEW t \in Tag PROVE Meaning(a, m, t) = SourcesUpto(os, 0, m, t)
  <2>1. a.indexes[m] = [x \in ToSet(InitialTags(m)) |-> StandardIndex(x)]
    BY <1>2
  <2>2. SourcesUpto(os, 0, m, t) = {<<"standard", x>> : x \in {t} \cap ToSet(InitialTags(m))}
    BY <1>3 DEF SourcesUpto
  <2>3. CASE t \notin ToSet(InitialTags(m))
    BY <2>1, <2>2, <2>3 DEF Meaning
  <2>4. CASE t \in ToSet(InitialTags(m))
    <3> DEFINE i == StandardIndex(t)
    <3>1. i \in 1 .. CountStandardLabels /\ DefaultTags[i] = t
      BY <2>4, StandardIndexMeans
    <3>2. t \in DOMAIN a.indexes[m] /\ a.indexes[m][t] = i
      BY <2>1, <2>4
    <3> HIDE DEF i
    <3>3. i # Removed /\ i <= CountStandardLabels
      BY <3>1 DEF Removed, CountStandardLabels
    <3>4. Meaning(a, m, t) = {<<"standard", t>>}
      BY <3>1, <3>2, <3>3 DEF Meaning, LeadsTo
    <3>5. {t} \cap ToSet(InitialTags(m)) = {t}
      BY <2>4
    <3> QED
      BY <2>2, <3>4, <3>5
  <2> QED
    BY <2>3, <2>4
<1>5. AsAsked(f, a, os, 0)
  BY <1>1, <1>3, <1>4 DEF AsAsked
<1> QED
  BY <1>5 DEF a

\* The loop over the overrides: the last one that mentions a tag decides.
LEMMA OverrideAllMeans ==
    ASSUME NEW f, IsFiniteSet(DOMAIN f), NEW first \in Nat, NEW a \in Draft(f, {}, first),
           NEW os \in Seq(Overriding), \A i \in DOMAIN os : Proper(os[i]), AsAsked(f, a, os, 0)
    PROVE  AsAsked(f, OverrideAll(a, os), os, Len(os))
<1> DEFINE n == Len(os)
           V == Draft(f, {}, first)
<1>1. n \in Nat /\ DOMAIN os = 1 .. n /\ \A i \in 1 .. n : os[i] \in Overriding
  BY LenProperties
<1>2. \A o : Spares(o, {})
  BY DEF Spares
<1>3. PICK p \in [0 .. n -> V] : OverrideLoop(p, a, os)
  BY <1>2, OverrideAllPasses
<1> DEFINE S == {k \in 0 .. n : AsAsked(f, p[k], os, k)}
<1>4. 0 \in S
  BY <1>1, <1>3 DEF OverrideLoop
<1>5. ASSUME NEW k \in 0 .. n - 1, k \in S PROVE k + 1 \in S
  <2>1. /\ k + 1 \in 1 .. n /\ (k + 1) - 1 = k /\ k + 1 \in 0 .. n /\ k \in 0 .. n /\ k \in Nat
        /\ 1 .. k + 1 = (1 .. k) \cup {k + 1}
    BY <1>1
  <2> DEFINE b == p[k]
             c == p[k + 1]
             o == os[k + 1]
             D == {m \in DOMAIN f : \A i \in 1 .. k : os[i].drop => os[i].name \notin {"", m}}
  <2>2. c = Override(b, o)
    BY <1>3, <2>1 DEF OverrideLoop
  <2>3. b \in V /\ AsAsked(f, b, os, k) /\ o \in Overriding /\ Proper(o)
    BY <1>1, <1>5, <2>1
  <2> HIDE DEF b, c, n
  <2>4. ~ b.stop /\ DOMAIN b.factories = D
    BY <2>3 DEF AsAsked
  <2>5. Applied(f, b, c, o, DOMAIN b.factories)
    <3> HIDE DEF o, V
    <3>1. c = OverrideFactories(b, o)
      BY <2>2, <2>3 DEF Override, Proper
    <3> QED
      BY <1>2, <2>3, <2>4, <3>1, OverrideFactoriesMean DEF V
  <2>6. DOMAIN c.factories =
           {m \in DOMAIN f : \A i \in 1 .. k + 1 : os[i].drop => os[i].name \notin {"", m}}
    BY <2>1, <2>4, <2>5 DEF Applied
  <2>7. ASSUME NEW m \in DOMAIN c.factories, NEW t \in Tag
        PROVE  Meaning(c, m, t) = SourcesUpto(os, k + 1, m, t)
    <3>1. m \in DOMAIN f /\ m \in DOMAIN b.factories /\ ~ (o.drop /\ o.name \in {"", m})
      BY <2>4, <2>5 DEF Applied
    <3>2. Meaning(b, m, t) = SourcesUpto(os, k, m, t)
      BY <2>3, <3>1 DEF AsAsked
    <3>3. SourcesUpto(os, k + 1, m, t) =
             IF o.name \in {"", m} /\ Mentions(o, t)
             THEN Given(o.dimensions, t) ELSE SourcesUpto(os, k, m, t)
      BY <2>1, SourcesOneMore
    <3> HIDE DEF o
    <3>4. Meaning(c, m, t) =
             IF m \in DOMAIN b.factories /\ o.name \in {"", m} /\ ~ o.drop /\ Mentions(o, t)
             THEN Given(o.dimensions, t) ELSE Meaning(b, m, t)
      BY <2>5, <3>1 DEF Applied
    <3>5. CASE o.name \in {"", m} /\ Mentions(o, t)
      <4>1. Meaning(c, m, t) = Given(o.dimensions, t)
        BY <3>1, <3>4, <3>5
      <4> QED
        BY <3>3, <3>5, <4>1, Zenon
    <3>6. CASE ~ (o.name \in {"", m} /\ Mentions(o, t))
      <4>1. Meaning(c, m, t) = Meaning(b, m, t)
        BY <3>4, <3>6
      <4> QED
        BY <3>2, <3>3, <3>6, <4>1, Zenon
    <3> QED
      BY <3>5, <3>6
  <2>8. AsAsked(f, c, os, k + 1)
    <3>1. ~ c.stop
      BY <2>5 DEF Applied
    <3> QED
      BY <2>6, <2>7, <3>1 DEF AsAsked
  <2> QED
    BY <2>1, <2>8 DEF c
<1>6. n \in S
  <2> HIDE DEF S, n
  <2>1. \A k \in 0 .. n : k \in S
    BY <1>1, <1>4, <1>5, RangeInduction
  <2> QED
    BY <1>1, <2>1
<1>7. p[n] = OverrideAll(a, os)
  BY <1>3 DEF OverrideLoop
<1> QED
  BY <1>6, <1>7

\* The tags of a stat lead where they do in the draft.
LEMMA StatMeans ==
    ASSUME NEW f, NEW K, NEW first \in Nat, NEW a \in Draft(f, K, first), NEW m \in DOMAIN f,
           NEW tags, tags = KeptTags(a, m), NEW x, x = [i \in DOMAIN tags |-> a.indexes[m][tags[i]]],
           NEW t
    PROVE  {LeadsTo(a.expressions, x[i]) : i \in {k \in DOMAIN tags : tags[k] = t}} = Meaning(a, m, t)
<1>1. ToSet(tags) = NotRemoved(a, m)
  BY KeptTagsKept
<1>2. \A i \in DOMAIN tags : x[i] = a.indexes[m][tags[i]]
  OBVIOUS
<1>3. CASE t \in ToSet(tags)
  <2>1. Meaning(a, m, t) = {LeadsTo(a.expressions, a.indexes[m][t])}
    BY <1>1, <1>3 DEF Meaning, NotRemoved
  <2>2. \E i \in DOMAIN tags : tags[i] = t
    BY <1>3 DEF ToSet
  <2> QED
    BY <1>2, <2>1, <2>2
<1>4. CASE t \notin ToSet(tags)
  <2>1. Meaning(a, m, t) = {}
    BY <1>1, <1>4 DEF Meaning, NotRemoved
  <2>2. {k \in DOMAIN tags : tags[k] = t} = {}
    BY <1>4 DEF ToSet
  <2> QED
    BY <2>1, <2>2
<1> QED
  BY <1>3, <1>4

\* The reference looks at all the overrides.
LEMMA SourcesAre ==
    ASSUME NEW c \in ConfigType, NEW m, NEW t
    PROVE  Sources(c, m, t) = SourcesUpto(c.metrics, Len(c.metrics), m, t)
<1>1. DOMAIN c.metrics = 1 .. Len(c.metrics)
  <2>1. c.metrics \in Seq(Overriding)
    BY DEF ConfigType, Overriding
  <2> QED
    BY <2>1, LenProperties
<1> QED
  BY <1>1, Zenon DEF Sources, SourcesUpto, Given

\* The metrics a configuration asks for.
AskedFor(c) ==
    {m \in DOMAIN DefaultMetrics \cup {d.name : d \in ToSet(Accepted(c.definitions))} :
        \A i \in DOMAIN c.metrics : c.metrics[i].drop => c.metrics[i].name \notin {"", m}}

\* What is in force, r, is what configuration c asks for.
Fulfils(r, c) ==
    /\ {g.name : g \in r.stats} = AskedFor(c)
    /\ \A g \in r.stats : \A tag \in Tag :
          {LeadsTo(r.expressions, g.indexes[n]) : n \in {k \in DOMAIN g.tags : g.tags[k] = tag}}
          = Sources(c, g.name, tag)

\* initializeDimensions does what a well-formed configuration asks for.
LEMMA InitializeDimensionsFulfils ==
    ASSUME NEW c \in ConfigType, NEW n \in Nat, WellFormed(c),
           \A i \in DOMAIN c.metrics : Keyed(c.metrics[i].dimensions)
    PROVE  Fulfils(InitializeDimensions(c, n), c)
<1> DEFINE ds == Accepted(c.definitions)
           f == Factories(ds, n)
           first == n + Len(ds)
           a == OverrideAll(NoOverrides(f, first), c.metrics)
           r == InitializeDimensions(c, n)
           os == c.metrics
           Stat(m) == [name |-> m,
                       recurrent |-> a.factories[m].recurrent,
                       protocols |-> a.factories[m].protocols,
                       extractor |-> a.factories[m].extractor,
                       tags |-> KeptTags(a, m),
                       indexes |-> [i \in DOMAIN KeptTags(a, m) |->
                                      a.indexes[m][KeptTags(a, m)[i]]]]
<1>1. ds \in Seq(Definition) /\ Len(ds) \in Nat
  <2>1. c.definitions \in Seq(Definition)
    BY DEF ConfigType, Definition
  <2> QED
    BY <2>1, AcceptedType, LenProperties
<1>2. /\ IsFiniteSet(DOMAIN f) /\ f = [m \in DOMAIN f |-> f[m]]
      /\ DOMAIN f = DOMAIN DefaultMetrics \cup {d.name : d \in ToSet(ds)}
  <2>1. f = [m \in DOMAIN f |-> f[m]]
    BY DEF Factories
  <2>2. {ds[i].name : i \in DOMAIN ds} = {d.name : d \in ToSet(ds)}
    BY DEF ToSet
  <2> QED
    BY <1>1, <2>1, <2>2, FactoriesFinite
<1>3. os \in Seq(Overriding) /\ DOMAIN os = 1 .. Len(os)
  <2>1. os \in Seq(Overriding)
    BY DEF ConfigType, Overriding
  <2> QED
    BY <2>1, LenProperties
<1>4. \A i \in DOMAIN os : Proper(os[i])
  BY DEF WellFormed, Proper
<1>5. r.stats = StatGens(a) /\ r.expressions = a.expressions
  BY DEF InitializeDimensions
<1>6. first \in Nat
  BY <1>1
<1>7. r.stats = {Stat(m) : m \in DOMAIN a.factories}
  BY <1>5, Zenon DEF StatGens
<1> HIDE DEF f, first
<1>8. a \in Draft(f, {}, first) /\ AsAsked(f, a, os, Len(os))
  <2> DEFINE b == NoOverrides(f, first)
  <2>1. b \in Draft(f, {}, first)
    BY <1>2, <1>6, NoOverridesDraft
  <2>2. AsAsked(f, b, os, 0)
    BY NoOverridesMean
  <2>3. \A i \in DOMAIN os : Spares(os[i], {})
    BY DEF Spares
  <2> HIDE DEF b, os
  <2>4. OverrideAll(b, os) \in Draft(f, {}, first)
    BY <1>2, <1>3, <1>6, <2>1, <2>3, OverrideAllKeeps
  <2>5. AsAsked(f, OverrideAll(b, os), os, Len(os))
    BY <1>2, <1>3, <1>4, <1>6, <2>1, <2>2, OverrideAllMeans
  <2> QED
    BY <2>4, <2>5 DEF b, os
<1> HIDE DEF a, r
<1>9. DOMAIN a.factories = AskedFor(c)
  BY <1>2, <1>3, <1>8 DEF AsAsked, AskedFor
<1>10. \A m : Stat(m).name = m /\ Stat(m).tags = KeptTags(a, m)
              /\ Stat(m).indexes = [i \in DOMAIN Stat(m).tags |-> a.indexes[m][Stat(m).tags[i]]]
  OBVIOUS
<1> HIDE DEF Stat, os
<1>11. {g.name : g \in r.stats} = AskedFor(c)
  BY <1>7, <1>9, <1>10
<1>12. ASSUME NEW g \in r.stats, NEW tag \in Tag
       PROVE  {LeadsTo(r.expressions, g.indexes[i]) : i \in {k \in DOMAIN g.tags : g.tags[k] = tag}}
              = Sources(c, g.name, tag)
  <2>1. PICK m \in DOMAIN a.factories : g = Stat(m)
    BY <1>7
  <2>2. m \in DOMAIN f
    BY <1>8 DEF AsAsked
  <2>3. /\ g.name = m /\ g.tags = KeptTags(a, m)
        /\ g.indexes = [i \in DOMAIN g.tags |-> a.indexes[m][g.tags[i]]]
    BY <1>10, <2>1
  <2> DEFINE ts == g.tags
             x == g.indexes
  <2>4. {LeadsTo(a.expressions, x[i]) : i \in {k \in DOMAIN ts : ts[k] = tag}} = Meaning(a, m, tag)
    <3> HIDE DEF ts, x
    <3>1. ts = KeptTags(a, m) /\ x = [i \in DOMAIN ts |-> a.indexes[m][ts[i]]]
      BY <2>3 DEF ts, x
    <3> QED
      BY <1>6, <1>8, <2>2, <3>1, StatMeans
  <2>5. Meaning(a, m, tag) = SourcesUpto(os, Len(os), m, tag)
    BY <1>8 DEF AsAsked
  <2>6. Sources(c, m, tag) = SourcesUpto(os, Len(os), m, tag)
    BY SourcesAre DEF os
  <2> QED
    BY <1>5, <2>3, <2>4, <2>5, <2>6
<1>13. Fulfils(r, c)
  BY <1>11, <1>12 DEF Fulfils
<1> QED
  BY <1>13 DEF r

----------------------------------------------------------------------------
(* What a report records.  A sum over the stats of one name has at most one *)
(* term.                                                                    *)

SumRecursion(it, S) ==
    it = [s \in SUBSET S |-> IF s = {} THEN 0 ELSE SomeOf(s) + it[s \ {SomeOf(s)}]]

\* Nothing is due: nothing is added.
LEMMA SumOfNone == SumSet({}) = 0
<1> DEFINE it == CHOOSE i : SumRecursion(i, {})
           h == [s \in SUBSET {} |-> 0]
<1>1. SumSet({}) = it[{}]
  BY Zenon DEF SumSet, FoldSet, MapThenFoldSet, SumRecursion, SomeOf
<1>2. SumRecursion(h, {})
  BY DEF SumRecursion
<1>3. SumRecursion(it, {})
  <2> HIDE DEF h
  <2> QED
    BY <1>2
<1> HIDE DEF it
<1>4. it[{}] = 0
  BY <1>3 DEF SumRecursion
<1> QED
  BY <1>1, <1>4

\* One stat of a name is due: its value is added.
LEMMA SumOfOne == ASSUME NEW v \in Int PROVE SumSet({v}) = v
<1> DEFINE it == CHOOSE i : SumRecursion(i, {v})
           h == [s \in SUBSET {v} |-> IF s = {} THEN 0 ELSE v]
<1>1. SumSet({v}) = it[{v}]
  BY Zenon DEF SumSet, FoldSet, MapThenFoldSet, SumRecursion, SomeOf
<1>2. \A s \in SUBSET {v} : s # {} => SomeOf(s) = v /\ s \ {SomeOf(s)} = {}
  BY DEF SomeOf
<1>3. SumRecursion(h, {v})
  <2>1. \A s \in SUBSET {v} : s # {} => h[s] = SomeOf(s) + h[s \ {SomeOf(s)}]
    BY <1>2
  <2> QED
    BY <2>1 DEF SumRecursion
<1>4. SumRecursion(it, {v})
  <2> HIDE DEF h
  <2> QED
    BY <1>3
<1> HIDE DEF it
<1>5. it[{v}] = v + it[{}] /\ it[{}] = 0
  BY <1>2, <1>4 DEF SumRecursion
<1> QED
  BY <1>1, <1>5

DefinedName == UNION {{c.definitions[i].name : i \in DOMAIN c.definitions} : c \in Config}

\* A stat of the plugin's own, and one of a definition.
AsDefault(x) ==
    /\ x.name \in DOMAIN DefaultMetrics
    /\ x.extractor = DefaultMetrics[x.name].extractor
    /\ x.recurrent = DefaultMetrics[x.name].recurrent
AsDefined(x) ==
    /\ x.name \in DefinedName
    /\ x.extractor.kind = "expression"
    /\ x.recurrent = FALSE

\* The stats resolved for a protocol: one for each name at most, and all those that
\* no configuration drops or redefines.
Sound(X, p) ==
    /\ \A x \in X : \/ AsDefault(x) /\ p \in DefaultMetrics[x.name].protocols
                    \/ AsDefined(x) /\ p \in Http
    /\ \A x, y \in X : x.name = y.name => x = y
    /\ \A m \in AlwaysKept : p \in DefaultMetrics[m].protocols => \E x \in X : x.name = m

RequestInfo ==
    [sent : Nat, opened : Nat, closed : Nat, count : Nat, last : Nat,
     urlHost : UrlHost, populated : BOOLEAN,
     service : [host : ServiceHost, name : ServiceName]]

\* The default metrics and what each of them extracts.
LEMMA DefaultNames ==
    /\ DOMAIN DefaultMetrics =
          {"requests_total", "request_messages_total", "tcp_sent_bytes_total",
           "tcp_connections_opened_total", "tcp_connections_closed_total"}
    /\ DefaultMetrics["requests_total"].extractor.kind = "one"
    /\ DefaultMetrics["request_messages_total"].extractor.kind = "messages"
    /\ DefaultMetrics["tcp_sent_bytes_total"].extractor.kind = "sent"
    /\ DefaultMetrics["tcp_connections_opened_total"].extractor.kind = "opened"
    /\ DefaultMetrics["tcp_connections_closed_total"].extractor.kind = "closed"
    /\ DefaultMetrics["requests_total"].recurrent = FALSE
    /\ DefaultMetrics["tcp_connections_closed_total"].recurrent = FALSE
    /\ DefaultMetrics["requests_total"].protocols = Http
    /\ DefaultMetrics["request_messages_total"].protocols = {"GRPC"}
    /\ DefaultMetrics["tcp_sent_bytes_total"].protocols = {"TCP"}
    /\ DefaultMetrics["tcp_connections_opened_total"].protocols = {"TCP"}
    /\ DefaultMetrics["tcp_connections_closed_total"].protocols = {"TCP"}
BY DEF DefaultMetrics, Field

\* What a stat adds, by the kind of its extractor.
LEMMA ValueOfKind ==
    ASSUME NEW x, NEW i
    PROVE  /\ x.extractor.kind = "one" => Value(x, i) = 1
           /\ x.extractor.kind = "messages" => Value(x, i) = i.count - i.last
           /\ x.extractor.kind = "sent" => Value(x, i) = i.sent
           /\ x.extractor.kind = "opened" => Value(x, i) = i.opened
           /\ x.extractor.kind = "closed" => Value(x, i) = i.closed
           /\ x.extractor.kind = "expression" => Value(x, i) \in {0, 1}
BY DEF Value

\* A stat never adds a negative amount.
LEMMA ValueIsNat ==
    ASSUME NEW x, AsDefault(x) \/ AsDefined(x), NEW i \in RequestInfo, i.last <= i.count
    PROVE  Value(x, i) \in Nat
<1>1. /\ i.count - i.last \in Nat
      /\ i.sent \in Nat /\ i.opened \in Nat /\ i.closed \in Nat
  BY DEF RequestInfo
<1>2. CASE AsDefined(x)
  BY <1>2, ValueOfKind DEF AsDefined
<1>3. CASE AsDefault(x)
  <2>1. x.extractor.kind \in {"one", "messages", "sent", "opened", "closed"}
    BY <1>3, DefaultNames DEF AsDefault
  <2> QED
    BY <1>1, <2>1, ValueOfKind
<1> QED
  BY <1>2, <1>3

\* A metric of which no stat is due stays as it is.
LEMMA RecordedElse ==
    ASSUME NEW due, NEW i, NEW r \in [MetricName -> Nat],
           NEW m \in MetricName, \A x \in due : x.name # m
    PROVE  Recorded(r, due, i)[m] = r[m]
<1>1. {Value(x, i) : x \in {d \in due : d.name = m}} = {}
  OBVIOUS
<1>2. Recorded(r, due, i)[m] = r[m] + SumSet({Value(x, i) : x \in {d \in due : d.name = m}})
  BY DEF Recorded
<1>3. Recorded(r, due, i)[m] = r[m] + 0
  BY <1>1, <1>2, SumOfNone
<1> QED
  BY <1>3

\* Each stat that is due adds its value under its name, and nothing else is added.
LEMMA RecordedIs ==
    ASSUME NEW X, NEW p, Sound(X, p), NEW due \in SUBSET X,
           NEW i \in RequestInfo, i.last <= i.count, NEW r \in [MetricName -> Nat]
    PROVE  /\ Recorded(r, due, i) \in [MetricName -> Nat]
           /\ \A m \in MetricName :
                 (\A x \in due : x.name # m) => Recorded(r, due, i)[m] = r[m]
           /\ \A m \in MetricName : \A x \in due :
                 x.name = m => Recorded(r, due, i)[m] = r[m] + Value(x, i)
<1> DEFINE Added(m) == {Value(x, i) : x \in {d \in due : d.name = m}}
<1>1. \A m \in MetricName : Recorded(r, due, i)[m] = r[m] + SumSet(Added(m))
  BY DEF Recorded
<1>2. ASSUME NEW m \in MetricName, \A x \in due : x.name # m
      PROVE  SumSet(Added(m)) = 0
  <2>1. Added(m) = {}
    BY <1>2
  <2> QED
    BY <2>1, SumOfNone
<1>3. ASSUME NEW m \in MetricName, NEW x \in due, x.name = m
      PROVE  SumSet(Added(m)) = Value(x, i) /\ Value(x, i) \in Nat
  <2>1. \A y \in due : y.name = m => y = x
    BY <1>3 DEF Sound
  <2>2. Added(m) = {Value(x, i)}
    BY <1>3, <2>1
  <2>3. Value(x, i) \in Nat
    BY ValueIsNat DEF Sound
  <2> HIDE DEF Added
  <2> QED
    BY <2>2, <2>3, SumOfOne
<1> HIDE DEF Added
<1>4. \A m \in MetricName : SumSet(Added(m)) \in Nat
  BY <1>2, <1>3
<1>5. Recorded(r, due, i) \in [MetricName -> Nat]
  <2>1. \A m \in MetricName : Recorded(r, due, i)[m] \in Nat
    BY <1>1, <1>4
  <2>2. Recorded(r, due, i) = [m \in MetricName |-> Recorded(r, due, i)[m]]
    BY DEF Recorded
  <2> HIDE DEF Recorded
  <2> QED
    BY <2>1, <2>2
<1> QED
  BY <1>1, <1>2, <1>3, <1>5

\* Which of the values the request info keeps are taken out of it.
LEMMA KindsDue ==
    ASSUME NEW X, NEW p, Sound(X, p), NEW due \in SUBSET X
    PROVE  LET kinds == {x.extractor.kind : x \in due}
           IN  /\ "sent" \in kinds <=>
                     \E x \in due : AsDefault(x) /\ x.name = "tcp_sent_bytes_total"
               /\ "opened" \in kinds <=>
                     \E x \in due : AsDefault(x) /\ x.name = "tcp_connections_opened_total"
               /\ "messages" \in kinds <=>
                     \E x \in due : AsDefault(x) /\ x.name = "request_messages_total"
<1>1. \A x \in due : AsDefault(x) \/ AsDefined(x)
  BY DEF Sound
<1>2. \A x \in due : AsDefined(x) => x.extractor.kind = "expression"
  BY DEF AsDefined
<1>3. \A x \in due : AsDefault(x) =>
         /\ x.extractor.kind = "sent" <=> x.name = "tcp_sent_bytes_total"
         /\ x.extractor.kind = "opened" <=> x.name = "tcp_connections_opened_total"
         /\ x.extractor.kind = "messages" <=> x.name = "request_messages_total"
  BY DefaultNames DEF AsDefault
<1> QED
  BY <1>1, <1>2, <1>3

\* What extracting resets in the request info, field by field.
LEMMA ExtractedIs ==
    ASSUME NEW i \in RequestInfo, NEW kinds
    PROVE  /\ Extracted(i, kinds) \in RequestInfo
           /\ Extracted(i, kinds).sent = IF "sent" \in kinds THEN 0 ELSE i.sent
           /\ Extracted(i, kinds).opened = IF "opened" \in kinds THEN 0 ELSE i.opened
           /\ Extracted(i, kinds).last = IF "messages" \in kinds THEN i.count ELSE i.last
           /\ Extracted(i, kinds).count = i.count
           /\ Extracted(i, kinds).closed = i.closed
           /\ Extracted(i, kinds).populated = i.populated
           /\ Extracted(i, kinds).service = i.service
<1> DEFINE l == IF "messages" \in kinds THEN i.count ELSE i.last
           s == IF "sent" \in kinds THEN 0 ELSE i.sent
           o == IF "opened" \in kinds THEN 0 ELSE i.opened
<1>1. l \in Nat /\ s \in Nat /\ o \in Nat
  BY DEF RequestInfo
<1>2. Extracted(i, kinds) = [i EXCEPT !.last = l, !.sent = s, !.opened = o]
  BY DEF Extracted
<1> HIDE DEF l, s, o
<1>3. Extracted(i, kinds) \in RequestInfo
  BY <1>1, <1>2, Zenon DEF RequestInfo
<1>4. /\ Extracted(i, kinds).sent = s
      /\ Extracted(i, kinds).opened = o
      /\ Extracted(i, kinds).last = l
      /\ Extracted(i, kinds).count = i.count
      /\ Extracted(i, kinds).closed = i.closed
      /\ Extracted(i, kinds).populated = i.populated
      /\ Extracted(i, kinds).service = i.service
  BY <1>2 DEF RequestInfo
<1> QED
  BY <1>3, <1>4 DEF l, s, o

\* The hypothesis that no configuration defines a metric with the name of the
\* message counter: its values would be recorded in its place.  (A definition
\* never applies to TCP streams, and for requests_total only the last report
\* counts, whatever defines it.)
MessagesKept == "request_messages_total" \notin DefinedName

\* The metrics no configuration drops or redefines are default metrics.
LEMMA KeptNames ==
    /\ DOMAIN DefaultMetrics \subseteq MetricName
    /\ DefinedName \subseteq MetricName
    /\ AlwaysKept \subseteq DOMAIN DefaultMetrics
    /\ \A m \in AlwaysKept : m \notin DefinedName
BY DEF MetricName, DefinedName, AlwaysKept

\* TCP streams have metrics of their own.
LEMMA ExclusiveProtocols == "TCP" \notin Http /\ "GRPC" \in Http
BY DEF Http

\* What a report takes out of the request info i (leaving j) it records (in q).
Settled(p, e, i, r, j, q) ==
    /\ q \in [MetricName -> Nat]
    /\ p = "TCP" =>
          /\ q.tcp_sent_bytes_total + j.sent = r.tcp_sent_bytes_total + i.sent
          /\ q.tcp_connections_opened_total + j.opened =
                r.tcp_connections_opened_total + i.opened
          /\ q.tcp_connections_closed_total <=
                r.tcp_connections_closed_total + (IF e THEN 1 ELSE 0)
    /\ p # "TCP" =>
          /\ MessagesKept /\ r.request_messages_total = i.last =>
                q.request_messages_total = j.last
          /\ q.requests_total <= r.requests_total + (IF e THEN 1 ELSE 0)
    /\ \A m \in AlwaysKept : p \notin DefaultMetrics[m].protocols => q[m] = r[m]

\* The last report leaves nothing that a metric in force would have recorded.
Emptied(p, i, r, j, q) ==
    \A m \in AlwaysKept : p \in DefaultMetrics[m].protocols =>
        /\ m = "tcp_sent_bytes_total" => j.sent = 0
        /\ m = "tcp_connections_opened_total" => j.opened = 0
        /\ m = "tcp_connections_closed_total" => q[m] = r[m] + i.closed
        /\ m = "request_messages_total" => j.last = i.count
        /\ m = "requests_total" => q[m] = r[m] + 1

\* One report settles the accounts of a stream: what its stats take out of the
\* request info is what they record, and the last report takes all of it.
LEMMA Settles ==
    ASSUME NEW X, NEW p \in {"TCP"} \cup Http, Sound(X, p), NEW e \in BOOLEAN,
           NEW due, due = {x \in X : e \/ x.recurrent},
           NEW i \in RequestInfo, i.last <= i.count, i.closed <= 1,
           NEW r \in [MetricName -> Nat]
    PROVE  LET j == Extracted(i, {x.extractor.kind : x \in due})
               q == Recorded(r, due, i)
           IN  Settled(p, e, i, r, j, q) /\ (e => Emptied(p, i, r, j, q))
<1> DEFINE kinds == {x.extractor.kind : x \in due}
           j == Extracted(i, kinds)
           q == Recorded(r, due, i)
           more == IF e THEN 1 ELSE 0
<1>1. due \in SUBSET X
  OBVIOUS
<1>2. /\ q \in [MetricName -> Nat]
      /\ \A m \in MetricName : (\A x \in due : x.name # m) => q[m] = r[m]
      /\ \A m \in MetricName : \A x \in due : x.name = m => q[m] = r[m] + Value(x, i)
  <2>1. q \in [MetricName -> Nat]
    BY <1>1, RecordedIs
  <2>2. ASSUME NEW m \in MetricName, \A x \in due : x.name # m PROVE q[m] = r[m]
    BY <2>2, RecordedElse
  <2>3. \A m \in MetricName : \A x \in due : x.name = m => q[m] = r[m] + Value(x, i)
    BY <1>1, RecordedIs
  <2> QED
    BY <2>1, <2>2, <2>3
<1>3. /\ "sent" \in kinds <=> \E x \in due : AsDefault(x) /\ x.name = "tcp_sent_bytes_total"
      /\ "opened" \in kinds <=>
            \E x \in due : AsDefault(x) /\ x.name = "tcp_connections_opened_total"
      /\ "messages" \in kinds <=>
            \E x \in due : AsDefault(x) /\ x.name = "request_messages_total"
  BY <1>1, KindsDue
<1>4. /\ j.sent = IF "sent" \in kinds THEN 0 ELSE i.sent
      /\ j.opened = IF "opened" \in kinds THEN 0 ELSE i.opened
      /\ j.last = IF "messages" \in kinds THEN i.count ELSE i.last
  BY ExtractedIs
<1>5. \A x \in due : \/ AsDefault(x) /\ p \in DefaultMetrics[x.name].protocols
                     \/ AsDefined(x) /\ p \in Http
  BY <1>1 DEF Sound
<1>6. /\ i.sent \in Nat /\ i.opened \in Nat /\ i.closed \in Nat
      /\ i.count \in Nat /\ i.last \in Nat
  BY DEF RequestInfo
<1>7. /\ "requests_total" \in MetricName
      /\ "request_messages_total" \in MetricName
      /\ "tcp_sent_bytes_total" \in MetricName
      /\ "tcp_connections_opened_total" \in MetricName
      /\ "tcp_connections_closed_total" \in MetricName
  BY KeptNames, DefaultNames
<1>8. \A m \in MetricName : r[m] \in Nat /\ q[m] \in Nat
  BY <1>2
<1>9. ASSUME NEW m \in AlwaysKept, e, p \in DefaultMetrics[m].protocols
      PROVE  \E x \in due : x.name = m /\ AsDefault(x)
  <2>1. PICK x \in X : x.name = m
    BY <1>9 DEF Sound
  <2>2. x \in due
    BY <1>9
  <2>3. AsDefault(x)
    BY <1>5, <2>1, <2>2, KeptNames DEF AsDefined
  <2> QED
    BY <2>1, <2>2, <2>3
<1> HIDE DEF kinds, j, q
<1>10. ASSUME p = "TCP" PROVE \A x \in due : AsDefault(x)
  BY <1>5, <1>10, ExclusiveProtocols
<1>11. ASSUME p = "TCP"
       PROVE  /\ q.tcp_sent_bytes_total + j.sent = r.tcp_sent_bytes_total + i.sent
              /\ q.tcp_connections_opened_total + j.opened =
                    r.tcp_connections_opened_total + i.opened
  <2>1. q.tcp_sent_bytes_total + j.sent = r.tcp_sent_bytes_total + i.sent
    <3>1. CASE \E x \in due : x.name = "tcp_sent_bytes_total"
      <4>1. PICK x \in due : x.name = "tcp_sent_bytes_total"
        BY <3>1
      <4>2. AsDefault(x) /\ Value(x, i) = i.sent
        BY <1>10, <1>11, <4>1, DefaultNames, ValueOfKind DEF AsDefault
      <4>3. q.tcp_sent_bytes_total = r.tcp_sent_bytes_total + i.sent /\ j.sent = 0
        BY <1>2, <1>3, <1>4, <1>7, <4>1, <4>2
      <4> QED
        BY <1>6, <1>7, <1>8, <4>3
    <3>2. CASE ~ \E x \in due : x.name = "tcp_sent_bytes_total"
      BY <1>2, <1>3, <1>4, <1>7, <3>2
    <3> QED
      BY <3>1, <3>2
  <2>2. q.tcp_connections_opened_total + j.opened = r.tcp_connections_opened_total + i.opened
    <3>1. CASE \E x \in due : x.name = "tcp_connections_opened_total"
      <4>1. PICK x \in due : x.name = "tcp_connections_opened_total"
        BY <3>1
      <4>2. AsDefault(x) /\ Value(x, i) = i.opened
        BY <1>10, <1>11, <4>1, DefaultNames, ValueOfKind DEF AsDefault
      <4>3. /\ q.tcp_connections_opened_total = r.tcp_connections_opened_total + i.opened
            /\ j.opened = 0
        BY <1>2, <1>3, <1>4, <1>7, <4>1, <4>2
      <4> QED
        BY <1>6, <1>7, <1>8, <4>3
    <3>2. CASE ~ \E x \in due : x.name = "tcp_connections_opened_total"
      BY <1>2, <1>3, <1>4, <1>7, <3>2
    <3> QED
      BY <3>1, <3>2
  <2> QED
    BY <2>1, <2>2
<1>12. ASSUME p = "TCP"
       PROVE  q.tcp_connections_closed_total <= r.tcp_connections_closed_total + more
  <2>1. CASE \E x \in due : x.name = "tcp_connections_closed_total"
    <3>1. PICK x \in due : x.name = "tcp_connections_closed_total"
      BY <2>1
    <3>2. AsDefault(x) /\ Value(x, i) = i.closed /\ ~ x.recurrent
      BY <1>10, <1>12, <3>1, DefaultNames, ValueOfKind DEF AsDefault
    <3>3. e
      BY <3>1, <3>2
    <3>4. q.tcp_connections_closed_total = r.tcp_connections_closed_total + i.closed
      BY <1>2, <1>7, <3>1, <3>2
    <3> QED
      BY <1>6, <1>7, <1>8, <3>3, <3>4
  <2>2. CASE ~ \E x \in due : x.name = "tcp_connections_closed_total"
    <3>1. q.tcp_connections_closed_total = r.tcp_connections_closed_total
      BY <1>2, <1>7, <2>2
    <3> QED
      BY <1>7, <1>8, <3>1
  <2> QED
    BY <2>1, <2>2
<1>13. ASSUME MessagesKept, r.request_messages_total = i.last
       PROVE  q.request_messages_total = j.last
  <2>1. CASE \E x \in due : x.name = "request_messages_total"
    <3>1. PICK x \in due : x.name = "request_messages_total"
      BY <2>1
    <3>2. AsDefault(x)
      BY <1>5, <1>13, <3>1 DEF MessagesKept, AsDefined
    <3>3. Value(x, i) = i.count - i.last
      BY <3>1, <3>2, DefaultNames, ValueOfKind DEF AsDefault
    <3>4. q.request_messages_total = r.request_messages_total + (i.count - i.last)
      BY <1>2, <1>7, <3>1, <3>3
    <3>5. j.last = i.count
      BY <1>3, <1>4, <3>1, <3>2
    <3> QED
      BY <1>6, <1>13, <3>4, <3>5
  <2>2. CASE ~ \E x \in due : x.name = "request_messages_total"
    BY <1>2, <1>3, <1>4, <1>7, <1>13, <2>2
  <2> QED
    BY <2>1, <2>2
<1>14. q.requests_total <= r.requests_total + more
  <2>1. CASE \E x \in due : x.name = "requests_total"
    <3>1. PICK x \in due : x.name = "requests_total"
      BY <2>1
    <3>2. Value(x, i) \in {0, 1} /\ x.recurrent = FALSE
      BY <1>5, <3>1, DefaultNames, ValueOfKind DEF AsDefault, AsDefined
    <3>3. e
      BY <3>1, <3>2
    <3>4. q.requests_total = r.requests_total + Value(x, i)
      BY <1>2, <1>7, <3>1
    <3> QED
      BY <1>7, <1>8, <3>2, <3>3, <3>4
  <2>2. CASE ~ \E x \in due : x.name = "requests_total"
    <3>1. q.requests_total = r.requests_total
      BY <1>2, <1>7, <2>2
    <3> QED
      BY <1>7, <1>8, <3>1
  <2> QED
    BY <2>1, <2>2
<1>15. ASSUME NEW m \in AlwaysKept, p \notin DefaultMetrics[m].protocols
       PROVE  q[m] = r[m]
  <2>1. m \in MetricName
    BY KeptNames
  <2>2. \A x \in due : x.name # m
    BY <1>5, <1>15, KeptNames DEF AsDefined
  <2> QED
    BY <1>2, <2>1, <2>2
<1>16. ASSUME NEW m \in AlwaysKept, e, p \in DefaultMetrics[m].protocols
       PROVE  /\ m = "tcp_sent_bytes_total" => j.sent = 0
              /\ m = "tcp_connections_opened_total" => j.opened = 0
              /\ m = "tcp_connections_closed_total" => q[m] = r[m] + i.closed
              /\ m = "request_messages_total" => j.last = i.count
              /\ m = "requests_total" => q[m] = r[m] + 1
  <2>1. PICK x \in due : x.name = m /\ AsDefault(x)
    BY <1>9, <1>16
  <2>2. q[m] = r[m] + Value(x, i)
    BY <1>2, <2>1, KeptNames
  <2>3. /\ m = "tcp_connections_closed_total" => Value(x, i) = i.closed
        /\ m = "requests_total" => Value(x, i) = 1
    BY <2>1, DefaultNames, ValueOfKind DEF AsDefault
  <2> QED
    BY <1>3, <1>4, <2>1, <2>2, <2>3
<1>17. Settled(p, e, i, r, j, q)
  BY <1>2, <1>11, <1>12, <1>13, <1>14, <1>15 DEF Settled
<1>18. e => Emptied(p, i, r, j, q)
  BY <1>16 DEF Emptied
<1> QED
  BY <1>17, <1>18 DEF kinds, j, q

----------------------------------------------------------------------------
(* A report *)

ServiceType == [host : ServiceHost, name : ServiceName]

\* The name of a service found when the way of stream s was known.
RoutedName(s, service) ==
    LET u == Upstream[s]
    IN  service.name =
          IF u.route \in DOMAIN RouteCluster THEN RouteCluster[u.route]
          ELSE IF u.cluster \in NamedCluster THEN u.cluster
          ELSE IF u.services THEN "service"
          ELSE service.host

\* The destination service is typed, and that of the route or cluster once the
\* upstream is connected.
LEMMA ServiceFound ==
    ASSUME NEW i \in RequestInfo, NEW s \in Stream
    PROVE  /\ Service(i, s) \in ServiceType
           /\ connected[s] => RoutedName(s, Service(i, s))
<1> DEFINE u == Known(s)
           h == IF useHost /\ Proto[s] # "TCP" THEN i.urlHost
                ELSE IF Outbound THEN "unknown" ELSE GetServiceNameFallback(Labelled)
<1>1. h \in ServiceHost
  BY DEF RequestInfo, ServiceHost, GetServiceNameFallback
<1>2. Service(i, s) =
        CASE u.route \in DOMAIN RouteCluster -> [host |-> h, name |-> RouteCluster[u.route]]
          [] u.route \notin DOMAIN RouteCluster /\ u.cluster \in NamedCluster ->
               [host |-> h, name |-> u.cluster]
          [] OTHER -> IF u.services THEN [host |-> "service_host", name |-> "service"]
                      ELSE [host |-> h, name |-> h]
  BY Zenon DEF Service, PopulateDestinationService
<1>3. \A x \in DOMAIN RouteCluster : RouteCluster[x] \in NamedCluster
  BY DEF RouteCluster, NamedCluster
<1>4. connected[s] => u = Upstream[s]
  BY DEF Known
<1> HIDE DEF h, u
<1>5. CASE u.route \in DOMAIN RouteCluster
  <2>1. Service(i, s) = [host |-> h, name |-> RouteCluster[u.route]]
    BY <1>2, <1>5
  <2> QED
    BY <1>1, <1>3, <1>4, <1>5, <2>1 DEF ServiceType, ServiceName, RoutedName
<1>6. CASE u.route \notin DOMAIN RouteCluster /\ u.cluster \in NamedCluster
  <2>1. Service(i, s) = [host |-> h, name |-> u.cluster]
    BY <1>2, <1>6
  <2> QED
    BY <1>1, <1>4, <1>6, <2>1 DEF ServiceType, ServiceName, RoutedName
<1>7. CASE u.route \notin DOMAIN RouteCluster /\ u.cluster \notin NamedCluster
  <2>1. CASE u.services
    <3>1. Service(i, s) = [host |-> "service_host", name |-> "service"]
      BY <1>2, <1>7, <2>1
    <3>2. Service(i, s).host = "service_host" /\ Service(i, s).name = "service"
      BY <3>1
    <3>3. Service(i, s) \in ServiceType
      BY <3>1 DEF ServiceType, ServiceName, ServiceHost
    <3> QED
      BY <1>4, <1>7, <2>1, <3>2, <3>3 DEF RoutedName
  <2>2. CASE ~ u.services
    <3>1. Service(i, s) = [host |-> h, name |-> h]
      BY <1>2, <1>7, <2>2
    <3>2. Service(i, s).host = h /\ Service(i, s).name = h
      BY <3>1
    <3>3. Service(i, s) \in ServiceType
      BY <1>1, <3>1 DEF ServiceType, ServiceName
    <3> QED
      BY <1>4, <1>7, <2>2, <3>2, <3>3 DEF RoutedName
  <2> QED
    BY <2>1, <2>2
<1> QED
  BY <1>5, <1>6, <1>7

\* The request info i of stream s, populated.
PopulatedFrom(j, i, s) ==
    /\ j \in RequestInfo
    /\ j.sent = i.sent /\ j.opened = i.opened /\ j.closed = i.closed /\ j.last = i.last
    /\ j.count = IF Proto[s] = "GRPC" THEN carried[s] ELSE i.count
    /\ j.populated = TRUE
    /\ j.service = IF i.populated THEN i.service ELSE Service(i, s)

\* What populateRequestInfo and populateGRPCInfo fill in, and what they keep.
LEMMA PopulatedIs ==
    ASSUME NEW i \in RequestInfo, NEW s \in Stream, carried \in [Stream -> Nat]
    PROVE  PopulatedFrom(PopulateGRPCInfo(PopulateRequestInfo(i, s), s), i, s)
<1> DEFINE k == PopulateRequestInfo(i, s)
           j == PopulateGRPCInfo(k, s)
           n == IF Proto[s] = "GRPC" THEN carried[s] ELSE k.count
<1>1. /\ k \in RequestInfo
      /\ k.sent = i.sent /\ k.opened = i.opened /\ k.closed = i.closed
      /\ k.last = i.last /\ k.count = i.count /\ k.populated = TRUE
      /\ k.service = IF i.populated THEN i.service ELSE Service(i, s)
  <2>1. CASE i.populated
    <3>1. i.populated \in BOOLEAN
      BY DEF RequestInfo
    <3>2. k = i
      BY <2>1 DEF PopulateRequestInfo
    <3>3. i.populated = TRUE
      BY <2>1, <3>1, Zenon
    <3> QED
      BY <2>1, <3>2, <3>3
  <2>2. CASE ~ i.populated
    <3> DEFINE v == Service(i, s)
    <3>1. v \in ServiceType
      BY ServiceFound
    <3>2. k = [i EXCEPT !.populated = TRUE, !.service = v]
      BY <2>2 DEF PopulateRequestInfo
    <3> HIDE DEF v
    <3>3. k \in RequestInfo
      BY <3>1, <3>2, Zenon DEF RequestInfo, ServiceType
    <3>4. /\ k.sent = i.sent /\ k.opened = i.opened /\ k.closed = i.closed
          /\ k.last = i.last /\ k.count = i.count /\ k.populated = TRUE
          /\ k.service = v
      BY <3>2 DEF RequestInfo
    <3> QED
      BY <2>2, <3>3, <3>4 DEF v
  <2> QED
    BY <2>1, <2>2
<1> HIDE DEF k
<1>2. n \in Nat
  BY <1>1 DEF RequestInfo
<1>3. j = [k EXCEPT !.count = n]
  BY DEF PopulateGRPCInfo
<1> HIDE DEF n, j
<1>4. j \in RequestInfo
  BY <1>1, <1>2, <1>3, Zenon DEF RequestInfo
<1>5. /\ j.sent = k.sent /\ j.opened = k.opened /\ j.closed = k.closed
      /\ j.last = k.last /\ j.count = n /\ j.populated = k.populated /\ j.service = k.service
  BY <1>1, <1>3 DEF RequestInfo
<1> QED
  BY <1>1, <1>4, <1>5 DEF n, j, k, PopulatedFrom

\* The dimensions name the protocol: stats resolved for one protocol are not found
\* by a stream of another.
LEMMA DimensionsProtocol ==
    ASSUME NEW i, NEW s, NEW e, conf.expressions \in Seq(StringExpression)
    PROVE  Dimensions(i, s, e)[3] = Proto[s]
<1> DEFINE a == PeerNode(Outbound, peer[s], Known(s))
           b == [f \in {"host", "name"} |-> IF i.service[f] = "" THEN "unknown" ELSE i.service[f]]
           c == Proto[s]
           d == IF e /\ Proto[s] # "TCP" THEN "200" ELSE "0"
           v == [n \in DOMAIN conf.expressions |->
                   IF conf.expressions[n].token \in live THEN "value" ELSE "unknown"]
           S == {a, b, c, d, "value", "unknown"}
<1>1. Dimensions(i, s, e) = <<a, b, c, d>> \o v
  BY DEF Dimensions
<1>2. v \in Seq(S)
  <2>1. DOMAIN conf.expressions = 1 .. Len(conf.expressions) /\ Len(conf.expressions) \in Nat
    BY LenProperties
  <2>2. v \in [1 .. Len(conf.expressions) -> S]
    BY <2>1
  <2> HIDE DEF v, S
  <2> QED
    BY <2>1, <2>2, IsASeq
<1> HIDE DEF a, b, c, d, v
<1>3. <<a, b, c, d>> \in Seq(S) /\ Len(<<a, b, c, d>>) = 4 /\ <<a, b, c, d>>[3] = c
  OBVIOUS
<1> HIDE DEF S
<1>4. (<<a, b, c, d>> \o v)[3] = <<a, b, c, d>>[3]
  BY <1>2, <1>3, ConcatProperties
<1> QED
  BY <1>1, <1>3, <1>4 DEF c

\* The stats of a configuration in force.
GensSound(G) ==
    /\ \A g \in G : \/ AsDefault(g) /\ g.protocols = DefaultMetrics[g.name].protocols
                    \/ AsDefined(g) /\ g.protocols = Http
    /\ \A g, h \in G : g.name = h.name => g = h
    /\ \A m \in AlwaysKept : \E g \in G : g.name = m

\* The stats resolved for a protocol are sound: one for each name and no default
\* metric of it missing.
LEMMA ResolveSound ==
    ASSUME GensSound(conf.stats), NEW d, NEW p
    PROVE  Sound(Resolve(d, p), p)
<1> DEFINE R(g) == [name |-> g.name, recurrent |-> g.recurrent, extractor |-> g.extractor,
                    labels |-> [n \in DOMAIN g.tags |-> <<g.tags[n], d[g.indexes[n]]>>]]
           G == {x \in conf.stats : p \in x.protocols}
<1>1. Resolve(d, p) = {R(g) : g \in G}
  BY DEF Resolve
<1>2. \A g \in G : R(g).name = g.name /\ R(g).recurrent = g.recurrent
                   /\ R(g).extractor = g.extractor
  OBVIOUS
<1>3. \A g \in G : g \in conf.stats /\ p \in g.protocols
  OBVIOUS
<1>4. \A g \in conf.stats : p \in g.protocols => g \in G
  OBVIOUS
<1> HIDE DEF R, G
<1>5. ASSUME NEW g \in G
      PROVE  \/ AsDefault(R(g)) /\ p \in DefaultMetrics[R(g).name].protocols
             \/ AsDefined(R(g)) /\ p \in Http
  <2>1. CASE AsDefault(g) /\ g.protocols = DefaultMetrics[g.name].protocols
    BY <1>2, <1>3, <2>1 DEF AsDefault
  <2>2. CASE AsDefined(g) /\ g.protocols = Http
    BY <1>2, <1>3, <2>2 DEF AsDefined
  <2> QED
    BY <1>3, <2>1, <2>2 DEF GensSound
<1>6. ASSUME NEW g \in G, NEW h \in G, R(g).name = R(h).name PROVE R(g) = R(h)
  BY <1>2, <1>3, <1>6 DEF GensSound
<1>7. ASSUME NEW m \in AlwaysKept, p \in DefaultMetrics[m].protocols
      PROVE  \E g \in G : R(g).name = m
  <2>1. PICK g \in conf.stats : g.name = m
    BY DEF GensSound
  <2>2. g.protocols = DefaultMetrics[m].protocols
    BY <2>1, KeptNames DEF GensSound, AsDefined
  <2> QED
    BY <1>2, <1>4, <1>7, <2>1, <2>2
<1> QED
  BY <1>1, <1>5, <1>6, <1>7 DEF Sound

\* What reports need of the configuration in force and of the streams' data.
Ready ==
    /\ conf.expressions \in Seq(StringExpression)
    /\ initialized => GensSound(conf.stats)
    /\ carried \in [Stream -> Nat]

\* The cache of resolved stats.
MetricsSound(M) ==
    /\ M = [d \in DOMAIN M |-> M[d]]
    /\ \A d \in DOMAIN M : Sound(M[d], d[3])

\* A report of stream s turns the request info i into j, and what was recorded from r
\* into q.
Accounts(s, e, i, r, j, q) ==
    /\ j.last <= j.count /\ j.count <= carried[s]
    /\ j.sent <= i.sent /\ j.opened <= i.opened /\ j.closed = i.closed
    /\ Settled(Proto[s], e, i, r, j, q)
    /\ \/ j.populated = i.populated /\ j.service = i.service
       \/ ~ i.populated /\ ~ Waits(s, e) /\ j.service = Service(i, s)

\* ... for the last time, with the message counts and the service read.
Completes(s, i, r, j, q) ==
    \E k \in RequestInfo : PopulatedFrom(k, i, s) /\ Emptied(Proto[s], k, r, j, q)
                           /\ j.service = k.service

\* A report changes the request info and the records of its stream only, settles
\* their accounts, and caches stats that are sound.
LEMMA ReportStep ==
    ASSUME Ready, NEW st, NEW s \in Stream, NEW e \in BOOLEAN,
           st.info \in [Stream -> RequestInfo],
           st.recorded \in [Stream -> [MetricName -> Nat]],
           MetricsSound(st.metrics),
           st.info[s].last <= st.info[s].count, st.info[s].count <= carried[s],
           st.info[s].closed <= 1
    PROVE  \E j \in RequestInfo, q \in [MetricName -> Nat] :
              /\ Report(st, s, e).info = [st.info EXCEPT ![s] = j]
              /\ Report(st, s, e).recorded = [st.recorded EXCEPT ![s] = q]
              /\ MetricsSound(Report(st, s, e).metrics)
              /\ Accounts(s, e, st.info[s], st.recorded[s], j, q)
              /\ initialized /\ e => Completes(s, st.info[s], st.recorded[s], j, q)
<1> DEFINE i == st.info[s]
           r == st.recorded[s]
<1>1. i \in RequestInfo /\ r \in [MetricName -> Nat] /\ carried[s] \in Nat
  BY DEF Ready
<1>2. /\ i.last \in Nat /\ i.count \in Nat /\ i.sent \in Nat
      /\ i.opened \in Nat /\ i.closed \in Nat
  BY <1>1 DEF RequestInfo
<1>3. /\ "requests_total" \in MetricName
      /\ "tcp_connections_closed_total" \in MetricName
  BY KeptNames, DefaultNames
<1>4. r.requests_total \in Nat /\ r.tcp_connections_closed_total \in Nat
  BY <1>1, <1>3
<1>5. CASE ~ initialized \/ Waits(s, e)
  <2>1. Report(st, s, e) = st
    BY <1>5 DEF Report
  <2>2. st.info = [st.info EXCEPT ![s] = i] /\ st.recorded = [st.recorded EXCEPT ![s] = r]
    OBVIOUS
  <2>3. ~ (initialized /\ e)
    BY <1>5 DEF Waits
  <2>4. Accounts(s, e, i, r, i, r)
    <3> HIDE DEF i, r
    <3>1. i.last <= i.count /\ i.count <= carried[s]
      BY DEF i
    <3>2. /\ r.tcp_connections_closed_total <=
                r.tcp_connections_closed_total + (IF e THEN 1 ELSE 0)
          /\ r.requests_total <= r.requests_total + (IF e THEN 1 ELSE 0)
          /\ i.sent <= i.sent /\ i.opened <= i.opened
      BY <1>2, <1>4
    <3>3. Settled(Proto[s], e, i, r, i, r)
      BY <1>1, <3>2 DEF Settled
    <3> QED
      BY <3>1, <3>2, <3>3 DEF Accounts
  <2> HIDE DEF i, r, Report
  <2>5. /\ Report(st, s, e).info = [st.info EXCEPT ![s] = i]
        /\ Report(st, s, e).recorded = [st.recorded EXCEPT ![s] = r]
        /\ MetricsSound(Report(st, s, e).metrics)
    BY <2>1, <2>2
  <2> QED
    BY <1>1, <2>3, <2>4, <2>5 DEF i, r
<1>6. CASE initialized /\ ~ Waits(s, e)
  <2> DEFINE k == PopulateGRPCInfo(PopulateRequestInfo(i, s), s)
             d == Dimensions(k, s, e)
             X == IF d \in DOMAIN st.metrics THEN st.metrics[d] ELSE Resolve(d, Proto[s])
             due == {x \in X : e \/ x.recurrent}
             kinds == {x.extractor.kind : x \in due}
             j == Extracted(k, kinds)
             q == Recorded(r, due, k)
             M == [c \in DOMAIN st.metrics \cup {d} |-> IF c = d THEN X ELSE st.metrics[c]]
  <2>1. /\ Report(st, s, e).info = [st.info EXCEPT ![s] = j]
        /\ Report(st, s, e).recorded = [st.recorded EXCEPT ![s] = q]
        /\ Report(st, s, e).metrics = M
    <3>1. Report(st, s, e) =
             [info |-> [st.info EXCEPT ![s] = j],
              metrics |-> M,
              recorded |-> [st.recorded EXCEPT ![s] = Recorded(@, due, k)]]
      BY <1>6, Zenon DEF Report
    <3>2. [st.recorded EXCEPT ![s] = Recorded(@, due, k)] = [st.recorded EXCEPT ![s] = q]
      OBVIOUS
    <3> HIDE DEF j, M, q, due, k
    <3> QED
      BY <3>1, <3>2
  <2>2. /\ k \in RequestInfo
        /\ k.sent = i.sent /\ k.opened = i.opened /\ k.closed = i.closed /\ k.last = i.last
        /\ k.count = (IF Proto[s] = "GRPC" THEN carried[s] ELSE i.count)
        /\ k.populated = TRUE
        /\ k.service = IF i.populated THEN i.service ELSE Service(i, s)
    <3> HIDE DEF i
    <3>1. carried \in [Stream -> Nat]
      BY DEF Ready
    <3>2. PopulatedFrom(k, i, s)
      BY <1>1, <3>1, PopulatedIs
    <3> HIDE DEF k
    <3> QED
      BY <3>2 DEF PopulatedFrom
  <2> HIDE DEF k
  <2>3. d[3] = Proto[s]
    BY DimensionsProtocol DEF Ready
  <2> HIDE DEF d
  <2>4. Sound(X, Proto[s])
    <3>1. CASE d \in DOMAIN st.metrics
      BY <2>3, <3>1 DEF MetricsSound
    <3>2. CASE d \notin DOMAIN st.metrics
      BY <1>6, <3>2, ResolveSound DEF Ready
    <3> QED
      BY <3>1, <3>2
  <2> HIDE DEF X
  <2>5. MetricsSound(M)
    BY <2>3, <2>4 DEF MetricsSound
  <2> HIDE DEF M
  <2>6. k.last <= k.count /\ k.count <= carried[s] /\ k.count \in Nat /\ k.closed <= 1
    BY <1>1, <1>2, <2>2
  <2>7. Proto[s] \in {"TCP"} \cup Http
    BY StatsAssumption
  <2>8. due = {x \in X : e \/ x.recurrent} /\ kinds = {x.extractor.kind : x \in due}
    OBVIOUS
  <2>9. Settled(Proto[s], e, k, r, j, q) /\ (e => Emptied(Proto[s], k, r, j, q))
    <3> HIDE DEF due, i, r
    <3> QED
      BY <1>1, <2>2, <2>4, <2>6, <2>7, <2>8, Settles
  <2>10. /\ j \in RequestInfo
         /\ j.sent = IF "sent" \in kinds THEN 0 ELSE k.sent
         /\ j.opened = IF "opened" \in kinds THEN 0 ELSE k.opened
         /\ j.last = IF "messages" \in kinds THEN k.count ELSE k.last
         /\ j.count = k.count /\ j.closed = k.closed
         /\ j.populated = k.populated /\ j.service = k.service
    BY <2>2, ExtractedIs
  <2> HIDE DEF due, kinds, j, q, i, r
  <2>11. /\ j.last <= j.count /\ j.count <= carried[s]
         /\ j.sent <= i.sent /\ j.opened <= i.opened /\ j.closed = i.closed
    BY <1>1, <1>2, <2>2, <2>6, <2>10
  <2>12. \/ j.populated = i.populated /\ j.service = i.service
         \/ ~ i.populated /\ ~ Waits(s, e) /\ j.service = Service(i, s)
    <3>1. CASE i.populated
      <4>1. i.populated \in BOOLEAN
        BY <1>1 DEF RequestInfo
      <4>2. i.populated = TRUE
        BY <3>1, <4>1, Zenon
      <4> QED
        BY <2>2, <2>10, <3>1, <4>2
    <3>2. CASE ~ i.populated
      BY <1>6, <2>2, <2>10, <3>2
    <3> QED
      BY <3>1, <3>2
  <2>13. Accounts(s, e, i, r, j, q)
    <3>1. Settled(Proto[s], e, i, r, j, q)
      BY <2>2, <2>9 DEF Settled
    <3> QED
      BY <2>11, <2>12, <3>1 DEF Accounts
  <2>14. ASSUME e PROVE Completes(s, i, r, j, q)
    <3>1. PopulatedFrom(k, i, s)
      BY <2>2 DEF PopulatedFrom
    <3> QED
      BY <2>2, <2>9, <2>10, <2>14, <3>1 DEF Completes
  <2>15. MetricsSound(Report(st, s, e).metrics)
    BY <2>1, <2>5
  <2> HIDE DEF Report
  <2> QED
    <3>1. q \in [MetricName -> Nat]
      BY <2>9 DEF Settled
    <3> QED
      BY <1>6, <2>1, <2>10, <2>13, <2>14, <2>15, <3>1 DEF i, r
<1> QED
  BY <1>5, <1>6

----------------------------------------------------------------------------
(* A stream's accounts: what its request info i and its records r may be. *)

Ended(s) == IF stream[s] = "logged" THEN 1 ELSE 0

Fits(s, i, r) ==
    /\ i.sent <= carried[s] /\ i.last <= i.count /\ i.count <= carried[s]
    /\ i.opened <= 1 /\ (stream[s] = "new" => i.opened = 0)
    /\ i.closed <= Ended(s)
    /\ Proto[s] = "TCP" =>
          /\ r.tcp_sent_bytes_total + i.sent = carried[s]
          /\ r.tcp_connections_opened_total + i.opened = IF stream[s] = "new" THEN 0 ELSE 1
          /\ r.tcp_connections_closed_total <= Ended(s)
    /\ Proto[s] # "TCP" =>
          /\ MessagesKept => r.request_messages_total = i.last
          /\ r.requests_total <= Ended(s)
    /\ \A m \in AlwaysKept : Proto[s] \notin DefaultMetrics[m].protocols => r[m] = 0

\* The request info is populated when the way of the stream is known, or when it can
\* no longer become known.
Routed(s, i) ==
    Outbound /\ i.populated =>
        /\ \/ connected[s]
           \/ stream[s] = "logged"
           \/ Proto[s] # "TCP" /\ stream[s] = "open"
        /\ connected[s] => RoutedName(s, i.service)

PeerAfterConnection == Outbound => \A s \in Stream : peer[s] # "waiting" => connected[s]

\* The default metrics are metrics.
LEMMA NamesIn ==
    /\ "requests_total" \in MetricName
    /\ "request_messages_total" \in MetricName
    /\ "tcp_sent_bytes_total" \in MetricName
    /\ "tcp_connections_opened_total" \in MetricName
    /\ "tcp_connections_closed_total" \in MetricName
BY KeptNames, DefaultNames

\* The reports of a tick keep them.
LEMMA TickFits ==
    ASSUME NEW s \in Stream, NEW i \in RequestInfo, NEW j \in RequestInfo,
           NEW r \in [MetricName -> Nat], NEW q \in [MetricName -> Nat],
           carried \in [Stream -> Nat], stream[s] = "open",
           Fits(s, i, r), Accounts(s, FALSE, i, r, j, q)
    PROVE  Fits(s, j, q)
<1>1. /\ i.sent \in Nat /\ i.opened \in Nat /\ i.closed \in Nat /\ i.count \in Nat
      /\ j.sent \in Nat /\ j.opened \in Nat /\ j.closed \in Nat /\ j.count \in Nat
      /\ carried[s] \in Nat /\ \A m \in MetricName : r[m] \in Nat /\ q[m] \in Nat
  BY DEF RequestInfo
<1>2. Ended(s) = 0
  BY DEF Ended
<1>3. /\ j.sent <= carried[s] /\ j.last <= j.count /\ j.count <= carried[s]
      /\ j.opened <= 1 /\ j.closed <= Ended(s)
  BY <1>1, <1>2 DEF Fits, Accounts
<1>4. ASSUME Proto[s] = "TCP"
      PROVE  /\ q.tcp_sent_bytes_total + j.sent = carried[s]
             /\ q.tcp_connections_opened_total + j.opened = 1
             /\ q.tcp_connections_closed_total <= Ended(s)
  BY <1>1, <1>2, <1>4, NamesIn DEF Fits, Accounts, Settled
<1>5. ASSUME Proto[s] # "TCP"
      PROVE  /\ MessagesKept => q.request_messages_total = j.last
             /\ q.requests_total <= Ended(s)
  BY <1>1, <1>2, <1>5, NamesIn DEF Fits, Accounts, Settled
<1>6. \A m \in AlwaysKept : Proto[s] \notin DefaultMetrics[m].protocols => q[m] = 0
  BY DEF Fits, Accounts, Settled
<1> QED
  BY <1>3, <1>4, <1>5, <1>6 DEF Fits

\* A tick keeps the service a stream will be reported under.
LEMMA TickRouted ==
    ASSUME NEW s \in Stream, NEW i \in RequestInfo, NEW r, NEW j, NEW q,
           stream[s] = "open", PeerAfterConnection,
           Routed(s, i), Accounts(s, FALSE, i, r, j, q)
    PROVE  Routed(s, j)
<1>1. CASE j.populated = i.populated /\ j.service = i.service
  BY <1>1 DEF Routed
<1>2. CASE ~ Waits(s, FALSE) /\ j.service = Service(i, s)
  <2>1. ASSUME Outbound, Proto[s] = "TCP" PROVE connected[s]
    BY <1>2, <2>1 DEF Waits, MaybeWaiting, PeerAfterConnection
  <2>2. connected[s] => RoutedName(s, j.service)
    BY <1>2, ServiceFound
  <2> QED
    BY <2>1, <2>2 DEF Routed
<1> QED
  BY <1>1, <1>2 DEF Accounts

----------------------------------------------------------------------------
(* onTick *)

\* The dimensions, and the resolved stats, that the reports of a tick may add.
TickDimensions == UNION {{Dimensions(i, s, FALSE) : i \in RequestInfo} : s \in Stream}
TickStats ==
    {metrics[d] : d \in DOMAIN metrics} \cup {Resolve(d, Proto[s]) : d \in TickDimensions, s \in Stream}
TickMetrics == UNION {[D -> TickStats] : D \in SUBSET (DOMAIN metrics \cup TickDimensions)}
TickType ==
    [info : [Stream -> RequestInfo], metrics : TickMetrics,
     recorded : [Stream -> [MetricName -> Nat]]]

\* The states between two reports of a tick.
Ticking ==
    {st \in TickType :
        /\ MetricsSound(st.metrics)
        /\ \A s \in Stream : Fits(s, st.info[s], st.recorded[s]) /\ Routed(s, st.info[s])}

\* A report of a tick gives a state of the same shape.
LEMMA ReportMetrics ==
    ASSUME Ready, NEW st \in TickType, NEW s \in Stream
    PROVE  \/ Report(st, s, FALSE) = st
           \/ /\ Report(st, s, FALSE).metrics \in TickMetrics
              /\ Report(st, s, FALSE) = [info |-> Report(st, s, FALSE).info,
                                         metrics |-> Report(st, s, FALSE).metrics,
                                         recorded |-> Report(st, s, FALSE).recorded]
<1>1. CASE ~ initialized \/ Waits(s, FALSE)
  BY <1>1 DEF Report
<1>2. CASE initialized /\ ~ Waits(s, FALSE)
  <2> DEFINE k == PopulateGRPCInfo(PopulateRequestInfo(st.info[s], s), s)
             d == Dimensions(k, s, FALSE)
             X == IF d \in DOMAIN st.metrics THEN st.metrics[d] ELSE Resolve(d, Proto[s])
             due == {x \in X : FALSE \/ x.recurrent}
             M == [c \in DOMAIN st.metrics \cup {d} |-> IF c = d THEN X ELSE st.metrics[c]]
             I == [st.info EXCEPT ![s] = Extracted(k, {x.extractor.kind : x \in due})]
             R == [st.recorded EXCEPT ![s] = Recorded(@, due, k)]
  <2>1. Report(st, s, FALSE) = [info |-> I, metrics |-> M, recorded |-> R]
    BY <1>2, Zenon DEF Report
  <2>2. k \in RequestInfo
    <3>1. st.info[s] \in RequestInfo /\ carried \in [Stream -> Nat]
      BY DEF TickType, Ready
    <3> QED
      BY <3>1, PopulatedIs DEF PopulatedFrom
  <2> HIDE DEF k
  <2>3. d \in TickDimensions
    <3>1. Dimensions(k, s, FALSE) \in {Dimensions(i, s, FALSE) : i \in RequestInfo}
      BY <2>2, Zenon
    <3> QED
      BY <3>1, Zenon DEF TickDimensions
  <2>4. PICK D \in SUBSET (DOMAIN metrics \cup TickDimensions) : st.metrics \in [D -> TickStats]
    BY DEF TickType, TickMetrics
  <2> HIDE DEF d
  <2>5. X \in TickStats
    <3>1. CASE d \in DOMAIN st.metrics
      BY <2>4, <3>1
    <3>2. CASE d \notin DOMAIN st.metrics
      BY <2>3, <3>2 DEF TickStats
    <3> QED
      BY <3>1, <3>2
  <2> HIDE DEF X
  <2>6. M \in [D \cup {d} -> TickStats] /\ D \cup {d} \in SUBSET (DOMAIN metrics \cup TickDimensions)
    BY <2>3, <2>4, <2>5
  <2> HIDE DEF M, I, R
  <2>7. M \in TickMetrics
    BY <2>6 DEF TickMetrics
  <2> DEFINE t == Report(st, s, FALSE)
  <2> HIDE DEF t
  <2>8. t = [info |-> I, metrics |-> M, recorded |-> R]
    BY <2>1 DEF t
  <2>9. t.info = I /\ t.metrics = M /\ t.recorded = R
    BY <2>8
  <2>10. t = [info |-> t.info, metrics |-> t.metrics, recorded |-> t.recorded]
    BY <2>8, <2>9
  <2> QED
    BY <2>7, <2>9, <2>10 DEF t
<1> QED
  BY <1>1, <1>2

\* The loop of onTick: each report keeps what the loop relies on.
LEMMA TickingKept ==
    ASSUME Ready, PeerAfterConnection, NEW st \in Ticking, NEW s \in Stream, stream[s] = "open"
    PROVE  Report(st, s, FALSE) \in Ticking
<1> DEFINE i == st.info[s]
           r == st.recorded[s]
           t == Report(st, s, FALSE)
<1>1. /\ st \in TickType /\ st.info \in [Stream -> RequestInfo]
      /\ st.recorded \in [Stream -> [MetricName -> Nat]]
      /\ MetricsSound(st.metrics) /\ carried \in [Stream -> Nat]
      /\ \A z \in Stream : Fits(z, st.info[z], st.recorded[z]) /\ Routed(z, st.info[z])
  BY DEF Ticking, TickType, Ready
<1>2. /\ i \in RequestInfo /\ r \in [MetricName -> Nat] /\ i.closed \in Nat
      /\ i.last <= i.count /\ i.count <= carried[s] /\ i.closed <= 1
  <2>1. i \in RequestInfo /\ r \in [MetricName -> Nat]
    BY <1>1
  <2>2. i.closed \in Nat
    BY <2>1 DEF RequestInfo
  <2> QED
    BY <1>1, <2>1, <2>2 DEF Fits, Ended
<1>3. PICK j \in RequestInfo, q \in [MetricName -> Nat] :
         /\ t.info = [st.info EXCEPT ![s] = j]
         /\ t.recorded = [st.recorded EXCEPT ![s] = q]
         /\ MetricsSound(t.metrics)
         /\ Accounts(s, FALSE, i, r, j, q)
  BY <1>1, <1>2, ReportStep
<1>4. t = st \/ (t.metrics \in TickMetrics
                 /\ t = [info |-> t.info, metrics |-> t.metrics, recorded |-> t.recorded])
  BY <1>1, ReportMetrics
<1>5. Fits(s, j, q) /\ Routed(s, j)
  BY <1>1, <1>2, <1>3, TickFits, TickRouted
<1> HIDE DEF t, i, r
<1>6. t.info \in [Stream -> RequestInfo] /\ t.recorded \in [Stream -> [MetricName -> Nat]]
  BY <1>1, <1>3
<1>7. t \in TickType
  BY <1>1, <1>4, <1>6 DEF TickType
<1>8. ASSUME NEW z \in Stream PROVE Fits(z, t.info[z], t.recorded[z]) /\ Routed(z, t.info[z])
  <2>1. CASE z = s
    <3>1. t.info[z] = j /\ t.recorded[z] = q
      BY <1>1, <1>3, <2>1
    <3> QED
      BY <1>5, <2>1, <3>1
  <2>2. CASE z # s
    <3>1. t.info[z] = st.info[z] /\ t.recorded[z] = st.recorded[z]
      BY <1>1, <1>3, <2>2
    <3> QED
      BY <1>1, <3>1
  <2> QED
    BY <2>1, <2>2
<1> QED
  BY <1>3, <1>7, <1>8 DEF Ticking, t

ReportRecursion(it, S, st) ==
    it = [u \in SUBSET S |->
            IF u = {} THEN st ELSE Report(it[u \ {SomeOf(u)}], SomeOf(u), FALSE)]

\* All the reports of a tick, in whatever order.
LEMMA TickKept ==
    ASSUME Ready, PeerAfterConnection, NEW st \in Ticking, IsFiniteSet(queue),
           \A s \in queue : s \in Stream /\ stream[s] = "open"
    PROVE  ReportAll(st) \in Ticking
<1> DEFINE V == Ticking
           F == [p \in queue \X V |-> Report(p[2], p[1], FALSE)]
           it == CHOOSE h : ReportRecursion(h, queue, st)
<1>1. ReportAll(st) = it[queue]
  BY Zenon DEF ReportAll, FoldSet, MapThenFoldSet, ReportRecursion, SomeOf
<1>2. \A v \in V : \A s \in queue : Report(v, s, FALSE) \in V
  BY TickingKept
<1>3. st \in V
  OBVIOUS
<1> HIDE DEF it, V
<1>4. F \in [queue \X V -> V]
  BY <1>2
<1> HIDE DEF F
<1>5. PICK h \in [SUBSET queue -> V] : SetFoldRecursion(h, queue, st, F)
  BY <1>3, <1>4, SetFoldExists
<1>6. \A u \in SUBSET queue : u # {} => SomeOf(u) \in queue
  BY DEF SomeOf
<1>7. ReportRecursion(h, queue, st)
  <2>1. ASSUME NEW u \in SUBSET queue, u # {}
        PROVE  F[<<SomeOf(u), h[u \ {SomeOf(u)}]>>] =
                  Report(h[u \ {SomeOf(u)}], SomeOf(u), FALSE)
    <3>1. SomeOf(u) \in queue /\ h[u \ {SomeOf(u)}] \in V
      BY <1>6, <2>1
    <3> QED
      BY <3>1 DEF F
  <2> QED
    BY <1>5, <2>1 DEF ReportRecursion, SetFoldRecursion
<1>8. ReportRecursion(it, queue, st)
  BY <1>7 DEF it
<1>9. it[{}] \in V
  BY <1>3, <1>8 DEF ReportRecursion
<1>10. ASSUME NEW u \in SUBSET queue, u # {}, it[u \ {SomeOf(u)}] \in V PROVE it[u] \in V
  <2>1. it[u] = Report(it[u \ {SomeOf(u)}], SomeOf(u), FALSE)
    BY <1>8, <1>10 DEF ReportRecursion
  <2> QED
    BY <1>2, <1>6, <1>10, <2>1
<1>11. it[queue] \in V
  BY <1>9, <1>10, SetFoldStays
<1> QED
  BY <1>1, <1>11 DEF V

----------------------------------------------------------------------------
(* The inductive invariant: the configuration's part, and the streams'. *)

ConfigInv ==
    /\ alive \in BOOLEAN /\ initialized \in BOOLEAN /\ useHost \in BOOLEAN
    /\ loads \in 0 .. MaxConfigs /\ lastGood \subseteq Config
    /\ TokensHeld /\ next \in Nat \ {0} /\ live \subseteq 1 .. next - 1
    /\ conf.expressions \in Seq(StringExpression)
    /\ initialized => GensSound(conf.stats)
    /\ \A g \in conf.stats :
          /\ g.name \in MetricName
          /\ \A n \in DOMAIN g.tags : alive =>
                g.indexes[n] \in 1 .. CountStandardLabels + Len(conf.expressions)

\* The factories: those of the definitions, and the plugin's own.
FactoryOf(ds, m, f) ==
    \/ /\ \E i \in DOMAIN ds : m = ds[i].name
       /\ f.extractor.kind = "expression" /\ f.protocols = Http
       /\ f.recurrent = FALSE
    \/ /\ m \in DOMAIN DefaultMetrics
       /\ f.extractor = DefaultMetrics[m].extractor
       /\ f.protocols = DefaultMetrics[m].protocols
       /\ f.recurrent = DefaultMetrics[m].recurrent

\* A factory is that of the last definition of its name, or the default one.
LEMMA FactoriesAre ==
    ASSUME NEW ds, NEW n, NEW m \in DOMAIN Factories(ds, n)
    PROVE  FactoryOf(ds, m, Factories(ds, n)[m])
<1> DEFINE names == {ds[i].name : i \in DOMAIN ds}
           token == n + Max({i \in DOMAIN ds : ds[i].name = m}) - 1
<1>1. m \in DOMAIN DefaultMetrics \cup names
  BY DEF Factories
<1>2. CASE m \in names
  <2>1. Factories(ds, n)[m] = [extractor |-> Expression(token),
                               protocols |-> Http, recurrent |-> FALSE]
    BY <1>1, <1>2 DEF Factories
  <2>2. \E i \in DOMAIN ds : m = ds[i].name
    BY <1>2
  <2> DEFINE e == Expression(token)
             f == Factories(ds, n)[m]
  <2>3. e.kind = "expression"
    BY DEF Expression
  <2> HIDE DEF token, e, names
  <2>4. f.extractor = e /\ f.protocols = Http
    BY <2>1 DEF e
  <2>5. f.recurrent = FALSE
    BY <2>1
  <2> HIDE DEF f
  <2> QED
    BY <2>2, <2>3, <2>4, <2>5 DEF FactoryOf, f
<1>3. CASE m \notin names
  <2>1. Factories(ds, n)[m] = [extractor |-> DefaultMetrics[m].extractor,
                               protocols |-> DefaultMetrics[m].protocols,
                               recurrent |-> DefaultMetrics[m].recurrent]
    BY <1>1, <1>3 DEF Factories
  <2>2. m \in DOMAIN DefaultMetrics
    BY <1>1, <1>3
  <2> HIDE DEF names
  <2> QED
    BY <2>1, <2>2 DEF FactoryOf
<1> QED
  BY <1>2, <1>3

\* onConfigure establishes the invariant of the root context for what it reads.
LEMMA ConfigureKeeps ==
    ASSUME ConfigInv, NEW c \in Config, Configure(c)
    PROVE  ConfigInv'
<1> DEFINE r == InitializeDimensions(c, next)
           ds == Accepted(c.definitions)
           f == Factories(ds, next)
<1>1. c \in ConfigType /\ next \in Nat /\ next >= 1
  BY StatsAssumption DEF ConfigInv
<1>2. c.definitions \in Seq(Definition)
  BY <1>1 DEF ConfigType, Definition
<1>3. \A i \in DOMAIN c.metrics : Spares(c.metrics[i], AlwaysKept)
  BY DEF Spares, AlwaysKept
<1>4. /\ ds \in Seq(Definition)
      /\ \A i \in DOMAIN ds : i \in DOMAIN c.definitions /\ ds[i] = c.definitions[i]
  BY <1>2, AcceptedType, LenProperties
<1>5. DOMAIN f = DOMAIN DefaultMetrics \cup {ds[i].name : i \in DOMAIN ds}
  BY <1>1, <1>4, FactoriesFinite
<1>6. AlwaysKept \in SUBSET DOMAIN f
  BY <1>5, KeptNames
<1>7. /\ r.next \in Nat /\ r.next >= next
      /\ r.expressions \in Seq(StringExpression)
      /\ {r.expressions[i].token : i \in DOMAIN r.expressions} \cup r.ints = next .. r.next - 1
      /\ \A g \in r.stats :
            /\ g.name \in DOMAIN f
            /\ g.recurrent = f[g.name].recurrent
            /\ g.protocols = f[g.name].protocols
            /\ g.extractor = f[g.name].extractor
            /\ \A k \in DOMAIN g.tags :
                  g.indexes[k] \in 1 .. CountStandardLabels + Len(r.expressions)
      /\ \A g, h \in r.stats : g.name = h.name => g = h
      /\ \A m \in AlwaysKept : \E g \in r.stats : g.name = m
  BY <1>1, <1>3, <1>6, InitializeDimensionsHolds
<1>8. \A i \in DOMAIN ds : ds[i].name \in DefinedName
  BY <1>4 DEF DefinedName
<1>9. ASSUME NEW g \in r.stats
      PROVE  \/ AsDefault(g) /\ g.protocols = DefaultMetrics[g.name].protocols
             \/ AsDefined(g) /\ g.protocols = Http
  <2> DEFINE m == g.name
  <2>1. m \in DOMAIN f
    BY <1>7
  <2>2. FactoryOf(ds, m, f[m])
    BY <2>1, FactoriesAre
  <2> HIDE DEF f, r, ds
  <2> QED
    BY <1>7, <1>8, <2>2 DEF AsDefault, AsDefined, FactoryOf
<1>10. /\ conf' = [stats |-> r.stats, expressions |-> r.expressions, ints |-> r.ints]
       /\ live' = (live \ Held) \cup (next .. r.next - 1)
       /\ next' = r.next /\ alive' = alive /\ initialized' = TRUE
       /\ loads' = loads + 1 /\ loads < MaxConfigs /\ lastGood' = {c} /\ alive
       /\ useHost' = ~ c.disableHostHeaderFallback
  BY DEF Configure
<1> HIDE DEF r, f, ds
<1>11. conf'.stats = r.stats /\ conf'.expressions = r.expressions /\ conf'.ints = r.ints
  BY <1>10
<1>12. live' = next .. r.next - 1
  BY <1>10 DEF ConfigInv, TokensHeld, Held
<1>13. GensSound(conf.stats)'
  BY <1>7, <1>9, <1>11 DEF GensSound
<1>14. TokensHeld'
  BY <1>7, <1>10, <1>11, <1>12 DEF TokensHeld
<1>15. next' \in Nat \ {0} /\ live' \subseteq 1 .. next' - 1
  BY <1>1, <1>7, <1>10, <1>12
<1>16. loads' \in 0 .. MaxConfigs /\ lastGood' \subseteq Config
  BY <1>10, StatsAssumption DEF ConfigInv
<1>17. alive' \in BOOLEAN /\ initialized' \in BOOLEAN /\ useHost' \in BOOLEAN
  BY <1>10, Zenon DEF ConfigInv
<1>18. \A g \in r.stats : g.name \in MetricName
  BY <1>9, KeptNames DEF AsDefault, AsDefined
<1>19. \A g \in conf'.stats :
          /\ g.name \in MetricName
          /\ \A n \in DOMAIN g.tags : alive' =>
                g.indexes[n] \in 1 .. CountStandardLabels + Len(conf'.expressions)
  BY <1>7, <1>11, <1>18
<1> QED
  BY <1>7, <1>11, <1>13, <1>14, <1>15, <1>16, <1>17, <1>19 DEF ConfigInv

\* Only onConfigure and onDone change the configuration and its expressions.
LEMMA ConfigAlone ==
    ASSUME Next
    PROVE  \/ \E c \in Config : Configure(c) \/ ConfigureInvalid(c)
           \/ OnDone
           \/ UNCHANGED <<alive, config>>
BY DEF Next, OnNewConnection, OnRequestHeaders, OnResponseHeaders, OnData, OnLog, Message,
       PeerKnown, Connect, OnTick

\* Every callback keeps the invariant of the root context.
LEMMA ConfigSteps ==
    ASSUME ConfigInv, [Next]_vars
    PROVE  ConfigInv'
<1>1. ASSUME NEW c \in Config, ConfigureInvalid(c) PROVE ConfigInv'
  <2>1. loads' \in 0 .. MaxConfigs
    BY <1>1, StatsAssumption DEF ConfigInv, ConfigureInvalid
  <2>2. initialized' \in BOOLEAN /\ ~ initialized'
    BY <1>1, Zenon DEF ConfigureInvalid
  <2> QED
    BY <1>1, <2>1, <2>2 DEF ConfigInv, ConfigureInvalid, TokensHeld
<1>2. ASSUME OnDone PROVE ConfigInv'
  <2>1. /\ alive' = FALSE /\ live' = live \ Held /\ UNCHANGED <<loads, lastGood, initialized, useHost, next>>
        /\ conf' = [stats |-> conf.stats, expressions |-> <<>>, ints |-> {}]
    BY <1>2 DEF OnDone
  <2>2. conf'.stats = conf.stats /\ conf'.expressions = <<>> /\ conf'.ints = {}
    BY <2>1
  <2>3. live' = {}
    BY <2>1 DEF ConfigInv, TokensHeld, Held
  <2>4. TokensHeld'
    BY <2>2, <2>3 DEF TokensHeld
  <2>5. alive' \in BOOLEAN /\ ~ alive'
    BY <2>1, Zenon
  <2>6. <<>> \in Seq(StringExpression)
    BY EmptySeq
  <2> QED
    BY <2>1, <2>2, <2>3, <2>4, <2>5, <2>6 DEF ConfigInv
<1>3. ASSUME UNCHANGED <<alive, config>> PROVE ConfigInv'
  BY <1>3 DEF ConfigInv, config, TokensHeld
<1>4. CASE UNCHANGED vars
  BY <1>3, <1>4 DEF vars
<1> QED
  BY <1>1, <1>2, <1>3, <1>4, ConfigAlone, ConfigureKeeps

\* While the plugin runs it does what the configuration it read last asks for.
Fulfilled == \A c \in lastGood : alive /\ WellFormed(c) => Fulfils(conf, c)

\* Every callback keeps this: onConfigure establishes it anew, onDone ends it, and the
\* others do not touch the configuration.
LEMMA FulfilledStays == ConfigInv /\ Fulfilled /\ [Next]_vars => Fulfilled'
<1> SUFFICES ASSUME ConfigInv, Fulfilled, [Next]_vars PROVE Fulfilled'
  OBVIOUS
<1>1. ASSUME NEW c \in Config, Configure(c) PROVE Fulfilled'
  <2> DEFINE r == InitializeDimensions(c, next)
  <2>1. /\ conf' = [stats |-> r.stats, expressions |-> r.expressions, ints |-> r.ints]
        /\ lastGood' = {c}
    BY <1>1 DEF Configure
  <2>2. /\ c \in ConfigType /\ next \in Nat
        /\ \A i \in DOMAIN c.metrics : Keyed(c.metrics[i].dimensions)
    BY StatsAssumption DEF ConfigInv, Keyed
  <2>3. WellFormed(c) => Fulfils(r, c)
    BY <2>2, InitializeDimensionsFulfils
  <2> HIDE DEF r
  <2>4. conf'.stats = r.stats /\ conf'.expressions = r.expressions
    BY <2>1
  <2>5. Fulfils(r, c) => Fulfils(conf', c)
    BY <2>4 DEF Fulfils
  <2> QED
    BY <2>1, <2>3, <2>5 DEF Fulfilled
<1>2. ASSUME NEW c \in Config, ConfigureInvalid(c) PROVE Fulfilled'
  BY <1>2 DEF ConfigureInvalid, Fulfilled
<1>3. ASSUME OnDone PROVE Fulfilled'
  BY <1>3 DEF OnDone, Fulfilled
<1>4. ASSUME UNCHANGED <<alive, config>> PROVE Fulfilled'
  BY <1>4 DEF config, Fulfilled
<1>5. CASE UNCHANGED vars
  BY <1>4, <1>5 DEF vars
<1> QED
  BY <1>1, <1>2, <1>3, <1>4, <1>5, ConfigAlone

Sane(s) == Fits(s, info[s], recorded[s]) /\ Routed(s, info[s])

StreamInv ==
    /\ stream \in [Stream -> {"new", "requested", "open", "logged"}]
    /\ peer \in [Stream -> {"waiting", "found", "none"}]
    /\ connected \in [Stream -> BOOLEAN]
    /\ carried \in [Stream -> 0 .. MaxData]
    /\ QueueLive /\ IsFiniteSet(queue)
    /\ info \in [Stream -> RequestInfo]
    /\ recorded \in [Stream -> [MetricName -> Nat]]
    /\ MetricsSound(metrics)
    /\ PeerAfterConnection
    /\ \A s \in Stream : Sane(s)

\* In every state of the invariant a report can be made.
LEMMA ReadyNow == ASSUME ConfigInv, StreamInv PROVE Ready
<1>1. 0 .. MaxData \subseteq Nat
  BY StatsAssumption
<1> QED
  BY <1>1 DEF ConfigInv, StreamInv, Ready

\* A stream is as it was if nothing of it has changed.
LEMMA SaneAsBefore ==
    ASSUME NEW z \in Stream, Sane(z), stream'[z] = stream[z], carried'[z] = carried[z],
           connected'[z] = connected[z], info'[z] = info[z], recorded'[z] = recorded[z]
    PROVE  Sane(z)'
BY DEF Sane, Fits, Routed, Ended

\* The fields of a request info and the records are numbers.
LEMMA Numbers ==
    ASSUME StreamInv, NEW s \in Stream
    PROVE  /\ info[s] \in RequestInfo /\ recorded[s] \in [MetricName -> Nat]
           /\ info[s].sent \in Nat /\ info[s].opened \in Nat /\ info[s].closed \in Nat
           /\ info[s].count \in Nat /\ info[s].last \in Nat
           /\ carried[s] \in Nat
           /\ \A m \in MetricName : recorded[s][m] \in Nat
<1>1. info[s] \in RequestInfo /\ recorded[s] \in [MetricName -> Nat]
  BY DEF StreamInv
<1>2. /\ info[s].sent \in Nat /\ info[s].opened \in Nat /\ info[s].closed \in Nat
      /\ info[s].count \in Nat /\ info[s].last \in Nat
  BY <1>1 DEF RequestInfo
<1>3. carried[s] \in 0 .. MaxData /\ MaxData \in Nat
  BY StatsAssumption DEF StreamInv
<1>4. carried[s] \in Nat
  BY <1>3
<1> QED
  BY <1>1, <1>2, <1>4

\* onNewConnection, which queues the stream, keeps the invariant of the streams.
LEMMA NewConnectionKeeps ==
    ASSUME StreamInv, NEW s \in Stream, OnNewConnection(s)
    PROVE  StreamInv'
<1> DEFINE j == [info[s] EXCEPT !.opened = info[s].opened + 1]
<1>1. /\ stream[s] = "new" /\ Proto[s] = "TCP"
      /\ stream' = [stream EXCEPT ![s] = "open"]
      /\ queue' = queue \cup {s}
      /\ UNCHANGED <<metrics, peer, connected, carried, recorded>>
  BY DEF OnNewConnection, Becomes, host
<1>2. info' = [info EXCEPT ![s] = j]
  BY DEF OnNewConnection
<1>3. /\ j \in RequestInfo
      /\ j.sent = info[s].sent /\ j.opened = info[s].opened + 1 /\ j.closed = info[s].closed
      /\ j.count = info[s].count /\ j.last = info[s].last
      /\ j.populated = info[s].populated /\ j.service = info[s].service
  <2>1. info[s] \in RequestInfo /\ info[s].opened + 1 \in Nat
    BY Numbers
  <2>2. j \in RequestInfo
    BY <2>1, Zenon DEF RequestInfo
  <2> QED
    BY <2>1, <2>2 DEF RequestInfo
<1> HIDE DEF j
<1>4. info'[s] = j /\ stream'[s] = "open" /\ recorded'[s] = recorded[s]
      /\ carried'[s] = carried[s] /\ connected'[s] = connected[s]
  BY <1>1, <1>2 DEF StreamInv
<1>5. Sane(s)'
  <2>1. Fits(s, info[s], recorded[s]) /\ Routed(s, info[s])
    BY DEF StreamInv, Sane
  <2>2. info[s].opened = 0 /\ Ended(s) = 0 /\ Ended(s)' = 0
    BY <1>1, <1>4, <2>1 DEF Fits, Ended
  <2>3. recorded[s].tcp_connections_opened_total = 0
    BY <1>1, <2>1, <2>2, Numbers, NamesIn DEF Fits
  <2>4. Fits(s, info[s], recorded[s])'
    BY <1>1, <1>3, <1>4, <2>1, <2>2, <2>3 DEF Fits
  <2>5. Routed(s, info[s])'
    BY <1>1, <1>3, <1>4, <2>1 DEF Routed
  <2> QED
    BY <2>4, <2>5 DEF Sane
<1>6. ASSUME NEW z \in Stream, z # s PROVE Sane(z)'
  BY <1>1, <1>2, <1>6, SaneAsBefore DEF StreamInv
<1>7. QueueLive'
  BY <1>1 DEF StreamInv, QueueLive
<1>8. IsFiniteSet(queue')
  BY <1>1, FS_AddElement DEF StreamInv
<1>9. info' \in [Stream -> RequestInfo]
  BY <1>2, <1>3 DEF StreamInv
<1>10. stream' \in [Stream -> {"new", "requested", "open", "logged"}]
  BY <1>1 DEF StreamInv
<1> QED
  BY <1>1, <1>5, <1>6, <1>7, <1>8, <1>9, <1>10 DEF StreamInv, PeerAfterConnection, MetricsSound

\* onRequestHeaders keeps the invariant of the streams.
LEMMA RequestHeadersKeeps ==
    ASSUME StreamInv, NEW s \in Stream, OnRequestHeaders(s)
    PROVE  StreamInv'
<1> DEFINE h == IF useHost THEN "header" ELSE info[s].urlHost
           j == [info[s] EXCEPT !.urlHost = h]
<1>1. /\ stream[s] = "new" /\ Proto[s] # "TCP"
      /\ stream' = [stream EXCEPT ![s] = "requested"]
      /\ UNCHANGED <<metrics, queue, peer, connected, carried, recorded>>
  BY DEF OnRequestHeaders, Becomes, host
<1>2. info' = [info EXCEPT ![s] = j]
  BY DEF OnRequestHeaders
<1>3. /\ j \in RequestInfo
      /\ j.sent = info[s].sent /\ j.opened = info[s].opened /\ j.closed = info[s].closed
      /\ j.count = info[s].count /\ j.last = info[s].last
      /\ j.populated = info[s].populated /\ j.service = info[s].service
  <2>1. info[s] \in RequestInfo
    BY Numbers
  <2>2. h \in UrlHost
    BY <2>1 DEF RequestInfo, UrlHost
  <2> HIDE DEF h
  <2>3. j \in RequestInfo
    BY <2>1, <2>2, Zenon DEF RequestInfo
  <2> QED
    BY <2>1, <2>3 DEF RequestInfo
<1> HIDE DEF j
<1>4. info'[s] = j /\ stream'[s] = "requested" /\ recorded'[s] = recorded[s]
      /\ carried'[s] = carried[s] /\ connected'[s] = connected[s]
  BY <1>1, <1>2 DEF StreamInv
<1>5. Sane(s)'
  <2>1. Fits(s, info[s], recorded[s]) /\ Routed(s, info[s])
    BY DEF StreamInv, Sane
  <2>2. Ended(s) = 0 /\ Ended(s)' = 0
    BY <1>1, <1>4 DEF Ended
  <2>3. Fits(s, info[s], recorded[s])'
    BY <1>1, <1>3, <1>4, <2>1, <2>2 DEF Fits
  <2>4. Routed(s, info[s])'
    BY <1>1, <1>3, <1>4, <2>1 DEF Routed
  <2> QED
    BY <2>3, <2>4 DEF Sane
<1>6. ASSUME NEW z \in Stream, z # s PROVE Sane(z)'
  BY <1>1, <1>2, <1>6, SaneAsBefore DEF StreamInv
<1>7. QueueLive'
  BY <1>1 DEF StreamInv, QueueLive
<1>8. info' \in [Stream -> RequestInfo]
  BY <1>2, <1>3 DEF StreamInv
<1>9. stream' \in [Stream -> {"new", "requested", "open", "logged"}]
  BY <1>1 DEF StreamInv
<1> QED
  BY <1>1, <1>5, <1>6, <1>7, <1>8, <1>9 DEF StreamInv, PeerAfterConnection, MetricsSound

\* Only HTTP streams are requested.
LEMMA ResponseHeadersKeeps ==
    ASSUME StreamInv, NEW s \in Stream, OnResponseHeaders(s)
    PROVE  StreamInv'
<1>1. /\ stream[s] = "requested"
      /\ stream' = [stream EXCEPT ![s] = "open"]
      /\ queue' = queue \cup {s}
      /\ UNCHANGED <<metrics, info, peer, connected, carried, recorded>>
  BY DEF OnResponseHeaders, Becomes, host
<1>2. stream'[s] = "open"
  BY <1>1 DEF StreamInv
<1>3. Sane(s)'
  <2>1. Fits(s, info[s], recorded[s]) /\ Routed(s, info[s])
    BY DEF StreamInv, Sane
  <2>2. Ended(s) = 0 /\ Ended(s)' = 0
    BY <1>1, <1>2 DEF Ended
  <2>3. Fits(s, info[s], recorded[s])'
    BY <1>1, <1>2, <2>1, <2>2 DEF Fits
  <2>4. Routed(s, info[s])'
    BY <1>1, <1>2, <2>1 DEF Routed
  <2> QED
    BY <2>3, <2>4 DEF Sane
<1>4. ASSUME NEW z \in Stream, z # s PROVE Sane(z)'
  BY <1>1, <1>4, SaneAsBefore DEF StreamInv
<1>5. QueueLive'
  BY <1>1 DEF StreamInv, QueueLive
<1>6. IsFiniteSet(queue')
  BY <1>1, FS_AddElement DEF StreamInv
<1>7. stream' \in [Stream -> {"new", "requested", "open", "logged"}]
  BY <1>1 DEF StreamInv
<1> QED
  BY <1>1, <1>3, <1>4, <1>5, <1>6, <1>7 DEF StreamInv, PeerAfterConnection, MetricsSound

\* onDownstreamData and onUpstreamData keep the invariant of the streams.
LEMMA DataKeeps ==
    ASSUME StreamInv, NEW s \in Stream, OnData(s)
    PROVE  StreamInv'
<1> DEFINE j == [info[s] EXCEPT !.sent = info[s].sent + 1]
<1>1. /\ stream[s] = "open" /\ Proto[s] = "TCP" /\ carried[s] < MaxData
      /\ carried' = [carried EXCEPT ![s] = carried[s] + 1]
      /\ UNCHANGED <<metrics, queue, stream, peer, connected, recorded>>
  BY DEF OnData
<1>2. info' = [info EXCEPT ![s] = j]
  BY DEF OnData
<1>3. /\ j \in RequestInfo
      /\ j.sent = info[s].sent + 1 /\ j.opened = info[s].opened /\ j.closed = info[s].closed
      /\ j.count = info[s].count /\ j.last = info[s].last
      /\ j.populated = info[s].populated /\ j.service = info[s].service
  <2>1. info[s] \in RequestInfo /\ info[s].sent + 1 \in Nat
    BY Numbers
  <2>2. j \in RequestInfo
    BY <2>1, Zenon DEF RequestInfo
  <2> QED
    BY <2>1, <2>2 DEF RequestInfo
<1> HIDE DEF j
<1>4. info'[s] = j /\ stream'[s] = "open" /\ recorded'[s] = recorded[s]
      /\ carried'[s] = carried[s] + 1 /\ connected'[s] = connected[s]
  BY <1>1, <1>2 DEF StreamInv
<1>5. Sane(s)'
  <2>1. Fits(s, info[s], recorded[s]) /\ Routed(s, info[s])
    BY DEF StreamInv, Sane
  <2>2. Ended(s)' = Ended(s)
    BY <1>1 DEF Ended
  <2>3. /\ info'[s].sent <= carried'[s] /\ info'[s].count <= carried'[s]
        /\ recorded'[s].tcp_sent_bytes_total + info'[s].sent = carried'[s]
    BY <1>1, <1>3, <1>4, <2>1, Numbers, NamesIn DEF Fits
  <2>4. Fits(s, info[s], recorded[s])'
    BY <1>1, <1>3, <1>4, <2>1, <2>2, <2>3 DEF Fits
  <2>5. Routed(s, info[s])'
    BY <1>1, <1>3, <1>4, <2>1 DEF Routed
  <2> QED
    BY <2>4, <2>5 DEF Sane
<1>6. ASSUME NEW z \in Stream, z # s PROVE Sane(z)'
  BY <1>1, <1>2, <1>6, SaneAsBefore DEF StreamInv
<1>7. info' \in [Stream -> RequestInfo]
  BY <1>2, <1>3 DEF StreamInv
<1>8. carried' \in [Stream -> 0 .. MaxData]
  BY <1>1, StatsAssumption DEF StreamInv
<1> QED
  BY <1>1, <1>5, <1>6, <1>7, <1>8
     DEF StreamInv, PeerAfterConnection, MetricsSound, QueueLive

\* A message that the proxy counts keeps the invariant of the streams.
LEMMA MessageKeeps ==
    ASSUME StreamInv, NEW s \in Stream, Message(s)
    PROVE  StreamInv'
<1>1. /\ Proto[s] # "TCP" /\ carried[s] < MaxData
      /\ carried' = [carried EXCEPT ![s] = carried[s] + 1]
      /\ UNCHANGED <<metrics, queue, info, stream, peer, connected, recorded>>
  BY DEF Message
<1>2. carried'[s] = carried[s] + 1
  BY <1>1 DEF StreamInv
<1>3. Sane(s)'
  <2>1. Fits(s, info[s], recorded[s]) /\ Routed(s, info[s])
    BY DEF StreamInv, Sane
  <2>2. info'[s].sent <= carried'[s] /\ info'[s].count <= carried'[s]
    BY <1>1, <1>2, <2>1, Numbers DEF Fits
  <2>3. Fits(s, info[s], recorded[s])'
    BY <1>1, <2>1, <2>2 DEF Fits, Ended
  <2>4. Routed(s, info[s])'
    BY <1>1, <2>1 DEF Routed
  <2> QED
    BY <2>3, <2>4 DEF Sane
<1>4. ASSUME NEW z \in Stream, z # s PROVE Sane(z)'
  BY <1>1, <1>4, SaneAsBefore DEF StreamInv
<1>5. carried' \in [Stream -> 0 .. MaxData]
  BY <1>1, StatsAssumption DEF StreamInv
<1> QED
  BY <1>1, <1>3, <1>4, <1>5 DEF StreamInv, PeerAfterConnection, MetricsSound, QueueLive

\* The arrival of peer metadata keeps the invariant of the streams.
LEMMA PeerKnownKeeps ==
    ASSUME StreamInv, NEW s \in Stream, PeerKnown(s)
    PROVE  StreamInv'
<1>1. /\ Outbound => connected[s]
      /\ UNCHANGED <<metrics, queue, info, stream, connected, carried, recorded>>
  BY DEF PeerKnown
<1>2. PICK p \in {"found", "none"} : peer' = [peer EXCEPT ![s] = p]
  BY DEF PeerKnown
<1>3. peer' \in [Stream -> {"waiting", "found", "none"}]
  BY <1>2 DEF StreamInv
<1>4. PeerAfterConnection'
  BY <1>1, <1>2 DEF StreamInv, PeerAfterConnection
<1>5. ASSUME NEW z \in Stream PROVE Sane(z)'
  BY <1>1, SaneAsBefore DEF StreamInv
<1> QED
  BY <1>1, <1>3, <1>4, <1>5 DEF StreamInv, MetricsSound, QueueLive

\* Connecting to the upstream keeps the invariant of the streams.
LEMMA ConnectKeeps ==
    ASSUME StreamInv, NEW s \in Stream, Connect(s)
    PROVE  StreamInv'
<1>1. /\ ~ connected[s]
      /\ stream[s] = IF Proto[s] = "TCP" THEN "open" ELSE "requested"
      /\ connected' = [connected EXCEPT ![s] = TRUE]
      /\ UNCHANGED <<metrics, queue, info, stream, peer, carried, recorded>>
  BY DEF Connect
<1>2. connected' \in [Stream -> BOOLEAN]
  BY <1>1, Zenon DEF StreamInv
<1>3. Sane(s)'
  <2>1. Fits(s, info[s], recorded[s]) /\ Routed(s, info[s])
    BY DEF StreamInv, Sane
  <2>2. ~ (Outbound /\ info[s].populated)
    BY <1>1, <2>1 DEF Routed
  <2>3. Routed(s, info[s])'
    BY <1>1, <2>2 DEF Routed
  <2>4. Fits(s, info[s], recorded[s])'
    BY <1>1, <2>1 DEF Fits, Ended
  <2> QED
    BY <2>3, <2>4 DEF Sane
<1>4. ASSUME NEW z \in Stream, z # s PROVE Sane(z)'
  BY <1>1, <1>4, SaneAsBefore DEF StreamInv
<1>5. PeerAfterConnection'
  BY <1>1 DEF StreamInv, PeerAfterConnection
<1> QED
  BY <1>1, <1>2, <1>3, <1>4, <1>5 DEF StreamInv, MetricsSound, QueueLive

\* onTick, with all the reports it makes, keeps the invariant of the streams.
LEMMA TickKeeps ==
    ASSUME ConfigInv, StreamInv, OnTick
    PROVE  StreamInv'
<1> DEFINE st == ReportAll(Current)
<1>1. /\ info' = st.info /\ metrics' = st.metrics /\ recorded' = st.recorded
      /\ UNCHANGED <<queue, stream, peer, connected, carried>>
  BY DEF OnTick, SetCurrent, host
<1>2. Current \in Ticking
  <2>1. metrics \in TickMetrics
    <3>1. metrics \in [DOMAIN metrics -> TickStats]
      <4>1. metrics = [d \in DOMAIN metrics |-> metrics[d]]
        BY DEF StreamInv, MetricsSound
      <4>2. \A d \in DOMAIN metrics : metrics[d] \in TickStats
        BY DEF TickStats
      <4> QED
        BY <4>1, <4>2
    <3> QED
      BY <3>1 DEF TickMetrics
  <2>2. Current \in TickType
    BY <2>1 DEF Current, TickType, StreamInv
  <2>3. Current.info = info /\ Current.metrics = metrics /\ Current.recorded = recorded
    BY DEF Current
  <2> QED
    BY <2>2, <2>3 DEF Ticking, StreamInv, Sane
<1>3. \A s \in queue : s \in Stream /\ stream[s] = "open"
  BY DEF StreamInv, QueueLive
<1>4. st \in Ticking
  BY <1>2, <1>3, ReadyNow, TickKept DEF StreamInv
<1> HIDE DEF st
<1>5. /\ st.info \in [Stream -> RequestInfo] /\ st.recorded \in [Stream -> [MetricName -> Nat]]
      /\ MetricsSound(st.metrics)
      /\ \A s \in Stream : Fits(s, st.info[s], st.recorded[s]) /\ Routed(s, st.info[s])
  BY <1>4 DEF Ticking, TickType
<1>6. ASSUME NEW s \in Stream PROVE Sane(s)'
  BY <1>1, <1>5 DEF Sane, Fits, Routed, Ended
<1> QED
  BY <1>1, <1>5, <1>6 DEF StreamInv, PeerAfterConnection, MetricsSound, QueueLive

----------------------------------------------------------------------------
(* onLog *)

\* The last report of stream s starts from the request info i, with the end of a
\* connection counted.
LastInfo(s, i) ==
    /\ i \in RequestInfo
    /\ i.sent = info[s].sent /\ i.opened = info[s].opened
    /\ i.count = info[s].count /\ i.last = info[s].last
    /\ i.populated = info[s].populated /\ i.service = info[s].service
    /\ i.closed = IF Proto[s] = "TCP" THEN 1 ELSE 0

\* onLog: the stream's last report.
LEMMA LogReports ==
    ASSUME ConfigInv, StreamInv, NEW s \in Stream, OnLog(s)
    PROVE  \E i \in RequestInfo, j \in RequestInfo, q \in [MetricName -> Nat] :
              /\ LastInfo(s, i)
              /\ info' = [info EXCEPT ![s] = j]
              /\ recorded' = [recorded EXCEPT ![s] = q]
              /\ MetricsSound(metrics')
              /\ Accounts(s, TRUE, i, recorded[s], j, q)
              /\ initialized => Completes(s, i, recorded[s], j, q)
<1> DEFINE closed == IF Proto[s] = "TCP" THEN 1 ELSE 0
           i == [info[s] EXCEPT !.closed = info[s].closed + closed]
           st == [Current EXCEPT !.info[s].closed = @ + closed]
           t == Report(st, s, TRUE)
<1>1. /\ stream[s] \in {"requested", "open"}
      /\ info' = t.info /\ metrics' = t.metrics /\ recorded' = t.recorded
  BY DEF OnLog, SetCurrent
<1>2. Fits(s, info[s], recorded[s])
  BY DEF StreamInv, Sane
<1>3. info[s].closed = 0 /\ closed \in Nat
  BY <1>1, <1>2, Numbers DEF Fits, Ended
<1>4. LastInfo(s, i)
  <2> HIDE DEF closed
  <2>1. info[s] \in RequestInfo /\ info[s].closed + closed \in Nat
    BY <1>3, Numbers
  <2>2. i \in RequestInfo
    BY <2>1, Zenon DEF RequestInfo
  <2>3. /\ i.sent = info[s].sent /\ i.opened = info[s].opened
        /\ i.count = info[s].count /\ i.last = info[s].last
        /\ i.populated = info[s].populated /\ i.service = info[s].service
        /\ i.closed = info[s].closed + closed
    BY <2>1 DEF RequestInfo
  <2>4. i.closed = closed
    BY <1>3, <2>3
  <2> HIDE DEF i
  <2> QED
    BY <2>2, <2>3, <2>4 DEF LastInfo, closed
<1>5. /\ st.info = [info EXCEPT ![s] = i]
      /\ st.metrics = metrics /\ st.recorded = recorded
  <2> HIDE DEF closed
  <2>1. Current \in [info : {info}, metrics : {metrics}, recorded : {recorded}]
    BY DEF Current
  <2>2. Current.info = info
    BY DEF Current
  <2>3. st = [Current EXCEPT !.info = [Current.info EXCEPT ![s] =
                                         [Current.info[s] EXCEPT !.closed = @ + closed]]]
    OBVIOUS
  <2>4. st = [Current EXCEPT !.info = [info EXCEPT ![s] = i]]
    BY <2>2, <2>3
  <2> HIDE DEF st, i
  <2> QED
    BY <2>1, <2>4
<1> HIDE DEF i, st, closed
<1>6. /\ st.info \in [Stream -> RequestInfo] /\ st.info[s] = i
      /\ st.recorded \in [Stream -> [MetricName -> Nat]] /\ st.recorded[s] = recorded[s]
      /\ MetricsSound(st.metrics)
  BY <1>4, <1>5 DEF StreamInv, LastInfo
<1>7. i.last <= i.count /\ i.count <= carried[s] /\ i.closed <= 1
  BY <1>2, <1>4 DEF Fits, LastInfo
<1>8. PICK j \in RequestInfo, q \in [MetricName -> Nat] :
         /\ t.info = [st.info EXCEPT ![s] = j]
         /\ t.recorded = [st.recorded EXCEPT ![s] = q]
         /\ MetricsSound(t.metrics)
         /\ Accounts(s, TRUE, st.info[s], st.recorded[s], j, q)
         /\ initialized /\ TRUE => Completes(s, st.info[s], st.recorded[s], j, q)
  BY <1>6, <1>7, ReadyNow, ReportStep
<1> HIDE DEF t
<1>9. info' = [info EXCEPT ![s] = j]
  BY <1>1, <1>5, <1>8 DEF StreamInv
<1>10. recorded' = [recorded EXCEPT ![s] = q]
  BY <1>1, <1>5, <1>8
<1>11. i \in RequestInfo
  BY <1>4 DEF LastInfo
<1> QED
  BY <1>1, <1>4, <1>6, <1>8, <1>9, <1>10, <1>11

\* onLog keeps the invariant of the streams.
LEMMA LogKeeps ==
    ASSUME ConfigInv, StreamInv, NEW s \in Stream, OnLog(s)
    PROVE  StreamInv'
<1>1. /\ stream[s] \in {"requested", "open"}
      /\ stream' = [stream EXCEPT ![s] = "logged"]
      /\ queue' = queue \ {s}
      /\ UNCHANGED <<peer, connected, carried>>
  BY DEF OnLog, Becomes, host
<1>2. PICK i \in RequestInfo, j \in RequestInfo, q \in [MetricName -> Nat] :
         /\ LastInfo(s, i)
         /\ info' = [info EXCEPT ![s] = j]
         /\ recorded' = [recorded EXCEPT ![s] = q]
         /\ MetricsSound(metrics')
         /\ Accounts(s, TRUE, i, recorded[s], j, q)
  BY LogReports
<1>3. info'[s] = j /\ recorded'[s] = q /\ stream'[s] = "logged"
      /\ carried'[s] = carried[s] /\ connected'[s] = connected[s]
  BY <1>1, <1>2 DEF StreamInv
<1>4. Sane(s)'
  <2> DEFINE r == recorded[s]
  <2>1. Fits(s, info[s], r) /\ Routed(s, info[s])
    BY DEF StreamInv, Sane
  <2>2. Ended(s) = 0 /\ Ended(s)' = 1
    BY <1>1, <1>3 DEF Ended
  <2>3. /\ j.sent \in Nat /\ j.opened \in Nat /\ j.closed \in Nat /\ j.count \in Nat
        /\ i.sent \in Nat /\ i.opened \in Nat
        /\ carried[s] \in Nat /\ \A m \in MetricName : r[m] \in Nat /\ q[m] \in Nat
    BY Numbers DEF RequestInfo
  <2> HIDE DEF r
  <2>4. /\ j.sent <= carried[s] /\ j.last <= j.count /\ j.count <= carried[s]
        /\ j.opened <= 1 /\ j.closed <= 1
    BY <1>2, <2>1, <2>3 DEF Fits, LastInfo, Accounts
  <2>5. ASSUME Proto[s] = "TCP"
        PROVE  /\ q.tcp_sent_bytes_total + j.sent = carried[s]
               /\ q.tcp_connections_opened_total + j.opened = 1
               /\ q.tcp_connections_closed_total <= 1
    <3>1. /\ q.tcp_sent_bytes_total + j.sent = r.tcp_sent_bytes_total + i.sent
          /\ q.tcp_connections_opened_total + j.opened =
                r.tcp_connections_opened_total + i.opened
          /\ q.tcp_connections_closed_total <= r.tcp_connections_closed_total + 1
      BY <1>2, <2>5 DEF Accounts, Settled, r
    <3>2. /\ r.tcp_sent_bytes_total + i.sent = carried[s]
          /\ r.tcp_connections_opened_total + i.opened = 1
          /\ r.tcp_connections_closed_total <= 0
      BY <1>1, <1>2, <2>1, <2>2, <2>5 DEF Fits, LastInfo
    <3> QED
      BY <2>3, <3>1, <3>2, NamesIn
  <2>6. ASSUME Proto[s] # "TCP"
        PROVE  /\ MessagesKept => q.request_messages_total = j.last
               /\ q.requests_total <= 1
    <3>1. /\ MessagesKept /\ r.request_messages_total = i.last =>
                q.request_messages_total = j.last
          /\ q.requests_total <= r.requests_total + 1
      BY <1>2, <2>6 DEF Accounts, Settled, r
    <3>2. /\ MessagesKept => r.request_messages_total = i.last
          /\ r.requests_total <= 0
      BY <1>2, <2>1, <2>2, <2>6 DEF Fits, LastInfo
    <3> QED
      BY <2>3, <3>1, <3>2, NamesIn
  <2>7. \A m \in AlwaysKept : Proto[s] \notin DefaultMetrics[m].protocols => q[m] = 0
    BY <1>2, <2>1 DEF Fits, Accounts, Settled, r
  <2>8. Fits(s, info[s], recorded[s])'
    BY <1>3, <2>2, <2>4, <2>5, <2>6, <2>7 DEF Fits
  <2>9. Routed(s, info[s])'
    <3>1. CASE j.populated = i.populated /\ j.service = i.service
      BY <1>2, <1>3, <2>1, <3>1 DEF Routed, LastInfo
    <3>2. CASE j.service = Service(i, s)
      BY <1>3, <3>2, ServiceFound DEF Routed
    <3> QED
      BY <1>2, <3>1, <3>2 DEF Accounts
  <2> QED
    BY <2>8, <2>9 DEF Sane
<1>5. ASSUME NEW z \in Stream, z # s PROVE Sane(z)'
  BY <1>1, <1>2, <1>5, SaneAsBefore DEF StreamInv
<1>6. QueueLive'
  BY <1>1 DEF StreamInv, QueueLive
<1>7. IsFiniteSet(queue')
  BY <1>1, FS_Subset DEF StreamInv
<1>8. /\ info' \in [Stream -> RequestInfo] /\ recorded' \in [Stream -> [MetricName -> Nat]]
      /\ stream' \in [Stream -> {"new", "requested", "open", "logged"}]
  BY <1>1, <1>2 DEF StreamInv
<1> QED
  BY <1>1, <1>2, <1>4, <1>5, <1>6, <1>7, <1>8 DEF StreamInv, PeerAfterConnection, MetricsSound

----------------------------------------------------------------------------
(* The theorems *)

StatsInv == ConfigInv /\ StreamInv

\* The inductive invariant holds of the new plugin.
LEMMA StatsInitial == Init => StatsInv
<1> SUFFICES ASSUME Init PROVE StatsInv
  OBVIOUS
<1>1. ConfigInv
  <2>1. conf.stats = {} /\ conf.expressions = <<>> /\ conf.ints = {}
    BY DEF Init, Unconfigured
  <2>2. alive \in BOOLEAN /\ initialized \in BOOLEAN /\ useHost \in BOOLEAN /\ ~ initialized
    BY Zenon DEF Init
  <2>3. <<>> \in Seq(StringExpression)
    BY EmptySeq
  <2>4. TokensHeld
    BY <2>1 DEF Init, TokensHeld
  <2>5. loads \in 0 .. MaxConfigs
    BY StatsAssumption DEF Init
  <2> QED
    BY <2>1, <2>2, <2>3, <2>4, <2>5 DEF Init, ConfigInv
<1>2. StreamInv
  <2>1. NewRequestInfo \in RequestInfo
    BY DEF NewRequestInfo, RequestInfo, UrlHost, ServiceHost, ServiceName
  <2>2. /\ NewRequestInfo.sent = 0 /\ NewRequestInfo.opened = 0 /\ NewRequestInfo.closed = 0
        /\ NewRequestInfo.count = 0 /\ NewRequestInfo.last = 0
        /\ ~ NewRequestInfo.populated
    BY DEF NewRequestInfo
  <2>3. info \in [Stream -> RequestInfo] /\ recorded \in [Stream -> [MetricName -> Nat]]
    BY <2>1 DEF Init
  <2>4. ASSUME NEW s \in Stream PROVE Sane(s)
    <3>1. /\ info[s] = NewRequestInfo /\ stream[s] = "new" /\ carried[s] = 0
          /\ \A m \in MetricName : recorded[s][m] = 0
      BY DEF Init
    <3>2. Ended(s) = 0
      BY <3>1 DEF Ended
    <3>3. Fits(s, info[s], recorded[s])
      BY <2>2, <3>1, <3>2, NamesIn, KeptNames DEF Fits
    <3>4. Routed(s, info[s])
      BY <2>2, <3>1 DEF Routed
    <3> QED
      BY <3>3, <3>4 DEF Sane
  <2>5. MetricsSound(metrics)
    BY DEF Init, MetricsSound
  <2>6. QueueLive /\ IsFiniteSet(queue)
    BY FS_EmptySet DEF Init, QueueLive
  <2>7. connected \in [Stream -> BOOLEAN]
    BY Zenon DEF Init
  <2>8. PeerAfterConnection
    BY DEF Init, PeerAfterConnection
  <2>9. carried \in [Stream -> 0 .. MaxData]
    BY StatsAssumption DEF Init
  <2> QED
    BY <2>3, <2>4, <2>5, <2>6, <2>7, <2>8, <2>9 DEF Init, StreamInv
<1> QED
  BY <1>1, <1>2 DEF StatsInv

\* Every callback keeps the inductive invariant.
LEMMA StatsStep == StatsInv /\ [Next]_vars => StatsInv'
<1> SUFFICES ASSUME StatsInv, [Next]_vars PROVE StatsInv'
  OBVIOUS
<1>1. ConfigInv /\ StreamInv /\ ConfigInv'
  BY ConfigSteps DEF StatsInv
<1>2. ASSUME UNCHANGED <<metrics, queue, info, stream, host, recorded>> PROVE StreamInv'
  <2>1. UNCHANGED <<metrics, queue, info, stream, peer, connected, carried, recorded>>
    BY <1>2 DEF host
  <2>2. \A z \in Stream : Sane(z)'
    BY <1>1, <2>1, SaneAsBefore DEF StreamInv
  <2> QED
    BY <1>1, <2>1, <2>2 DEF StreamInv, QueueLive, MetricsSound, PeerAfterConnection
<1>3. ASSUME NEW c \in Config, ConfigureInvalid(c) \/ Configure(c) PROVE StreamInv'
  BY <1>2, <1>3 DEF ConfigureInvalid, Configure
<1>4. ASSUME OnDone PROVE StreamInv'
  BY <1>2, <1>4 DEF OnDone
<1>5. ASSUME UNCHANGED vars PROVE StreamInv'
  BY <1>2, <1>5 DEF vars
<1>6. ASSUME NEW s \in Stream,
             \/ OnNewConnection(s) \/ OnRequestHeaders(s) \/ OnResponseHeaders(s)
             \/ OnData(s) \/ OnLog(s) \/ Message(s) \/ PeerKnown(s) \/ Connect(s)
      PROVE  StreamInv'
  BY <1>1, <1>6, NewConnectionKeeps, RequestHeadersKeeps, ResponseHeadersKeeps, DataKeeps,
     LogKeeps, MessageKeeps, PeerKnownKeeps, ConnectKeeps
<1>7. StreamInv'
  BY <1>1, <1>3, <1>4, <1>5, <1>6, TickKeeps DEF Next
<1> QED
  BY <1>1, <1>7 DEF StatsInv

\* The inductive invariant holds in every reachable state.
LEMMA StatsInvariant == Spec => []StatsInv
BY StatsInitial, StatsStep, PTL DEF Spec

\* Over any sequence of configurations, good, partly good or not JSON, the host
\* holds the tokens of the expressions in force and no others, and none after onDone.
THEOREM StatsTokensHeld == Spec => []TokensHeld
<1>1. StatsInv => TokensHeld
  BY DEF StatsInv, ConfigInv
<1> QED
  BY <1>1, StatsInvariant, PTL

\* onTick reads the request infos of the running streams, of all of them and of no
\* others.
THEOREM StatsQueueLive == Spec => []QueueLive
<1>1. StatsInv => QueueLive
  BY DEF StatsInv, StreamInv
<1> QED
  BY <1>1, StatsInvariant, PTL

\* With a configuration whose parts are all of the kinds they should be, the plugin's
\* stats are those of the metrics that no override drops, and every tag of theirs leads
\* to the expression that the last override to mention it gives, or to its standard
\* label if none does; a tag removed last, or given an expression the host refuses, is
\* not there.  This holds for any number of metrics, tags and overrides, in whatever
\* order the factories are visited.
THEOREM StatsDimensionsAsConfigured == Spec => []DimensionsAsConfigured
<1>1. Init => Fulfilled
  BY DEF Init, Fulfilled
<1>2. ConfigInv /\ Fulfilled => DimensionsAsConfigured
  <2> SUFFICES ASSUME ConfigInv, Fulfilled PROVE DimensionsAsConfigured
    OBVIOUS
  <2> DEFINE Tags(c) == ToSet(DefaultTags) \cup
                        UNION {{c.metrics[i].dimensions[n].tag : n \in DOMAIN c.metrics[i].dimensions}
                               : i \in DOMAIN c.metrics}
  <2>1. ASSUME NEW c \in lastGood PROVE Tags(c) \subseteq Tag
    <3>1. c \in ConfigType
      BY StatsAssumption DEF ConfigInv
    <3>2. c.metrics \in Seq(Overriding)
      BY <3>1 DEF ConfigType, Overriding
    <3>3. ASSUME NEW i \in DOMAIN c.metrics, NEW n \in DOMAIN c.metrics[i].dimensions
          PROVE  c.metrics[i].dimensions[n].tag \in STRING
      <4> DEFINE d == c.metrics[i].dimensions
      <4>1. c.metrics[i] \in Overriding
        BY <3>2, ElementOfSeq, LenProperties
      <4>2. d \in Seq([tag : STRING, value : STRING])
        BY <4>1 DEF Overriding
      <4> HIDE DEF d
      <4>3. \A k \in DOMAIN d : d[k] \in [tag : STRING, value : STRING]
        BY <4>2, ElementOfSeq, LenProperties
      <4>4. \A k \in DOMAIN d : d[k].tag \in STRING
        BY <4>3
      <4> QED
        BY <4>4 DEF d
    <3> QED
      BY <3>3 DEF Tag
  <2>2. ASSUME NEW c \in lastGood, alive, WellFormed(c)
        PROVE  /\ {g.name : g \in conf.stats} = AskedFor(c)
               /\ \A g \in conf.stats : \A tag \in Tags(c) :
                     {LeadsTo(conf.expressions, g.indexes[n]) :
                         n \in {k \in DOMAIN g.tags : g.tags[k] = tag}}
                     = Sources(c, g.name, tag)
    <3> HIDE DEF Tags
    <3> QED
      BY <2>1, <2>2 DEF Fulfilled, Fulfils
  <2> QED
    BY <2>2, Zenon DEF DimensionsAsConfigured, AskedFor, LeadsTo
<1>3. Spec => []ConfigInv
  <2>1. StatsInv => ConfigInv
    BY DEF StatsInv
  <2> QED
    BY <2>1, StatsInvariant, PTL
<1>4. Spec => []Fulfilled
  BY <1>1, <1>3, FulfilledStays, PTL DEF Spec
<1> QED
  BY <1>2, <1>3, <1>4, PTL

\* The values of the variables; with them that every tag of a stat in force leads to
\* a dimension that reports have, and that the request infos stay within what the
\* streams carried.
THEOREM StatsTypeCorrect == Spec => []TypeOK
<1>1. StatsInv => TypeOK
  <2> SUFFICES ASSUME StatsInv PROVE TypeOK
    OBVIOUS
  <2>1. ConfigInv /\ StreamInv
    BY DEF StatsInv
  <2>2. \A d \in DOMAIN metrics : \A x \in metrics[d] : x.name \in MetricName
    BY <2>1, KeptNames DEF StreamInv, MetricsSound, Sound, AsDefault, AsDefined
  <2>3. queue \subseteq Stream
    BY <2>1 DEF StreamInv, QueueLive
  <2> DEFINE I == [sent : 0 .. MaxData, opened : 0 .. 1, closed : 0 .. 1,
                   count : 0 .. MaxData, last : 0 .. MaxData,
                   urlHost : UrlHost, populated : BOOLEAN,
                   service : [host : ServiceHost, name : ServiceName]]
  <2>4. ASSUME NEW s \in Stream PROVE info[s] \in I
    <3>1. info[s] \in RequestInfo
      BY <2>1, Numbers
    <3>2. Fits(s, info[s], recorded[s]) /\ carried[s] \in 0 .. MaxData /\ MaxData \in Nat
      BY <2>1, StatsAssumption DEF StreamInv, Sane
    <3>3. /\ info[s].sent \in 0 .. MaxData /\ info[s].count \in 0 .. MaxData
          /\ info[s].last \in 0 .. MaxData /\ info[s].opened \in 0 .. 1
          /\ info[s].closed \in 0 .. 1
      BY <2>1, <3>2, Numbers DEF Fits, Ended
    <3> QED
      BY <3>1, <3>3, Zenon DEF RequestInfo
  <2>5. info \in [Stream -> I]
    BY <2>1, <2>4 DEF StreamInv
  <2> HIDE DEF I
  <2>6. /\ alive \in BOOLEAN /\ initialized \in BOOLEAN /\ useHost \in BOOLEAN
        /\ connected \in [Stream -> BOOLEAN]
    BY <2>1 DEF ConfigInv, StreamInv
  <2>7. TypeOK <=>
          /\ alive \in BOOLEAN /\ initialized \in BOOLEAN /\ useHost \in BOOLEAN
          /\ loads \in 0 .. MaxConfigs /\ lastGood \subseteq Config
          /\ \A g \in conf.stats :
                /\ g.name \in MetricName
                /\ \A n \in DOMAIN g.tags : alive =>
                      g.indexes[n] \in 1 .. CountStandardLabels + Len(conf.expressions)
          /\ \A d \in DOMAIN metrics : \A x \in metrics[d] : x.name \in MetricName
          /\ queue \subseteq Stream
          /\ info \in [Stream -> I]
          /\ live \subseteq 1 .. next - 1
          /\ stream \in [Stream -> {"new", "requested", "open", "logged"}]
          /\ peer \in [Stream -> {"waiting", "found", "none"}]
          /\ connected \in [Stream -> BOOLEAN]
          /\ carried \in [Stream -> 0 .. MaxData]
          /\ recorded \in [Stream -> [MetricName -> Nat]]
    BY Zenon DEF TypeOK, I
  <2> QED
    BY <2>1, <2>2, <2>3, <2>5, <2>6, <2>7 DEF ConfigInv, StreamInv
<1> QED
  BY <1>1, StatsInvariant, PTL

\* What a stream carries is recorded once, however reports, the peer's metadata and
\* configurations interleave.  A configuration may redefine request_messages_total,
\* and that metric then counts something else.
THEOREM StatsCountedOnce ==
    ASSUME MessagesKept
    PROVE  Spec => []CountedOnce
<1>1. StatsInv => CountedOnce
  <2> SUFFICES ASSUME StatsInv, NEW s \in Stream
               PROVE  LET ended == IF stream[s] = "logged" THEN 1 ELSE 0
                      IN  /\ Proto[s] = "TCP" =>
                                /\ recorded[s].tcp_sent_bytes_total + info[s].sent = carried[s]
                                /\ recorded[s].tcp_connections_opened_total + info[s].opened =
                                      IF stream[s] = "new" THEN 0 ELSE 1
                                /\ recorded[s].tcp_connections_closed_total <= ended
                          /\ Proto[s] # "TCP" =>
                                /\ recorded[s].request_messages_total = info[s].last
                                /\ info[s].last <= carried[s]
                                /\ recorded[s].requests_total <= ended
    BY DEF CountedOnce
  <2>1. StreamInv /\ Fits(s, info[s], recorded[s])
    BY DEF StatsInv, StreamInv, Sane
  <2>2. info[s].last <= carried[s]
    BY <2>1, Numbers DEF Fits
  <2> QED
    BY <2>1, <2>2 DEF Fits, Ended
<1> QED
  BY <1>1, StatsInvariant, PTL

\* Only onLog ends a stream.
LEMMA LoggedByOnLog ==
    ASSUME StreamInv, [Next]_vars, NEW s \in Stream,
           stream[s] # "logged", stream'[s] = "logged"
    PROVE  OnLog(s)
<1>1. stream \in [Stream -> {"new", "requested", "open", "logged"}]
  BY DEF StreamInv
<1>2. ASSUME NEW z \in Stream,
             OnNewConnection(z) \/ OnRequestHeaders(z) \/ OnResponseHeaders(z) \/ OnLog(z)
      PROVE  OnLog(s)
  BY <1>1, <1>2 DEF OnNewConnection, OnRequestHeaders, OnResponseHeaders, OnLog, Becomes
<1>3. stream' # stream
  OBVIOUS
<1> QED
  BY <1>2, <1>3 DEF Next, vars, ConfigureInvalid, Configure, OnData, Message, PeerKnown,
                    Connect, OnTick, OnDone

\* With its last report a stream has recorded all it carried, also if the peer never
\* became known, it was never ticked, or its dimensions were resolved under an
\* earlier configuration.
THEOREM StatsFinalReport == Spec => FinalReportComplete
<1>1. ASSUME StatsInv, [Next]_vars, NEW s \in Stream,
             stream[s] # "logged", stream'[s] = "logged", initialized,
             NEW m \in AlwaysKept
      PROVE  recorded'[s][m] = Totals(s)[m]
  <2>1. ConfigInv /\ StreamInv
    BY <1>1 DEF StatsInv
  <2>2. OnLog(s)
    BY <1>1, <2>1, LoggedByOnLog
  <2>3. PICK i \in RequestInfo, j \in RequestInfo, q \in [MetricName -> Nat] :
           /\ LastInfo(s, i)
           /\ recorded' = [recorded EXCEPT ![s] = q]
           /\ Accounts(s, TRUE, i, recorded[s], j, q)
           /\ Completes(s, i, recorded[s], j, q)
    BY <1>1, <2>1, <2>2, LogReports
  <2>4. PICK k \in RequestInfo : PopulatedFrom(k, i, s) /\ Emptied(Proto[s], k, recorded[s], j, q)
    BY <2>3 DEF Completes
  <2> DEFINE r == recorded[s]
  <2>5. recorded'[s] = q
    BY <2>1, <2>3 DEF StreamInv
  <2>6. stream[s] \in {"requested", "open"} /\ Ended(s) = 0
    BY <1>1, <2>2 DEF OnLog, Ended
  <2>7. Fits(s, info[s], r)
    BY <2>1 DEF StreamInv, Sane
  <2>8. Settled(Proto[s], TRUE, i, r, j, q)
    BY <2>3 DEF Accounts
  <2>9. /\ \A x \in MetricName : r[x] \in Nat /\ q[x] \in Nat
        /\ i.sent \in Nat /\ i.opened \in Nat /\ carried[s] \in Nat
        /\ j.sent \in Nat /\ j.opened \in Nat
    BY <2>1, Numbers DEF RequestInfo
  <2> HIDE DEF r
  <2>10. CASE Proto[s] \notin DefaultMetrics[m].protocols
    <3>1. q[m] = 0
      BY <2>7, <2>8, <2>10 DEF Fits, Settled
    <3>2. Totals(s)[m] = 0
      BY <2>10, DefaultNames, KeptNames, StatsAssumption DEF Totals, Http
    <3> QED
      BY <2>5, <3>1, <3>2
  <2>11. CASE Proto[s] \in DefaultMetrics[m].protocols
    <3>1. CASE m = "tcp_sent_bytes_total"
      <4>1. Proto[s] = "TCP"
        BY <2>11, <3>1, DefaultNames
      <4>2. j.sent = 0 /\ q.tcp_sent_bytes_total + j.sent = r.tcp_sent_bytes_total + i.sent
            /\ r.tcp_sent_bytes_total + i.sent = carried[s]
        BY <2>3, <2>4, <2>7, <2>8, <2>11, <3>1, <4>1 DEF Emptied, Settled, Fits, LastInfo
      <4>3. q.tcp_sent_bytes_total = carried[s]
        BY <2>9, <4>2, NamesIn
      <4> QED
        BY <2>5, <3>1, <4>1, <4>3 DEF Totals
    <3>2. CASE m = "tcp_connections_opened_total"
      <4>1. Proto[s] = "TCP"
        BY <2>11, <3>2, DefaultNames
      <4>2. j.opened = 0
            /\ q.tcp_connections_opened_total + j.opened =
                  r.tcp_connections_opened_total + i.opened
            /\ r.tcp_connections_opened_total + i.opened = 1
        BY <2>3, <2>4, <2>6, <2>7, <2>8, <2>11, <3>2, <4>1
           DEF Emptied, Settled, Fits, LastInfo
      <4>3. q.tcp_connections_opened_total = 1
        BY <2>9, <4>2, NamesIn
      <4> QED
        BY <2>5, <3>2, <4>1, <4>3 DEF Totals
    <3>3. CASE m = "tcp_connections_closed_total"
      <4>1. Proto[s] = "TCP"
        BY <2>11, <3>3, DefaultNames
      <4>2. r.tcp_connections_closed_total <= 0 /\ k.closed = 1
            /\ q.tcp_connections_closed_total = r.tcp_connections_closed_total + k.closed
        BY <2>3, <2>4, <2>6, <2>7, <2>11, <3>3, <4>1
           DEF Emptied, Fits, LastInfo, PopulatedFrom, r
      <4>3. q.tcp_connections_closed_total = 1
        BY <2>9, <4>2, NamesIn
      <4> QED
        BY <2>5, <3>3, <4>1, <4>3 DEF Totals
    <3>4. CASE m = "request_messages_total"
      <4>1. Proto[s] = "GRPC" /\ Proto[s] # "TCP"
        BY <2>11, <3>4, DefaultNames
      <4>2. MessagesKept
        BY <3>4, KeptNames DEF MessagesKept
      <4>3. r.request_messages_total = i.last
        BY <2>3, <2>7, <4>1, <4>2 DEF Fits, LastInfo
      <4>4. q.request_messages_total = j.last
        BY <2>8, <4>1, <4>2, <4>3 DEF Settled
      <4>5. j.last = carried[s]
        BY <2>4, <2>11, <3>4, <4>1 DEF Emptied, PopulatedFrom
      <4> QED
        BY <2>5, <3>4, <4>1, <4>4, <4>5 DEF Totals
    <3>5. CASE m = "requests_total"
      <4>1. Proto[s] # "TCP"
        BY <2>11, <3>5, DefaultNames, ExclusiveProtocols
      <4>2. r.requests_total <= 0 /\ q.requests_total = r.requests_total + 1
        BY <2>4, <2>6, <2>7, <2>11, <3>5, <4>1 DEF Emptied, Fits, r
      <4>3. q.requests_total = 1
        BY <2>9, <4>2, NamesIn
      <4> QED
        BY <2>5, <3>5, <4>1, <4>3 DEF Totals
    <3> QED
      BY <3>1, <3>2, <3>3, <3>4, <3>5, KeptNames, DefaultNames
  <2> QED
    BY <2>10, <2>11
<1>2. StatsInv /\ [Next]_vars =>
        [\A s \in Stream :
           stream[s] # "logged" /\ stream'[s] = "logged" /\ initialized =>
              \A m \in AlwaysKept : recorded'[s][m] = Totals(s)[m]]_vars
  BY <1>1
<1> QED
  BY <1>2, StatsInvariant, PTL DEF Spec, FinalReportComplete

\* A stream of an outbound listener that ends with its cluster known is reported
\* under the service of its route or cluster, whichever of ticks, peer metadata and
\* the connection came first: its service was found after the connection, because
\* the peer is known only then and reports of TCP streams wait for the peer.
THEOREM StatsServiceAsRouted ==
    ASSUME Outbound
    PROVE  Spec => ServiceAsRouted
<1>1. ASSUME StatsInv, [Next]_vars, NEW s \in Stream,
             stream[s] # "logged", stream'[s] = "logged", initialized, connected[s]
      PROVE  RoutedName(s, info'[s].service)
  <2>1. ConfigInv /\ StreamInv
    BY <1>1 DEF StatsInv
  <2>2. OnLog(s)
    BY <1>1, <2>1, LoggedByOnLog
  <2>3. PICK i \in RequestInfo, j \in RequestInfo, q \in [MetricName -> Nat] :
           /\ LastInfo(s, i)
           /\ info' = [info EXCEPT ![s] = j]
           /\ Completes(s, i, recorded[s], j, q)
    BY <1>1, <2>1, <2>2, LogReports
  <2>4. info'[s] = j
    BY <2>1, <2>3 DEF StreamInv
  <2>5. j.service = IF i.populated THEN i.service ELSE Service(i, s)
    BY <2>3 DEF Completes, PopulatedFrom
  <2>6. CASE i.populated
    <3>1. i.service = info[s].service /\ info[s].populated
      BY <2>3, <2>6 DEF LastInfo
    <3>2. Routed(s, info[s])
      BY <2>1 DEF StreamInv, Sane
    <3> QED
      BY <1>1, <2>4, <2>5, <2>6, <3>1, <3>2 DEF Routed
  <2>7. CASE ~ i.populated
    BY <1>1, <2>4, <2>5, <2>7, ServiceFound
  <2> QED
    BY <2>6, <2>7
<1>2. StatsInv /\ [Next]_vars =>
        [\A s \in Stream :
           stream[s] # "logged" /\ stream'[s] = "logged" /\ initialized /\ connected[s] =>
              LET u == Upstream[s]
              IN  info'[s].service.name =
                    IF u.route \in DOMAIN RouteCluster THEN RouteCluster[u.route]
                    ELSE IF u.cluster \in NamedCluster THEN u.cluster
                    ELSE IF u.services THEN "service"
                    ELSE info'[s].service.host]_vars
  BY <1>1 DEF RoutedName
<1> QED
  BY <1>2, StatsInvariant, PTL DEF Spec, ServiceAsRouted

=============================================================================
