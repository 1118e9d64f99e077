------------------------- MODULE AttributeGenProofs -------------------------
(***************************************************************************)
(* Proofs about the attributegen plugin, for any streams, any set of       *)
(* configurations and any number of them loaded one after the other.       *)
(***************************************************************************)
EXTENDS AttributeGen, FiniteSetTheorems, FunctionTheorems, SequenceTheorems,
    DataProofs, TLAPS

\* The number of expressions created before that of the match p.
Rank(c, p) == Cardinality({q \in Conditional(c) : Before(q, p)})

\* The parts of a configuration have their types.
LEMMA ConfigType ==
    ASSUME NEW c \in Config
    PROVE  /\ c.attributes \in Seq(Generation)
           /\ Len(c.attributes) \in Nat /\ DOMAIN c.attributes = 1 .. Len(c.attributes)
           /\ \A a \in DOMAIN c.attributes :
                 /\ c.attributes[a] \in Generation
                 /\ c.attributes[a].match \in Seq(Match)
                 /\ Len(c.attributes[a].match) \in Nat
                 /\ DOMAIN c.attributes[a].match = 1 .. Len(c.attributes[a].match)
                 /\ \A m \in DOMAIN c.attributes[a].match : c.attributes[a].match[m] \in Match
<1>1. c.attributes \in Seq(Generation)
  BY AttributeGenAssumption
<1>2. Len(c.attributes) \in Nat /\ DOMAIN c.attributes = 1 .. Len(c.attributes)
      /\ c.attributes \in [1 .. Len(c.attributes) -> Generation]
  BY <1>1, LenProperties
<1>3. ASSUME NEW a \in DOMAIN c.attributes
      PROVE  /\ c.attributes[a] \in Generation
             /\ c.attributes[a].match \in Seq(Match)
             /\ Len(c.attributes[a].match) \in Nat
             /\ DOMAIN c.attributes[a].match = 1 .. Len(c.attributes[a].match)
             /\ \A m \in DOMAIN c.attributes[a].match : c.attributes[a].match[m] \in Match
  <2>1. c.attributes[a] \in Generation
    BY <1>2
  <2>2. c.attributes[a].match \in Seq(Match)
    BY <2>1 DEF Generation
  <2> QED
    BY <2>1, <2>2, LenProperties
<1> QED
  BY <1>1, <1>2, <1>3

\* The members of Conditional are pairs of an attribute and a match.
LEMMA ConditionalPair ==
    ASSUME NEW c, NEW p \in Conditional(c)
    PROVE  \E a \in DOMAIN c.attributes : \E m \in DOMAIN c.attributes[a].match : p = <<a, m>>
<1>1. PICK a \in DOMAIN c.attributes : p \in {a} \X DOMAIN c.attributes[a].match
  BY DEF Conditional
<1> QED
  BY <1>1

\* A match needs an expression exactly if it has a condition.
LEMMA ConditionalMember ==
    ASSUME NEW c, NEW a \in DOMAIN c.attributes, NEW m \in DOMAIN c.attributes[a].match
    PROVE  <<a, m>> \in Conditional(c) <=> c.attributes[a].match[m].condition # ""
<1>1. <<a, m>> \in UNION {{b} \X DOMAIN c.attributes[b].match : b \in DOMAIN c.attributes}
  OBVIOUS
<1> QED
  BY <1>1 DEF Conditional

\* The matches that need an expression are finitely many.
LEMMA ConditionalFinite ==
    ASSUME NEW c \in Config
    PROVE  /\ IsFiniteSet(Conditional(c))
           /\ Conditional(c) \subseteq Nat \X Nat
<1> DEFINE A == DOMAIN c.attributes
           Row == [a \in A |-> {a} \X DOMAIN c.attributes[a].match]
           Rows == {{a} \X DOMAIN c.attributes[a].match : a \in A}
<1>1. IsFiniteSet(A)
  BY ConfigType, FS_Interval
<1>2. \A a \in A : IsFiniteSet({a} \X DOMAIN c.attributes[a].match)
  <2> SUFFICES ASSUME NEW a \in A PROVE IsFiniteSet({a} \X DOMAIN c.attributes[a].match)
    OBVIOUS
  <2>1. /\ Len(c.attributes[a].match) \in Int
        /\ DOMAIN c.attributes[a].match = 1 .. Len(c.attributes[a].match)
    BY ConfigType
  <2>2. IsFiniteSet(1 .. Len(c.attributes[a].match))
    BY <2>1, FS_Interval
  <2>3. IsFiniteSet({a}) /\ IsFiniteSet(DOMAIN c.attributes[a].match)
    BY <2>1, <2>2, FS_Singleton
  <2> QED
    BY <2>3, FS_Product
<1>3. Row \in Surjection(A, Rows)
  BY DEF Surjection
<1>4. IsFiniteSet(Rows)
  BY <1>1, <1>3, FS_Surjection
<1>5. IsFiniteSet(UNION Rows)
  BY <1>2, <1>4, FS_UNION
<1>6. Conditional(c) \in SUBSET UNION Rows
  BY DEF Conditional
<1>7. UNION Rows \subseteq Nat \X Nat
  BY ConfigType
<1> QED
  BY <1>5, <1>6, <1>7, FS_Subset

\* Before is a strict total order of the matches.
LEMMA BeforeOrder ==
    ASSUME NEW p \in Nat \X Nat, NEW q \in Nat \X Nat
    PROVE  /\ ~ Before(p, p)
           /\ p = q \/ Before(p, q) \/ Before(q, p)
           /\ \A r \in Nat \X Nat : Before(r, p) /\ Before(p, q) => Before(r, q)
  BY DEF Before

\* Different expressions have different ranks, below their number.
LEMMA RankType ==
    ASSUME NEW c \in Config, NEW p \in Conditional(c)
    PROVE  Rank(c, p) \in Nat /\ Rank(c, p) < Cardinality(Conditional(c))
           /\ Cardinality(Conditional(c)) \in Nat
<1> DEFINE B == {q \in Conditional(c) : Before(q, p)}
<1>1. IsFiniteSet(Conditional(c)) /\ B \in SUBSET Conditional(c)
  BY ConditionalFinite
<1>2. p \notin B
  BY ConditionalFinite, BeforeOrder
<1>3. IsFiniteSet(B) /\ Cardinality(B) <= Cardinality(Conditional(c))
      /\ Cardinality(B) # Cardinality(Conditional(c))
  BY <1>1, <1>2, FS_Subset
<1>4. Cardinality(B) \in Nat /\ Cardinality(Conditional(c)) \in Nat
  BY <1>1, <1>3, FS_CardinalityType
<1> QED
  BY <1>3, <1>4 DEF Rank

\* An expression created earlier has a smaller rank.
LEMMA RankMonotonic ==
    ASSUME NEW c \in Config, NEW p \in Conditional(c), NEW q \in Conditional(c), Before(p, q)
    PROVE  Rank(c, p) < Rank(c, q)
<1> DEFINE B == {r \in Conditional(c) : Before(r, p)}
           D == {r \in Conditional(c) : Before(r, q)}
<1>1. IsFiniteSet(D)
  BY ConditionalFinite, FS_Subset
<1>2. B \in SUBSET D
  BY ConditionalFinite, BeforeOrder
<1>3. p \in D /\ p \notin B
  BY ConditionalFinite, BeforeOrder
<1>4. IsFiniteSet(B) /\ Cardinality(B) <= Cardinality(D) /\ Cardinality(B) # Cardinality(D)
  <2> HIDE DEF B, D
  <2> QED
    BY <1>1, <1>2, <1>3, FS_Subset
<1>5. Cardinality(B) \in Nat /\ Cardinality(D) \in Nat
  BY <1>1, <1>4, FS_CardinalityType
<1> QED
  BY <1>4, <1>5 DEF Rank

\* No two conditions have the same place in the order of creation.
LEMMA RankInjective ==
    ASSUME NEW c \in Config, NEW p \in Conditional(c), NEW q \in Conditional(c),
           Rank(c, p) = Rank(c, q)
    PROVE  p = q
<1>1. p = q \/ Before(p, q) \/ Before(q, p)
  BY ConditionalFinite, BeforeOrder
<1>2. Rank(c, p) \in Nat
  BY RankType
<1> QED
  BY <1>1, <1>2, RankMonotonic

----------------------------------------------------------------------------
(* The inductive invariant *)

\* What initAttributeGen makes of the match m of attribute a when the host's
\* next expression is base.
MatchFrom(c, a, m, base) ==
    [condition |-> c.attributes[a].match[m].condition,
     token |-> IF <<a, m>> \in Conditional(c) THEN base + Rank(c, <<a, m>>) ELSE 0,
     value |-> c.attributes[a].match[m].value]

\* The generators and the expressions of the configuration c.
Installed(c, base, g, t) ==
    /\ g = [a \in DOMAIN c.attributes |->
              [phase |-> c.attributes[a].phase,
               output |-> c.attributes[a].output,
               matches |-> [m \in DOMAIN c.attributes[a].match |-> MatchFrom(c, a, m, base)]]]
    /\ t = {base + Rank(c, p) : p \in Conditional(c)}

\* The generators are those of the last configuration that parsed, unless it was
\* rejected, and none otherwise.
GenInv ==
    \/ /\ gen = <<>> /\ tokens = {}
       /\ alive => \A c \in parsed : Refused(c) # {}
    \/ \E c \in Config, base \in Nat : parsed = {c} /\ Refused(c) = {} /\ Installed(c, base, gen, tokens)

\* The part of TypeOK that is not about the streams' attributes.
ConfigTypeOK ==
    /\ alive \in BOOLEAN
    /\ loads \in 0 .. MaxConfigs /\ parsed \subseteq Config
    /\ next \in Nat \ {0}
    /\ tokens \subseteq 1 .. next - 1
    /\ configErrors \in 0 .. loads
    /\ stream \in [Stream -> {"new", "running", "logged"}]

\* A stream runs in a plugin that is not done.
RunningAlive == \A s \in Stream : stream[s] = "running" => alive

\* TokensExact is not inductive: which token a match has follows from the
\* configuration the generators come from, and that the ones to come are new
\* from the bound on the ones in use.
ConfigInv ==
    /\ ConfigTypeOK
    /\ GenInv
    /\ live = tokens
    /\ RunningAlive

\* The initial state.
LEMMA ConfigInvInit == Init => ConfigInv
<1> SUFFICES ASSUME Init PROVE ConfigInv
  OBVIOUS
<1>1. ConfigTypeOK
  BY AttributeGenAssumption DEF Init, ConfigTypeOK
<1> QED
  BY <1>1 DEF Init, ConfigInv, GenInv, RunningAlive

\* A configuration that is accepted, with the expressions it creates.
LEMMA ConfigInvConfigure ==
    ASSUME ConfigInv, NEW c \in Config, Configure(c)
    PROVE  ConfigInv'
<1>1. Refused(c) = {} /\ Created(c) = Conditional(c)
  BY DEF Configure, Created
<1>2. next \in Nat \ {0} /\ next' = next + Cardinality(Conditional(c))
  BY <1>1 DEF Configure, ConfigInv, ConfigTypeOK
<1>3. Cardinality(Conditional(c)) \in Nat
  BY ConditionalFinite, FS_CardinalityType
<1>4. tokens' = {next + Rank(c, p) : p \in Conditional(c)}
  BY <1>1 DEF Configure, Token, Rank
<1>5. gen' = [a \in DOMAIN c.attributes |->
                [phase |-> c.attributes[a].phase,
                 output |-> c.attributes[a].output,
                 matches |-> [m \in DOMAIN c.attributes[a].match |-> MatchFrom(c, a, m, next)]]]
  BY DEF Configure, Generators, TokenMatches, TokenMatch, Token, MatchFrom, Rank
<1>6. live' = tokens'
  BY DEF Configure, ConfigInv
<1>7. parsed' = {c} /\ alive' = alive /\ stream' = stream
  BY DEF Configure
<1>8. GenInv'
  <2>1. Installed(c, next, gen', tokens')
    BY <1>4, <1>5 DEF Installed
  <2> QED
    BY <1>1, <1>2, <1>7, <2>1 DEF GenInv
<1>9. ConfigTypeOK'
  <2>1. tokens' \subseteq 1 .. next' - 1
    <3> SUFFICES ASSUME NEW p \in Conditional(c) PROVE next + Rank(c, p) \in 1 .. next' - 1
      BY <1>4
    <3>1. Rank(c, p) \in Nat /\ Rank(c, p) < Cardinality(Conditional(c))
      BY RankType
    <3> QED
      BY <1>2, <1>3, <3>1
  <2>2. next' \in Nat \ {0}
    BY <1>2, <1>3
  <2>3. loads' \in 0 .. MaxConfigs /\ configErrors' \in 0 .. loads'
    BY AttributeGenAssumption DEF Configure, ConfigInv, ConfigTypeOK
  <2> QED
    BY <1>7, <2>1, <2>2, <2>3 DEF ConfigInv, ConfigTypeOK
<1> QED
  BY <1>6, <1>7, <1>8, <1>9 DEF ConfigInv, RunningAlive

\* A configuration that is rejected leaves no expression.
LEMMA ConfigInvRejected ==
    ASSUME ConfigInv, NEW c \in Config, ConfigureRejected(c)
    PROVE  ConfigInv'
<1>1. /\ Refused(c) # {} /\ parsed' = {c} /\ gen' = <<>> /\ tokens' = {}
      /\ next' = next + Cardinality(Created(c))
      /\ UNCHANGED <<alive, stream>>
  BY DEF ConfigureRejected
<1>2. live' = {}
  BY DEF ConfigureRejected, ConfigInv
<1>3. Cardinality(Created(c)) \in Nat
  <2>1. Created(c) \in SUBSET Conditional(c)
    BY DEF Created
  <2> QED
    BY <2>1, ConditionalFinite, FS_Subset, FS_CardinalityType
<1>4. loads' \in 0 .. MaxConfigs /\ configErrors' \in 0 .. loads'
  BY AttributeGenAssumption DEF ConfigureRejected, ConfigInv, ConfigTypeOK
<1>5. ConfigTypeOK'
  BY <1>1, <1>3, <1>4 DEF ConfigInv, ConfigTypeOK
<1> QED
  BY <1>1, <1>2, <1>5 DEF ConfigInv, GenInv, RunningAlive

\* Every callback keeps the invariant.
LEMMA ConfigInvNext == ConfigInv /\ [Next]_vars => ConfigInv'
<1> SUFFICES ASSUME ConfigInv, [Next]_vars PROVE ConfigInv'
  OBVIOUS
<1>1. ASSUME NEW c \in Config, ConfigureUnparsable(c) PROVE ConfigInv'
  <2>1. UNCHANGED <<alive, parsed, gen, tokens, live, next, stream>>
    BY <1>1 DEF ConfigureUnparsable
  <2>2. loads' \in 0 .. MaxConfigs /\ configErrors' \in 0 .. loads'
    BY <1>1, AttributeGenAssumption DEF ConfigureUnparsable, ConfigInv, ConfigTypeOK
  <2> QED
    BY <2>1, <2>2 DEF ConfigInv, ConfigTypeOK, GenInv, Installed, RunningAlive
<1>2. ASSUME NEW c \in Config, ConfigureRejected(c) PROVE ConfigInv'
  BY <1>2, ConfigInvRejected
<1>3. ASSUME NEW c \in Config, Configure(c) PROVE ConfigInv'
  BY <1>3, ConfigInvConfigure
<1>4. ASSUME NEW s \in Stream, NEW outcome \in Outcome, OnRequestHeaders(s, outcome)
      PROVE  ConfigInv'
  <2>1. UNCHANGED <<alive, config>> /\ alive /\ stream' = [stream EXCEPT ![s] = "running"]
    BY <1>4 DEF OnRequestHeaders, RunGenerators
  <2> QED
    BY <2>1 DEF config, ConfigInv, ConfigTypeOK, GenInv, Installed, RunningAlive
<1>5. ASSUME NEW s \in Stream, NEW outcome \in Outcome, OnLog(s, outcome)
      PROVE  ConfigInv'
  <2>1. UNCHANGED <<alive, config>> /\ stream' = [stream EXCEPT ![s] = "logged"]
    BY <1>5 DEF OnLog, RunGenerators
  <2> QED
    BY <2>1 DEF config, ConfigInv, ConfigTypeOK, GenInv, Installed, RunningAlive
<1>6. CASE OnDone
  BY <1>6 DEF OnDone, ConfigInv, ConfigTypeOK, GenInv, RunningAlive
<1>7. CASE UNCHANGED vars
  BY <1>7 DEF vars, config, ConfigInv, ConfigTypeOK, GenInv, Installed, RunningAlive
<1> QED
  BY <1>1, <1>2, <1>3, <1>4, <1>5, <1>6, <1>7 DEF Next

\* The tokens of the generators are the ones held, each used once.
LEMMA InstalledExact ==
    ASSUME ConfigInv
    PROVE  TokensExact
<1>1. CASE gen = <<>> /\ tokens = {}
  BY <1>1 DEF TokensExact, ConfigInv
<1>2. ASSUME NEW c \in Config, NEW base \in Nat, Installed(c, base, gen, tokens)
      PROVE  TokensExact
  <2> DEFINE Used(a) == {m \in DOMAIN gen[a].matches : gen[a].matches[m].condition # ""}
  <2>1. /\ DOMAIN gen = DOMAIN c.attributes
        /\ \A a \in DOMAIN gen :
             /\ DOMAIN gen[a].matches = DOMAIN c.attributes[a].match
             /\ \A m \in DOMAIN gen[a].matches : gen[a].matches[m] = MatchFrom(c, a, m, base)
    BY <1>2 DEF Installed
  <2>2. ASSUME NEW a \in DOMAIN gen, NEW m \in DOMAIN gen[a].matches
        PROVE  /\ m \in Used(a) <=> <<a, m>> \in Conditional(c)
               /\ m \in Used(a) => gen[a].matches[m].token = base + Rank(c, <<a, m>>)
    <3>1. gen[a].matches[m] = MatchFrom(c, a, m, base)
      BY <2>1
    <3>2. /\ gen[a].matches[m].condition = c.attributes[a].match[m].condition
          /\ <<a, m>> \in Conditional(c) => gen[a].matches[m].token = base + Rank(c, <<a, m>>)
      BY <3>1 DEF MatchFrom
    <3>3. m \in Used(a) <=> c.attributes[a].match[m].condition # ""
      BY <3>2
    <3>4. <<a, m>> \in Conditional(c) <=> c.attributes[a].match[m].condition # ""
      BY <2>1, ConditionalMember
    <3> QED
      BY <3>2, <3>3, <3>4
  <2>3. \A p \in Conditional(c) : \E a \in DOMAIN gen : \E m \in Used(a) : p = <<a, m>>
    <3> SUFFICES ASSUME NEW p \in Conditional(c)
                 PROVE  \E a \in DOMAIN gen : \E m \in Used(a) : p = <<a, m>>
      OBVIOUS
    <3>1. PICK a \in DOMAIN gen : \E m \in DOMAIN gen[a].matches : p = <<a, m>>
      BY <2>1, ConditionalPair
    <3>2. PICK m \in DOMAIN gen[a].matches : p = <<a, m>>
      BY <3>1
    <3>3. m \in Used(a)
      BY <2>2, <3>2
    <3> QED
      BY <3>2, <3>3
  <2>4. \A a \in DOMAIN gen : Used(a) \subseteq DOMAIN gen[a].matches
    OBVIOUS
  <2> HIDE DEF Used
  <2>5. tokens = UNION {{gen[a].matches[m].token : m \in Used(a)} : a \in DOMAIN gen}
    <3>1. tokens = {base + Rank(c, p) : p \in Conditional(c)}
      BY <1>2 DEF Installed
    <3> DEFINE U == UNION {{gen[a].matches[m].token : m \in Used(a)} : a \in DOMAIN gen}
    <3>2. ASSUME NEW p \in Conditional(c) PROVE base + Rank(c, p) \in U
      <4>1. PICK a \in DOMAIN gen : \E m \in Used(a) : p = <<a, m>>
        BY <2>3
      <4>2. PICK m \in Used(a) : p = <<a, m>>
        BY <4>1
      <4>3. base + Rank(c, p) = gen[a].matches[m].token
        BY <2>2, <2>4, <4>2
      <4> QED
        BY <4>3
    <3>3. ASSUME NEW a \in DOMAIN gen, NEW m \in Used(a)
          PROVE  gen[a].matches[m].token \in tokens
      BY <2>2, <2>4, <3>1
    <3> QED
      BY <3>1, <3>2, <3>3
  <2>6. ASSUME NEW a \in DOMAIN gen, NEW b \in DOMAIN gen, NEW m \in Used(a), NEW n \in Used(b),
               gen[a].matches[m].token = gen[b].matches[n].token
        PROVE  a = b /\ m = n
    <3>1. /\ <<a, m>> \in Conditional(c) /\ <<b, n>> \in Conditional(c)
          /\ base + Rank(c, <<a, m>>) = base + Rank(c, <<b, n>>)
      BY <2>2, <2>4, <2>6
    <3>2. Rank(c, <<a, m>>) = Rank(c, <<b, n>>)
      BY <3>1, RankType
    <3>3. <<a, m>> = <<b, n>>
      BY <3>1, <3>2, RankInjective
    <3> QED
      BY <3>3
  <2> QED
    BY <2>5, <2>6 DEF TokensExact, ConfigInv, Used
<1> QED
  BY <1>1, <1>2 DEF ConfigInv, GenInv

\* The host holds one expression for each condition in use and no other, after
\* any sequence of good, rejected and unparsable configurations.
THEOREM AttributeGenTokens == Spec => []TokensExact
<1> QED
  BY ConfigInvInit, ConfigInvNext, InstalledExact, PTL DEF Spec

----------------------------------------------------------------------------
(* Evaluating the generators *)

\* What a match of the configuration evaluates to while its expression lives.
Status(c, a, i, outcome) ==
    LET m == c.attributes[a].match[i]
    IN  IF m.condition = "" THEN "true" ELSE outcome[m.condition]

\* The expressions of the generators in use live, so no match is an error but by
\* its outcome.
LEMMA InstalledEvaluate ==
    ASSUME NEW c \in Config, NEW base \in Nat, Refused(c) = {},
           Installed(c, base, gen, tokens), live = tokens, NEW outcome \in Outcome,
           NEW a \in DOMAIN c.attributes, NEW i \in DOMAIN c.attributes[a].match
    PROVE  /\ MatchEvaluate(gen[a].matches[i], outcome) = Status(c, a, i, outcome)
           /\ Status(c, a, i, outcome) \in {"true", "false", "error"}
<1> DEFINE m == c.attributes[a].match[i]
<1>1. gen[a].matches[i] = MatchFrom(c, a, i, base)
  BY DEF Installed
<1>2. /\ gen[a].matches[i].condition = m.condition
      /\ <<a, i>> \in Conditional(c) => gen[a].matches[i].token = base + Rank(c, <<a, i>>)
  BY <1>1 DEF MatchFrom
<1>3. CASE m.condition = ""
  BY <1>2, <1>3 DEF MatchEvaluate, Status
<1>4. CASE m.condition # ""
  <2>1. <<a, i>> \in Conditional(c)
    BY <1>4, ConditionalMember
  <2>2. gen[a].matches[i].token \in live
    BY <1>2, <2>1 DEF Installed
  <2>3. m.condition \notin BadCondition
    BY <2>1 DEF Refused
  <2>4. m.condition \in Condition
    <3>1. c.attributes[a] \in Attributes
      BY DEF Attributes, ToSet
    <3>2. m \in ToSet(c.attributes[a].match)
      BY DEF ToSet
    <3>3. m.condition \in {x.condition : x \in ToSet(c.attributes[a].match)}
      BY <3>2
    <3>4. m.condition \in UNION {{x.condition : x \in ToSet(b.match)} : b \in Attributes}
      <4> HIDE DEF m
      <4> QED
        BY <3>1, <3>3
    <3> HIDE DEF m
    <3> QED
      BY <1>4, <2>3, <3>4 DEF Condition
  <2>5. outcome[m.condition] \in {"true", "false", "error"}
    BY <2>4 DEF Outcome
  <2> QED
    BY <1>2, <1>4, <2>2, <2>5 DEF MatchEvaluate, Status
<1> QED
  BY <1>3, <1>4

\* The match that wins, in terms of what the matches evaluate to.
LEMMA WinsStatus ==
    ASSUME NEW c \in Config, NEW outcome,
           NEW a \in DOMAIN c.attributes, NEW i \in DOMAIN c.attributes[a].match
    PROVE  Wins(c, a, i, outcome) <=>
              /\ Status(c, a, i, outcome) = "true"
              /\ \A k \in 1 .. i - 1 : Status(c, a, k, outcome) = "false"
  BY DEF Wins, Status

\* At most one match of an attribute wins.
LEMMA WinsUnique ==
    ASSUME NEW c \in Config, NEW outcome, NEW a \in DOMAIN c.attributes,
           NEW i \in DOMAIN c.attributes[a].match, NEW j \in DOMAIN c.attributes[a].match,
           Wins(c, a, i, outcome), Wins(c, a, j, outcome)
    PROVE  i = j
<1>1. i \in Nat \ {0} /\ j \in Nat \ {0}
  BY ConfigType
<1>2. i = j \/ i \in 1 .. j - 1 \/ j \in 1 .. i - 1
  BY <1>1
<1> QED
  BY <1>2, WinsStatus

\* What Match::evaluate and AttributeGenerator::evaluate decide for attribute a.
LEMMA EvaluateWins ==
    ASSUME NEW c \in Config, NEW base \in Nat, Refused(c) = {},
           Installed(c, base, gen, tokens), live = tokens, NEW outcome \in Outcome,
           NEW a \in DOMAIN c.attributes
    PROVE  LET e == Evaluate(gen[a], outcome)
           IN  /\ e.status \in {"true", "false", "error"}
               /\ e.status = "true" =>
                     \E i \in DOMAIN c.attributes[a].match : Wins(c, a, i, outcome)
               /\ \A i \in DOMAIN c.attributes[a].match :
                     Wins(c, a, i, outcome) =>
                        e.status = "true" /\ e.value = c.attributes[a].match[i].value
<1> DEFINE D == DOMAIN c.attributes[a].match
           decisive == {i \in D : Status(c, a, i, outcome) # "false"}
           e == Evaluate(gen[a], outcome)
<1>1. /\ DOMAIN gen[a].matches = D
      /\ \A i \in D : gen[a].matches[i].value = c.attributes[a].match[i].value
  BY DEF Installed, MatchFrom
<1>2. \A i \in D : /\ MatchEvaluate(gen[a].matches[i], outcome) = Status(c, a, i, outcome)
                   /\ Status(c, a, i, outcome) \in {"true", "false", "error"}
  BY InstalledEvaluate
<1>3. {m \in DOMAIN gen[a].matches : MatchEvaluate(gen[a].matches[m], outcome) # "false"} = decisive
  BY <1>1, <1>2
<1>4. e = IF decisive = {} THEN [status |-> "false", value |-> None]
          ELSE [status |-> MatchEvaluate(gen[a].matches[Min(decisive)], outcome),
                value |-> gen[a].matches[Min(decisive)].value]
  BY <1>3 DEF Evaluate
<1>5. D \subseteq Nat \ {0} /\ decisive \subseteq D
      /\ \A i \in D : \A k \in 1 .. i - 1 : k \in D
  BY ConfigType
<1>6. \A i \in D : i \in decisive <=> Status(c, a, i, outcome) # "false"
  OBVIOUS
<1> HIDE DEF decisive, e, D
<1>7. CASE decisive = {}
  <2>1. e.status = "false"
    BY <1>4, <1>7
  <2>2. \A i \in D : ~ Wins(c, a, i, outcome)
    BY <1>6, <1>7, WinsStatus DEF D
  <2> QED
    BY <2>1, <2>2 DEF e, D
<1>8. CASE decisive # {}
  <2> DEFINE n == Min(decisive)
  <2>1. PICK x \in decisive : \A y \in decisive : x <= y
    BY <1>5, <1>8, LeastElement
  <2>2. n \in decisive /\ \A y \in decisive : n <= y
    BY <2>1 DEF Min
  <2> HIDE DEF n
  <2>3. n \in D /\ n \in Nat \ {0}
    BY <1>5, <2>2
  <2>4. e.status = Status(c, a, n, outcome) /\ e.value = c.attributes[a].match[n].value
    BY <1>1, <1>2, <1>4, <1>8, <2>3 DEF n
  <2>5. \A k \in 1 .. n - 1 : Status(c, a, k, outcome) = "false"
    <3> SUFFICES ASSUME NEW k \in 1 .. n - 1, k \in decisive PROVE FALSE
      BY <1>5, <1>6, <2>3
    <3> QED
      BY <2>2, <2>3
  <2>6. e.status \in {"true", "false", "error"} /\ e.status # "false"
    BY <1>2, <1>6, <2>2, <2>3, <2>4
  <2>7. e.status = "true" => Wins(c, a, n, outcome)
    BY <2>3, <2>4, <2>5, WinsStatus DEF D
  <2>8. ASSUME NEW i \in D, Wins(c, a, i, outcome)
        PROVE  e.status = "true" /\ e.value = c.attributes[a].match[i].value
    <3>1. Status(c, a, i, outcome) = "true" /\ \A k \in 1 .. i - 1 : Status(c, a, k, outcome) = "false"
      BY <2>8, WinsStatus DEF D
    <3>2. i \in decisive /\ i \in Nat
      BY <1>5, <1>6, <3>1
    <3>3. n = i
      <4>1. n <= i
        BY <2>2, <3>2
      <4>2. n \in 1 .. i - 1 \/ n = i
        BY <2>3, <3>2, <4>1
      <4> QED
        BY <1>6, <2>2, <2>3, <3>1, <4>2
    <3> QED
      BY <2>4, <3>1, <3>3
  <2> QED
    BY <2>3, <2>6, <2>7, <2>8 DEF e, D
<1> QED
  BY <1>7, <1>8

\* The attributes of a stream, and they and the errors while the generators run.
Value == {None} \cup UNION {Generated(o) : o \in Output}
OutputState ==
    {f \in [Output -> Value] : \A o \in Output : f[o] \in {None} \cup Generated(o)}
RunState == [attributes : OutputState, errors : Nat]

\* The function that the fold of RunGenerators recurs on.
RunRecursion(it, n, start, phase, outcome) ==
    it = [s \in SUBSET (1 .. n) |->
            IF s = {} THEN start
            ELSE Generate(it[s \ {Max(s)}], gen[Max(s)], phase, outcome)]

\* RunGenerators step by step: r[k] is what the first k generators leave.
Steps(r, n, start, phase, outcome) ==
    /\ r[0] = start
    /\ \A k \in 1 .. n : r[k] = Generate(r[k - 1], gen[k], phase, outcome)
    /\ GenerateAll(start, phase, outcome) = r[n]

\* The loop over the generators has these steps.
LEMMA RunSteps ==
    ASSUME NEW n \in Nat, DOMAIN gen = 1 .. n, NEW start \in RunState, NEW phase, NEW outcome,
           \A k \in 1 .. n : \A v \in RunState : Generate(v, gen[k], phase, outcome) \in RunState
    PROVE  \E r \in [0 .. n -> RunState] : Steps(r, n, start, phase, outcome)
<1> DEFINE F == [p \in RunState \X (1 .. n) |-> Generate(p[1], gen[p[2]], phase, outcome)]
           it == CHOOSE h : RunRecursion(h, n, start, phase, outcome)
<1>1. GenerateAll(start, phase, outcome) = it[1 .. n]
  BY Zenon DEF GenerateAll, FoldLeft, MapThenFoldSet, RunRecursion
<1>2. F \in [RunState \X (1 .. n) -> RunState]
  OBVIOUS
<1> HIDE DEF F, it
<1>3. PICK h \in [SUBSET (1 .. n) -> RunState] : FoldRecursion(h, n, start, F)
  BY <1>2, FoldExists
<1>4. RunRecursion(h, n, start, phase, outcome)
  <2>1. ASSUME NEW s \in SUBSET (1 .. n), s # {}
        PROVE  F[<<h[s \ {Max(s)}], Max(s)>>] = Generate(h[s \ {Max(s)}], gen[Max(s)], phase, outcome)
    <3>1. Max(s) \in 1 .. n
      BY <2>1, MaxOfIndices
    <3>2. h[s \ {Max(s)}] \in RunState
      OBVIOUS
    <3> QED
      BY <3>1, <3>2 DEF F
  <2> QED
    BY <1>3, <2>1 DEF RunRecursion, FoldRecursion
<1>5. RunRecursion(it, n, start, phase, outcome)
  BY <1>4 DEF it
<1>6. it[{}] = start
  BY <1>5 DEF RunRecursion
<1>7. ASSUME NEW k \in 1 .. n
      PROVE  it[1 .. k] = Generate(it[1 .. k - 1], gen[k], phase, outcome)
  <2>1. 1 .. k \in SUBSET (1 .. n) /\ 1 .. k # {}
    OBVIOUS
  <2>2. Max(1 .. k) = k /\ (1 .. k) \ {Max(1 .. k)} = 1 .. k - 1
    BY MaxOfPrefix
  <2>3. it[1 .. k] = Generate(it[(1 .. k) \ {Max(1 .. k)}], gen[Max(1 .. k)], phase, outcome)
    BY <1>5, <2>1 DEF RunRecursion
  <2> QED
    BY <2>2, <2>3
<1> DEFINE r == [k \in 0 .. n |-> it[1 .. k]]
<1>8. r[0] = start
  BY <1>6
<1>9. \A k \in 1 .. n : r[k] = Generate(r[k - 1], gen[k], phase, outcome)
  BY <1>7
<1>10. r[n] = it[1 .. n]
  OBVIOUS
<1>11. r \in [0 .. n -> RunState]
  <2> DEFINE S == {k \in 0 .. n : r[k] \in RunState}
  <2>1. 0 \in S
    BY <1>8
  <2>2. \A k \in 0 .. n - 1 : k \in S => k + 1 \in S
    <3> SUFFICES ASSUME NEW k \in 0 .. n - 1, k \in S PROVE k + 1 \in S
      OBVIOUS
    <3>1. k + 1 \in 1 .. n /\ (k + 1) - 1 = k
      OBVIOUS
    <3>2. r[k + 1] = Generate(r[k], gen[k + 1], phase, outcome)
      BY <1>9, <3>1
    <3> HIDE DEF r
    <3> QED
      BY <3>1, <3>2
  <2>3. \A k \in 0 .. n : k \in S
    <3> HIDE DEF S
    <3> QED
      BY <2>1, <2>2, RangeInduction
  <2> QED
    BY <2>3
<1> HIDE DEF r
<1>12. Steps(r, n, start, phase, outcome)
  BY <1>1, <1>8, <1>9, <1>10 DEF Steps
<1> QED
  BY <1>11, <1>12

\* What a winner is a pair of.
LEMMA WinnersPair ==
    ASSUME NEW c, NEW phase, NEW o, NEW outcome
    PROVE  /\ \A p \in Winners(c, phase, o, outcome) :
                 \E a \in DOMAIN c.attributes : \E i \in DOMAIN c.attributes[a].match :
                    /\ p = <<a, i>> /\ Wins(c, a, i, outcome)
                    /\ c.attributes[a].phase = phase /\ c.attributes[a].output = o
           /\ \A a \in DOMAIN c.attributes : \A i \in DOMAIN c.attributes[a].match :
                 Wins(c, a, i, outcome) /\ c.attributes[a].phase = phase
                    /\ c.attributes[a].output = o => <<a, i>> \in Winners(c, phase, o, outcome)
<1>1. ASSUME NEW p \in Winners(c, phase, o, outcome)
      PROVE  \E a \in DOMAIN c.attributes : \E i \in DOMAIN c.attributes[a].match :
                /\ p = <<a, i>> /\ Wins(c, a, i, outcome)
                /\ c.attributes[a].phase = phase /\ c.attributes[a].output = o
  <2>1. PICK a \in DOMAIN c.attributes : p \in {a} \X DOMAIN c.attributes[a].match
    BY DEF Winners
  <2>2. PICK i \in DOMAIN c.attributes[a].match : p = <<a, i>>
    BY <2>1
  <2>3. p[1] = a /\ p[2] = i
    BY <2>2
  <2>4. /\ c.attributes[p[1]].phase = phase /\ c.attributes[p[1]].output = o
        /\ Wins(c, p[1], p[2], outcome)
    BY DEF Winners
  <2> QED
    BY <2>2, <2>3, <2>4
<1>2. ASSUME NEW a \in DOMAIN c.attributes, NEW i \in DOMAIN c.attributes[a].match,
             Wins(c, a, i, outcome), c.attributes[a].phase = phase, c.attributes[a].output = o
      PROVE  <<a, i>> \in Winners(c, phase, o, outcome)
  <2>1. <<a, i>> \in UNION {{b} \X DOMAIN c.attributes[b].match : b \in DOMAIN c.attributes}
    OBVIOUS
  <2> QED
    BY <1>2, <2>1 DEF Winners
<1> QED
  BY <1>1, <1>2

\* One generator sets its attribute to the value of the match that wins, in its
\* phase, and changes no other.
LEMMA GenerateWins ==
    ASSUME NEW c \in Config, NEW base \in Nat, Refused(c) = {},
           Installed(c, base, gen, tokens), live = tokens, NEW outcome \in Outcome, NEW phase,
           NEW a \in DOMAIN c.attributes, NEW v \in RunState
    PROVE  LET w == Generate(v, gen[a], phase, outcome)
           IN  /\ w \in RunState
               /\ \A o \in Output :
                     (\A i \in DOMAIN c.attributes[a].match :
                        <<a, i>> \notin Winners(c, phase, o, outcome))
                     => w.attributes[o] = v.attributes[o]
               /\ \A o \in Output : \A i \in DOMAIN c.attributes[a].match :
                     <<a, i>> \in Winners(c, phase, o, outcome)
                     => w.attributes[o] = c.attributes[a].match[i].value
<1> DEFINE w == Generate(v, gen[a], phase, outcome)
           e == Evaluate(gen[a], outcome)
           out == c.attributes[a].output
           D == DOMAIN c.attributes[a].match
<1>1. gen[a].phase = c.attributes[a].phase /\ gen[a].output = out
  BY DEF Installed
<1>2. /\ e.status \in {"true", "false", "error"}
      /\ e.status = "true" => \E i \in D : Wins(c, a, i, outcome)
      /\ \A i \in D : Wins(c, a, i, outcome) =>
                         e.status = "true" /\ e.value = c.attributes[a].match[i].value
  BY EvaluateWins
<1>3. out \in Output
  BY DEF Output, Attributes, ToSet
<1>4. ASSUME NEW o, NEW i \in D
      PROVE  <<a, i>> \in Winners(c, phase, o, outcome) <=>
                Wins(c, a, i, outcome) /\ c.attributes[a].phase = phase /\ out = o
  <2>1. <<a, i>> \in Winners(c, phase, o, outcome) =>
           Wins(c, a, i, outcome) /\ c.attributes[a].phase = phase /\ out = o
    BY DEF Winners
  <2> QED
    BY <2>1, WinnersPair
<1>5. v.attributes \in OutputState /\ v.errors \in Nat
  BY DEF RunState
<1>6. w = IF gen[a].phase # phase \/ e.status = "false" THEN v
          ELSE IF e.status = "error" THEN [attributes |-> v.attributes, errors |-> v.errors + 1]
          ELSE [attributes |-> [v.attributes EXCEPT ![gen[a].output] = e.value], errors |-> v.errors]
  BY DEF Generate
<1> HIDE DEF w, e, D, out
<1>7. CASE gen[a].phase = phase /\ e.status = "true"
  <2>1. PICK i \in D : Wins(c, a, i, outcome)
    BY <1>2, <1>7
  <2>2. e.value = c.attributes[a].match[i].value
    BY <1>2, <2>1
  <2>3. w = [attributes |-> [v.attributes EXCEPT ![out] = e.value], errors |-> v.errors]
    BY <1>1, <1>6, <1>7
  <2>4. e.value \in Value /\ e.value \in Generated(out)
    <3>1. c.attributes[a] \in {b \in Attributes : b.output = out}
      BY DEF Attributes, ToSet, out
    <3>2. c.attributes[a].match[i] \in ToSet(c.attributes[a].match)
      BY DEF ToSet, D
    <3>3. e.value \in {m.value : m \in ToSet(c.attributes[a].match)}
      BY <2>2, <3>2
    <3>4. e.value \in Generated(out)
      BY <3>1, <3>3 DEF Generated
    <3> QED
      BY <1>3, <3>4 DEF Value
  <2>5. w.attributes = [v.attributes EXCEPT ![out] = e.value] /\ w.errors = v.errors
    BY <2>3
  <2>6. w.attributes \in OutputState
    BY <1>3, <1>5, <2>4, <2>5 DEF OutputState
  <2>7. w \in RunState
    BY <1>5, <2>3, <2>5, <2>6 DEF RunState
  <2>8. \A o \in Output : w.attributes[o] = IF o = out THEN e.value ELSE v.attributes[o]
    BY <1>5, <2>5 DEF OutputState
  <2>9. c.attributes[a].phase = phase
    BY <1>1, <1>7
  <2>10. ASSUME NEW o \in Output, \A j \in D : <<a, j>> \notin Winners(c, phase, o, outcome)
         PROVE  w.attributes[o] = v.attributes[o]
    BY <1>4, <2>1, <2>8, <2>9, <2>10
  <2>11. ASSUME NEW o \in Output, NEW j \in D, <<a, j>> \in Winners(c, phase, o, outcome)
         PROVE  w.attributes[o] = c.attributes[a].match[j].value
    BY <1>2, <1>4, <2>8, <2>11
  <2> QED
    BY <2>7, <2>10, <2>11 DEF w, D
<1>8. CASE ~ (gen[a].phase = phase /\ e.status = "true")
  <2>1. w = v \/ w = [attributes |-> v.attributes, errors |-> v.errors + 1]
    BY <1>2, <1>6, <1>8
  <2>2. w \in RunState /\ w.attributes = v.attributes
    BY <1>5, <2>1 DEF RunState
  <2>3. \A o \in Output : \A j \in D : <<a, j>> \notin Winners(c, phase, o, outcome)
    BY <1>1, <1>2, <1>4, <1>8
  <2> QED
    BY <2>2, <2>3 DEF w, D
<1> QED
  BY <1>7, <1>8

\* The winners among the first k attributes.
WinnersTo(c, phase, o, outcome, k) == {p \in Winners(c, phase, o, outcome) : p[1] <= k}

\* What the first k generators leave of the attribute o.
LastWinner(c, phase, o, outcome, k, before, attributes) ==
    /\ WinnersTo(c, phase, o, outcome, k) = {} => attributes[o] = before[o]
    /\ \A p \in WinnersTo(c, phase, o, outcome, k) :
          (\A q \in WinnersTo(c, phase, o, outcome, k) : q[1] <= p[1])
          => attributes[o] = c.attributes[p[1]].match[p[2]].value

\* One more generator.
LEMMA LastWinnerStep ==
    ASSUME NEW c \in Config, NEW base \in Nat, Refused(c) = {},
           Installed(c, base, gen, tokens), live = tokens, NEW outcome \in Outcome, NEW phase,
           NEW k \in Nat, k + 1 \in DOMAIN c.attributes, NEW v \in RunState, NEW before,
           NEW o \in Output,
           LastWinner(c, phase, o, outcome, k, before, v.attributes)
    PROVE  LastWinner(c, phase, o, outcome, k + 1, before,
                      Generate(v, gen[k + 1], phase, outcome).attributes)
<1> DEFINE a == k + 1
           w == Generate(v, gen[a], phase, outcome)
           W == Winners(c, phase, o, outcome)
<1>1. /\ \A p \in W : \E b \in DOMAIN c.attributes : \E i \in DOMAIN c.attributes[b].match :
             p = <<b, i>> /\ Wins(c, b, i, outcome)
      /\ \A p \in W : p[1] \in Nat
  BY WinnersPair, ConfigType
<1>2. /\ (\A i \in DOMAIN c.attributes[a].match : <<a, i>> \notin W)
            => w.attributes[o] = v.attributes[o]
      /\ \A i \in DOMAIN c.attributes[a].match :
            <<a, i>> \in W => w.attributes[o] = c.attributes[a].match[i].value
  BY GenerateWins
<1>3. CASE \A i \in DOMAIN c.attributes[a].match : <<a, i>> \notin W
  <2>1. \A p \in W : p[1] # a
    BY <1>1, <1>3
  <2>2. \A p \in W : p[1] <= a <=> p[1] <= k
    BY <1>1, <2>1
  <2>3. WinnersTo(c, phase, o, outcome, a) = WinnersTo(c, phase, o, outcome, k)
    BY <2>2 DEF WinnersTo
  <2>4. w.attributes[o] = v.attributes[o]
    BY <1>2, <1>3
  <2> HIDE DEF w, a
  <2>5. LastWinner(c, phase, o, outcome, a, before, w.attributes)
    BY <2>3, <2>4 DEF LastWinner
  <2> QED
    BY <2>5 DEF w, a
<1>4. ASSUME NEW i \in DOMAIN c.attributes[a].match, <<a, i>> \in W
      PROVE  LastWinner(c, phase, o, outcome, a, before, w.attributes)
  <2>1. w.attributes[o] = c.attributes[a].match[i].value
    BY <1>2, <1>4
  <2>2. a \in Nat /\ <<a, i>> \in WinnersTo(c, phase, o, outcome, a)
    BY <1>4 DEF WinnersTo
  <2>3. Wins(c, a, i, outcome)
    BY <1>4 DEF Winners
  <2> HIDE DEF a, w
  <2>4. ASSUME NEW p \in WinnersTo(c, phase, o, outcome, a),
               \A q \in WinnersTo(c, phase, o, outcome, a) : q[1] <= p[1]
        PROVE  p = <<a, i>>
    <3>1. p \in W /\ p[1] <= a /\ a <= p[1]
      BY <2>2, <2>4 DEF WinnersTo
    <3>2. p[1] = a
      BY <1>1, <2>2, <3>1
    <3>3. PICK j \in DOMAIN c.attributes[a].match : p = <<a, j>> /\ Wins(c, a, j, outcome)
      BY <1>1, <3>1, <3>2
    <3>4. j = i
      BY <2>3, <3>3, WinsUnique DEF a
    <3> QED
      BY <3>3, <3>4
  <2> QED
    BY <2>1, <2>2, <2>4 DEF LastWinner
<1> QED
  BY <1>3, <1>4

\* Among the winners of an attribute there is a last one.
LEMMA LastExists ==
    ASSUME NEW c \in Config, NEW phase, NEW o, NEW outcome, Winners(c, phase, o, outcome) # {}
    PROVE  \E p \in Winners(c, phase, o, outcome) :
              \A q \in Winners(c, phase, o, outcome) : q[1] <= p[1]
<1> DEFINE W == Winners(c, phase, o, outcome)
           A == {p[1] : p \in W}
           n == Len(c.attributes)
<1>1. \A p \in W : p[1] \in 1 .. n
  BY WinnersPair, ConfigType
<1>2. A \in SUBSET (1 .. n) /\ A # {} /\ n \in Nat
  BY <1>1, ConfigType
<1>3. Max(A) \in A /\ \A y \in A : y <= Max(A)
  <2> HIDE DEF A, n
  <2> QED
    BY <1>2, MaxOfIndices
<1>4. PICK p \in W : p[1] = Max(A)
  BY <1>3
<1>5. \A q \in W : q[1] <= p[1]
  BY <1>3, <1>4
<1> QED
  BY <1>5

\* A run of the generators of the configuration c.
LEMMA RunInstalled ==
    ASSUME NEW c \in Config, NEW base \in Nat, Refused(c) = {},
           Installed(c, base, gen, tokens), live = tokens, NEW outcome \in Outcome, NEW phase,
           NEW start \in RunState
    PROVE  LET st == GenerateAll(start, phase, outcome)
           IN  st \in RunState /\ st.attributes = Expected(c, phase, start.attributes, outcome)
<1> DEFINE n == Len(c.attributes)
           st == GenerateAll(start, phase, outcome)
           before == start.attributes
<1>1. n \in Nat /\ DOMAIN c.attributes = 1 .. n
  BY ConfigType
<1>2. DOMAIN gen = 1 .. n
  BY <1>1 DEF Installed
<1>3. \A k \in 1 .. n : \A v \in RunState : Generate(v, gen[k], phase, outcome) \in RunState
  BY <1>1, GenerateWins
<1>4. PICK r \in [0 .. n -> RunState] : Steps(r, n, start, phase, outcome)
  <2> HIDE DEF n
  <2> QED
    BY <1>1, <1>2, <1>3, RunSteps
<1> HIDE DEF st, n
<1>5. ASSUME NEW o \in Output
      PROVE  LastWinner(c, phase, o, outcome, n, before, st.attributes)
  <2> DEFINE S == {k \in 0 .. n : LastWinner(c, phase, o, outcome, k, before, r[k].attributes)}
  <2>1. 0 \in S
    <3>1. \A p \in Winners(c, phase, o, outcome) : ~ (p[1] <= 0)
      BY WinnersPair, ConfigType
    <3>2. WinnersTo(c, phase, o, outcome, 0) = {}
      BY <3>1 DEF WinnersTo
    <3> QED
      BY <1>1, <1>4, <3>2 DEF LastWinner, Steps
  <2>2. ASSUME NEW k \in 0 .. n - 1, k \in S PROVE k + 1 \in S
    <3>1. k \in Nat /\ k + 1 \in 1 .. n /\ k \in 0 .. n /\ (k + 1) - 1 = k /\ k + 1 \in 0 .. n
      BY <1>1
    <3>2. r[k] \in RunState /\ r[k + 1] = Generate(r[k], gen[k + 1], phase, outcome)
      BY <1>4, <3>1 DEF Steps
    <3>3. LastWinner(c, phase, o, outcome, k, before, r[k].attributes)
      BY <2>2
    <3>4. LastWinner(c, phase, o, outcome, k + 1, before, r[k + 1].attributes)
      BY <1>1, <3>1, <3>2, <3>3, LastWinnerStep
    <3> QED
      BY <3>1, <3>4
  <2>3. n \in S
    <3> HIDE DEF S
    <3> QED
      BY <1>1, <2>1, <2>2, RangeInduction
  <2> QED
    BY <1>4, <2>3 DEF Steps, st
<1>6. st \in RunState
  BY <1>1, <1>4 DEF Steps, st
<1>7. ASSUME NEW o \in Output
      PROVE  st.attributes[o] = Expected(c, phase, before, outcome)[o]
  <2> DEFINE W == Winners(c, phase, o, outcome)
             last == CHOOSE p \in W : \A q \in W : q[1] <= p[1]
  <2>1. WinnersTo(c, phase, o, outcome, n) = W
    <3>1. \A p \in W : p[1] <= n
      BY <1>1, WinnersPair
    <3> QED
      BY <3>1 DEF WinnersTo
  <2>2. Expected(c, phase, before, outcome)[o] =
           IF W = {} THEN before[o] ELSE c.attributes[last[1]].match[last[2]].value
    BY DEF Expected
  <2>3. CASE W = {}
    BY <1>5, <2>1, <2>2, <2>3 DEF LastWinner
  <2>4. CASE W # {}
    <3>1. last \in W /\ \A q \in W : q[1] <= last[1]
      BY <2>4, LastExists
    <3> HIDE DEF last, W
    <3> QED
      BY <1>5, <2>1, <2>2, <2>4, <3>1 DEF LastWinner
  <2> QED
    BY <2>3, <2>4
<1>8. st.attributes \in [Output -> Value]
  BY <1>6 DEF RunState, OutputState
<1>9. DOMAIN Expected(c, phase, before, outcome) = Output
      /\ Expected(c, phase, before, outcome)
           = [o \in Output |-> Expected(c, phase, before, outcome)[o]]
  BY DEF Expected
<1>10. st.attributes = Expected(c, phase, before, outcome)
  BY <1>7, <1>8, <1>9
<1> QED
  BY <1>6, <1>10 DEF st

\* A run without generators changes nothing.
LEMMA RunNothing ==
    ASSUME gen = <<>>, NEW outcome, NEW phase, NEW start \in RunState
    PROVE  GenerateAll(start, phase, outcome) = start
<1>1. DOMAIN gen = 1 .. 0
  OBVIOUS
<1>2. \A k \in 1 .. 0 : \A v \in RunState : Generate(v, gen[k], phase, outcome) \in RunState
  OBVIOUS
<1>3. PICK r \in [0 .. 0 -> RunState] : Steps(r, 0, start, phase, outcome)
  BY <1>1, <1>2, RunSteps
<1> QED
  BY <1>3 DEF Steps

\* The attributes of every stream have their type as well.
AttributeInv ==
    /\ ConfigInv
    /\ filterState \in [Stream -> OutputState]
    /\ runtimeErrors \in Nat

\* A callback of a stream: what the last configuration that parsed asks for.
LEMMA RunExpected ==
    ASSUME AttributeInv, NEW s \in Stream, NEW outcome \in Outcome, NEW phase, alive,
           RunGenerators(s, phase, outcome)
    PROVE  /\ filterState' \in [Stream -> OutputState] /\ runtimeErrors' \in Nat
           /\ \A c \in parsed : filterState'[s] = Expected(c, phase, filterState[s], outcome)
<1> DEFINE start == [attributes |-> filterState[s], errors |-> 0]
           st == GenerateAll(start, phase, outcome)
<1>1. start \in RunState /\ start.attributes = filterState[s]
  BY DEF AttributeInv, RunState
<1>2. filterState' = [filterState EXCEPT ![s] = st.attributes]
      /\ runtimeErrors' = runtimeErrors + st.errors
  BY DEF RunGenerators
<1> HIDE DEF start, st
<1>3. st \in RunState /\ \A c \in parsed : st.attributes = Expected(c, phase, filterState[s], outcome)
  <2>1. CASE gen = <<>> /\ \A c \in parsed : Refused(c) # {}
    <3>1. st = start
      BY <1>1, <2>1, RunNothing DEF st
    <3>2. filterState[s] \in [Output -> Value]
      BY DEF AttributeInv, OutputState
    <3>3. \A c \in parsed : Expected(c, phase, filterState[s], outcome)
                              = [o \in Output |-> filterState[s][o]]
      BY <2>1 DEF Expected
    <3> QED
      BY <1>1, <3>1, <3>2, <3>3
  <2>2. ASSUME NEW c \in Config, NEW base \in Nat, parsed = {c}, Refused(c) = {},
               Installed(c, base, gen, tokens)
        PROVE  st \in RunState /\ st.attributes = Expected(c, phase, filterState[s], outcome)
    BY <1>1, <2>2, RunInstalled DEF AttributeInv, ConfigInv, st
  <2> QED
    BY <2>1, <2>2 DEF AttributeInv, ConfigInv, GenInv
<1>4. st.attributes \in OutputState /\ st.errors \in Nat
  BY <1>3 DEF RunState
<1> QED
  BY <1>2, <1>3, <1>4 DEF AttributeInv

\* A request or a log runs only in a plugin that is not done.
LEMMA StreamRuns ==
    ASSUME AttributeInv, NEW s \in Stream, NEW outcome \in Outcome
    PROVE  /\ OnRequestHeaders(s, outcome) => alive /\ RunGenerators(s, "OnRequest", outcome)
           /\ OnLog(s, outcome) => alive /\ RunGenerators(s, "OnLog", outcome)
  BY DEF OnRequestHeaders, OnLog, AttributeInv, ConfigInv, RunningAlive

\* The initial state, and every callback.
LEMMA AttributeInvInit == Init => AttributeInv
<1> SUFFICES ASSUME Init PROVE AttributeInv
  OBVIOUS
<1>1. [o \in Output |-> None] \in OutputState
  <2>1. None \in Value
    BY DEF Value
  <2>2. \A p \in Output : [o \in Output |-> None][p] = None
    OBVIOUS
  <2>3. [o \in Output |-> None] \in [Output -> Value]
    BY <2>1
  <2> QED
    BY <2>2, <2>3 DEF OutputState
<1> QED
  BY <1>1, ConfigInvInit DEF AttributeInv, Init

\* Every callback keeps the inductive invariant.
LEMMA AttributeInvNext == AttributeInv /\ [Next]_vars => AttributeInv'
<1> SUFFICES ASSUME AttributeInv, [Next]_vars PROVE AttributeInv'
  OBVIOUS
<1>1. ConfigInv'
  BY ConfigInvNext DEF AttributeInv
<1>2. filterState' \in [Stream -> OutputState] /\ runtimeErrors' \in Nat
  <2>1. ASSUME NEW c \in Config, ConfigureUnparsable(c) \/ ConfigureRejected(c) \/ Configure(c)
        PROVE  UNCHANGED <<filterState, runtimeErrors>>
    BY <2>1 DEF ConfigureUnparsable, ConfigureRejected, Configure
  <2>2. ASSUME NEW s \in Stream, NEW outcome \in Outcome,
               OnRequestHeaders(s, outcome) \/ OnLog(s, outcome)
        PROVE  filterState' \in [Stream -> OutputState] /\ runtimeErrors' \in Nat
    BY <2>2, StreamRuns, RunExpected
  <2>3. OnDone \/ UNCHANGED vars => UNCHANGED <<filterState, runtimeErrors>>
    BY DEF OnDone, vars
  <2> QED
    BY <2>1, <2>2, <2>3 DEF Next, AttributeInv
<1> QED
  BY <1>1, <1>2 DEF AttributeInv

\* Type correctness of attributegen: an attribute of a stream is not set or has a
\* value configured for it, and tokens are the host's.
THEOREM AttributeGenTypeCorrect == Spec => []TypeOK
<1>1. AttributeInv => TypeOK
  BY DEF AttributeInv, ConfigInv, ConfigTypeOK, OutputState, TypeOK
<1> QED
  BY AttributeInvInit, AttributeInvNext, <1>1, PTL DEF Spec

\* onRequestHeaders and onLog set what the last configuration that parsed asks
\* for: the loop over the generators, their order, errors and all.
THEOREM AttributeGenAsConfigured == Spec => AttributesAsConfigured
<1>1. AttributeInv /\ [Next]_vars =>
        [\A s \in Stream : \A outcome \in Outcome : \A c \in parsed :
           /\ OnRequestHeaders(s, outcome) =>
                 filterState'[s] = Expected(c, "OnRequest", filterState[s], outcome)
           /\ OnLog(s, outcome) =>
                 filterState'[s] = Expected(c, "OnLog", filterState[s], outcome)]_vars
  BY StreamRuns, RunExpected
<1> QED
  BY AttributeInvInit, AttributeInvNext, <1>1, PTL DEF Spec, AttributesAsConfigured

=============================================================================
