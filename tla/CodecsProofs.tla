---------------------------- MODULE CodecsProofs ----------------------------
(***************************************************************************)
(* Theorems about the conversions, for every string of bytes that is       *)
(* shorter than the range of size_t, and for every set of response flags.  *)
(***************************************************************************)
EXTENDS Codecs, DataProofs, TLAPS

\* What the two actions build.
Inputs ==
    /\ string \in Seq(Byte) /\ Len(string) <= MaxString
    /\ flags \in SUBSET FlagBit

\* The inputs are strings of bytes and sets of flags.
LEMMA InputsInv == Spec => []Inputs
<1>1. Init => Inputs
  BY CodecsAssumption DEF Init, Inputs
<1>2. Inputs /\ [Next]_<<string, flags>> => Inputs'
  <2> SUFFICES ASSUME Inputs, [Next]_<<string, flags>> PROVE Inputs'
    OBVIOUS
  <2>1. CASE AppendCharacter
    <3>1. PICK c \in Alphabet : string' = Append(string, c)
      BY <2>1 DEF AppendCharacter
    <3>2. c \in Byte /\ string \in Seq(Byte)
      BY CodecsAssumption DEF Inputs
    <3>3. string' \in Seq(Byte) /\ Len(string') = Len(string) + 1
      BY <3>1, <3>2
    <3> QED
      BY <2>1, <3>2, <3>3, CodecsAssumption DEF AppendCharacter, Inputs
  <2>2. CASE RaiseFlag
    BY <2>2 DEF RaiseFlag, Inputs
  <2>3. CASE UNCHANGED <<string, flags>>
    BY <2>3 DEF Inputs
  <2> QED
    BY <2>1, <2>2, <2>3 DEF Next
<1> QED
  BY <1>1, <1>2, PTL DEF Spec

\* What Base64::encode writes is the RFC 4648 encoding, of strings of any
\* length.
THEOREM CodecsEncodeIsStandard == Spec => []EncodeIsStandard
<1>1. Inputs => EncodeIsStandard
  BY EncodeIsRfc4648 DEF Inputs, EncodeIsStandard
<1> QED
  BY <1>1, InputsInv, PTL

----------------------------------------------------------------------------
(* parseResponseFlag *)

\* The short names differ from each other and from NONE.
LEMMA ShortNames ==
    /\ DOMAIN ShortName = 1 .. 27 /\ Len(ShortName) = 27
    /\ \A i, j \in 1 .. 27 : ShortName[i] = ShortName[j] => i = j
    /\ \A i \in 1 .. 27 : ShortName[i] # NONE
<1>1. DOMAIN ShortName = 1 .. 27 /\ Len(ShortName) = 27
  BY DEF ShortName
<1>2. \A i \in 1 .. 27 : ShortName[i] # NONE
  BY DEF ShortName, NONE
<1>3. \A i, j \in 1 .. 27 : ShortName[i] = ShortName[j] => i = j
  BY DEF ShortName
<1> QED
  BY <1>1, <1>2, <1>3

\* The recursion of the fold in Names over the first n bits.
NamesRecursion(it, n, order, fl) ==
    it = [s \in SUBSET (1 .. n) |->
            IF s = {} THEN <<>>
            ELSE IF order[Max(s)] \in fl
                 THEN Append(it[s \ {Max(s)}], ShortName[order[Max(s)] + 1])
                 ELSE it[s \ {Max(s)}]]

\* The names of the flags among the first k.
NamesUpto(fl, k) == {ShortName[i] : i \in {j \in 1 .. k : j - 1 \in fl}}

\* What is joined is the short names of the flags that have one.
LEMMA NamesAre ==
    ASSUME NEW fl
    PROVE  Names(fl) \in Seq(NamesUpto(fl, 27)) /\ ToSet(Names(fl)) = NamesUpto(fl, 27)
<1> DEFINE n == 27
           order == [i \in DOMAIN ShortName |-> i - 1]
           E == {ShortName[i] : i \in 1 .. n}
           V == Seq(E)
           Pick(v, b) == IF b \in fl THEN Append(v, ShortName[b + 1]) ELSE v
           F == [p \in V \X (1 .. n) |-> Pick(p[1], order[p[2]])]
           it == CHOOSE h : NamesRecursion(h, n, order, fl)
<1>1. n \in Nat /\ DOMAIN order = 1 .. n
  BY ShortNames
<1>2. \A i \in 1 .. n : order[i] = i - 1 /\ order[i] + 1 = i /\ ShortName[order[i] + 1] \in E
  BY ShortNames
<1>3. Names(fl) = it[1 .. n]
  BY <1>1, Zenon DEF Names, FoldLeft, MapThenFoldSet, NamesRecursion
<1> HIDE DEF it, n, order, E
<1>4. \A v \in V : \A i \in 1 .. n : Pick(v, order[i]) \in V
  <2>1. \A v \in V : \A x \in E : Append(v, x) \in V
    OBVIOUS
  <2> QED
    BY <1>2, <2>1, Zenon
<1>5. F \in [V \X (1 .. n) -> V]
  <2> HIDE DEF Pick, V
  <2> QED
    BY <1>4
<1>6. <<>> \in V
  OBVIOUS
<1> HIDE DEF V
<1>7. PICK h \in [SUBSET (1 .. n) -> V] : FoldRecursion(h, n, <<>>, F)
  <2> HIDE DEF F
  <2> QED
    BY <1>1, <1>5, <1>6, FoldExists
<1>8. NamesRecursion(h, n, order, fl)
  <2>1. ASSUME NEW t \in SUBSET (1 .. n), t # {}
        PROVE  F[<<h[t \ {Max(t)}], Max(t)>>] = Pick(h[t \ {Max(t)}], order[Max(t)])
    <3>1. Max(t) \in 1 .. n
      BY <1>1, <2>1, MaxOfIndices
    <3>2. h[t \ {Max(t)}] \in V
      OBVIOUS
    <3> HIDE DEF Pick
    <3> QED
      BY <3>1, <3>2
  <2> HIDE DEF F
  <2> QED
    BY <1>7, <2>1, Zenon DEF NamesRecursion, FoldRecursion
<1>9. NamesRecursion(it, n, order, fl)
  BY <1>8 DEF it
<1> HIDE DEF F
<1> DEFINE Good(k) == it[1 .. k] \in Seq(E) /\ ToSet(it[1 .. k]) = NamesUpto(fl, k)
           S == {k \in 0 .. n : Good(k)}
<1>10. 0 \in S
  <2>1. 1 .. 0 = {} /\ {} \in SUBSET (1 .. n) /\ 0 \in 0 .. n
    BY <1>1
  <2>2. it[{}] = <<>>
    BY <1>9, <2>1, Zenon DEF NamesRecursion
  <2>3. ToSet(<<>>) = {} /\ NamesUpto(fl, 0) = {} /\ <<>> \in Seq(E)
    BY DEF ToSet, NamesUpto
  <2> QED
    BY <2>1, <2>2, <2>3
<1>11. ASSUME NEW k \in 0 .. n - 1, k \in S PROVE k + 1 \in S
  <2>1. /\ Max(1 .. k + 1) = k + 1 /\ (1 .. k + 1) \ {Max(1 .. k + 1)} = 1 .. k
        /\ 1 .. k + 1 \in SUBSET (1 .. n) /\ 1 .. k + 1 # {} /\ k + 1 \in 1 .. n
    BY <1>1, NextPrefix
  <2>2. it[1 .. k + 1] = Pick(it[1 .. k], order[k + 1])
    <3> DEFINE t == 1 .. k + 1
    <3>1. it[t] = Pick(it[t \ {Max(t)}], order[Max(t)])
      BY <1>9, <2>1, Zenon DEF NamesRecursion
    <3>2. Max(t) = k + 1 /\ t \ {Max(t)} = 1 .. k
      BY <2>1
    <3> HIDE DEF t, Pick
    <3>3. it[t] = Pick(it[1 .. k], order[k + 1])
      BY <3>1, <3>2, Zenon
    <3> QED
      BY <3>3 DEF t
  <2>3. it[1 .. k] \in Seq(E) /\ ToSet(it[1 .. k]) = NamesUpto(fl, k)
    BY <1>11
  <2>4. order[k + 1] = k /\ ShortName[k + 1] \in E /\ k + 1 \in 0 .. n
    BY <1>1, <1>2, <2>1
  <2>5. CASE k \in fl
    <3>1. it[1 .. k + 1] = Append(it[1 .. k], ShortName[k + 1])
      BY <2>2, <2>4, <2>5
    <3>2. ToSet(Append(it[1 .. k], ShortName[k + 1])) = ToSet(it[1 .. k]) \cup {ShortName[k + 1]}
      BY <2>3, ToSetAppend
    <3>3. NamesUpto(fl, k + 1) = NamesUpto(fl, k) \cup {ShortName[k + 1]}
      <4>1. {j \in 1 .. k + 1 : j - 1 \in fl} = {j \in 1 .. k : j - 1 \in fl} \cup {k + 1}
        BY <2>5
      <4>2. \A A, x : {ShortName[i] : i \in A \cup {x}} = {ShortName[i] : i \in A} \cup {ShortName[x]}
        OBVIOUS
      <4> QED
        BY <4>1, <4>2 DEF NamesUpto
    <3>4. Append(it[1 .. k], ShortName[k + 1]) \in Seq(E)
      BY <2>3, <2>4
    <3>5. Good(k + 1)
      BY <2>3, <3>1, <3>2, <3>3, <3>4, Zenon
    <3> QED
      BY <2>4, <3>5, Zenon
  <2>6. CASE k \notin fl
    <3>1. it[1 .. k + 1] = it[1 .. k]
      BY <2>2, <2>4, <2>6
    <3>2. NamesUpto(fl, k + 1) = NamesUpto(fl, k)
      <4>1. {j \in 1 .. k + 1 : j - 1 \in fl} = {j \in 1 .. k : j - 1 \in fl}
        BY <2>6
      <4> QED
        BY <4>1 DEF NamesUpto
    <3> QED
      BY <2>3, <2>4, <3>1, <3>2
  <2> QED
    BY <2>5, <2>6
<1>12. n \in S
  <2> HIDE DEF S
  <2>1. \A k \in 0 .. n - 1 : k \in S => k + 1 \in S
    BY <1>11
  <2>2. \A k \in 0 .. n : k \in S
    BY <1>1, <1>10, <2>1, RangeInduction, Zenon
  <2> QED
    BY <1>1, <2>2
<1>13. Names(fl) \in Seq(E) /\ ToSet(Names(fl)) = NamesUpto(fl, 27)
  BY <1>3, <1>12 DEF n
<1>14. Names(fl) \in Seq(ToSet(Names(fl)))
  BY <1>13 DEF ToSet
<1> QED
  BY <1>13, <1>14

\* The flags can be read back from what parseResponseFlag returns: from the
\* names alone if all of them have one, else from the number.
THEOREM CodecsNoInformationLoss == Spec => []NoInformationLoss
<1>1. Inputs => NoInformationLoss
  <2> SUFFICES ASSUME Inputs PROVE NoInformationLoss
    OBVIOUS
  <2> DEFINE result == ParseResponseFlag(flags)
             back == {i - 1 : i \in {m \in DOMAIN ShortName : ShortName[m] \in ToSet(result.names)}}
             number == IF Overflows(flags) THEN flags ELSE {}
  <2>1. flags \in SUBSET (0 .. 63)
    BY DEF Inputs, FlagBit
  <2>2. \A S : /\ [names |-> S, number |-> number].names = S
               /\ [names |-> S, number |-> number].number = number
    OBVIOUS
  <2>3. CASE Overflows(flags)
    <3>1. number = flags /\ number # {}
      BY <2>3 DEF Overflows
    <3>2. result.number = flags
      BY <2>2, <3>1, Zenon DEF ParseResponseFlag
    <3> QED
      BY <3>1, <3>2 DEF NoInformationLoss
  <2>4. CASE ~ Overflows(flags)
    <3>1. flags \in SUBSET (0 .. 26) /\ number = {}
      BY <2>1, <2>4, ShortNames DEF Overflows, LastFlag
    <3>2. ToSet(Names(flags)) = {ShortName[i] : i \in {j \in 1 .. 27 : j - 1 \in flags}}
      BY NamesAre DEF NamesUpto
    <3>3. CASE Names(flags) = <<>>
      <4>1. result.names = <<NONE>> /\ result.number = {}
        BY <3>1, <3>3 DEF ParseResponseFlag
      <4>2. flags = {}
        <5>1. ToSet(Names(flags)) = {}
          BY <3>3 DEF ToSet
        <5>2. \A j \in 1 .. 27 : j - 1 \notin flags
          BY <3>2, <5>1
        <5>3. \A b \in flags : b + 1 \in 1 .. 27 /\ (b + 1) - 1 = b
          BY <3>1
        <5> QED
          BY <5>2, <5>3
      <4>3. ToSet(<<NONE>>) = {NONE}
        BY DEF ToSet
      <4>4. {m \in DOMAIN ShortName : ShortName[m] \in ToSet(result.names)} = {}
        BY <4>1, <4>3, ShortNames
      <4>5. back = {}
        BY <4>4, Zenon
      <4> QED
        BY <4>1, <4>2, <4>5 DEF NoInformationLoss
    <3>4. CASE Names(flags) # <<>>
      <4>1. result.names = Names(flags) /\ result.number = {}
        BY <3>1, <3>4 DEF ParseResponseFlag
      <4>2. \A m \in 1 .. 27 : ShortName[m] \in ToSet(Names(flags)) <=> m - 1 \in flags
        BY <3>2, ShortNames
      <4>3. {m \in DOMAIN ShortName : ShortName[m] \in ToSet(result.names)}
              = {m \in 1 .. 27 : m - 1 \in flags}
        BY <4>1, <4>2, ShortNames
      <4>4. back = {i - 1 : i \in {m \in 1 .. 27 : m - 1 \in flags}}
        BY <4>3, Zenon
      <4>5. \A b \in flags : b + 1 \in {m \in 1 .. 27 : m - 1 \in flags} /\ (b + 1) - 1 = b
        BY <3>1
      <4>6. back = flags
        BY <4>4, <4>5
      <4> QED
        BY <4>1, <4>6 DEF NoInformationLoss
    <3> QED
      BY <3>3, <3>4
  <2> QED
    BY <2>3, <2>4
<1> QED
  BY <1>1, InputsInv, PTL

----------------------------------------------------------------------------
(* decodeWithoutPadding *)

\* Whether a character is one of the table.
InTable(c) == ReverseLookupTable[c] # Invalid

\* The two tables are inverse to each other, and padding is in neither.
LEMMA Tables ==
    /\ \A c \in Byte : ReverseLookupTable[c] \in 0 .. 64
    /\ \A c \in Byte : InTable(c) =>
          ReverseLookupTable[c] \in 0 .. 63 /\ CharTable[ReverseLookupTable[c]] = c
    /\ \A v \in 0 .. 63 :
          /\ CharTable[v] \in Byte /\ CharTable[v] # Pad
          /\ ReverseLookupTable[CharTable[v]] = v /\ InTable(CharTable[v])
<1>1. ASSUME NEW v \in 0 .. 63
      PROVE  CharTable[v] = IF v <= 25 THEN 65 + v ELSE IF v <= 51 THEN 97 + (v - 26)
                            ELSE IF v <= 61 THEN 48 + (v - 52) ELSE IF v = 62 THEN 43 ELSE 47
  BY DEF CharTable
<1>2. ASSUME NEW b \in Byte
      PROVE  ReverseLookupTable[b] =
               IF 65 <= b /\ b <= 90 THEN b - 65 ELSE IF 97 <= b /\ b <= 122 THEN 26 + (b - 97)
               ELSE IF 48 <= b /\ b <= 57 THEN 52 + (b - 48)
               ELSE IF b = 43 THEN 62 ELSE IF b = 47 THEN 63 ELSE 64
  BY DEF ReverseLookupTable, Byte, Invalid
<1>3. \A c \in Byte : ReverseLookupTable[c] \in 0 .. 64
  BY <1>2 DEF Byte
<1>4. ASSUME NEW c \in Byte, InTable(c)
      PROVE  ReverseLookupTable[c] \in 0 .. 63 /\ CharTable[ReverseLookupTable[c]] = c
  <2>1. ReverseLookupTable[c] \in 0 .. 63
    BY <1>3, <1>4 DEF InTable, Invalid
  <2> QED
    BY <1>1, <1>2, <1>4, <2>1 DEF InTable, Invalid, Byte
<1>5. ASSUME NEW v \in 0 .. 63
      PROVE  /\ CharTable[v] \in Byte /\ CharTable[v] # Pad
             /\ ReverseLookupTable[CharTable[v]] = v /\ InTable(CharTable[v])
  <2>1. CharTable[v] \in Byte /\ CharTable[v] # Pad
    BY <1>1 DEF Byte, Pad
  <2>2. ReverseLookupTable[CharTable[v]] = v
    BY <1>1, <1>2, <2>1
  <2> QED
    BY <2>1, <2>2 DEF InTable, Invalid
<1> QED
  BY <1>3, <1>4, <1>5

\* The sextet j of the k that x begins with, zero beyond them, and the bytes that
\* the sextets are the bits of.
SextetAt(x, k, j) == IF j < k THEN x[j + 1] ELSE 0

DecodedByte(x, k, i) ==
    CASE i % 3 = 0 -> SextetAt(x, k, 4 * (i \div 3)) * 4 + SextetAt(x, k, 4 * (i \div 3) + 1) \div 16
      [] i % 3 = 1 -> (SextetAt(x, k, 4 * (i \div 3) + 1) % 16) * 16
                      + SextetAt(x, k, 4 * (i \div 3) + 2) \div 4
      [] i % 3 = 2 -> (SextetAt(x, k, 4 * (i \div 3) + 2) % 4) * 64
                      + SextetAt(x, k, 4 * (i \div 3) + 3)

Decoded(x, k) == [i \in Nat |-> DecodedByte(x, k, i)]

\* The three bytes of four sextets.
LEMMA BytesOfSextets ==
    ASSUME NEW x, NEW k, NEW q \in Nat
    PROVE  /\ Decoded(x, k)[3 * q] = SextetAt(x, k, 4 * q) * 4 + SextetAt(x, k, 4 * q + 1) \div 16
           /\ Decoded(x, k)[3 * q + 1] =
                (SextetAt(x, k, 4 * q + 1) % 16) * 16 + SextetAt(x, k, 4 * q + 2) \div 4
           /\ Decoded(x, k)[3 * q + 2] =
                (SextetAt(x, k, 4 * q + 2) % 4) * 64 + SextetAt(x, k, 4 * q + 3)
<1> DEFINE Pick(m, u, v, w) == CASE m = 0 -> u [] m = 1 -> v [] m = 2 -> w
           Zero(p) == SextetAt(x, k, 4 * p) * 4 + SextetAt(x, k, 4 * p + 1) \div 16
           One(p) == (SextetAt(x, k, 4 * p + 1) % 16) * 16 + SextetAt(x, k, 4 * p + 2) \div 4
           Two(p) == (SextetAt(x, k, 4 * p + 2) % 4) * 64 + SextetAt(x, k, 4 * p + 3)
<1>1. \A i \in Nat : Decoded(x, k)[i] = Pick(i % 3, Zero(i \div 3), One(i \div 3), Two(i \div 3))
  <2>1. \A i \in Nat : Decoded(x, k)[i] = DecodedByte(x, k, i)
    BY DEF Decoded
  <2>2. \A i : DecodedByte(x, k, i) = Pick(i % 3, Zero(i \div 3), One(i \div 3), Two(i \div 3))
    BY Zenon DEF DecodedByte
  <2> HIDE DEF Pick, Zero, One, Two
  <2> QED
    BY <2>1, <2>2, Zenon
<1> HIDE DEF Pick, Zero, One, Two
<1>2. /\ 3 * q \in Nat /\ (3 * q) % 3 = 0 /\ (3 * q) \div 3 = q
      /\ 3 * q + 1 \in Nat /\ (3 * q + 1) % 3 = 1 /\ (3 * q + 1) \div 3 = q
      /\ 3 * q + 2 \in Nat /\ (3 * q + 2) % 3 = 2 /\ (3 * q + 2) \div 3 = q
  OBVIOUS
<1>3. Decoded(x, k)[3 * q] = Zero(q) /\ Decoded(x, k)[3 * q + 1] = One(q) /\ Decoded(x, k)[3 * q + 2] = Two(q)
  <2>1. \A i \in Nat : (i % 3 = 0 => Decoded(x, k)[i] = Zero(i \div 3))
                   /\ (i % 3 = 1 => Decoded(x, k)[i] = One(i \div 3))
                   /\ (i % 3 = 2 => Decoded(x, k)[i] = Two(i \div 3))
    <3> SUFFICES ASSUME NEW i \in Nat
                 PROVE  /\ i % 3 = 0 => Decoded(x, k)[i] = Zero(i \div 3)
                        /\ i % 3 = 1 => Decoded(x, k)[i] = One(i \div 3)
                        /\ i % 3 = 2 => Decoded(x, k)[i] = Two(i \div 3)
      BY Zenon
    <3> DEFINE m == i % 3
    <3>1. Decoded(x, k)[i] = Pick(m, Zero(i \div 3), One(i \div 3), Two(i \div 3))
      BY <1>1, Zenon
    <3> HIDE DEF m
    <3>2. /\ m = 0 => Decoded(x, k)[i] = Zero(i \div 3)
          /\ m = 1 => Decoded(x, k)[i] = One(i \div 3)
          /\ m = 2 => Decoded(x, k)[i] = Two(i \div 3)
      <4> DEFINE u == Zero(i \div 3)
                 v == One(i \div 3)
                 w == Two(i \div 3)
      <4>1. Decoded(x, k)[i] = Pick(m, u, v, w)
        BY <3>1
      <4> HIDE DEF u, v, w
      <4>2. (m = 0 => Pick(m, u, v, w) = u) /\ (m = 1 => Pick(m, u, v, w) = v) /\ (m = 2 => Pick(m, u, v, w) = w)
        BY DEF Pick
      <4>3. (m = 0 => Decoded(x, k)[i] = u) /\ (m = 1 => Decoded(x, k)[i] = v) /\ (m = 2 => Decoded(x, k)[i] = w)
        BY <4>1, <4>2
      <4> QED
        BY <4>3 DEF u, v, w
    <3> QED
      BY <3>2, Zenon DEF m
  <2> QED
    BY <1>2, <2>1, Zenon
<1> QED
  BY <1>3 DEF Zero, One, Two

\* A byte more.
LEMMA AppendsByte ==
    ASSUME NEW D \in [Nat -> Int], NEW E \in [Nat -> Int], NEW n \in Nat,
           \A i \in 0 .. n - 1 : D[i] = E[i]
    PROVE  Append(FirstCodes(D, n), E[n]) = FirstCodes(E, n + 1)
<1>1. FirstCodes(D, n) = FirstCodes(E, n)
  <2>1. \A i \in 1 .. n : i - 1 \in 0 .. n - 1
    OBVIOUS
  <2>2. \A i \in 1 .. n : D[i - 1] = E[i - 1]
    BY <2>1
  <2> QED
    BY <2>2, Zenon DEF FirstCodes
<1>2. FirstCodes(E, n) \in Seq(Int) /\ FirstCodes(E, n + 1) = FirstCodes(E, n) \o <<E[n]>>
  BY FirstGrows
<1> DEFINE f == FirstCodes(E, n)
           e == E[n]
<1>3. e \in Int
  OBVIOUS
<1> HIDE DEF f, e
<1>4. Append(f, e) = f \o <<e>>
  BY <1>2, <1>3, AppendIsConcat, Zenon DEF f
<1> QED
  BY <1>1, <1>2, <1>4, Zenon DEF f, e

\* Bits in the last byte.
LEMMA OrsLastByte ==
    ASSUME NEW D \in [Nat -> Int], NEW E \in [Nat -> Int], NEW n \in Nat, NEW b \in Int,
           \A i \in 0 .. n - 1 : D[i] = E[i], D[n] + b = E[n]
    PROVE  OrBack(FirstCodes(D, n + 1), b) = FirstCodes(E, n + 1)
<1> DEFINE f == FirstCodes(D, n + 1)
           g == FirstCodes(E, n + 1)
           h == OrBack(f, b)
<1>1. /\ f \in Seq(Int) /\ Len(f) = n + 1 /\ \A i \in 1 .. n + 1 : f[i] = D[i - 1]
      /\ g \in Seq(Int) /\ Len(g) = n + 1 /\ \A i \in 1 .. n + 1 : g[i] = E[i - 1]
  BY DEF FirstCodes
<1> HIDE DEF f, g
<1>2. DOMAIN f = 1 .. n + 1 /\ n + 1 \in 1 .. n + 1 /\ (n + 1) - 1 = n
  BY <1>1
<1>3. /\ h = [i \in 1 .. n + 1 |-> IF i = n + 1 THEN f[n + 1] + b ELSE f[i]]
  BY <1>1, <1>2 DEF OrBack
<1>4. ASSUME NEW i \in 1 .. n + 1 PROVE (IF i = n + 1 THEN f[n + 1] + b ELSE f[i]) = g[i]
  <2>1. CASE i = n + 1
    BY <1>1, <1>2, <2>1
  <2>2. CASE i # n + 1
    <3>1. i - 1 \in 0 .. n - 1
      BY <2>2
    <3> QED
      BY <1>1, <2>2, <3>1
  <2> QED
    BY <2>1, <2>2
<1>5. g = [i \in 1 .. n + 1 |-> g[i]]
  BY <1>1
<1> QED
  BY <1>3, <1>4, <1>5 DEF f, g

\* What decodeWithoutPadding has after k characters of the table.
DecodeState(x, k) ==
    [ok |-> TRUE, pos |-> k, ret |-> FirstCodes(Decoded(x, k), (3 * k + 3) \div 4)]

\* The sextets of a text.
Sextets(t) == [i \in 1 .. Len(t) |-> ReverseLookupTable[t[i]]]

\* They are entries of the table.
LEMMA SextetsType ==
    ASSUME NEW t \in Seq(Byte)
    PROVE  /\ Sextets(t) \in [1 .. Len(t) -> 0 .. 64]
           /\ \A i \in 1 .. Len(t) : Sextets(t)[i] = ReverseLookupTable[t[i]]
<1>1. \A i \in 1 .. Len(t) : t[i] \in Byte
  OBVIOUS
<1>2. \A i \in 1 .. Len(t) : ReverseLookupTable[t[i]] \in 0 .. 64
  BY <1>1, Tables
<1> QED
  BY <1>2 DEF Sextets

\* The bytes are numbers.
LEMMA DecodedType ==
    ASSUME NEW N \in Nat, NEW x \in [1 .. N -> 0 .. 64], NEW k \in 0 .. N
    PROVE  /\ \A j \in Nat : SextetAt(x, k, j) \in 0 .. 64
           /\ Decoded(x, k) \in [Nat -> Int]
<1>1. ASSUME NEW j \in Nat PROVE SextetAt(x, k, j) \in 0 .. 64
  <2>1. j < k => j + 1 \in 1 .. N
    OBVIOUS
  <2> QED
    BY <2>1 DEF SextetAt
<1>2. ASSUME NEW i \in Nat PROVE Decoded(x, k)[i] \in Int
  <2>1. PICK q \in Nat : i = 3 * q \/ i = 3 * q + 1 \/ i = 3 * q + 2
    <3>1. i \div 3 \in Nat /\ (i = 3 * (i \div 3) \/ i = 3 * (i \div 3) + 1 \/ i = 3 * (i \div 3) + 2)
      OBVIOUS
    <3> QED
      BY <3>1
  <2> DEFINE a == SextetAt(x, k, 4 * q)
             b == SextetAt(x, k, 4 * q + 1)
             c == SextetAt(x, k, 4 * q + 2)
             d == SextetAt(x, k, 4 * q + 3)
  <2>2. a \in Int /\ b \in Int /\ c \in Int /\ d \in Int
    <3>1. 4 * q \in Nat /\ 4 * q + 1 \in Nat /\ 4 * q + 2 \in Nat /\ 4 * q + 3 \in Nat
      OBVIOUS
    <3>2. a \in 0 .. 64 /\ b \in 0 .. 64 /\ c \in 0 .. 64 /\ d \in 0 .. 64
      BY <1>1, <3>1
    <3> HIDE DEF a, b, c, d
    <3> QED
      BY <3>2
  <2>3. /\ Decoded(x, k)[3 * q] = a * 4 + b \div 16
        /\ Decoded(x, k)[3 * q + 1] = (b % 16) * 16 + c \div 4
        /\ Decoded(x, k)[3 * q + 2] = (c % 4) * 64 + d
    BY BytesOfSextets
  <2> HIDE DEF a, b, c, d
  <2>4. a * 4 + b \div 16 \in Int /\ (b % 16) * 16 + c \div 4 \in Int /\ (c % 4) * 64 + d \in Int
    BY <2>2
  <2> QED
    BY <2>1, <2>3, <2>4
<1>3. DOMAIN Decoded(x, k) = Nat /\ Decoded(x, k) = [i \in Nat |-> Decoded(x, k)[i]]
  BY DEF Decoded
<1> QED
  BY <1>1, <1>2, <1>3

\* A sextet more changes only the bytes that it has bits of.
LEMMA DecodedKeeps ==
    ASSUME NEW N \in Nat, NEW x \in [1 .. N -> 0 .. 64], NEW k \in 0 .. N - 1, NEW q \in Nat,
           4 * q <= k, k <= 4 * q + 3
    PROVE  /\ \A i \in 0 .. 3 * q - 1 : Decoded(x, k)[i] = Decoded(x, k + 1)[i]
           /\ k >= 4 * q + 2 => Decoded(x, k)[3 * q] = Decoded(x, k + 1)[3 * q]
           /\ k = 4 * q + 3 => Decoded(x, k)[3 * q + 1] = Decoded(x, k + 1)[3 * q + 1]
<1>1. ASSUME NEW j \in Nat, j < k PROVE SextetAt(x, k, j) = SextetAt(x, k + 1, j)
  BY <1>1 DEF SextetAt
<1>2. ASSUME NEW p \in Nat, 4 * p + 1 < k
      PROVE  Decoded(x, k)[3 * p] = Decoded(x, k + 1)[3 * p]
  <2>1. SextetAt(x, k, 4 * p) = SextetAt(x, k + 1, 4 * p)
    BY <1>1, <1>2
  <2>2. SextetAt(x, k, 4 * p + 1) = SextetAt(x, k + 1, 4 * p + 1)
    BY <1>1, <1>2
  <2> QED
    BY <2>1, <2>2, BytesOfSextets
<1>3. ASSUME NEW p \in Nat, 4 * p + 2 < k
      PROVE  Decoded(x, k)[3 * p + 1] = Decoded(x, k + 1)[3 * p + 1]
  <2>1. SextetAt(x, k, 4 * p + 1) = SextetAt(x, k + 1, 4 * p + 1)
    BY <1>1, <1>3
  <2>2. SextetAt(x, k, 4 * p + 2) = SextetAt(x, k + 1, 4 * p + 2)
    BY <1>1, <1>3
  <2> QED
    BY <2>1, <2>2, BytesOfSextets
<1>4. ASSUME NEW p \in Nat, 4 * p + 3 < k
      PROVE  Decoded(x, k)[3 * p + 2] = Decoded(x, k + 1)[3 * p + 2]
  <2>1. SextetAt(x, k, 4 * p + 2) = SextetAt(x, k + 1, 4 * p + 2)
    BY <1>1, <1>4
  <2>2. SextetAt(x, k, 4 * p + 3) = SextetAt(x, k + 1, 4 * p + 3)
    BY <1>1, <1>4
  <2> QED
    BY <2>1, <2>2, BytesOfSextets
<1>5. ASSUME NEW i \in 0 .. 3 * q - 1 PROVE Decoded(x, k)[i] = Decoded(x, k + 1)[i]
  <2>1. PICK p \in Nat : i = 3 * p \/ i = 3 * p + 1 \/ i = 3 * p + 2
    <3>1. i \div 3 \in Nat /\ (i = 3 * (i \div 3) \/ i = 3 * (i \div 3) + 1 \/ i = 3 * (i \div 3) + 2)
      OBVIOUS
    <3> QED
      BY <3>1
  <2>2. 4 * p + 3 < k
    BY <2>1
  <2>3. 4 * p + 1 < k /\ 4 * p + 2 < k
    BY <2>2
  <2> QED
    BY <1>2, <1>3, <1>4, <2>1, <2>2, <2>3
<1>6. k >= 4 * q + 2 => Decoded(x, k)[3 * q] = Decoded(x, k + 1)[3 * q]
  BY <1>2
<1>7. k = 4 * q + 3 => Decoded(x, k)[3 * q + 1] = Decoded(x, k + 1)[3 * q + 1]
  BY <1>3
<1> QED
  BY <1>5, <1>6, <1>7

\* The bits that the next character c has in the last byte.
LEMMA OrsBits ==
    ASSUME NEW N \in Nat, NEW x \in [1 .. N -> 0 .. 64], NEW k \in 0 .. N - 1, NEW q \in Nat
    PROVE  LET D == Decoded(x, k)
               E == Decoded(x, k + 1)
               c == x[k + 1]
           IN  /\ k = 4 * q + 1 => OrBack(FirstCodes(D, 3 * q + 1), c \div 16) = FirstCodes(E, 3 * q + 1)
               /\ k = 4 * q + 2 => OrBack(FirstCodes(D, 3 * q + 2), c \div 4) = FirstCodes(E, 3 * q + 2)
               /\ k = 4 * q + 3 => OrBack(FirstCodes(D, 3 * q + 3), c) = FirstCodes(E, 3 * q + 3)
<1> DEFINE D == Decoded(x, k)
           E == Decoded(x, k + 1)
           c == x[k + 1]
<1>1. c \in Int /\ k \in 0 .. N /\ k + 1 \in 0 .. N
  <2>1. k + 1 \in 1 .. N
    OBVIOUS
  <2>2. c \in 0 .. 64
    BY <2>1
  <2> HIDE DEF c
  <2> QED
    BY <2>1, <2>2
<1>2. D \in [Nat -> Int] /\ E \in [Nat -> Int]
  BY <1>1, DecodedType
<1>3. /\ \A j \in Nat : SextetAt(x, k, j) \in Int
      /\ \A j \in Nat : j < k => SextetAt(x, k, j) = SextetAt(x, k + 1, j)
      /\ SextetAt(x, k, k) = 0 /\ SextetAt(x, k + 1, k) = c
  <2>1. \A j \in Nat : SextetAt(x, k, j) \in Int
    <3>1. \A j \in Nat : SextetAt(x, k, j) \in 0 .. 64
      BY <1>1, DecodedType, Zenon
    <3>2. 0 .. 64 \subseteq Int
      OBVIOUS
    <3> QED
      BY <3>1, <3>2, Zenon
  <2>2. \A j \in Nat : j < k => SextetAt(x, k, j) = SextetAt(x, k + 1, j)
    BY DEF SextetAt
  <2>3. SextetAt(x, k, k) = 0 /\ SextetAt(x, k + 1, k) = c
    BY DEF SextetAt
  <2> QED
    BY <2>1, <2>2, <2>3
<1>4. /\ D[3 * q] = SextetAt(x, k, 4 * q) * 4 + SextetAt(x, k, 4 * q + 1) \div 16
      /\ D[3 * q + 1] = (SextetAt(x, k, 4 * q + 1) % 16) * 16 + SextetAt(x, k, 4 * q + 2) \div 4
      /\ D[3 * q + 2] = (SextetAt(x, k, 4 * q + 2) % 4) * 64 + SextetAt(x, k, 4 * q + 3)
      /\ E[3 * q] = SextetAt(x, k + 1, 4 * q) * 4 + SextetAt(x, k + 1, 4 * q + 1) \div 16
      /\ E[3 * q + 1] = (SextetAt(x, k + 1, 4 * q + 1) % 16) * 16 + SextetAt(x, k + 1, 4 * q + 2) \div 4
      /\ E[3 * q + 2] = (SextetAt(x, k + 1, 4 * q + 2) % 4) * 64 + SextetAt(x, k + 1, 4 * q + 3)
  BY BytesOfSextets
<1>5. k \in {4 * q + 1, 4 * q + 2, 4 * q + 3} =>
         /\ \A i \in 0 .. 3 * q - 1 : D[i] = E[i]
         /\ k >= 4 * q + 2 => D[3 * q] = E[3 * q]
         /\ k = 4 * q + 3 => D[3 * q + 1] = E[3 * q + 1]
  BY DecodedKeeps
<1> HIDE DEF D, E, c
<1>6. CASE k = 4 * q + 1
  <2>1. D[3 * q] + c \div 16 = E[3 * q]
    <3> DEFINE a == SextetAt(x, k, 4 * q)
    <3>0. 4 * q \in Nat /\ 4 * q < k
      BY <1>6
    <3>1. a \in Int /\ SextetAt(x, k + 1, 4 * q) = a
      BY <1>3, <3>0, Zenon DEF a
    <3> HIDE DEF a
    <3>2. SextetAt(x, k, 4 * q + 1) = 0 /\ SextetAt(x, k + 1, 4 * q + 1) = c
      BY <1>3, <1>6, Zenon
    <3>3. D[3 * q] = a * 4 + 0 \div 16 /\ E[3 * q] = a * 4 + c \div 16
      BY <1>4, <3>1, <3>2, Zenon DEF a
    <3> QED
      BY <1>1, <3>1, <3>3
  <2>2. 3 * q \in Nat /\ c \div 16 \in Int /\ \A i \in 0 .. 3 * q - 1 : D[i] = E[i]
    BY <1>1, <1>5, <1>6
  <2>3. OrBack(FirstCodes(D, 3 * q + 1), c \div 16) = FirstCodes(E, 3 * q + 1)
    BY <1>2, <2>1, <2>2, OrsLastByte, Zenon
  <2> QED
    BY <1>6, <2>3 DEF D, E, c
<1>7. CASE k = 4 * q + 2
  <2>1. D[3 * q + 1] + c \div 4 = E[3 * q + 1]
    <3> DEFINE a == SextetAt(x, k, 4 * q + 1)
    <3>0. 4 * q + 1 \in Nat /\ 4 * q + 1 < k
      BY <1>7
    <3>1. a \in Int /\ SextetAt(x, k + 1, 4 * q + 1) = a
      BY <1>3, <3>0, Zenon DEF a
    <3> HIDE DEF a
    <3>2. SextetAt(x, k, 4 * q + 2) = 0 /\ SextetAt(x, k + 1, 4 * q + 2) = c
      BY <1>3, <1>7, Zenon
    <3>3. D[3 * q + 1] = (a % 16) * 16 + 0 \div 4 /\ E[3 * q + 1] = (a % 16) * 16 + c \div 4
      BY <1>4, <3>1, <3>2, Zenon DEF a
    <3> QED
      BY <1>1, <3>1, <3>3
  <2>2. /\ 3 * q + 1 \in Nat /\ c \div 4 \in Int /\ (3 * q + 1) + 1 = 3 * q + 2
        /\ \A i \in 0 .. (3 * q + 1) - 1 : D[i] = E[i]
    <3>1. \A i \in 0 .. (3 * q + 1) - 1 : i \in 0 .. 3 * q - 1 \/ i = 3 * q
      OBVIOUS
    <3> QED
      BY <1>1, <1>5, <1>7, <3>1
  <2>3. OrBack(FirstCodes(D, (3 * q + 1) + 1), c \div 4) = FirstCodes(E, (3 * q + 1) + 1)
    BY <1>2, <2>1, <2>2, OrsLastByte, Zenon
  <2> QED
    BY <1>7, <2>2, <2>3 DEF D, E, c
<1>8. CASE k = 4 * q + 3
  <2>1. D[3 * q + 2] + c = E[3 * q + 2]
    <3> DEFINE a == SextetAt(x, k, 4 * q + 2)
    <3>0. 4 * q + 2 \in Nat /\ 4 * q + 2 < k
      BY <1>8
    <3>1. a \in Int /\ SextetAt(x, k + 1, 4 * q + 2) = a
      BY <1>3, <3>0, Zenon DEF a
    <3> HIDE DEF a
    <3>2. SextetAt(x, k, 4 * q + 3) = 0 /\ SextetAt(x, k + 1, 4 * q + 3) = c
      BY <1>3, <1>8, Zenon
    <3>3. D[3 * q + 2] = (a % 4) * 64 + 0 /\ E[3 * q + 2] = (a % 4) * 64 + c
      BY <1>4, <3>1, <3>2, Zenon DEF a
    <3> QED
      BY <1>1, <3>1, <3>3
  <2>2. /\ 3 * q + 2 \in Nat /\ (3 * q + 2) + 1 = 3 * q + 3
        /\ \A i \in 0 .. (3 * q + 2) - 1 : D[i] = E[i]
    <3>1. \A i \in 0 .. (3 * q + 2) - 1 : i \in 0 .. 3 * q - 1 \/ i = 3 * q \/ i = 3 * q + 1
      OBVIOUS
    <3>2. \A i \in 0 .. (3 * q + 2) - 1 : D[i] = E[i]
      <4>1. k \in {4 * q + 1, 4 * q + 2, 4 * q + 3} /\ k >= 4 * q + 2
        BY <1>8
      <4> QED
        BY <1>5, <1>8, <3>1, <4>1, Zenon
    <3>3. 3 * q + 2 \in Nat /\ (3 * q + 2) + 1 = 3 * q + 3
      OBVIOUS
    <3> QED
      BY <3>2, <3>3
  <2>3. OrBack(FirstCodes(D, (3 * q + 2) + 1), c) = FirstCodes(E, (3 * q + 2) + 1)
    BY <1>1, <1>2, <2>1, <2>2, OrsLastByte, Zenon
  <2> QED
    BY <1>8, <2>2, <2>3 DEF D, E, c
<1>9. CASE k \notin {4 * q + 1, 4 * q + 2, 4 * q + 3}
  BY <1>9
<1> QED
  BY <1>6, <1>7, <1>8, <1>9

\* The loop body for a character of the table, case by case.
DecodeCases(e, pos, r, c) ==
    /\ pos % 4 = 0 => e = [ok |-> TRUE, pos |-> pos + 1, ret |-> Append(r, c * 4)]
    /\ pos % 4 = 1 => e = [ok |-> TRUE, pos |-> pos + 1,
                           ret |-> Append(OrBack(r, c \div 16), (c * 16) % 256)]
    /\ pos % 4 = 2 => e = [ok |-> TRUE, pos |-> pos + 1,
                           ret |-> Append(OrBack(r, c \div 4), (c * 64) % 256)]
    /\ pos % 4 = 3 => e = [ok |-> TRUE, pos |-> pos + 1, ret |-> OrBack(r, c)]

\* It does what these cases say.
LEMMA DecodeBaseIs ==
    ASSUME NEW r, NEW pos, NEW cur, NEW c, ReverseLookupTable[cur] = c, c # Invalid, NEW e,
           e = DecodeBase([ok |-> TRUE, pos |-> pos, ret |-> r], cur)
    PROVE  DecodeCases(e, pos, r, c)
<1> DEFINE st == [ok |-> TRUE, pos |-> pos, ret |-> r]
           w == Append(r, c * 4)
           x == Append(OrBack(r, c \div 16), (c * 16) % 256)
           y == Append(OrBack(r, c \div 4), (c * 64) % 256)
           z == OrBack(r, c)
           Pick(m) == CASE m = 0 -> w [] m = 1 -> x [] m = 2 -> y [] m = 3 -> z
<1>1. st.ok /\ st.pos = pos /\ st.ret = r
  OBVIOUS
<1> HIDE DEF st
<1>2. e = [ok |-> TRUE, pos |-> pos + 1, ret |-> Pick(pos % 4)]
  <2>1. ~ (~ st.ok \/ ReverseLookupTable[cur] = Invalid)
    BY <1>1
  <2>2. e = DecodeBase(st, cur)
    BY DEF st
  <2> QED
    BY <1>1, <2>1, <2>2, Zenon DEF DecodeBase
<1> HIDE DEF w, x, y, z
<1>3. Pick(0) = w /\ Pick(1) = x /\ Pick(2) = y /\ Pick(3) = z
  OBVIOUS
<1> HIDE DEF Pick
<1>4. /\ pos % 4 = 0 => e = [ok |-> TRUE, pos |-> pos + 1, ret |-> w]
      /\ pos % 4 = 1 => e = [ok |-> TRUE, pos |-> pos + 1, ret |-> x]
      /\ pos % 4 = 2 => e = [ok |-> TRUE, pos |-> pos + 1, ret |-> y]
      /\ pos % 4 = 3 => e = [ok |-> TRUE, pos |-> pos + 1, ret |-> z]
  BY <1>2, <1>3, Zenon
<1> QED
  BY <1>4, Zenon DEF w, x, y, z, DecodeCases

\* One character of the table takes decodeWithoutPadding from one of these states to
\* the next.
LEMMA DecodeStep ==
    ASSUME NEW N \in Nat, NEW x \in [1 .. N -> 0 .. 64], NEW k \in 0 .. N - 1,
           NEW cur, ReverseLookupTable[cur] = x[k + 1], x[k + 1] # Invalid
    PROVE  DecodeBase(DecodeState(x, k), cur) = DecodeState(x, k + 1)
<1> DEFINE D == Decoded(x, k)
           E == Decoded(x, k + 1)
           c == x[k + 1]
           e == DecodeBase(DecodeState(x, k), cur)
<1>1. c \in Int /\ c \in 0 .. 64 /\ k \in 0 .. N /\ k + 1 \in 0 .. N
  <2>1. k + 1 \in 1 .. N
    OBVIOUS
  <2>2. c \in 0 .. 64
    BY <2>1
  <2> HIDE DEF c
  <2> QED
    BY <2>1, <2>2
<1>2. D \in [Nat -> Int] /\ E \in [Nat -> Int]
  BY <1>1, DecodedType
<1>3. PICK q \in Nat : k = 4 * q \/ k = 4 * q + 1 \/ k = 4 * q + 2 \/ k = 4 * q + 3
  <2>1. /\ k \div 4 \in Nat
        /\ \/ k = 4 * (k \div 4) \/ k = 4 * (k \div 4) + 1
           \/ k = 4 * (k \div 4) + 2 \/ k = 4 * (k \div 4) + 3
    OBVIOUS
  <2> QED
    BY <2>1
<1>4. SextetAt(x, k + 1, k) = c /\ \A j \in Nat : j > k => SextetAt(x, k + 1, j) = 0
  BY DEF SextetAt
<1>5. /\ E[3 * q] = SextetAt(x, k + 1, 4 * q) * 4 + SextetAt(x, k + 1, 4 * q + 1) \div 16
      /\ E[3 * q + 1] = (SextetAt(x, k + 1, 4 * q + 1) % 16) * 16 + SextetAt(x, k + 1, 4 * q + 2) \div 4
      /\ E[3 * q + 2] = (SextetAt(x, k + 1, 4 * q + 2) % 4) * 64 + SextetAt(x, k + 1, 4 * q + 3)
  BY BytesOfSextets
<1>6. /\ k = 4 * q + 1 => OrBack(FirstCodes(D, 3 * q + 1), c \div 16) = FirstCodes(E, 3 * q + 1)
      /\ k = 4 * q + 2 => OrBack(FirstCodes(D, 3 * q + 2), c \div 4) = FirstCodes(E, 3 * q + 2)
      /\ k = 4 * q + 3 => OrBack(FirstCodes(D, 3 * q + 3), c) = FirstCodes(E, 3 * q + 3)
  BY OrsBits
<1> DEFINE r == FirstCodes(D, (3 * k + 3) \div 4)
<1>7. /\ k % 4 = 0 => e = [ok |-> TRUE, pos |-> k + 1, ret |-> Append(r, c * 4)]
      /\ k % 4 = 1 => e = [ok |-> TRUE, pos |-> k + 1,
                           ret |-> Append(OrBack(r, c \div 16), (c * 16) % 256)]
      /\ k % 4 = 2 => e = [ok |-> TRUE, pos |-> k + 1,
                           ret |-> Append(OrBack(r, c \div 4), (c * 64) % 256)]
      /\ k % 4 = 3 => e = [ok |-> TRUE, pos |-> k + 1, ret |-> OrBack(r, c)]
  <2>1. ReverseLookupTable[cur] = c /\ c # Invalid
    OBVIOUS
  <2>2. e = DecodeBase([ok |-> TRUE, pos |-> k, ret |-> r], cur)
    BY Zenon DEF DecodeState
  <2> HIDE DEF r, c, e
  <2>3. DecodeCases(e, k, r, c)
    BY <2>1, <2>2, DecodeBaseIs, Zenon
  <2> QED
    BY <2>3, Zenon DEF DecodeCases
<1>8. DecodeState(x, k + 1) = [ok |-> TRUE, pos |-> k + 1, ret |-> FirstCodes(E, (3 * (k + 1) + 3) \div 4)]
  BY DEF DecodeState
<1>9. \A m \in Nat : Append(FirstCodes(E, m), E[m]) = FirstCodes(E, m + 1)
  <2>1. \A m \in Nat : \A i \in 0 .. m - 1 : E[i] = E[i]
    OBVIOUS
  <2> HIDE DEF E
  <2> QED
    BY <1>2, <2>1, AppendsByte, Zenon
<1>10. k = 4 * q => \A i \in 0 .. 3 * q - 1 : D[i] = E[i]
  <2>1. k = 4 * q => 4 * q <= k /\ k <= 4 * q + 3
    OBVIOUS
  <2> QED
    BY <2>1, DecodedKeeps
<1>11. 4 * q + 1 \in Nat /\ 4 * q + 2 \in Nat /\ 4 * q + 3 \in Nat /\ 3 * q \in Nat
  OBVIOUS
<1> HIDE DEF D, E, c, e, r
<1>12. CASE k = 4 * q
  <2>1. k % 4 = 0 /\ (3 * k + 3) \div 4 = 3 * q /\ (3 * (k + 1) + 3) \div 4 = 3 * q + 1 /\ 4 * q + 1 > k
    BY <1>12
  <2>2. E[3 * q] = c * 4 + 0 \div 16
    <3>1. SextetAt(x, k + 1, 4 * q) = c /\ SextetAt(x, k + 1, 4 * q + 1) = 0
      BY <1>4, <1>11, <1>12, <2>1, Zenon
    <3> QED
      BY <1>5, <3>1, Zenon
  <2>3. E[3 * q] = c * 4
    BY <1>1, <2>2
  <2>4. Append(FirstCodes(D, 3 * q), E[3 * q]) = FirstCodes(E, 3 * q + 1)
    BY <1>2, <1>10, <1>11, <1>12, AppendsByte, Zenon
  <2> QED
    BY <1>7, <1>8, <2>1, <2>3, <2>4, Zenon DEF r, e
<1>13. CASE k = 4 * q + 1
  <2>1. k % 4 = 1 /\ (3 * k + 3) \div 4 = 3 * q + 1 /\ (3 * (k + 1) + 3) \div 4 = 3 * q + 2 /\ 4 * q + 2 > k
    BY <1>13
  <2>2. E[3 * q + 1] = (c % 16) * 16 + 0 \div 4
    <3>1. SextetAt(x, k + 1, 4 * q + 1) = c /\ SextetAt(x, k + 1, 4 * q + 2) = 0
      BY <1>4, <1>11, <1>13, <2>1, Zenon
    <3> QED
      BY <1>5, <3>1, Zenon
  <2>3. (c % 16) * 16 + 0 \div 4 = (c * 16) % 256
    BY <1>1
  <2>4. Append(FirstCodes(E, 3 * q + 1), E[3 * q + 1]) = FirstCodes(E, 3 * q + 2)
    <3>1. 3 * q + 1 \in Nat /\ (3 * q + 1) + 1 = 3 * q + 2
      OBVIOUS
    <3> QED
      BY <1>9, <3>1, Zenon
  <2> QED
    <3>1. Append(FirstCodes(E, 3 * q + 1), (c * 16) % 256) = FirstCodes(E, 3 * q + 2)
      BY <2>2, <2>3, <2>4, Zenon
    <3>2. OrBack(r, c \div 16) = FirstCodes(E, 3 * q + 1)
      BY <1>6, <1>13, <2>1, Zenon DEF r
    <3>3. e = [ok |-> TRUE, pos |-> k + 1, ret |-> FirstCodes(E, 3 * q + 2)]
      BY <1>7, <2>1, <3>1, <3>2, Zenon
    <3> QED
      BY <1>8, <2>1, <3>3, Zenon DEF e
<1>14. CASE k = 4 * q + 2
  <2>1. k % 4 = 2 /\ (3 * k + 3) \div 4 = 3 * q + 2 /\ (3 * (k + 1) + 3) \div 4 = 3 * q + 3 /\ 4 * q + 3 > k
    BY <1>14
  <2>2. E[3 * q + 2] = (c % 4) * 64 + 0
    <3>1. SextetAt(x, k + 1, 4 * q + 2) = c /\ SextetAt(x, k + 1, 4 * q + 3) = 0
      BY <1>4, <1>11, <1>14, <2>1, Zenon
    <3> QED
      BY <1>5, <3>1, Zenon
  <2>3. (c % 4) * 64 + 0 = (c * 64) % 256
    BY <1>1
  <2>4. Append(FirstCodes(E, 3 * q + 2), E[3 * q + 2]) = FirstCodes(E, 3 * q + 3)
    <3>1. 3 * q + 2 \in Nat /\ (3 * q + 2) + 1 = 3 * q + 3
      OBVIOUS
    <3> QED
      BY <1>9, <3>1, Zenon
  <2> QED
    <3>1. Append(FirstCodes(E, 3 * q + 2), (c * 64) % 256) = FirstCodes(E, 3 * q + 3)
      BY <2>2, <2>3, <2>4, Zenon
    <3>2. OrBack(r, c \div 4) = FirstCodes(E, 3 * q + 2)
      BY <1>6, <1>14, <2>1, Zenon DEF r
    <3>3. e = [ok |-> TRUE, pos |-> k + 1, ret |-> FirstCodes(E, 3 * q + 3)]
      BY <1>7, <2>1, <3>1, <3>2, Zenon
    <3> QED
      BY <1>8, <2>1, <3>3, Zenon DEF e
<1>15. CASE k = 4 * q + 3
  <2>1. k % 4 = 3 /\ (3 * k + 3) \div 4 = 3 * q + 3 /\ (3 * (k + 1) + 3) \div 4 = 3 * q + 3
    BY <1>15
  <2> QED
    BY <1>6, <1>7, <1>8, <1>15, <2>1, Zenon DEF r, e
<1> QED
  BY <1>3, <1>12, <1>13, <1>14, <1>15

\* The type of the state of the loop.
DecodeLoopState == [ok : BOOLEAN, pos : Nat, ret : Seq(Int)]

\* Each character leaves a state of this type; once not ok, it stays so.
LEMMA DecodeBaseType ==
    ASSUME NEW st \in DecodeLoopState, NEW cur \in Byte
    PROVE  /\ DecodeBase(st, cur) \in DecodeLoopState
           /\ ~ st.ok \/ ~ InTable(cur) => ~ DecodeBase(st, cur).ok
<1> DEFINE c == ReverseLookupTable[cur]
           r == st.ret
           pos == st.pos
           e == DecodeBase(st, cur)
<1>1. st.ok \in BOOLEAN /\ pos \in Nat /\ r \in Seq(Int)
  BY DEF DecodeLoopState
<1>2. c \in Int
  <2>1. c \in 0 .. 64
    BY Tables
  <2> HIDE DEF c
  <2> QED
    BY <2>1
<1>3. CASE ~ st.ok \/ c = Invalid
  <2>1. e = [st EXCEPT !.ok = FALSE]
    BY <1>3, Zenon DEF DecodeBase
  <2>2. e = [ok |-> FALSE, pos |-> pos, ret |-> r]
    <3> HIDE DEF e
    <3> QED
      BY <2>1 DEF DecodeLoopState
  <2>3. e \in DecodeLoopState
    <3> HIDE DEF e
    <3> QED
      BY <1>1, <2>2 DEF DecodeLoopState
  <2>4. ~ e.ok
    <3> HIDE DEF e
    <3> QED
      BY <2>2
  <2> QED
    BY <2>3, <2>4
<1>4. CASE st.ok /\ c # Invalid
  <2>1. st = [ok |-> TRUE, pos |-> pos, ret |-> r]
    BY <1>4 DEF DecodeLoopState
  <2> HIDE DEF c, r, pos
  <2>2. DecodeCases(e, pos, r, c)
    BY <1>4, <2>1, DecodeBaseIs, Zenon DEF c
  <2> HIDE DEF e
  <2>3. r \in Seq(Int) /\ c \in Int
    BY <1>1, <1>2 DEF r, c
  <2>4. ASSUME NEW b \in Int PROVE OrBack(r, b) \in Seq(Int)
    <3> DEFINE n == Len(r)
               g == [i \in 1 .. n |-> IF i = n THEN r[n] + b ELSE r[i]]
    <3>1. OrBack(r, b) = g
      BY <2>3 DEF OrBack
    <3>2. n \in Nat /\ \A i \in 1 .. n : r[i] \in Int
      BY <2>3
    <3> HIDE DEF n
    <3>3. g \in Seq(Int)
      BY <3>2
    <3> QED
      BY <3>1, <3>3
  <2>5. ASSUME NEW f \in Seq(Int), NEW b \in Int PROVE Append(f, b) \in Seq(Int)
    OBVIOUS
  <2>6. /\ c * 4 \in Int /\ c \div 16 \in Int /\ (c * 16) % 256 \in Int
        /\ c \div 4 \in Int /\ (c * 64) % 256 \in Int
    BY <1>2 DEF c
  <2>7. ASSUME NEW f \in Seq(Int), e = [ok |-> TRUE, pos |-> pos + 1, ret |-> f] PROVE e \in DecodeLoopState
    BY <1>1, <2>7 DEF DecodeLoopState, pos
  <2>8. pos % 4 = 0 \/ pos % 4 = 1 \/ pos % 4 = 2 \/ pos % 4 = 3
    BY <1>1 DEF pos
  <2>9. /\ Append(r, c * 4) \in Seq(Int)
        /\ Append(OrBack(r, c \div 16), (c * 16) % 256) \in Seq(Int)
        /\ Append(OrBack(r, c \div 4), (c * 64) % 256) \in Seq(Int)
        /\ OrBack(r, c) \in Seq(Int)
    BY <2>4, <2>5, <2>6, <2>3, Zenon
  <2>10. e \in DecodeLoopState
    BY <2>2, <2>7, <2>8, <2>9, Zenon DEF DecodeCases
  <2> QED
    BY <1>4, <2>10, Zenon DEF InTable, c, e
<1> QED
  BY <1>1, <1>3, <1>4

\* The recursion that the loop over the text is the result of.
DecodeRecursion(it, n, s) ==
    it = [t \in SUBSET (1 .. n) |->
            IF t = {} THEN [ok |-> TRUE, pos |-> 0, ret |-> <<>>]
            ELSE DecodeBase(it[t \ {Max(t)}], s[Max(t)])]

\* Whether the first k sextets are all those of characters of the table.
AllInTable(x, k) == \A i \in 1 .. k : x[i] # Invalid

\* What the loop over a text s leaves, where x has its sextets.
LEMMA DecodeLoopIs ==
    ASSUME NEW s \in Seq(Byte), NEW N \in Nat, NEW x \in [1 .. N -> 0 .. 64], Len(s) <= N,
           \A i \in 1 .. Len(s) : x[i] = ReverseLookupTable[s[i]]
    PROVE  LET st == FoldLeft(DecodeBase, [ok |-> TRUE, pos |-> 0, ret |-> <<>>], s)
           IN  /\ st \in DecodeLoopState
               /\ AllInTable(x, Len(s)) => st = DecodeState(x, Len(s))
               /\ ~ AllInTable(x, Len(s)) => ~ st.ok
<1> DEFINE n == Len(s)
           Start == [ok |-> TRUE, pos |-> 0, ret |-> <<>>]
           F == [p \in DecodeLoopState \X (1 .. n) |-> DecodeBase(p[1], s[p[2]])]
           it == CHOOSE h : DecodeRecursion(h, n, s)
<1>1. n \in Nat /\ DOMAIN s = 1 .. n /\ \A i \in 1 .. n : s[i] \in Byte
  OBVIOUS
<1>2. FoldLeft(DecodeBase, Start, s) = it[1 .. n]
  BY <1>1, Zenon DEF FoldLeft, MapThenFoldSet, DecodeRecursion
<1> HIDE DEF it, n
<1>3. F \in [DecodeLoopState \X (1 .. n) -> DecodeLoopState]
  <2>1. \A v \in DecodeLoopState : \A i \in 1 .. n : DecodeBase(v, s[i]) \in DecodeLoopState
    BY <1>1, DecodeBaseType
  <2> QED
    BY <2>1
<1> HIDE DEF F
<1>4. Start \in DecodeLoopState
  <2>1. TRUE \in BOOLEAN /\ 0 \in Nat /\ <<>> \in Seq(Int)
    OBVIOUS
  <2> QED
    BY <2>1, Zenon DEF DecodeLoopState
<1> HIDE DEF Start
<1>5. PICK h \in [SUBSET (1 .. n) -> DecodeLoopState] : FoldRecursion(h, n, Start, F)
  BY <1>1, <1>3, <1>4, FoldExists
<1>6. DecodeRecursion(h, n, s)
  <2>1. ASSUME NEW t \in SUBSET (1 .. n), t # {}
        PROVE  F[<<h[t \ {Max(t)}], Max(t)>>] = DecodeBase(h[t \ {Max(t)}], s[Max(t)])
    <3>1. Max(t) \in 1 .. n
      BY <1>1, <2>1, MaxOfIndices
    <3>2. h[t \ {Max(t)}] \in DecodeLoopState
      OBVIOUS
    <3> QED
      BY <3>1, <3>2 DEF F
  <2> QED
    BY <1>5, <2>1, Zenon DEF DecodeRecursion, FoldRecursion, Start
<1>7. DecodeRecursion(it, n, s)
  BY <1>6 DEF it
<1> DEFINE Holds(st, k) ==
             /\ st \in DecodeLoopState
             /\ AllInTable(x, k) => st = DecodeState(x, k)
             /\ ~ AllInTable(x, k) => ~ st.ok
           S == {k \in 0 .. n : Holds(it[1 .. k], k)}
<1>8. 0 \in S
  <2>1. 1 .. 0 = {} /\ {} \in SUBSET (1 .. n) /\ 0 \in 0 .. n
    BY <1>1
  <2>2. it[{}] = Start
    BY <1>7, <2>1, Zenon DEF DecodeRecursion, Start
  <2>3. (3 * 0 + 3) \div 4 = 0
    OBVIOUS
  <2>4. FirstCodes(Decoded(x, 0), 0) = <<>>
    BY <2>1 DEF FirstCodes
  <2>5. DecodeState(x, 0) = Start
    BY <2>3, <2>4, Zenon DEF DecodeState, Start
  <2>6. AllInTable(x, 0)
    BY <2>1 DEF AllInTable
  <2> QED
    BY <1>4, <2>1, <2>2, <2>5, <2>6, Zenon
<1>9. ASSUME NEW k \in 0 .. n - 1, k \in S PROVE k + 1 \in S
  <2>1. /\ Max(1 .. k + 1) = k + 1 /\ (1 .. k + 1) \ {Max(1 .. k + 1)} = 1 .. k
        /\ 1 .. k + 1 \in SUBSET (1 .. n) /\ 1 .. k + 1 # {} /\ k + 1 \in 1 .. n
        /\ 1 .. k + 1 = (1 .. k) \cup {k + 1}
    BY <1>1, NextPrefix
  <2> DEFINE v == it[1 .. k]
             w == it[1 .. k + 1]
             cur == s[k + 1]
  <2>2. w = DecodeBase(v, cur)
    <3> DEFINE t == 1 .. k + 1
    <3>1. it[t] = DecodeBase(it[t \ {Max(t)}], s[Max(t)])
      BY <1>7, <2>1, Zenon DEF DecodeRecursion
    <3>2. Max(t) = k + 1 /\ t \ {Max(t)} = 1 .. k
      BY <2>1
    <3> HIDE DEF t
    <3>3. it[t] = DecodeBase(it[1 .. k], s[k + 1])
      BY <3>1, <3>2, Zenon
    <3> QED
      BY <3>3 DEF t
  <2>3. Holds(v, k)
    BY <1>9
  <2>4. cur \in Byte /\ ReverseLookupTable[cur] = x[k + 1] /\ k \in 0 .. N - 1 /\ k + 1 \in 0 .. n
    <3>1. cur \in Byte
      BY <1>1, <2>1, Zenon
    <3>2. ReverseLookupTable[cur] = x[k + 1]
      BY <2>1, Zenon DEF n
    <3> QED
      BY <1>1, <3>1, <3>2 DEF n
  <2>5. AllInTable(x, k + 1) <=> AllInTable(x, k) /\ x[k + 1] # Invalid
    BY <2>1, Zenon DEF AllInTable
  <2> HIDE DEF v, w, cur
  <2>6. w \in DecodeLoopState /\ (~ v.ok \/ ~ InTable(cur) => ~ w.ok)
    BY <2>2, <2>3, <2>4, DecodeBaseType, Zenon
  <2>7. AllInTable(x, k + 1) => w = DecodeState(x, k + 1)
    BY <2>2, <2>3, <2>4, <2>5, DecodeStep, Zenon
  <2>8. ~ AllInTable(x, k + 1) => ~ w.ok
    BY <2>3, <2>4, <2>5, <2>6, Zenon DEF InTable
  <2> QED
    BY <2>4, <2>6, <2>7, <2>8, Zenon DEF w
<1>10. n \in S
  <2> HIDE DEF S
  <2>1. \A k \in 0 .. n - 1 : k \in S => k + 1 \in S
    BY <1>9
  <2>2. \A k \in 0 .. n : k \in S
    BY <1>1, <1>8, <2>1, RangeInduction, Zenon
  <2> QED
    BY <1>1, <2>2
<1>11. Holds(it[1 .. n], n)
  BY <1>10
<1> HIDE DEF Holds
<1>12. Holds(FoldLeft(DecodeBase, Start, s), n)
  BY <1>2, <1>11, Zenon
<1> QED
  BY <1>12, Zenon DEF Holds, n, Start

\* The last position wraps only if there is nothing but padding, at most two
\* characters of it.
LEMMA WrapsOnPaddingOnly ==
    ASSUME NEW s \in Seq(Byte), s # <<>>, Len(s) < SizeModulus, LastPosition(s) >= Len(s)
    PROVE  /\ Len(s) \in 1 .. 2 /\ \A i \in 1 .. Len(s) : s[i] = Pad
           /\ Min({LastPosition(s), Len(s)}) = Len(s)
<1> DEFINE n == Len(s)
           u == Unpadded(s)
           l == (u + 65536 - 1) % 65536
<1>1. n \in Nat /\ n >= 1 /\ n < 65536
  BY DEF SizeModulus
<1>2. LastPosition(s) = l
  BY DEF LastPosition, SizeModulus
<1>3. \/ s[n] # Pad /\ u = n
      \/ s[n] = Pad /\ n - 1 > 0 /\ s[n - 1] = Pad /\ u = n - 2
      \/ s[n] = Pad /\ ~ (n - 1 > 0 /\ s[n - 1] = Pad) /\ u = n - 1
  BY DEF Unpadded
<1> HIDE DEF u, n
<1>4. u = 0
  <2>1. u \in Int /\ u >= 0 /\ u <= n
    BY <1>1, <1>3
  <2>2. ASSUME NEW x \in Int, x > 0, x < 65536 PROVE (x + 65536 - 1) % 65536 = x - 1
    BY <2>2
  <2>3. u > 0 => l = u - 1
    BY <1>1, <2>1, <2>2
  <2> QED
    BY <1>1, <1>2, <2>1, <2>3 DEF n
<1>5. (n = 2 /\ s[n] = Pad /\ s[n - 1] = Pad) \/ (n = 1 /\ s[n] = Pad)
  BY <1>1, <1>3, <1>4
<1>6. l = 65535
  BY <1>4
<1> HIDE DEF l
<1>7. Min({l, n}) = n
  <2>1. \A x \in {l, n} : x \in Int /\ n <= x
    BY <1>1, <1>6
  <2> QED
    BY <1>1, <1>6, <2>1 DEF Min
<1>8. n \in 1 .. 2 /\ \A i \in 1 .. n : s[i] = Pad
  BY <1>5
<1>9. Min({LastPosition(s), n}) = n
  BY <1>2, <1>7, Zenon
<1> QED
  BY <1>8, <1>9, Zenon DEF n

\* decodeWithoutPadding reads within its input: where the last position
\* wraps, the loop ends at the first character, which is padding.
THEOREM CodecsDecodeInBounds == Spec => []DecodeInBounds
<1>1. Inputs => DecodeInBounds
  <2> SUFFICES ASSUME Inputs, ReadsPastEnd(string) PROVE FALSE
    BY DEF DecodeInBounds
  <2>1. string \in Seq(Byte) /\ string # <<>> /\ LastPosition(string) >= Len(string)
    BY DEF Inputs, ReadsPastEnd
  <2>2. Len(string) < SizeModulus
    BY <2>1, CodecsAssumption DEF Inputs, SizeModulus
  <2>3. /\ Len(string) \in 1 .. 2 /\ \A i \in 1 .. Len(string) : string[i] = Pad
        /\ Min({LastPosition(string), Len(string)}) = Len(string)
    BY <2>1, <2>2, WrapsOnPaddingOnly
  <2>4. SubSeq(string, 1, Len(string)) = string
    BY <2>1
  <2> DEFINE st == FoldLeft(DecodeBase, [ok |-> TRUE, pos |-> 0, ret |-> <<>>], string)
             x == Sextets(string)
             n == Len(string)
  <2>5. DecodeLoop(string) = st
    BY <2>3, <2>4, Zenon DEF DecodeLoop
  <2>6. x \in [1 .. n -> 0 .. 64] /\ \A i \in 1 .. n : x[i] = ReverseLookupTable[string[i]]
    BY <2>1, SextetsType
  <2>7. x[1] = Invalid /\ 1 \in 1 .. n
    <3>1. 1 \in 1 .. n
      <4>1. n \in 1 .. 2
        BY <2>3, Zenon
      <4> HIDE DEF n
      <4> QED
        BY <4>1
    <3>2. ReverseLookupTable[Pad] = Invalid
      BY DEF ReverseLookupTable, Pad, Byte
    <3> QED
      BY <2>3, <2>6, <3>1, <3>2, Zenon
  <2> HIDE DEF x
  <2>8. ~ AllInTable(x, n)
    BY <2>7 DEF AllInTable
  <2>9. n \in Nat /\ n <= n
    BY <2>1
  <2>10. ~ st.ok
    BY <2>1, <2>6, <2>8, <2>9, DecodeLoopIs, Zenon
  <2> QED
    BY <2>5, <2>10, Zenon DEF ReadsPastEnd
<1> QED
  BY <1>1, InputsInv, PTL

\* The last character, case by case.
LastCases(e, pos, r, c) ==
    /\ pos % 4 = 0 => ~ e.ok
    /\ pos % 4 = 1 => (e.ok <=> c % 16 = 0) /\ e.ret = OrBack(r, c \div 16)
    /\ pos % 4 = 2 => (e.ok <=> c % 4 = 0) /\ e.ret = OrBack(r, c \div 4)
    /\ pos % 4 = 3 => e.ok /\ e.ret = OrBack(r, c)

\* A last character of the table does what these cases say.
LEMMA DecodeLastIs ==
    ASSUME NEW r, NEW pos, NEW cur, NEW c, ReverseLookupTable[cur] = c, c # Invalid, NEW e,
           e = DecodeLast([ok |-> TRUE, pos |-> pos, ret |-> r], cur)
    PROVE  LastCases(e, pos, r, c)
<1> DEFINE st == [ok |-> TRUE, pos |-> pos, ret |-> r]
           w == c % 16 = 0
           x == c % 4 = 0
           f == c \div 16
           g == c \div 4
           Ok(m) == CASE m = 1 -> w [] m = 2 -> x [] m = 3 -> TRUE
           Bits(m) == CASE m = 1 -> f [] m = 2 -> g [] m = 3 -> c
<1>1. st.ok /\ st.pos = pos /\ st.ret = r
  OBVIOUS
<1>2. e = DecodeLast(st, cur)
  OBVIOUS
<1> HIDE DEF st
<1>3. ASSUME pos % 4 = 0 PROVE ~ e.ok
  <2>1. e = [st EXCEPT !.ok = FALSE]
    BY <1>1, <1>2, <1>3, Zenon DEF DecodeLast
  <2> QED
    BY <2>1 DEF st
<1>4. ASSUME pos % 4 # 0 PROVE e = [ok |-> Ok(pos % 4), pos |-> pos, ret |-> OrBack(r, Bits(pos % 4))]
  <2>1. ~ (~ st.ok \/ ReverseLookupTable[cur] = Invalid \/ st.pos % 4 = 0)
    BY <1>1, <1>4
  <2> QED
    BY <1>1, <1>2, <2>1, Zenon DEF DecodeLast
<1> HIDE DEF f, g, w, x
<1>5. Bits(1) = f /\ Bits(2) = g /\ Bits(3) = c
  OBVIOUS
<1>6. Ok(1) = w /\ Ok(2) = x /\ Ok(3) = TRUE
  OBVIOUS
<1> HIDE DEF Ok, Bits
<1>7. pos % 4 # 0 => e.ok = Ok(pos % 4) /\ e.ret = OrBack(r, Bits(pos % 4))
  <2> DEFINE ok == Ok(pos % 4)
             ret == OrBack(r, Bits(pos % 4))
  <2>1. pos % 4 # 0 => e = [ok |-> ok, pos |-> pos, ret |-> ret]
    BY <1>4
  <2> HIDE DEF ok, ret
  <2>2. pos % 4 # 0 => e.ok = ok /\ e.ret = ret
    BY <2>1
  <2> QED
    BY <2>2, Zenon DEF ok, ret
<1>8. 1 # 0 /\ 2 # 0 /\ 3 # 0
  OBVIOUS
<1>9. ASSUME pos % 4 = 1 PROVE e.ok = w /\ e.ret = OrBack(r, f)
  BY <1>5, <1>6, <1>7, <1>8, <1>9, Zenon
<1>10. ASSUME pos % 4 = 2 PROVE e.ok = x /\ e.ret = OrBack(r, g)
  BY <1>5, <1>6, <1>7, <1>8, <1>10, Zenon
<1>11. ASSUME pos % 4 = 3 PROVE e.ok = TRUE /\ e.ret = OrBack(r, c)
  BY <1>5, <1>6, <1>7, <1>8, <1>11, Zenon
<1> QED
  BY <1>3, <1>9, <1>10, <1>11, Zenon DEF LastCases, f, g, w, x

\* Where the text ends without its padding.
LEMMA UnpaddedIs ==
    ASSUME NEW t \in Seq(Byte), t # <<>>, Len(t) < SizeModulus
    PROVE  LET n == Len(t)
               u == Unpadded(t)
           IN  /\ \/ t[n] # Pad /\ u = n
                  \/ t[n] = Pad /\ n - 1 > 0 /\ t[n - 1] = Pad /\ u = n - 2
                  \/ t[n] = Pad /\ ~ (n - 1 > 0 /\ t[n - 1] = Pad) /\ u = n - 1
               /\ u \in 0 .. n
               /\ u = 0 => LastPosition(t) >= n
               /\ u # 0 => LastPosition(t) = u - 1 /\ Min({LastPosition(t), n}) = u - 1
<1> DEFINE n == Len(t)
           u == Unpadded(t)
           l == (u + 65536 - 1) % 65536
<1>1. n \in Nat /\ n >= 1 /\ n < 65536
  BY DEF SizeModulus
<1>2. LastPosition(t) = l
  BY DEF LastPosition, SizeModulus
<1>3. \/ t[n] # Pad /\ u = n
      \/ t[n] = Pad /\ n - 1 > 0 /\ t[n - 1] = Pad /\ u = n - 2
      \/ t[n] = Pad /\ ~ (n - 1 > 0 /\ t[n - 1] = Pad) /\ u = n - 1
  BY DEF Unpadded
<1> HIDE DEF u, n
<1>4. u \in 0 .. n
  BY <1>1, <1>3
<1>5. u = 0 => l >= n
  BY <1>1, <1>4
<1>6. u # 0 => l = u - 1
  BY <1>1, <1>4
<1> HIDE DEF l
<1>7. ASSUME u # 0 PROVE Min({l, n}) = u - 1
  <2>1. l = u - 1 /\ l \in Int /\ l <= n
    BY <1>1, <1>4, <1>6, <1>7
  <2>2. \A y \in {l, n} : y \in Int /\ l <= y
    BY <1>1, <2>1
  <2> QED
    BY <2>1, <2>2 DEF Min
<1>8. u # 0 => LastPosition(t) = u - 1 /\ Min({LastPosition(t), n}) = u - 1
  BY <1>2, <1>6, <1>7, Zenon
<1>9. u = 0 => LastPosition(t) >= n
  BY <1>2, <1>5, Zenon
<1> QED
  BY <1>3, <1>4, <1>8, <1>9 DEF u, n

\* Whether decodeWithoutPadding accepts the first u sextets of x.
Decodable(x, u) ==
    /\ u # 0 /\ AllInTable(x, u) /\ u % 4 # 1
    /\ u % 4 = 2 => x[u] % 16 = 0
    /\ u % 4 = 3 => x[u] % 4 = 0

\* What decodeWithoutPadding returns.
LEMMA DecodeIs ==
    ASSUME NEW t \in Seq(Byte), t # <<>>, Len(t) < SizeModulus
    PROVE  LET u == Unpadded(t)
               x == Sextets(t)
           IN  DecodeWithoutPadding(t) =
                 IF Decodable(x, u) THEN FirstCodes(Decoded(x, u), (3 * u) \div 4) ELSE <<>>
<1> DEFINE n == Len(t)
           u == Unpadded(t)
           k == u - 1
           x == Sextets(t)
           s == SubSeq(t, 1, k)
           st == DecodeLoop(t)
           cur == t[u]
           c == x[u]
           e == DecodeLast(st, cur)
           D == Decoded(x, k)
           E == Decoded(x, u)
<1>1. n \in Nat /\ n # 0
  OBVIOUS
<1>2. /\ u \in 0 .. n /\ (u = 0 => LastPosition(t) >= n)
      /\ u # 0 => LastPosition(t) = k /\ Min({LastPosition(t), n}) = k
  BY UnpaddedIs
<1>3. x \in [1 .. n -> 0 .. 64] /\ \A i \in 1 .. n : x[i] = ReverseLookupTable[t[i]]
  BY SextetsType
<1> HIDE DEF n, u, x
<1>4. CASE u = 0
  <2>1. LastPosition(t) >= n
    BY <1>2, <1>4, Zenon
  <2>2. DecodeWithoutPadding(t) = <<>>
    BY <2>1, Zenon DEF DecodeWithoutPadding, n
  <2> QED
    BY <1>4, <2>2, Zenon DEF Decodable, u, x
<1>5. CASE u # 0
  <2>1. k \in 0 .. n - 1 /\ k + 1 = u /\ ~ (k >= n) /\ u \in 1 .. n /\ k \in Nat
    BY <1>1, <1>2, <1>5
  <2>2. DecodeWithoutPadding(t) = IF e.ok THEN e.ret ELSE <<>>
    <3> DEFINE l == LastPosition(t)
    <3>1. ~ (l >= Len(t)) /\ l + 1 = u
      BY <1>2, <1>5, <2>1 DEF n
    <3>2. ~ (t = <<>> \/ l >= Len(t))
      BY <3>1
    <3> QED
      BY <3>1, <3>2, Zenon DEF DecodeWithoutPadding
  <2>3. s \in Seq(Byte) /\ Len(s) = k /\ \A i \in 1 .. k : s[i] = t[i]
    BY <1>1, <2>1 DEF n
  <2>4. /\ st \in DecodeLoopState
        /\ AllInTable(x, k) => st = DecodeState(x, k)
        /\ ~ AllInTable(x, k) => ~ st.ok
    <3>1. st = FoldLeft(DecodeBase, [ok |-> TRUE, pos |-> 0, ret |-> <<>>], s)
      <4>1. Min({LastPosition(t), Len(t)}) = k
        BY <1>2, <1>5, Zenon DEF n
      <4> HIDE DEF k
      <4> QED
        BY <4>1, Zenon DEF DecodeLoop
    <3> HIDE DEF k, s
    <3>2. Len(s) <= n
      BY <1>1, <2>1, <2>3
    <3>3. \A i \in 1 .. Len(s) : x[i] = ReverseLookupTable[s[i]]
      <4>1. \A i \in 1 .. k : i \in 1 .. n
        BY <1>1, <2>1
      <4> QED
        BY <1>3, <2>3, <4>1, Zenon
    <3> HIDE DEF st
    <3> QED
      BY <1>1, <1>3, <2>3, <3>1, <3>2, <3>3, DecodeLoopIs, Zenon
  <2>5. c = ReverseLookupTable[cur] /\ c \in Int
    <3>1. c \in 0 .. 64 /\ c = ReverseLookupTable[cur]
      BY <1>3, <2>1
    <3> HIDE DEF c
    <3> QED
      BY <3>1
  <2>6. AllInTable(x, u) <=> AllInTable(x, k) /\ c # Invalid
    <3>1. 1 .. u = (1 .. k) \cup {u}
      BY <2>1
    <3> HIDE DEF k
    <3> QED
      BY <3>1, Zenon DEF AllInTable
  <2> HIDE DEF k, st, c, cur, s
  <2>7. ASSUME ~ AllInTable(x, u) PROVE ~ e.ok
    <3>1. ~ st.ok \/ ReverseLookupTable[cur] = Invalid
      BY <2>4, <2>5, <2>6, <2>7, Zenon
    <3>2. e = [st EXCEPT !.ok = FALSE]
      BY <3>1, Zenon DEF DecodeLast
    <3> HIDE DEF e
    <3> QED
      BY <2>4, <3>2 DEF DecodeLoopState
  <2>8. ASSUME AllInTable(x, u)
        PROVE  /\ e.ok <=> Decodable(x, u)
               /\ u % 4 # 1 => e.ret = FirstCodes(E, (3 * u) \div 4)
    <3> DEFINE r == FirstCodes(D, (3 * k + 3) \div 4)
    <3>1. LastCases(e, k, r, c)
      <4>1. st = [ok |-> TRUE, pos |-> k, ret |-> r] /\ c # Invalid
        BY <2>4, <2>6, <2>8 DEF DecodeState
      <4> HIDE DEF r
      <4> QED
        BY <2>5, <4>1, DecodeLastIs, Zenon
    <3>2. PICK q \in Nat : k = 4 * q \/ k = 4 * q + 1 \/ k = 4 * q + 2 \/ k = 4 * q + 3
      <4>1. /\ k \div 4 \in Nat
            /\ \/ k = 4 * (k \div 4) \/ k = 4 * (k \div 4) + 1
               \/ k = 4 * (k \div 4) + 2 \/ k = 4 * (k \div 4) + 3
        BY <2>1
      <4> QED
        BY <4>1
    <3>3. /\ k = 4 * q + 1 => OrBack(FirstCodes(D, 3 * q + 1), c \div 16) = FirstCodes(E, 3 * q + 1)
          /\ k = 4 * q + 2 => OrBack(FirstCodes(D, 3 * q + 2), c \div 4) = FirstCodes(E, 3 * q + 2)
          /\ k = 4 * q + 3 => OrBack(FirstCodes(D, 3 * q + 3), c) = FirstCodes(E, 3 * q + 3)
      <4>1. c = x[k + 1] /\ E = Decoded(x, k + 1)
        BY <2>1, Zenon DEF c
      <4> HIDE DEF E, c
      <4> QED
        BY <1>1, <1>3, <2>1, <4>1, OrsBits
    <3> HIDE DEF D, E, e, r
    <3>4. CASE k = 4 * q
      <4>1. k % 4 = 0 /\ u % 4 = 1
        BY <2>1, <3>4
      <4> QED
        BY <3>1, <4>1, Zenon DEF LastCases, Decodable
    <3>5. CASE k = 4 * q + 1
      <4>1. k % 4 = 1 /\ u % 4 = 2 /\ (3 * k + 3) \div 4 = 3 * q + 1 /\ (3 * u) \div 4 = 3 * q + 1
        BY <2>1, <3>5
      <4>2. 2 # 1 /\ 2 # 3
        OBVIOUS
      <4> QED
        BY <1>5, <2>8, <3>1, <3>3, <3>5, <4>1, <4>2, Zenon DEF LastCases, Decodable, r, c
    <3>6. CASE k = 4 * q + 2
      <4>1. k % 4 = 2 /\ u % 4 = 3 /\ (3 * k + 3) \div 4 = 3 * q + 2 /\ (3 * u) \div 4 = 3 * q + 2
        BY <2>1, <3>6
      <4>2. 3 # 1 /\ 3 # 2
        OBVIOUS
      <4> QED
        BY <1>5, <2>8, <3>1, <3>3, <3>6, <4>1, <4>2, Zenon DEF LastCases, Decodable, r, c
    <3>7. CASE k = 4 * q + 3
      <4>1. k % 4 = 3 /\ u % 4 = 0 /\ (3 * k + 3) \div 4 = 3 * q + 3 /\ (3 * u) \div 4 = 3 * q + 3
        BY <2>1, <3>7
      <4>2. 0 # 1 /\ 0 # 2 /\ 0 # 3
        OBVIOUS
      <4> QED
        BY <1>5, <2>8, <3>1, <3>3, <3>7, <4>1, <4>2, Zenon DEF LastCases, Decodable, r, c
    <3> QED
      BY <3>2, <3>4, <3>5, <3>6, <3>7
  <2> HIDE DEF e, E
  <2>9. e.ok <=> Decodable(x, u)
    BY <2>7, <2>8, Zenon DEF Decodable
  <2>10. Decodable(x, u) => e.ret = FirstCodes(E, (3 * u) \div 4)
    BY <2>8, Zenon DEF Decodable
  <2> QED
    BY <2>2, <2>9, <2>10, Zenon DEF E, u, x
<1> QED
  BY <1>4, <1>5

----------------------------------------------------------------------------
(* decodeWithoutPadding and encode *)

\* Three bytes are read back from the four sextets of their bits ...
LEMMA BytesBack ==
    ASSUME NEW a \in Byte, NEW b \in Byte, NEW c \in Byte
    PROVE  /\ (a \div 4) * 4 + ((a % 4) * 16 + b \div 16) \div 16 = a
           /\ (((a % 4) * 16 + b \div 16) % 16) * 16 + ((b % 16) * 4 + c \div 64) \div 4 = b
           /\ (((b % 16) * 4 + c \div 64) % 4) * 64 + (c % 64) = c
           /\ a \div 4 \in 0 .. 63 /\ (a % 4) * 16 + b \div 16 \in 0 .. 63
           /\ (b % 16) * 4 + c \div 64 \in 0 .. 63 /\ c % 64 \in 0 .. 63
BY DEF Byte

\* ... and four sextets from the three bytes of theirs.
SextetsReturn(v, w, y, z) ==
    /\ (v * 4 + w \div 16) \div 4 = v
    /\ ((v * 4 + w \div 16) % 4) * 16 + ((w % 16) * 16 + y \div 4) \div 16 = w
    /\ (((w % 16) * 16 + y \div 4) % 16) * 4 + ((y % 4) * 64 + z) \div 64 = y
    /\ ((y % 4) * 64 + z) % 64 = z

\* They do.
LEMMA SextetsBack ==
    ASSUME NEW v \in 0 .. 63, NEW w \in 0 .. 63, NEW y \in 0 .. 63, NEW z \in 0 .. 63
    PROVE  SextetsReturn(v, w, y, z)
BY DEF SextetsReturn

\* The number of characters for n bytes.
LEMMA UsedIs ==
    ASSUME NEW s \in Seq(Byte)
    PROVE  \E q \in Nat : \/ Len(s) = 3 * q /\ UsedChars(s) = 4 * q
                          \/ Len(s) = 3 * q + 1 /\ UsedChars(s) = 4 * q + 2
                          \/ Len(s) = 3 * q + 2 /\ UsedChars(s) = 4 * q + 3
<1> DEFINE n == Len(s)
           q == n \div 3
<1>1. n \in Nat
  OBVIOUS
<1>2. q \in Nat /\ (n = 3 * q \/ n = 3 * q + 1 \/ n = 3 * q + 2)
  BY <1>1
<1> HIDE DEF q, n
<1>3. \/ n = 3 * q /\ (8 * n + 5) \div 6 = 4 * q
      \/ n = 3 * q + 1 /\ (8 * n + 5) \div 6 = 4 * q + 2
      \/ n = 3 * q + 2 /\ (8 * n + 5) \div 6 = 4 * q + 3
  BY <1>2
<1> QED
  BY <1>2, <1>3 DEF UsedChars, n

\* A byte of a string, or zero, is a byte.
LEMMA ByteAtType ==
    ASSUME NEW s \in Seq(Byte), NEW m \in Nat
    PROVE  ByteAt(s, m) \in Byte
<1>1. 0 \in Byte
  BY DEF Byte
<1>2. CASE m < Len(s)
  <2>1. m + 1 \in 1 .. Len(s)
    BY <1>2
  <2>2. s[m + 1] \in Byte
    BY <2>1
  <2> QED
    BY <1>2, <2>2, Zenon DEF ByteAt
<1>3. CASE ~ (m < Len(s))
  BY <1>1, <1>3, Zenon DEF ByteAt
<1> QED
  BY <1>2, <1>3

\* The sextets of a string are sextets, and zero beyond its characters.
LEMMA SextetRange ==
    ASSUME NEW s \in Seq(Byte), NEW j \in Nat
    PROVE  Sextet(s, j) \in 0 .. 63 /\ (j >= UsedChars(s) => Sextet(s, j) = 0)
<1>1. Sextet(s, j) \in 0 .. 63
  <2>1. PICK q \in Nat : j = 4 * q \/ j = 4 * q + 1 \/ j = 4 * q + 2 \/ j = 4 * q + 3
    <3>1. /\ j \div 4 \in Nat
          /\ \/ j = 4 * (j \div 4) \/ j = 4 * (j \div 4) + 1
             \/ j = 4 * (j \div 4) + 2 \/ j = 4 * (j \div 4) + 3
      OBVIOUS
    <3> QED
      BY <3>1
  <2> DEFINE a == ByteAt(s, 3 * q)
             b == ByteAt(s, 3 * q + 1)
             c == ByteAt(s, 3 * q + 2)
  <2>2. a \in Byte /\ b \in Byte /\ c \in Byte
    BY ByteAtType
  <2>3. /\ Sextet(s, 4 * q) = a \div 4
        /\ Sextet(s, 4 * q + 1) = (a % 4) * 16 + b \div 16
        /\ Sextet(s, 4 * q + 2) = (b % 16) * 4 + c \div 64
        /\ Sextet(s, 4 * q + 3) = c % 64
    BY SextetsOfBytes
  <2> HIDE DEF a, b, c
  <2>4. /\ a \div 4 \in 0 .. 63 /\ (a % 4) * 16 + b \div 16 \in 0 .. 63
        /\ (b % 16) * 4 + c \div 64 \in 0 .. 63 /\ c % 64 \in 0 .. 63
    BY <2>2, BytesBack, Zenon
  <2> QED
    BY <2>1, <2>3, <2>4, Zenon
<1>2. ASSUME j >= UsedChars(s) PROVE Sextet(s, j) = 0
  <2>1. 6 * j >= 8 * Len(s) /\ Len(s) \in Nat
    BY <1>2 DEF UsedChars
  <2>2. /\ (6 * j) \div 8 >= Len(s) /\ (6 * j + 1) \div 8 >= Len(s) /\ (6 * j + 2) \div 8 >= Len(s)
        /\ (6 * j + 3) \div 8 >= Len(s) /\ (6 * j + 4) \div 8 >= Len(s) /\ (6 * j + 5) \div 8 >= Len(s)
    <3> DEFINE n == Len(s)
    <3> HIDE DEF n
    <3>1. 6 * j >= 8 * n /\ n \in Nat
      BY <2>1 DEF n
    <3>2. /\ (6 * j) \div 8 >= n /\ (6 * j + 1) \div 8 >= n /\ (6 * j + 2) \div 8 >= n
          /\ (6 * j + 3) \div 8 >= n /\ (6 * j + 4) \div 8 >= n /\ (6 * j + 5) \div 8 >= n
      BY <3>1
    <3> QED
      BY <3>2 DEF n
  <2>3. /\ Bit(s, 6 * j) = 0 /\ Bit(s, 6 * j + 1) = 0 /\ Bit(s, 6 * j + 2) = 0
        /\ Bit(s, 6 * j + 3) = 0 /\ Bit(s, 6 * j + 4) = 0 /\ Bit(s, 6 * j + 5) = 0
    BY <2>2, Zenon DEF Bit
  <2>4. Sextet(s, j) = 32 * 0 + 16 * 0 + 8 * 0 + 4 * 0 + 2 * 0 + 0
    BY <2>3, Zenon DEF Sextet
  <2> QED
    BY <2>4
<1> QED
  BY <1>1, <1>2

\* The characters of a string are those of the table.
LEMMA CodesAre ==
    ASSUME NEW s \in Seq(Byte)
    PROVE  \A j \in Nat : /\ Codes(s)[j] \in Byte /\ Codes(s)[j] # Pad
                          /\ ReverseLookupTable[Codes(s)[j]] = Sextet(s, j)
                          /\ Sextet(s, j) # Invalid
<1> SUFFICES ASSUME NEW j \in Nat
             PROVE  /\ Codes(s)[j] \in Byte /\ Codes(s)[j] # Pad
                    /\ ReverseLookupTable[Codes(s)[j]] = Sextet(s, j)
                    /\ Sextet(s, j) # Invalid
  BY Zenon
<1> DEFINE v == Sextet(s, j)
<1>1. v \in 0 .. 63
  BY SextetRange
<1>2. Codes(s)[j] = CharTable[v]
  BY DEF Codes
<1> HIDE DEF v
<1>3. v # Invalid
  BY <1>1 DEF Invalid
<1> QED
  BY <1>1, <1>2, <1>3, Tables, Zenon DEF v

\* What encode writes: u characters of the table and p of padding, whole groups of four
\* if there are any of padding.
LEMMA EncodeShape ==
    ASSUME NEW s \in Seq(Byte), NEW padding \in BOOLEAN
    PROVE  \E p \in 0 .. 2 :
              LET t == Encode(s, padding)
              IN  /\ t \in Seq(Byte) /\ Len(t) = UsedChars(s) + p
                  /\ \A i \in 1 .. UsedChars(s) : t[i] = Codes(s)[i - 1]
                  /\ \A i \in UsedChars(s) + 1 .. UsedChars(s) + p : t[i] = Pad
                  /\ Len(t) <= 4 * ((Len(s) + 2) \div 3)
<1> DEFINE C == Codes(s)
           n == Len(s)
           u == UsedChars(s)
           t == Encode(s, padding)
           p == IF n % 3 = 0 THEN 0 ELSE IF padding THEN 3 - (n % 3) ELSE 0
           f == [i \in 1 .. u + p |-> IF i <= u THEN C[i - 1] ELSE Pad]
<1>1. n \in Nat /\ u \in Nat /\ p \in 0 .. 2 /\ u + p <= 4 * ((n + 2) \div 3)
  <2>1. PICK q \in Nat : \/ n = 3 * q /\ u = 4 * q
                         \/ n = 3 * q + 1 /\ u = 4 * q + 2
                         \/ n = 3 * q + 2 /\ u = 4 * q + 3
    BY UsedIs, Zenon
  <2> HIDE DEF n, u
  <2>2. CASE n = 3 * q /\ u = 4 * q
    <3>1. n % 3 = 0
      BY <2>2
    <3>2. p = 0
      BY <3>1, Zenon
    <3> HIDE DEF p
    <3> QED
      BY <2>2, <3>2
  <2>3. CASE n = 3 * q + 1 /\ u = 4 * q + 2
    <3>1. n % 3 = 1 /\ n % 3 # 0
      BY <2>3
    <3>2. p = 0 \/ p = 3 - 1
      BY <3>1, Zenon
    <3> HIDE DEF p
    <3> QED
      BY <2>3, <3>2
  <2>4. CASE n = 3 * q + 2 /\ u = 4 * q + 3
    <3>1. n % 3 = 2 /\ n % 3 # 0
      BY <2>4
    <3>2. p = 0 \/ p = 3 - 2
      BY <3>1, Zenon
    <3> HIDE DEF p
    <3> QED
      BY <2>4, <3>2
  <2> QED
    BY <2>1, <2>2, <2>3, <2>4
<1>2. t = f
  <2>1. CASE n % 3 = 0
    <3>1. t = FirstCodes(C, u)
      BY <2>1, EncodeIs
    <3>2. u + p = u /\ \A i \in 1 .. u : i <= u
      BY <1>1, <2>1
    <3> HIDE DEF C, u, p, t
    <3>3. f = [i \in 1 .. u |-> C[i - 1]]
      BY <3>2, Zenon
    <3> QED
      BY <3>1, <3>3, Zenon DEF FirstCodes
  <2>2. CASE n % 3 # 0
    <3>1. u - 1 \in Nat /\ t = WithPadding(C, u - 1, p)
      BY <2>2, EncodeIs
    <3> HIDE DEF C, u, p, t
    <3>2. (u - 1) + 1 = u
      BY <1>1
    <3> QED
      BY <3>1, <3>2, Zenon DEF WithPadding
  <2> QED
    BY <2>1, <2>2
<1>3. ASSUME NEW i \in 1 .. u + p
      PROVE  (IF i <= u THEN C[i - 1] ELSE Pad) \in Byte
  <2>1. i - 1 \in Nat
    BY <1>1
  <2>2. C[i - 1] \in Byte
    BY <2>1, CodesAre
  <2>3. Pad \in Byte
    BY DEF Pad, Byte
  <2> QED
    BY <2>2, <2>3, Zenon
<1> HIDE DEF C, u, p, t, n
<1>4. f \in Seq(Byte) /\ Len(f) = u + p
  <2> DEFINE m == u + p
             F(i) == IF i <= u THEN C[i - 1] ELSE Pad
             g == [i \in 1 .. m |-> F(i)]
  <2>1. m \in Nat /\ \A i \in 1 .. m : F(i) \in Byte
    BY <1>1, <1>3
  <2> HIDE DEF m, F
  <2>2. g \in Seq(Byte) /\ Len(g) = m
    BY <2>1
  <2> QED
    BY <2>2, Zenon DEF m, F
<1>5. ASSUME NEW i \in 1 .. u PROVE f[i] = C[i - 1]
  <2>1. i \in 1 .. u + p /\ i <= u
    BY <1>1
  <2> QED
    BY <2>1, Zenon
<1>6. ASSUME NEW i \in u + 1 .. u + p PROVE f[i] = Pad
  <2>1. i \in 1 .. u + p /\ ~ (i <= u)
    BY <1>1
  <2> QED
    BY <2>1, Zenon
<1> DEFINE Shape(r, m) ==
             /\ r \in Seq(Byte) /\ Len(r) = u + m
             /\ \A i \in 1 .. u : r[i] = C[i - 1]
             /\ \A i \in u + 1 .. u + m : r[i] = Pad
             /\ Len(r) <= 4 * ((n + 2) \div 3)
<1>7. Shape(f, p)
  <2> HIDE DEF f
  <2> QED
    BY <1>1, <1>4, <1>5, <1>6, Zenon
<1> HIDE DEF f, Shape
<1>8. \E m \in 0 .. 2 : Shape(t, m)
  BY <1>1, <1>2, <1>7, Zenon
<1> QED
  BY <1>8, Zenon DEF Shape, C, u, t, n

\* What is decoded from the sextets of a string, all of them, is the string.
LEMMA DecodedIsString ==
    ASSUME NEW s \in Seq(Byte), NEW x, NEW u \in Nat,
           \A j \in Nat : SextetAt(x, u, j) = Sextet(s, j)
    PROVE  \A i \in Nat : Decoded(x, u)[i] = ByteAt(s, i)
<1> SUFFICES ASSUME NEW i \in Nat PROVE Decoded(x, u)[i] = ByteAt(s, i)
  BY Zenon
<1>1. PICK q \in Nat : i = 3 * q \/ i = 3 * q + 1 \/ i = 3 * q + 2
  <2>1. i \div 3 \in Nat /\ (i = 3 * (i \div 3) \/ i = 3 * (i \div 3) + 1 \/ i = 3 * (i \div 3) + 2)
    OBVIOUS
  <2> QED
    BY <2>1
<1> DEFINE a == ByteAt(s, 3 * q)
           b == ByteAt(s, 3 * q + 1)
           c == ByteAt(s, 3 * q + 2)
<1>2. a \in Byte /\ b \in Byte /\ c \in Byte
  BY ByteAtType
<1>3. /\ Sextet(s, 4 * q) = a \div 4
      /\ Sextet(s, 4 * q + 1) = (a % 4) * 16 + b \div 16
      /\ Sextet(s, 4 * q + 2) = (b % 16) * 4 + c \div 64
      /\ Sextet(s, 4 * q + 3) = c % 64
  BY SextetsOfBytes
<1> HIDE DEF a, b, c
<1>4. /\ SextetAt(x, u, 4 * q) = a \div 4
      /\ SextetAt(x, u, 4 * q + 1) = (a % 4) * 16 + b \div 16
      /\ SextetAt(x, u, 4 * q + 2) = (b % 16) * 4 + c \div 64
      /\ SextetAt(x, u, 4 * q + 3) = c % 64
  <2>1. 4 * q \in Nat /\ 4 * q + 1 \in Nat /\ 4 * q + 2 \in Nat /\ 4 * q + 3 \in Nat
    OBVIOUS
  <2> QED
    BY <1>3, <2>1, Zenon
<1>5. /\ Decoded(x, u)[3 * q] = SextetAt(x, u, 4 * q) * 4 + SextetAt(x, u, 4 * q + 1) \div 16
      /\ Decoded(x, u)[3 * q + 1] =
           (SextetAt(x, u, 4 * q + 1) % 16) * 16 + SextetAt(x, u, 4 * q + 2) \div 4
      /\ Decoded(x, u)[3 * q + 2] =
           (SextetAt(x, u, 4 * q + 2) % 4) * 64 + SextetAt(x, u, 4 * q + 3)
  BY BytesOfSextets, Zenon
<1>6. /\ (a \div 4) * 4 + ((a % 4) * 16 + b \div 16) \div 16 = a
      /\ (((a % 4) * 16 + b \div 16) % 16) * 16 + ((b % 16) * 4 + c \div 64) \div 4 = b
      /\ (((b % 16) * 4 + c \div 64) % 4) * 64 + (c % 64) = c
  BY <1>2, BytesBack
<1>7. Decoded(x, u)[3 * q] = a /\ Decoded(x, u)[3 * q + 1] = b /\ Decoded(x, u)[3 * q + 2] = c
  BY <1>4, <1>5, <1>6, Zenon
<1> QED
  BY <1>1, <1>7, Zenon DEF a, b, c

\* decodeWithoutPadding returns the string that encode was given.
LEMMA DecodeEncode ==
    ASSUME NEW s \in Seq(Byte), NEW padding \in BOOLEAN,
           4 * ((Len(s) + 2) \div 3) < SizeModulus
    PROVE  DecodeWithoutPadding(Encode(s, padding)) = s
<1> DEFINE t == Encode(s, padding)
           u == UsedChars(s)
           C == Codes(s)
           x == Sextets(t)
           n == Len(s)
<1>1. PICK p \in 0 .. 2 :
         /\ t \in Seq(Byte) /\ Len(t) = u + p
         /\ \A i \in 1 .. u : t[i] = C[i - 1]
         /\ \A i \in u + 1 .. u + p : t[i] = Pad
         /\ Len(t) <= 4 * ((n + 2) \div 3)
  BY EncodeShape, Zenon
<1>2. PICK q \in Nat : \/ n = 3 * q /\ u = 4 * q
                       \/ n = 3 * q + 1 /\ u = 4 * q + 2
                       \/ n = 3 * q + 2 /\ u = 4 * q + 3
  BY UsedIs, Zenon
<1>3. n \in Nat /\ u \in Nat /\ (3 * u) \div 4 = n
  BY <1>2
<1>4. \A j \in Nat : /\ C[j] \in Byte /\ C[j] # Pad
                     /\ ReverseLookupTable[C[j]] = Sextet(s, j) /\ Sextet(s, j) # Invalid
  BY CodesAre
<1>5. CASE n = 0
  <2>1. s = <<>>
    BY <1>5
  <2>2. Encode(s, padding) = FirstCodes(C, 0)
    <3>1. n % 3 = 0 /\ u = 0
      BY <1>2, <1>5
    <3> HIDE DEF C, u
    <3>2. t = FirstCodes(C, u)
      BY <3>1, EncodeIs DEF C, u
    <3> QED
      BY <3>1, <3>2, Zenon
  <2>3. FirstCodes(C, 0) = <<>>
    BY DEF FirstCodes
  <2> QED
    BY <2>1, <2>2, <2>3, Zenon DEF DecodeWithoutPadding
<1>6. CASE n # 0
  <2> HIDE DEF t, u, C, n
  <2>1. u >= 1 /\ t # <<>> /\ Len(t) < SizeModulus
    <3>1. u >= 1
      BY <1>2, <1>6
    <3>2. Len(t) >= 1 /\ Len(t) \in Int
      BY <1>1, <1>3, <3>1
    <3>3. 4 * ((n + 2) \div 3) < SizeModulus
      BY DEF n
    <3>4. Len(t) < SizeModulus
      BY <1>1, <1>3, <3>2, <3>3 DEF SizeModulus
    <3> QED
      BY <3>1, <3>2, <3>4
  <2>2. Unpadded(t) = u
    <3>1. t[u] # Pad
      <4>1. u \in 1 .. u /\ u - 1 \in Nat
        BY <1>3, <2>1
      <4> QED
        BY <1>1, <1>4, <4>1, Zenon
    <3> DEFINE m == Len(t)
               w == Unpadded(t)
    <3>2. \/ t[m] # Pad /\ w = m
          \/ t[m] = Pad /\ m - 1 > 0 /\ t[m - 1] = Pad /\ w = m - 2
          \/ t[m] = Pad /\ ~ (m - 1 > 0 /\ t[m - 1] = Pad) /\ w = m - 1
      BY <1>1, <2>1, UnpaddedIs
    <3>3. m = u + p
      BY <1>1
    <3>4. (p >= 1 => t[u + 1] = Pad) /\ (p >= 2 => t[u + 2] = Pad)
      <4>1. /\ p >= 1 => u + 1 \in u + 1 .. u + p
            /\ p >= 2 => u + 2 \in u + 1 .. u + p
        BY <1>3
      <4> QED
        BY <1>1, <4>1, Zenon
    <3> HIDE DEF m, w
    <3>5. CASE p = 0
      <4>1. m = u
        BY <1>3, <3>3, <3>5
      <4> QED
        BY <3>1, <3>2, <4>1 DEF w
    <3>6. CASE p = 1
      <4>1. m = u + 1 /\ m - 1 = u /\ p >= 1
        BY <1>3, <3>3, <3>6
      <4> QED
        BY <3>1, <3>2, <3>4, <4>1 DEF w
    <3>7. CASE p = 2
      <4>1. m = u + 2 /\ m - 1 = u + 1 /\ m - 2 = u /\ m - 1 > 0 /\ p >= 1 /\ p >= 2
        BY <1>3, <3>3, <3>7
      <4> QED
        BY <3>1, <3>2, <3>4, <4>1 DEF w
    <3> QED
      BY <3>5, <3>6, <3>7
  <2>3. ASSUME NEW i \in 1 .. u PROVE x[i] = Sextet(s, i - 1) /\ x[i] # Invalid
    <3>1. i \in 1 .. Len(t) /\ i - 1 \in Nat
      BY <1>1, <1>3
    <3>2. x[i] = ReverseLookupTable[t[i]]
      BY <3>1, Zenon DEF Sextets
    <3>3. t[i] = C[i - 1]
      BY <1>1
    <3> QED
      BY <1>4, <3>1, <3>2, <3>3, Zenon
  <2> HIDE DEF x
  <2>4. ASSUME NEW j \in Nat PROVE SextetAt(x, u, j) = Sextet(s, j)
    <3>1. CASE j < u
      <4>1. j + 1 \in 1 .. u /\ (j + 1) - 1 = j
        BY <1>3, <3>1
      <4>2. x[j + 1] = Sextet(s, j)
        BY <2>3, <4>1, Zenon
      <4> QED
        BY <3>1, <4>2, Zenon DEF SextetAt
    <3>2. CASE ~ (j < u)
      <4>1. j >= UsedChars(s)
        BY <1>3, <3>2 DEF u
      <4>2. Sextet(s, j) = 0
        BY <4>1, SextetRange
      <4> QED
        BY <3>2, <4>2, Zenon DEF SextetAt
    <3> QED
      BY <3>1, <3>2
  <2>5. \A i \in Nat : Decoded(x, u)[i] = ByteAt(s, i)
    BY <1>3, <2>4, DecodedIsString, Zenon
  <2>6. Decodable(x, u)
    <3>1. u # 0 /\ u % 4 # 1 /\ u \in 1 .. u
      BY <1>2, <1>3, <2>1
    <3>2. AllInTable(x, u)
      BY <2>3 DEF AllInTable
    <3> DEFINE a == ByteAt(s, 3 * q)
               b == ByteAt(s, 3 * q + 1)
               c == ByteAt(s, 3 * q + 2)
    <3>3. a \in Byte /\ b \in Byte
      BY ByteAtType
    <3>4. /\ Sextet(s, 4 * q + 1) = (a % 4) * 16 + b \div 16
          /\ Sextet(s, 4 * q + 2) = (b % 16) * 4 + c \div 64
      BY SextetsOfBytes
    <3>5. x[u] = Sextet(s, u - 1)
      BY <2>3, <3>1, Zenon
    <3>6. (n = 3 * q + 1 => b = 0) /\ (n = 3 * q + 2 => c = 0)
      BY <1>3 DEF ByteAt, n
    <3> HIDE DEF a, b, c
    <3>7. ASSUME u % 4 = 2 PROVE x[u] % 16 = 0
      <4>1. n = 3 * q + 1 /\ u - 1 = 4 * q + 1
        BY <1>2, <3>7
      <4>2. x[u] = (a % 4) * 16 + 0 \div 16
        BY <3>4, <3>5, <3>6, <4>1, Zenon
      <4>3. ((a % 4) * 16 + 0 \div 16) % 16 = 0
        BY <3>3 DEF Byte
      <4> QED
        BY <4>2, <4>3, Zenon
    <3>8. ASSUME u % 4 = 3 PROVE x[u] % 4 = 0
      <4>1. n = 3 * q + 2 /\ u - 1 = 4 * q + 2
        BY <1>2, <3>8
      <4>2. x[u] = (b % 16) * 4 + 0 \div 64
        BY <3>4, <3>5, <3>6, <4>1, Zenon
      <4>3. ((b % 16) * 4 + 0 \div 64) % 4 = 0
        BY <3>3 DEF Byte
      <4> QED
        BY <4>2, <4>3, Zenon
    <3> QED
      BY <3>1, <3>2, <3>7, <3>8, Zenon DEF Decodable
  <2>7. DecodeWithoutPadding(t) = FirstCodes(Decoded(x, u), n)
    <3>1. DecodeWithoutPadding(t) =
            IF Decodable(Sextets(t), Unpadded(t))
            THEN FirstCodes(Decoded(Sextets(t), Unpadded(t)), (3 * Unpadded(t)) \div 4) ELSE <<>>
      BY <1>1, <2>1, DecodeIs, Zenon
    <3> QED
      BY <1>3, <2>2, <2>6, <3>1, Zenon DEF x
  <2>8. FirstCodes(Decoded(x, u), n) = [i \in 1 .. n |-> s[i]]
    <3>1. ASSUME NEW i \in 1 .. n PROVE Decoded(x, u)[i - 1] = s[i]
      <4>1. i - 1 \in Nat /\ i - 1 < n /\ (i - 1) + 1 = i
        BY <1>3
      <4> QED
        BY <2>5, <4>1, Zenon DEF ByteAt, n
    <3> QED
      BY <3>1, Zenon DEF FirstCodes
  <2>9. s = [i \in 1 .. n |-> s[i]]
    BY DEF n
  <2> QED
    BY <2>7, <2>8, <2>9, Zenon DEF t
<1> QED
  BY <1>5, <1>6

\* The sextets of what is decoded from x are those of x.
LEMMA StringOfDecoded ==
    ASSUME NEW d \in Seq(Byte), NEW x, NEW u,
           \A i \in Nat : ByteAt(d, i) = Decoded(x, u)[i],
           \A j \in Nat : SextetAt(x, u, j) \in 0 .. 63
    PROVE  \A j \in Nat : Sextet(d, j) = SextetAt(x, u, j)
<1> SUFFICES ASSUME NEW j \in Nat PROVE Sextet(d, j) = SextetAt(x, u, j)
  BY Zenon
<1>1. PICK q \in Nat : j = 4 * q \/ j = 4 * q + 1 \/ j = 4 * q + 2 \/ j = 4 * q + 3
  <2>1. /\ j \div 4 \in Nat
        /\ \/ j = 4 * (j \div 4) \/ j = 4 * (j \div 4) + 1
           \/ j = 4 * (j \div 4) + 2 \/ j = 4 * (j \div 4) + 3
    OBVIOUS
  <2> QED
    BY <2>1
<1> DEFINE v == SextetAt(x, u, 4 * q)
           w == SextetAt(x, u, 4 * q + 1)
           y == SextetAt(x, u, 4 * q + 2)
           z == SextetAt(x, u, 4 * q + 3)
<1>2. v \in 0 .. 63 /\ w \in 0 .. 63 /\ y \in 0 .. 63 /\ z \in 0 .. 63
  <2>1. 4 * q \in Nat /\ 4 * q + 1 \in Nat /\ 4 * q + 2 \in Nat /\ 4 * q + 3 \in Nat
    OBVIOUS
  <2> QED
    BY <2>1, Zenon
<1>3. /\ Decoded(x, u)[3 * q] = v * 4 + w \div 16
      /\ Decoded(x, u)[3 * q + 1] = (w % 16) * 16 + y \div 4
      /\ Decoded(x, u)[3 * q + 2] = (y % 4) * 64 + z
  BY BytesOfSextets, Zenon
<1> HIDE DEF v, w, y, z
<1>4. /\ ByteAt(d, 3 * q) = v * 4 + w \div 16
      /\ ByteAt(d, 3 * q + 1) = (w % 16) * 16 + y \div 4
      /\ ByteAt(d, 3 * q + 2) = (y % 4) * 64 + z
  <2>1. 3 * q \in Nat /\ 3 * q + 1 \in Nat /\ 3 * q + 2 \in Nat
    OBVIOUS
  <2> QED
    BY <1>3, <2>1, Zenon
<1>5. /\ Sextet(d, 4 * q) = ByteAt(d, 3 * q) \div 4
      /\ Sextet(d, 4 * q + 1) = (ByteAt(d, 3 * q) % 4) * 16 + ByteAt(d, 3 * q + 1) \div 16
      /\ Sextet(d, 4 * q + 2) = (ByteAt(d, 3 * q + 1) % 16) * 4 + ByteAt(d, 3 * q + 2) \div 64
      /\ Sextet(d, 4 * q + 3) = ByteAt(d, 3 * q + 2) % 64
  BY SextetsOfBytes, Zenon
<1>6. SextetsReturn(v, w, y, z)
  BY <1>2, SextetsBack, Zenon
<1>7. /\ Sextet(d, 4 * q) = v /\ Sextet(d, 4 * q + 1) = w
      /\ Sextet(d, 4 * q + 2) = y /\ Sextet(d, 4 * q + 3) = z
  BY <1>4, <1>5, <1>6, Zenon DEF SextetsReturn
<1> QED
  BY <1>1, <1>7, Zenon DEF v, w, y, z

\* The bytes that are decoded are bytes, and zero beyond the last one that is returned.
LEMMA DecodedBytes ==
    ASSUME NEW x, NEW u \in Nat, u % 4 # 1,
           \A j \in Nat : SextetAt(x, u, j) \in 0 .. 63,
           u % 4 = 2 => SextetAt(x, u, u - 1) % 16 = 0,
           u % 4 = 3 => SextetAt(x, u, u - 1) % 4 = 0
    PROVE  \A i \in Nat : /\ Decoded(x, u)[i] \in Byte
                          /\ i >= (3 * u) \div 4 => Decoded(x, u)[i] = 0
<1> SUFFICES ASSUME NEW i \in Nat
             PROVE  /\ Decoded(x, u)[i] \in Byte
                    /\ i >= (3 * u) \div 4 => Decoded(x, u)[i] = 0
  BY Zenon
<1>1. PICK q \in Nat : i = 3 * q \/ i = 3 * q + 1 \/ i = 3 * q + 2
  <2>1. i \div 3 \in Nat /\ (i = 3 * (i \div 3) \/ i = 3 * (i \div 3) + 1 \/ i = 3 * (i \div 3) + 2)
    OBVIOUS
  <2> QED
    BY <2>1
<1> DEFINE v == SextetAt(x, u, 4 * q)
           w == SextetAt(x, u, 4 * q + 1)
           y == SextetAt(x, u, 4 * q + 2)
           z == SextetAt(x, u, 4 * q + 3)
           D == Decoded(x, u)
<1>2. v \in 0 .. 63 /\ w \in 0 .. 63 /\ y \in 0 .. 63 /\ z \in 0 .. 63
  <2>1. 4 * q \in Nat /\ 4 * q + 1 \in Nat /\ 4 * q + 2 \in Nat /\ 4 * q + 3 \in Nat
    OBVIOUS
  <2> QED
    BY <2>1, Zenon
<1>3. /\ D[3 * q] = v * 4 + w \div 16
      /\ D[3 * q + 1] = (w % 16) * 16 + y \div 4
      /\ D[3 * q + 2] = (y % 4) * 64 + z
  BY BytesOfSextets, Zenon
<1>4. /\ 4 * q >= u => v = 0
      /\ 4 * q + 1 >= u => w = 0
      /\ 4 * q + 2 >= u => y = 0
      /\ 4 * q + 3 >= u => z = 0
  BY DEF SextetAt
<1>5. u % 4 = 2 /\ u = 4 * q + 2 => w % 16 = 0
  <2>1. u = 4 * q + 2 => u - 1 = 4 * q + 1
    OBVIOUS
  <2> QED
    BY <2>1, Zenon
<1>6. u % 4 = 3 /\ u = 4 * q + 3 => y % 4 = 0
  <2>1. u = 4 * q + 3 => u - 1 = 4 * q + 2
    OBVIOUS
  <2> QED
    BY <2>1, Zenon
<1> HIDE DEF v, w, y, z, D
<1>7. D[3 * q] \in Byte /\ D[3 * q + 1] \in Byte /\ D[3 * q + 2] \in Byte
  BY <1>2, <1>3 DEF Byte
<1>8. 3 * q >= (3 * u) \div 4 => D[3 * q] = 0
  <2>1. 3 * q >= (3 * u) \div 4 => 4 * q >= u /\ 4 * q + 1 >= u
    OBVIOUS
  <2> QED
    BY <1>3, <1>4, <2>1
<1>9. 3 * q + 1 >= (3 * u) \div 4 => D[3 * q + 1] = 0
  <2>1. 3 * q + 1 >= (3 * u) \div 4 => 4 * q + 2 >= u
    OBVIOUS
  <2>2. 4 * q + 2 >= u => (u % 4 = 2 /\ u = 4 * q + 2) \/ 4 * q + 1 >= u
    OBVIOUS
  <2>3. 4 * q + 2 >= u => w % 16 = 0 /\ y = 0
    BY <1>4, <1>5, <2>2
  <2> QED
    BY <1>3, <2>1, <2>3
<1>10. 3 * q + 2 >= (3 * u) \div 4 => D[3 * q + 2] = 0
  <2>1. 3 * q + 2 >= (3 * u) \div 4 => 4 * q + 3 >= u
    OBVIOUS
  <2>2. 4 * q + 3 >= u => (u % 4 = 3 /\ u = 4 * q + 3) \/ 4 * q + 2 >= u
    OBVIOUS
  <2>3. 4 * q + 3 >= u => y % 4 = 0 /\ z = 0
    BY <1>4, <1>6, <2>2
  <2> QED
    BY <1>3, <2>1, <2>3
<1> QED
  BY <1>1, <1>7, <1>8, <1>9, <1>10, Zenon DEF D

\* A text that decodeWithoutPadding accepts is, up to the padding, what encode writes for
\* the result, and the result has the length that is asserted.
LEMMA EncodeDecode ==
    ASSUME NEW t \in Seq(Byte), Len(t) < SizeModulus, DecodeWithoutPadding(t) # <<>>
    PROVE  LET d == DecodeWithoutPadding(t)
           IN  /\ Encode(d, FALSE) = SubSeq(t, 1, Unpadded(t))
               /\ Len(d) = MaxLength(t)
<1> DEFINE d == DecodeWithoutPadding(t)
           u == Unpadded(t)
           x == Sextets(t)
           D == Decoded(x, u)
           m == (3 * u) \div 4
<1>1. t # <<>>
  BY Zenon DEF DecodeWithoutPadding
<1>2. Decodable(x, u) /\ d = FirstCodes(D, m)
  <2>1. d = IF Decodable(x, u) THEN FirstCodes(D, m) ELSE <<>>
    BY <1>1, DecodeIs, Zenon
  <2> QED
    BY <2>1, Zenon
<1>3. u \in 0 .. Len(t)
  BY <1>1, UnpaddedIs
<1>4. ASSUME NEW i \in 1 .. u
      PROVE  i \in 1 .. Len(t) /\ t[i] \in Byte /\ x[i] \in 0 .. 63 /\ CharTable[x[i]] = t[i]
  <2>1. i \in 1 .. Len(t)
    BY <1>3
  <2>2. t[i] \in Byte
    BY <2>1
  <2>3. x[i] = ReverseLookupTable[t[i]]
    BY <2>1, Zenon DEF Sextets
  <2>4. x[i] # Invalid
    BY <1>2 DEF Decodable, AllInTable
  <2> HIDE DEF x
  <2>5. InTable(t[i])
    BY <2>3, <2>4, Zenon DEF InTable
  <2> QED
    BY <2>1, <2>2, <2>3, <2>5, Tables, Zenon
<1>5. u \in Nat /\ m \in Nat /\ u # 0 /\ u % 4 # 1
  BY <1>2, <1>3 DEF Decodable
<1> HIDE DEF d, u, x
<1>6. ASSUME NEW j \in Nat PROVE SextetAt(x, u, j) \in 0 .. 63
  <2>1. CASE j < u
    <3>1. j + 1 \in 1 .. u
      BY <1>5, <2>1
    <3>2. x[j + 1] \in 0 .. 63
      BY <1>4, <3>1, Zenon
    <3> QED
      BY <2>1, <3>2, Zenon DEF SextetAt
  <2>2. CASE ~ (j < u)
    <3>1. 0 \in 0 .. 63
      OBVIOUS
    <3> QED
      BY <2>2, <3>1, Zenon DEF SextetAt
  <2> QED
    BY <2>1, <2>2
<1>7. ASSUME NEW i \in Nat PROVE D[i] \in Byte /\ (i >= m => D[i] = 0)
  <2>1. SextetAt(x, u, u - 1) = x[u]
    <3>1. u - 1 < u /\ (u - 1) + 1 = u
      BY <1>5
    <3> QED
      BY <3>1, Zenon DEF SextetAt
  <2>2. /\ u % 4 = 2 => SextetAt(x, u, u - 1) % 16 = 0
        /\ u % 4 = 3 => SextetAt(x, u, u - 1) % 4 = 0
    BY <1>2, <2>1, Zenon DEF Decodable
  <2> QED
    BY <1>5, <1>6, <2>2, DecodedBytes, Zenon
<1> HIDE DEF D, m
<1>8. d \in Seq(Byte) /\ Len(d) = m /\ \A i \in 1 .. m : d[i] = D[i - 1]
  <2>1. \A i \in 1 .. m : i - 1 \in Nat
    BY <1>5
  <2>2. \A i \in 1 .. m : D[i - 1] \in Byte
    BY <1>7, <2>1, Zenon
  <2> DEFINE F(i) == D[i - 1]
             g == [i \in 1 .. m |-> F(i)]
  <2>3. d = g
    BY <1>2, Zenon DEF FirstCodes
  <2> HIDE DEF F
  <2>4. g \in Seq(Byte) /\ Len(g) = m /\ \A i \in 1 .. m : g[i] = F(i)
    <3>1. \A i \in 1 .. m : F(i) \in Byte
      BY <2>2, Zenon DEF F
    <3> QED
      BY <1>5, <3>1
  <2> HIDE DEF g
  <2> QED
    BY <2>3, <2>4, Zenon DEF F
<1>9. ASSUME NEW i \in Nat PROVE ByteAt(d, i) = D[i]
  <2>1. CASE i < m
    <3>1. i + 1 \in 1 .. m /\ (i + 1) - 1 = i
      BY <1>5, <2>1
    <3> QED
      BY <1>8, <2>1, <3>1, Zenon DEF ByteAt
  <2>2. CASE ~ (i < m)
    <3>1. i >= m
      BY <1>5, <2>2
    <3> QED
      BY <1>7, <1>8, <2>2, <3>1, Zenon DEF ByteAt
  <2> QED
    BY <2>1, <2>2
<1>10. \A j \in Nat : Sextet(d, j) = SextetAt(x, u, j)
  BY <1>6, <1>8, <1>9, StringOfDecoded, Zenon DEF D
<1>11. UsedChars(d) = u /\ m = MaxLength(t)
  <2>1. (8 * m + 5) \div 6 = u
    BY <1>5 DEF m
  <2>2. UsedChars(d) = u
    BY <1>8, <2>1, Zenon DEF UsedChars
  <2> DEFINE l == ((u + 3) \div 4) * 3 - (IF u % 4 = 3 THEN 1 ELSE 0) - (IF u % 4 = 2 THEN 2 ELSE 0)
  <2>3. m = l
    BY <1>5 DEF m
  <2>4. MaxLength(t) = l
    BY Zenon DEF MaxLength, u
  <2> QED
    BY <2>2, <2>3, <2>4, Zenon
<1>12. ASSUME NEW i \in 1 .. u PROVE Codes(d)[i - 1] = t[i]
  <2>1. i - 1 \in Nat /\ i - 1 < u /\ (i - 1) + 1 = i
    BY <1>5
  <2>2. Codes(d)[i - 1] = CharTable[Sextet(d, i - 1)]
    BY <2>1, Zenon DEF Codes
  <2>3. SextetAt(x, u, i - 1) = x[i]
    BY <2>1, Zenon DEF SextetAt
  <2> QED
    BY <1>4, <1>10, <2>1, <2>2, <2>3, Zenon
<1>13. Encode(d, FALSE) = [i \in 1 .. u |-> t[i]]
  <2>1. Encode(d, FALSE) = FirstCodes(Codes(d), u)
    BY <1>8, <1>11, EncodeUnpadded, Zenon
  <2> QED
    BY <1>12, <2>1, Zenon DEF FirstCodes
<1>14. SubSeq(t, 1, u) = [i \in 1 .. u |-> t[i]]
  BY <1>3, <1>5
<1> QED
  BY <1>8, <1>11, <1>13, <1>14, Zenon DEF d, u

\* Base64::decodeWithoutPadding returns what was encoded, for every string whose encoding
\* has a length, padded or not.
THEOREM CodecsDecodeInverse == Spec => []DecodeInverse
<1>1. Inputs => DecodeInverse
  <2> SUFFICES ASSUME Inputs PROVE DecodeInverse
    OBVIOUS
  <2>1. string \in Seq(Byte) /\ 4 * ((Len(string) + 2) \div 3) < SizeModulus
    BY CodecsAssumption DEF Inputs, SizeModulus
  <2> QED
    BY <2>1, DecodeEncode, Zenon DEF DecodeInverse
<1> QED
  BY <1>1, InputsInv, PTL

\* A text that Base64::decodeWithoutPadding accepts is the one encoding of its result, up
\* to the padding, so no two texts without padding stand for the same string.
THEOREM CodecsDecodeCanonical == Spec => []DecodeCanonical
<1>1. Inputs => DecodeCanonical
  <2> SUFFICES ASSUME Inputs PROVE DecodeCanonical
    OBVIOUS
  <2>1. string \in Seq(Byte) /\ Len(string) < SizeModulus
    BY CodecsAssumption DEF Inputs, SizeModulus
  <2> QED
    BY <2>1, EncodeDecode, Zenon DEF DecodeCanonical
<1> QED
  BY <1>1, InputsInv, PTL

=============================================================================
