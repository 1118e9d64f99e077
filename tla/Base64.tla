------------------------------- MODULE Base64 -------------------------------
(***************************************************************************)
(* Base64 as the plugins have it (extensions/common/wasm/base64.h).  A     *)
(* string is a sequence of byte values.  A sextet that is or-ed into bits  *)
(* that are zero is added.                                                 *)
(***************************************************************************)
EXTENDS Integers, Sequences, SequencesExt

Byte == 0 .. 255
Pad == 61              \* '='
Invalid == 64          \* the entry of REVERSE_LOOKUP_TABLE for other characters
SizeModulus == 65536   \* 2^16, stands for 2^64, the width of size_t

\* "ABCDEFGHIJKLMNOPQRSTUVWXYZabcdefghijklmnopqrstuvwxyz0123456789+/"
CharTable ==
    [c \in 0 .. 63 |->
       CASE c \in 0 .. 25  -> 65 + c
         [] c \in 26 .. 51 -> 97 + (c - 26)
         [] c \in 52 .. 61 -> 48 + (c - 52)
         [] c = 62 -> 43
         [] c = 63 -> 47]

\* Mutant of ReverseLookupTable: padding is read as zero bits.
ReverseLookupTablePadZero ==
    [b \in Byte |->
       CASE b \in 65 .. 90  -> b - 65
         [] b \in 97 .. 122 -> 26 + (b - 97)
         [] b \in 48 .. 57  -> 52 + (b - 48)
         [] b = 43 -> 62
         [] b = 47 -> 63
         [] b = Pad -> 0
         [] OTHER -> Invalid]

ReverseLookupTable ==
    [b \in Byte |->
       CASE b \in 65 .. 90  -> b - 65
         [] b \in 97 .. 122 -> 26 + (b - 97)
         [] b \in 48 .. 57  -> 52 + (b - 48)
         [] b = 43 -> 62
         [] b = 47 -> 63
         [] OTHER -> Invalid]

----------------------------------------------------------------------------
(* encode *)

\* One character of the input: st has its position, the bits carried over to
\* the next one, and the output.
EncodeBase(st, cur) ==
    LET Push(s) == st.ret \o [i \in DOMAIN s |-> CharTable[s[i]]]
    IN  [pos |-> st.pos + 1,
         next |-> CASE st.pos % 3 = 0 -> (cur % 4) * 16
                    [] st.pos % 3 = 1 -> (cur % 16) * 4
                    [] st.pos % 3 = 2 -> 0,
         ret |-> CASE st.pos % 3 = 0 -> Push(<<cur \div 4>>)
                   [] st.pos % 3 = 1 -> Push(<<st.next + cur \div 16>>)
                   [] st.pos % 3 = 2 -> Push(<<st.next + cur \div 64, cur % 64>>)]

\* Mutant of EncodeLast: the padding counts the bytes that are left over.
EncodeLastPaddedByRest(st, addPadding) ==
    LET rest == st.pos % 3
    IN  IF rest = 0 THEN st.ret
        ELSE Append(st.ret, CharTable[st.next]) \o
             [i \in 1 .. (IF addPadding THEN rest ELSE 0) |-> Pad]

EncodeLast(st, addPadding) ==
    LET rest == st.pos % 3
    IN  IF rest = 0 THEN st.ret
        ELSE Append(st.ret, CharTable[st.next]) \o
             [i \in 1 .. (IF addPadding THEN 3 - rest ELSE 0) |-> Pad]

Encode(input, addPadding) ==
    EncodeLast(FoldLeft(EncodeBase, [pos |-> 0, next |-> 0, ret |-> <<>>], input), addPadding)

----------------------------------------------------------------------------
(* decodeWithoutPadding *)

\* ret.back() |= bits, then ret.push_back of what is left of the sextet c.
OrBack(ret, bits) == [ret EXCEPT ![Len(ret)] = @ + bits]

DecodeBase(st, cur) ==
    LET c == ReverseLookupTable[cur]
    IN  IF ~ st.ok \/ c = Invalid THEN [st EXCEPT !.ok = FALSE]
        ELSE [ok |-> TRUE, pos |-> st.pos + 1,
              ret |-> CASE st.pos % 4 = 0 -> Append(st.ret, c * 4)
                        [] st.pos % 4 = 1 -> Append(OrBack(st.ret, c \div 16), (c * 16) % 256)
                        [] st.pos % 4 = 2 -> Append(OrBack(st.ret, c \div 4), (c * 64) % 256)
                        [] st.pos % 4 = 3 -> OrBack(st.ret, c)]

\* Mutant of DecodeLast: bits that are left over may be set.
DecodeLastLoose(st, cur) ==
    LET c == ReverseLookupTable[cur]
    IN  IF ~ st.ok \/ c = Invalid \/ st.pos % 4 = 0 THEN [st EXCEPT !.ok = FALSE]
        ELSE [st EXCEPT !.ret = OrBack(@, CASE st.pos % 4 = 1 -> c \div 16
                                            [] st.pos % 4 = 2 -> c \div 4
                                            [] st.pos % 4 = 3 -> c)]

\* The last character adds no byte, and its bits that are left over are zero.
DecodeLast(st, cur) ==
    LET c == ReverseLookupTable[cur]
    IN  IF ~ st.ok \/ c = Invalid \/ st.pos % 4 = 0 THEN [st EXCEPT !.ok = FALSE]
        ELSE [ok |-> CASE st.pos % 4 = 1 -> c % 16 = 0
                       [] st.pos % 4 = 2 -> c % 4 = 0
                       [] st.pos % 4 = 3 -> TRUE,
              pos |-> st.pos,
              ret |-> OrBack(st.ret, CASE st.pos % 4 = 1 -> c \div 16
                                       [] st.pos % 4 = 2 -> c \div 4
                                       [] st.pos % 4 = 3 -> c)]

\* Mutant of Unpadded: one character of padding is removed.
UnpaddedOnce(input) ==
    LET n == Len(input) IN IF input[n] # Pad THEN n ELSE n - 1

\* The length without "valid" padding: at most two characters of it.
Unpadded(input) ==
    LET n == Len(input)
    IN  IF input[n] # Pad THEN n
        ELSE IF n - 1 > 0 /\ input[n - 1] = Pad THEN n - 2
        ELSE n - 1

\* The position of the last character; it wraps for an input of padding only.
LastPosition(input) == (Unpadded(input) + SizeModulus - 1) % SizeModulus

\* The loop over the characters before the last one, as far as the input goes.
DecodeLoop(input) ==
    FoldLeft(DecodeBase, [ok |-> TRUE, pos |-> 0, ret |-> <<>>],
             SubSeq(input, 1, Min({LastPosition(input), Len(input)})))

\* Whether decoding reads past the end of its input.
ReadsPastEnd(input) ==
    input # <<>> /\ LastPosition(input) >= Len(input) /\ DecodeLoop(input).ok

DecodeWithoutPadding(input) ==
    IF input = <<>> \/ LastPosition(input) >= Len(input) THEN <<>>
    ELSE LET st == DecodeLast(DecodeLoop(input), input[LastPosition(input) + 1])
         IN  IF st.ok THEN st.ret ELSE <<>>

\* The length that is asserted of what was decoded.
MaxLength(input) ==
    LET n == Unpadded(input)
    IN  ((n + 3) \div 4) * 3 - (IF n % 4 = 3 THEN 1 ELSE 0) - (IF n % 4 = 2 THEN 2 ELSE 0)

----------------------------------------------------------------------------
(* The reference, RFC 4648: the bits of the bytes in groups of six.         *)

Weight == <<128, 64, 32, 16, 8, 4, 2, 1>>

\* Bit k of a string, zero beyond its end.
Bit(s, k) ==
    IF k \div 8 >= Len(s) THEN 0 ELSE (s[k \div 8 + 1] \div Weight[(k % 8) + 1]) % 2

Sextet(s, i) ==
    32 * Bit(s, 6*i) + 16 * Bit(s, 6*i + 1) + 8 * Bit(s, 6*i + 2)
    + 4 * Bit(s, 6*i + 3) + 2 * Bit(s, 6*i + 4) + Bit(s, 6*i + 5)

Rfc4648(s) ==
    LET used == (8 * Len(s) + 5) \div 6
        all == 4 * ((Len(s) + 2) \div 3)
    IN  [i \in 1 .. all |-> IF i <= used THEN CharTable[Sextet(s, i - 1)] ELSE Pad]

=============================================================================
