------------------------------- MODULE Codecs -------------------------------
(***************************************************************************)
(* The pure conversions against their references.  The state is an input   *)
(* that grows: a string, taken both as the bytes to encode and as the text *)
(* to decode, or a set of response flags.                                  *)
(***************************************************************************)
EXTENDS Base64, ResponseFlags

CONSTANTS
    Alphabet,     \* the characters strings are made of
    MaxString,    \* bound: characters of a string
    MaxFlags      \* bound: response flags of a request

\* A string and its encoding are shorter than the range of size_t.
ASSUME CodecsAssumption ==
    /\ Alphabet \subseteq Byte
    /\ MaxString \in Nat /\ 4 * ((MaxString + 2) \div 3) < SizeModulus
    /\ MaxFlags \in Nat

VARIABLES string, flags

Init == string = <<>> /\ flags = {}

AppendCharacter ==
    /\ flags = {} /\ Len(string) < MaxString
    /\ \E c \in Alphabet : string' = Append(string, c)
    /\ UNCHANGED flags

RaiseFlag ==
    /\ string = <<>> /\ Cardinality(flags) < MaxFlags
    /\ \E b \in FlagBit \ flags : flags' = flags \cup {b}
    /\ UNCHANGED string

Next == AppendCharacter \/ RaiseFlag

Spec == Init /\ [][Next]_<<string, flags>>

----------------------------------------------------------------------------
\* Base64::encode writes what RFC 4648 says, at every length modulo three, so
\* that the credentials it encodes for basic auth are those clients send.
EncodeIsStandard == Encode(string, TRUE) = Rfc4648(string)

\* Base64::decodeWithoutPadding returns what was encoded, padded or not ...
DecodeInverse ==
    \A padding \in BOOLEAN : DecodeWithoutPadding(Encode(string, padding)) = string

\* ... and nothing else: a text that it accepts is the one encoding of its
\* result up to the padding, of the length that is asserted.
DecodeCanonical ==
    LET decoded == DecodeWithoutPadding(string)
    IN  decoded # <<>> =>
          /\ Encode(decoded, FALSE) = SubSeq(string, 1, Unpadded(string))
          /\ Len(decoded) = MaxLength(string)

\* No input makes the decoder read past its end, although the last position
\* wraps to the largest number for padding without text.
DecodeInBounds == ~ ReadsPastEnd(string)

\* util.cc: "Append the integer to avoid information loss".  The flags can be
\* read back from the result, those beyond the last named one too.
NoInformationLoss ==
    LET result == ParseResponseFlag(flags)
    IN  flags = IF result.number # {} THEN result.number
                ELSE {i - 1 : i \in {n \in DOMAIN ShortName : ShortName[n] \in ToSet(result.names)}}

=============================================================================
