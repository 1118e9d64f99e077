------------------------------ MODULE JsonUtil ------------------------------
(***************************************************************************)
(* The JSON helpers (extensions/common/wasm/json_util.cc) as far as the    *)
(* plugins use them.  A JSON value is a record with a field named for its  *)
(* type; an array is a sequence, an object a function from field names,    *)
(* and a string that SimpleAtoi reads as a number also has the number.     *)
(***************************************************************************)
EXTENDS Integers, Sequences

JsonString(s) == [string |-> s]
JsonNumber(n) == [number |-> n]
JsonNumeral(n) == [string |-> "numeral", numeral |-> n]
JsonArray(s) == [array |-> s]
JsonObject(f) == [object |-> f]

Is(type, j) == type \in DOMAIN j

\* JsonParse: text that is not JSON, or not an object, is a failure.
JsonParses(text) == Is("object", text)

\* j.find(field) # j.end(), also for a j that is not an object
HasField(j, field) == Is("object", j) /\ field \in DOMAIN j.object

\* JsonValueAs<std::string>: the other types are a TYPE_ERROR.
IsJsonString(j) == Is("string", j)

\* JsonValueAs<uint64_t>: a number wraps when it is converted, a numeral has to fit.
IsJsonUint(j, modulus) ==
    Is("number", j) \/ (Is("numeral", j) /\ j.numeral \in 0 .. modulus - 1)

JsonUint(j, modulus) == IF Is("number", j) THEN j.number % modulus ELSE j.numeral

\* The elements of an optional array field ...
Elements(j, field) ==
    IF HasField(j, field) /\ Is("array", j.object[field]) THEN j.object[field].array ELSE <<>>

\* ... of which JsonArrayIterate visits those before the first failure ...
Iterated(s, Visitor(_)) ==
    CHOOSE n \in 0 .. Len(s) :
        /\ \A i \in 1 .. n : Visitor(s[i])
        /\ n < Len(s) => ~ Visitor(s[n + 1])

\* ... and whether it returns true.
JsonArrayIterate(j, field, Visitor(_)) ==
    HasField(j, field) =>
        /\ Is("array", j.object[field])
        /\ Iterated(Elements(j, field), Visitor) = Len(Elements(j, field))

=============================================================================
