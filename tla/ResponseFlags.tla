---------------------------- MODULE ResponseFlags ----------------------------
(***************************************************************************)
(* The response flags of a request as access logs and metrics show them    *)
(* (extensions/common/util.cc).  The flags are the set of the bits that    *)
(* are set; a result is the sequence of the names that are joined by       *)
(* commas, and the number appended to them, as the set of its bits ({}     *)
(* when none is appended).                                                 *)
(***************************************************************************)
EXTENDS Integers, Sequences, SequencesExt

NONE == "-"
FlagBit == 0 .. 63

\* The bits that have a short name, in the order parseResponseFlag tests them.
ShortName ==
    <<"LH", "UH", "UT", "LR", "UR", "UF", "UC", "UO", "NR", "DI", "FI", "RL", "UAEX", "RLSE",
      "DC", "URX", "SI", "IH", "DPE", "UMSDR", "RFCF", "NFCF", "DT", "UPE", "NC", "OM", "DF">>

LastFlag == Len(ShortName) - 1

\* response_flag >= (LastFlag << 1)
Overflows(flags) == \E b \in flags : b >= LastFlag + 1

\* The short names of the flags, joined in the order of the tests.
Names(flags) ==
    FoldLeft(LAMBDA r, b : IF b \in flags THEN Append(r, ShortName[b + 1]) ELSE r,
             <<>>, [i \in DOMAIN ShortName |-> i - 1])

\* Mutant of ParseResponseFlag: the flag just past the last one is not noticed.
ParseResponseFlagOff(flags) ==
    LET number == IF \E b \in flags : b > LastFlag + 1 THEN flags ELSE {}
    IN  IF Names(flags) = <<>> /\ number = {}
        THEN [names |-> <<NONE>>, number |-> {}]
        ELSE [names |-> Names(flags), number |-> number]

ParseResponseFlag(flags) ==
    LET number == IF Overflows(flags) THEN flags ELSE {}
    IN  IF Names(flags) = <<>> /\ number = {}
        THEN [names |-> <<NONE>>, number |-> {}]
        ELSE [names |-> Names(flags), number |-> number]

=============================================================================
