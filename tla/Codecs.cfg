\* Six characters: two that need padding bits of zero, padding, and bytes at
\* both ends of the range.
CONSTANTS
    Alphabet = {0, 255, 47, 61, 65, 81}
    MaxString = 6
    MaxFlags = 2
SPECIFICATION Spec
INVARIANTS EncodeIsStandard DecodeInverse DecodeCanonical DecodeInBounds NoInformationLoss
CHECK_DEADLOCK FALSE
