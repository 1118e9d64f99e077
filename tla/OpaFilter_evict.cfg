\* Hashes that do not fit in an int.
CONSTANTS
    s1 = s1
    s2 = s2
    s3 = s3
    s4 = s4
    Stream = {s1, s2, s3, s4}
    Paths = {2, 3, 4}
    Payload <- MCPayload
    MaxClock = 1
    MaxNumEntry = 2
    HashModulus = 64
    IntModulus = 32
    KMul = 5
    NanosPerSec = 1
    TimeModulus = 16
    Config <- MCConfig
    Cluster = {"opa"}
    MaxConfigs = 2
SPECIFICATION Spec
SYMMETRY Streams
INVARIANTS CacheBounded
CHECK_DEADLOCK FALSE
