\* Reconfigurations, two payloads of one hash that no int holds, and one whose hash
\* is that one's int.  No symmetry, for the liveness property.
CONSTANTS
    s1 = s1
    s2 = s2
    s3 = s3
    Stream = {s1, s2, s3}
    Paths = {2, 34}
    Payload <- MCPayload
    MaxClock = 1
    MaxNumEntry = 1
    HashModulus = 64
    IntModulus = 32
    KMul = 5
    NanosPerSec = 1
    TimeModulus = 16
    Config <- MCConfig
    Cluster = {"opa"}
    MaxConfigs = 2
SPECIFICATION FairSpec
INVARIANTS TypeOK CacheInStep DecisionJustified
PROPERTIES PausedIsResumed
CHECK_DEADLOCK FALSE
