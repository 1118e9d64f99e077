\* Callbacks run to their end; the clock may be set back.
CONSTANTS
    v1 = v1
    v2 = v2
    v3 = v3
    VM = {v1, v2, v3}
    Canary = v1
    CanaryFirst = FALSE
    MaxTokens = 1
    TokensPerRefill = 1
    Interval = 1
    MaxGetTokenRetry = 2
    TokenModulus = 16
    TimeModulus = 16
    StartTime = 1
    MaxClock = 2
    ClockStepsBack = TRUE
SPECIFICATION FairSpec
PROPERTIES RefillCompletes RequestAnswered
