\* Three workers, the first configured before the others.
CONSTANTS
    v1 = v1
    v2 = v2
    v3 = v3
    VM = {v1, v2, v3}
    Canary = v1
    CanaryFirst = TRUE
    MaxTokens = 3
    TokensPerRefill = 2
    Interval = 2
    MaxGetTokenRetry = 2
    TokenModulus = 16
    TimeModulus = 16
    StartTime = 2
    MaxClock = 4
    ClockStepsBack = FALSE
SPECIFICATION LSpec
SYMMETRY OtherVMs
INVARIANTS LTypeOK Conservation SupplyBound RefillPace InitializedOnce BypassBound BucketCapped
PROPERTIES RefinesRateLimiter
