\* One stream, and four configurations in any order, some again.
CONSTANTS
    Stream = {s}
    Config <- MCConfig
    BadCondition = {"bad"}
    MaxConfigs = 4
SPECIFICATION Spec
INVARIANTS TypeOK TokensExact
PROPERTIES AttributesAsConfigured
CHECK_DEADLOCK FALSE
