\* A TCP and a gRPC stream of an outbound listener, two configurations.
CONSTANTS
    t = t
    g = g
    Stream = {t, g}
    Proto <- MCProto
    Outbound = TRUE
    Upstream <- MCUpstream
    Labelled = TRUE
    Config <- MCConfig
    BadExpression = {"bad"}
    MaxConfigs = 2
    MaxData = 2
SPECIFICATION Spec
INVARIANTS TypeOK TokensHeld QueueLive CountedOnce DimensionsAsConfigured
PROPERTIES FinalReportComplete ServiceAsRouted
CHECK_DEADLOCK FALSE
