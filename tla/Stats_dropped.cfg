\* A second configuration that drops a metric.
CONSTANTS
    t = t
    g = g
    Stream = {t, g}
    Proto <- MCProto
    Outbound = TRUE
    Upstream <- MCUpstream
    Labelled = TRUE
    Config <- MCDropConfig
    BadExpression = {"bad"}
    MaxConfigs = 2
    MaxData = 2
SPECIFICATION Spec
PROPERTIES DroppedNotReported
CHECK_DEADLOCK FALSE
