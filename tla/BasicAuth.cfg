\* Two of nine configurations, one after the other.
CONSTANTS
    Method = {"GET", "POST"}
    Config <- MCConfig
    Request <- MCRequest
    MaxConfigs = 2
SPECIFICATION Spec
INVARIANTS TypeOK AccessAsConfigured RealmAsConfigured
PROPERTIES DeniedStaysDenied
