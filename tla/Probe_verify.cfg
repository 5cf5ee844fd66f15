SPECIFICATION FairSpec
CONSTANTS
    Namespaces = {n1, n2}
    Operators = {o1, o2}
    Asks <- SmallAsks
    Codes = {"ok", "unauthenticated", "internal"}
    MinInterval = 1
    MaxInterval = 2
    DefaultInterval = 1
    MinSuccesses = 1
    MaxSuccesses = 3
    DefaultSuccesses = 2
    MaxProbe = 4
    MinUseful = 1
    RequestTimeout = 5
INVARIANTS SettingsStayLegal SilenceIsConfirmation HealthyNamespaceConfirms
PROPERTIES RequestReturns
CHECK_DEADLOCK FALSE
