SPECIFICATION Spec
CONSTANTS
    Grace = 3
    MinExpiry = 4
    MaxExpiry = 12
    Budget = 2
    Second = 2
    DefaultTTL = 2
    DefaultMaxTTL = 4
    DefaultRootTTL = 6
    Asks <- SmallAsks
    RootAsks <- SmallRootAsks
    MaxTime = 14
INVARIANTS KeyOutlivesLease CloudAcceptsExpiry
PROPERTIES RenewalObeysPolicy
