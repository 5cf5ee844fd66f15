SPECIFICATION FairSpec
CONSTANTS
    Keys = {k1}
    NoKey = NoKey
    Requests = {r1, r2}
    MaxKeys = 1
    Faults = {"lost"}
PROPERTIES EveryRequestReturns RevocationEnds
CHECK_DEADLOCK FALSE
