SPECIFICATION Spec
CONSTANTS
    Keys = {k1}
    NoKey = NoKey
    Requests = {r1}
    MaxKeys = 1
    Faults = {"unfound"}
INVARIANTS ClosedMeansGone
CHECK_DEADLOCK FALSE
