SPECIFICATION Spec
CONSTANTS
    Keys = {k1}
    NoKey = NoKey
    Requests = {r1}
    MaxKeys = 1
    Faults = {}
PROPERTIES CleanupAsksForDeletion
CHECK_DEADLOCK FALSE
