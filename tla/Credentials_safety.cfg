SPECIFICATION Spec
CONSTANTS
    Keys = {k1, k2}
    NoKey = NoKey
    Requests = {r1, r2}
    MaxKeys = 2
    Faults = {"rpc", "lost", "crash", "unfound"}
SYMMETRY Symmetry
INVARIANTS RevokedIsGone NoUnexplainedOrphan OneCustodian
PROPERTIES NoDeleteUnderLease ImplementsLedger
CHECK_DEADLOCK FALSE
