SPECIFICATION FairSpec
CONSTANTS
    Items = {1, 2, 3, 4}
    Matching = {2, 4}
    PageSize = 2
    Patience = 4
    Callers = {"count", "find", "sweep"}
INVARIANTS NothingMissed PagesBounded
PROPERTIES CallEnds
CHECK_DEADLOCK FALSE
