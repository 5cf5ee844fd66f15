SPECIFICATION FairSpec
CONSTANTS
    OperatorKeys = {o1, o2}
    VaultKeys = {v1, v2}
    NoKey = NoKey
    Rotations = {r1, r2}
    Admins = {a1}
    Unnamed = {o1}
    Faults = {"rpc", "build", "storage", "crash", "lost"}
INVARIANTS OnlyReuseBricks CachedClientWorks NoOrphanedRootKey
PROPERTIES ImplementsSuccession RotationReturns
CHECK_DEADLOCK FALSE
