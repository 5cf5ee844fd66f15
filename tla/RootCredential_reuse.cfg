SPECIFICATION Spec
CONSTANTS
    OperatorKeys = {o1, o2}
    VaultKeys = {v1, v2}
    NoKey = NoKey
    Rotations = {r1, r2}
    Admins = {a1}
    Unnamed = {}
    Faults = {}
SYMMETRY Symmetry
INVARIANTS StoredKeyWorks
CHECK_DEADLOCK FALSE
