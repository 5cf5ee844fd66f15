SPECIFICATION Spec
CONSTANTS
    Own = {a1, a2}
    Foreign = {f1}
    NoAccount = NoAccount
    Specs = {s1, s2}
    Requests = {r1, r2}
    Faults = {"rpc", "lost", "storage", "crash", "unfound"}
SYMMETRY Symmetry
INVARIANTS NoForgottenAccount AdoptedIsMarked StorageAgrees
PROPERTIES ForeignSurvivesWrites EntrySurvivesWrites ErasedWhenGone
CHECK_DEADLOCK FALSE
