SPECIFICATION Spec
CONSTANTS
    Trials = 3
    Attempts = 2
INVARIANTS InterruptLeavesNothing NoSilentLeftover
CHECK_DEADLOCK FALSE
