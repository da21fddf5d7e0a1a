SPECIFICATION Spec
CONSTANTS
    NsPerMs = 2
    MsPerS = 3
    Timeouts <- MCTimeouts
    Sizes <- MCSizes
    MaxTransfers = 2
    MaxAttempts = 1
    Overshoot = 0
    MaxStall = 0
    MaxTime = 30
CHECK_DEADLOCK FALSE
INVARIANTS FiniteStaysFinite
