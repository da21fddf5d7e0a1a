SPECIFICATION Spec
CONSTANTS
    NsPerMs = 2
    MsPerS = 3
    Timeouts <- MCTimeouts
    Sizes <- MCSizes
    MaxTransfers = 2
    MaxAttempts = 2
    Overshoot = 2
    MaxStall = 4
    MaxTime = 30
CHECK_DEADLOCK FALSE
INVARIANTS TypeOK NeverLate
PROPERTIES NeverGrows
