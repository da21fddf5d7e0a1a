\* Every failure of the system calls, the clock and the allocator.
SPECIFICATION FairSpec

CONSTANTS
    n1 = n1
    n2 = n2
    NULL = NULL
    Nodes <- MCNodes
    MaxAddrs = 2
    MaxFd = 4
    AppFds <- MCAppFds
    MaxFiles = 2
    Timed = TRUE
    AllocFails = TRUE

INVARIANTS
    TypeOK
    HeldAreOwn
    NoneLeaked

PROPERTIES
    AppFilesKept
    SuccessIsConnected
    ConnectReturns

\* A freed cluster and a crashed process stop.
CHECK_DEADLOCK FALSE
