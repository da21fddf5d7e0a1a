SPECIFICATION Spec
CONSTANTS
    n1 = n1
    n2 = n2
    stranger = stranger
    NULL = NULL
    Nodes <- MCOneNode
    Strangers <- MCStrangers
    Calls <- HarshCalls
    Timed = TRUE
    AllocFails = TRUE
    WhoMasterErrors = TRUE
    EmptyMessages = TRUE
    MaxUnread = 1
    MaxWire = 2
    MaxItems = 1
    MaxKeys = 1
CHECK_DEADLOCK FALSE
INVARIANTS TypeOK
PROPERTIES FailureDisconnects ImplementsSession
