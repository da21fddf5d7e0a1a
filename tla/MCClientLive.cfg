SPECIFICATION RetryingSpec
CONSTANTS
    n1 = n1
    n2 = n2
    stranger = stranger
    NULL = NULL
    Nodes <- MCNodes
    Strangers <- NoStrangers
    Calls <- OneCall
    Timed = FALSE
    AllocFails = FALSE
    WhoMasterErrors = FALSE
    EmptyMessages = FALSE
    MaxUnread = 1
    MaxWire = 1
    MaxItems = 2
    MaxKeys = 1
CHECK_DEADLOCK FALSE
PROPERTIES CallsReturn Reconnects
