SPECIFICATION FairSpec
CONSTANTS
    Threads <- MCThreads
    Settings <- MCSettings
    Requests <- MCRequests
    NoThread = NoThread
    NoRequest = NoRequest
    NoReply = NoReply
    NoValue = NoValue
    MaxCalls = 3
    MaxFailures = 1
INVARIANTS
    BackendIsSerial
    ClosedTogether
    CachesAgree
PROPERTIES
    ImplementsContract
    EveryCallReturns
CHECK_DEADLOCK FALSE
