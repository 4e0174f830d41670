SPECIFICATION Spec
CONSTANTS
    Threads <- MCThreads
    Settings <- RangeSettings
    Requests <- MCRequests
    NoThread = NoThread
    NoRequest = NoRequest
    NoReply = NoReply
    NoValue = NoValue
    MaxCalls = 3
    MaxFailures = 0
INVARIANTS
    FlagMatchesShape
CHECK_DEADLOCK FALSE
