CONSTANTS
    Threads <- MCThreads
    Consumers = {c1}
    Free = Free
    MaxCalls = 2
    MaxTime = 0
    Capacity = 2
    MaxFailures = 1
    Garbage <- MCFixedWhen
SPECIFICATION FairSpec
INVARIANTS NoSelfDeadlock PerThreadFifo NothingLost DrainedOnReturn StartMessageFirst Inv
PROPERTIES EventuallyPrinted ConsumeReturns ImplementsMergedLog
CHECK_DEADLOCK FALSE
