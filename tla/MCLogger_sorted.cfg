CONSTANTS
    Threads <- MCThreads
    Consumers = {c1}
    Free = Free
    MaxCalls = 1
    MaxTime = 1
    Capacity = 1
    MaxFailures = 0
    Garbage <- MCGarbage
SPECIFICATION Spec
INVARIANT SortedByTimestamp
CHECK_DEADLOCK FALSE
