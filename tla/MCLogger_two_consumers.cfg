CONSTANTS
    Threads <- MCThreads
    Consumers = {c1, c2}
    Free = Free
    MaxCalls = 1
    MaxTime = 1
    Capacity = 1
    MaxFailures = 0
    Garbage <- MCFixedWhen
SPECIFICATION Spec
INVARIANTS OneAtATime
PROPERTIES LoggersStable
CHECK_DEADLOCK FALSE
SYMMETRY ConsumerSymmetry
