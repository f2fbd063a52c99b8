CONSTANTS
    MaxSize = 1
    MaxBlockSize = 2
    Relaxed = TRUE
    MaxBlocks = 3
    MaxItems = 3
    SpinLimit = 1
SPECIFICATION FairSpec
INVARIANTS AssertDequeueSucceeds TokensMatchElements
PROPERTIES WaiterIsServed EmptyHandedIsHonest ImplementsFifo
CHECK_DEADLOCK FALSE
