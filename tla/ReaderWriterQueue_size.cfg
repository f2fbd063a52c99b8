CONSTANTS
    MaxSize = 1
    MaxBlockSize = 4
    Relaxed = TRUE
    SizeCallers = {"consumer"}
    MaxBlocks = 2
    MaxItems = 2
SPECIFICATION Spec
INVARIANTS SizeApproxIsSafe
CHECK_DEADLOCK FALSE
