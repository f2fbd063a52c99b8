\* A first block of two slots, then blocks of four: five elements fill, wrap and
\* reuse them.
CONSTANTS
    MaxSize = 1
    MaxBlockSize = 4
    Relaxed = TRUE
    SizeCallers = {"producer"}
    MaxBlocks = 3
    MaxItems = 5
SPECIFICATION Spec
INVARIANTS SlotsUsedProperly NoDataRace AssertionsHold PeekIsNext DestructorIsExact
PROPERTIES SizeIsHonest ImplementsFifo
CHECK_DEADLOCK FALSE
