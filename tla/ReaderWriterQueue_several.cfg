\* Five blocks of one element each, reserved by the constructor.
CONSTANTS
    MaxSize = 4
    MaxBlockSize = 2
    Relaxed = FALSE
    SizeCallers = {"producer", "consumer"}
    MaxBlocks = 5
    MaxItems = 6
SPECIFICATION Spec
PROPERTIES FullIsHonest EmptyIsHonest SizeIsHonest
CHECK_DEADLOCK FALSE
