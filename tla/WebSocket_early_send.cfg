SPECIFICATION Spec
CONSTANTS
    MaxMsgs = 1
    MaxPushes = 1
    MaxErrors = 0
    MaxBufs = 2
    Chunk = 2
    Closes = {}
INVARIANT EarlySendIsIgnored
