SPECIFICATION Spec
CONSTANTS
    MaxMsgs = 2
    MaxPushes = 0
    MaxErrors = 0
    MaxBufs = 2
    Chunk = 2
    Closes = {1}
INVARIANT NoMessageAfterClose
