\* Two buffers and two messages per read: five messages and two pushes overrun
\* the buffers, arrive in pieces and make the calls nest.  The application may
\* close on two of the messages or go on, so that the peer's close frame, which
\* follows the fifth, is also reached, with messages queued behind its answer.
SPECIFICATION FairSpec
CONSTANTS
    MaxMsgs = 5
    MaxPushes = 2
    MaxErrors = 1
    MaxBufs = 2
    Chunk = 2
    Closes = {2, 4}
INVARIANTS Inv NothingReordered NeverStuck HandshakeEndsOutside
PROPERTIES CallsReturn AcceptedIsWritten
