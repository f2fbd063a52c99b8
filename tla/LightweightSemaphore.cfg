\* SpinLimit: any number of failed spins has the same effect as one; two are
\* enough to leave the loop in its middle and at its end.
CONSTANTS
    InitialCount = 1
    Counts = {1, 2}
    SpinLimit = 2
    MaxSignals = 4
SPECIFICATION FairSpec
INVARIANTS ExactWhenIdle NoLostWakeup ApproxWithinOne Inv
PROPERTIES SignalledWaitReturns
CHECK_DEADLOCK FALSE
