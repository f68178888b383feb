CONSTANTS
    Request = {r1, r2, r3}
    MaxSignals = 2
SPECIFICATION FairSpec
INVARIANT HandlersHaveDatabase
PROPERTY SignalEnds
CHECK_DEADLOCK FALSE
