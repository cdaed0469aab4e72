CONSTANTS
    Runs = {1, 2}
    Stale = 2
    MaxLost = 1
SPECIFICATION FairLocalSpec
INVARIANT ResultKept
PROPERTIES
    EveryRunEnds
    Converges
CHECK_DEADLOCK FALSE
