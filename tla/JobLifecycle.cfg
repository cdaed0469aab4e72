\* One job, two concurrent DELETE requests, two failed writes, one restart.
SPECIFICATION FairSpec
CONSTANTS
    Deleters = {d1, d2}
    NoLease = NoLease
    MaxFaults = 2
    MaxRestarts = 1
INVARIANT JobIntegrity
PROPERTIES CancelHonoured JobSettles
CHECK_DEADLOCK FALSE
