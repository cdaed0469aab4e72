\* Two create requests, two failed writes, three units of effort.
SPECIFICATION FairSpec
CONSTANTS
    Creators = {c1, c2}
    MaxEffort = 3
    MaxFaults = 2
INVARIANT RunIntegrity
PROPERTIES OutcomeHonoured RunSettles
CHECK_DEADLOCK FALSE
