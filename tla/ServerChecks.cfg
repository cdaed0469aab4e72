CONSTANTS
    Slack = 1
    NonFinite = 99
    MaxObservedGraphs = 2
    MaxEligibleGraphs = 2
    Concurrency = 2
    PoolGraphs = 3
SPECIFICATION Spec
INVARIANTS
    WaveformsAreJudged
    CandidatesJudged
    FitsWithinGrant
    DrawingsKept
    AxesArePrinted
    ReferencesKept
CHECK_DEADLOCK FALSE
