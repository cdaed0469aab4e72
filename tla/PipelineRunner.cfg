SPECIFICATION FairSpec
CONSTANTS
    N = 3
    DependsOn <- MCDependsOn
    Targets <- MCTargets
INVARIANT
    RunIsConsistent
PROPERTIES
    ObservedIsMonotone
    Termination
