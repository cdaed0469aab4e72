SPECIFICATION FairWorkflowSpec
CONSTANTS
    Sources = {1, 2, 3}
    Topology <- MCTopology
    TrainingQuality <- MCQuality
    Static = {1, 3}
    MaxChecks = 2
    MaxTopologies = 2
    MaxFitCalls = 1
    MaxFitPerTopology = 1
    MaxFitEvaluations = 4
    MaxFitPerCall = 4
    Requests = {2}
    MaxWrites <- MCWrites
    MaxKills <- MCKills
    MaxQuality = 2
    MaxInvocations = 2
    MaxArtifact = 2
    InitialBudget <- MCBudget
    MaxBudget <- MCExtended
    MarginCap = 1
    MaxStops = 1
INVARIANTS
    AcceptableIsBest
PROPERTIES
    BestIsShown
    ReuseNeverRejected
    RepairEnds
