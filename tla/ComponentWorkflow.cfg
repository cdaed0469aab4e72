\* Two runs of each pipeline, a candidate to publish, one to publish over it, and a model.
SPECIFICATION Spec
CONSTANTS
    MaxRepairs = 1
    MaxRuns = 2
    MaxCandidate = 2
    MaxDraft = 2
    MaxCrashes = 1
    MaxModels = 1
INVARIANTS AcceptedComponentIsOne ShownIsAccepted MarkerSelectsRevision
CHECK_DEADLOCK FALSE
