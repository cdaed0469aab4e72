\* Three attempts: feedback that forgets the last but one would show.
SPECIFICATION FairSpec
CONSTANTS
    Files = {f1, f2, f3}
    MaxAttempts = 3
    MaxTransport = 2
    Reuse = TRUE
INVARIANTS RejectionIsFinal WorkspacesDisposed
PROPERTIES CancellationPreserved StageReturns
CHECK_DEADLOCK FALSE
