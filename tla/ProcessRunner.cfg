\* Every combination of the optional parts of a request.
SPECIFICATION FairSpec
CONSTANT Requests <- AllRequests
INVARIANT NothingLeftBehind
PROPERTIES ReturnIsFaithful DeadlineHolds
CHECK_DEADLOCK FALSE
