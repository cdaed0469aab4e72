\* Two requests, three ids, two failed file operations, one restart.
SPECIFICATION FairSpec
CONSTANTS
    Requests = {q1, q2}
    Retries = {r1, r2, r3}
    None = None
    MaxFaults = 2
    MaxRestarts = 1
INVARIANT RetryIsConsistent
PROPERTIES SourceNotDeleted RequestsAnswered
CHECK_DEADLOCK FALSE
