\* Two processes and two invocations: each may publish under the other.
SPECIFICATION Spec
CONSTANTS
    Process = {server, cli}
    Reader = {r1}
    MaxGeneration = 2
    MaxFaults = 2
    BaseKept = FALSE
SYMMETRY Symmetry
INVARIANTS AcceptedNeverDeleted RecordsAreHonest
PROPERTY RefinesRegister
CHECK_DEADLOCK FALSE
