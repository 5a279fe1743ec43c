SPECIFICATION LiveSpec
CONSTANTS
    host = host
    w1 = w1
    w2 = w2
    Workers <- ThreeProcesses
    Leader = host
    Unkillable <- OneUnkillable
    Sessions = TRUE
INVARIANTS
    VerifiedIsEmpty
    HostIsStopped
PROPERTIES
    RunEnds
\* A run of the host ends.
CHECK_DEADLOCK FALSE
