SPECIFICATION Spec
CONSTANTS
    c1 = c1
    c2 = c2
    inScope = inScope
    outOfScope = outOfScope
    Processes <- TwoProcesses
    PullRequests <- OnePullRequest
    OutOfScope <- NoPullRequests
    Approvals <- AlwaysHeld
    MaxAttempts = 2
    WindowLength = 2
    Runtime = 1
    CostCap = 1
    CallLimit = 1
    ObservationLimit = 2
    MaxTime = 2
    MaxCrashes = 2
    ApprovalExpiry = 9
    ForeignScans = FALSE
SYMMETRY ProcessSymmetry
INVARIANTS
    TypeOK
    LiveHostIsRecorded
    LiveHostIsCharged
    HistoryIsFinished
    OneLeasePerWindow
PROPERTIES
    ImplementsOneRepair
