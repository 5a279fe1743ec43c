SPECIFICATION Spec
CONSTANTS
    c1 = c1
    c2 = c2
    inScope = inScope
    outOfScope = outOfScope
    Processes <- OneProcess
    PullRequests <- BothPullRequests
    OutOfScope <- OutOfScopeOnly
    Approvals <- DistinctApprovals
    MaxAttempts = 1
    WindowLength = 2
    Runtime = 2
    CostCap = 1
    CallLimit = 1
    ObservationLimit = 1
    MaxTime = 2
    MaxCrashes = 0
    ApprovalExpiry = 2
    ForeignScans = FALSE
INVARIANTS
    SettledIsFinished
    OverrunIsFailure
PROPERTIES
    FailureIsKept
    LaunchIsAuthorized
