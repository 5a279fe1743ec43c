SPECIFICATION Spec
CONSTANTS
    c1 = c1
    c2 = c2
    inScope = inScope
    outOfScope = outOfScope
    Processes <- OneProcess
    PullRequests <- OnePullRequest
    OutOfScope <- NoPullRequests
    Approvals <- AlwaysHeld
    MaxAttempts = 1
    WindowLength = 2
    Runtime = 1
    CostCap = 1
    CallLimit = 1
    ObservationLimit = 1
    MaxTime = 1
    MaxCrashes = 0
    ApprovalExpiry = 9
    ForeignScans = FALSE
INVARIANTS
    ReportedActiveIsComplete
