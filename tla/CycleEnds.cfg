SPECIFICATION FairSpec
CONSTANTS
    c1 = c1
    c2 = c2
    inScope = inScope
    outOfScope = outOfScope
    Processes <- OneProcess
    PullRequests <- OnePullRequest
    OutOfScope <- NoPullRequests
    Approvals <- AlwaysHeld
    MaxAttempts = 1
    WindowLength = 2
    Runtime = 1
    CostCap = 1
    CallLimit = 1
    ObservationLimit = 1
    MaxTime = 0
    MaxCrashes = 1
    ApprovalExpiry = 9
    ForeignScans = TRUE
INVARIANTS
    DispatchedOnce
PROPERTIES
    AttemptIsResolved
    EveryAttemptEnds
