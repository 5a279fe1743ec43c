SPECIFICATION Spec
CONSTANTS
    i1 = i1
    i2 = i2
    k1 = k1
    k2 = k2
    s1 = s1
    s2 = s2
    AllItems <- TwoItems
    Keys <- TwoKeys
    Syncs <- TwoSyncs
    Setups <- Concurrent
    MaxIssues = 2
SYMMETRY SyncSymmetry
INVARIANTS
    OneIssuePerKey
    OnePendingRepair
    LinksAreOwn
    NothingForgotten
    OneLanePerItem
PROPERTIES
    LinkIsForGood
    ImplementsPublishOnce
