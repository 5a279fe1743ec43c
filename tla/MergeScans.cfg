SPECIFICATION LiveSpec
CONSTANTS
    l1 = l1
    s1 = s1
    b1 = b1
    r1 = r1
    Dupes <- NoItems
    Lint <- OneLint
    Sec <- OneSec
    Bandit <- OneBandit
    Review <- OneReview
    Scopes <- AllOrPart
    Disposable <- NotReview
    MaxEdits = 1
INVARIANTS
    CacheIsCurrent
PROPERTIES
    SteadyIsOpen
    Converges
