SPECIFICATION LiveSpec
CONSTANTS
    a = a
    b = b
    c = c
    s = s
    none = none
    Writers <- ThreeWriters
    Unlocked <- OneUnlocked
    NoOne = none
    MaxFaults = 1
INVARIANTS
    LossIsBounded
PROPERTIES
    ImplementsAtomicStore
    EverySectionEnds
\* Every process ends.
CHECK_DEADLOCK FALSE
