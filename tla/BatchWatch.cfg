SPECIFICATION LiveSpec
CONSTANTS
    MaxAttempts = 2
    Timeout = 5
    Stall = 3
    Second = 1
INVARIANTS
    AnswerDecides
PROPERTIES
    StallIsQuiet
    BatchEnds
