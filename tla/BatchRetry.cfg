SPECIFICATION Spec
CONSTANTS
    b1 = b1
    b2 = b2
    b3 = b3
    Batches <- ThreeBatches
    Workers = 2
    MaxRuns = 2
PROPERTIES
    RetryCompletes
