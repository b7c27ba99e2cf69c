SPECIFICATION FairSpec
CONSTANTS
    IntMax = 15
    Lengths <- AllLengths
    BatchSizes <- AllSizes
    MaxBatches = 15
PROPERTY ReturnsForValidConfig
CHECK_DEADLOCK FALSE
