SPECIFICATION FairSpec
CONSTANTS
    IntMax = 15
    Lengths <- AllLengths
    BatchSizes <- AllSizes
    MaxBatches = 15
INVARIANTS NoPanic BatchesSlice Inv
PROPERTY Returns
CHECK_DEADLOCK FALSE
