\* A program whose file is refused, or that a kernel ends, stops.
CONSTANTS
    QK = 8
    Q6Run = 2
    Lanes = 2
    CtxOverride = 0
    Columns = {2, 4, 5, 6, 8, 16, 32}
    Files <- MCFiles
    BatchSizes <- MCBatchSizes
    Builds <- MCBuilds
SPECIFICATION WeightsSpec
CHECK_DEADLOCK FALSE
INVARIANT WeightsFit
PROPERTY ImplementsProduct
