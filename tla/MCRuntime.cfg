SPECIFICATION RuntimeFairSpec
CONSTANTS
    Ids <- MCIds
    Size <- MCSize
    MaxU64 = 63
    Unlimited = 63
    Capacity = 3
    Configs <- MCConfigs
    CfgMinDepth = 1
    CfgMaxDepth = 2
    LowPct = 0
    HighPct = 50
    Latencies = {1000, 1060}
INVARIANTS
    PendingWithinBudget
    EveryRequestAccounted
    WindowIsConsistent
    RunEndsClean
PROPERTY RunTerminates
