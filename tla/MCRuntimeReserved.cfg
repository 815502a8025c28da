SPECIFICATION RuntimeSpec
CONSTANTS
    Ids <- MCIds
    Size <- MCSize
    MaxU64 = 63
    Unlimited = 63
    Capacity = 3
    Configs <- MCCopyConfigs
    CfgMinDepth = 1
    CfgMaxDepth = 2
    LowPct = 60
    HighPct = 90
    Latencies = {1000}
PROPERTY ConsumedStaysReserved
