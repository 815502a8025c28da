SPECIFICATION PoolFairSpec
CONSTANTS
    CfgThreads = {0, 3}
    Callers = {a, b}
    Lengths = {1, 3, 4}
    MaxCalls = 2
    Nobody = Nobody
INVARIANTS
    NoChunkOutlivesCall
PROPERTIES
    ImplementsParallelFor
    EverybodyReturns
