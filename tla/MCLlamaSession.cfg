SPECIFICATION SessionFairSpec
CONSTANTS
    TrainCtx = 5
    CtxOverride = 3
    CfgPageTokens = 2
    NLayer = 2
    Vocab = 2
    Eos = 1
    MaxBatch = 2
    Prompts <- MCPrompts
    BatchSizes = {0, 2, 3}
    GenCounts = {0, 2}
INVARIANTS
    CacheHoldsSequence
    AttentionReadsItsContext
    CallFeedsItsTokens
    LogitsAreCurrent
PROPERTY CallsEnd
