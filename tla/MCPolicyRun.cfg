SPECIFICATION RunSpec
CONSTANTS
    CfgMinDepth = 1
    CfgMaxDepth = 3
    CfgDepth = 1
    LowPct = 60
    HighPct = 90
    Latencies <- MCLatencies
    Feedback <- MCFeedback
    Peaks = {5, 6}
    Limit = 8
    Unlimited = 1000
    MaxEvictions = 1
    MaxStable = 3
INVARIANTS
    SteadyDemandIsServed
PROPERTIES
    DownIsEarned
    NoRepeatedExperiment
    UpIsEarned
CHECK_DEADLOCK FALSE
