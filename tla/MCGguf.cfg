SPECIFICATION GgufSpec
CONSTANTS
    MaxU64 = 1023
    FileSizes = {60, 100, 210, 600}
    MaxTensors = 2
    MaxMetadataItems = 2
    MaxArrayElements = 2
    MaxStringBytes = 1023
    MaxParseHeapBytes = 800
    AlignmentKey = "align"
    Keys <- MCKeys
    Names <- MCNames
    LengthOf <- MCLengthOf
    Headers <- MCHeaders
    ValueTypes <- MCValueTypes
    Payloads <- MCPayloads
    StringLengths = {0, 20, 450, 1000}
    ArrayLengths = {0, 2, 3}
    Shapes <- MCShapes
    GgmlTypes <- MCGgmlTypes
    Rels = {0, 34, 800}
INVARIANTS
    ReadsWithinFile
    HeldIsCharged
    TensorsInFile
    DataFollowsDescriptors
    LookupsAreUsable
CHECK_DEADLOCK FALSE
