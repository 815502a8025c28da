SPECIFICATION PrefetchFairSpec
CONSTANTS
    Ids <- MCIds
    Size <- MCSize
    MaxU64 = 5
    Capacity = 4
INVARIANTS
    ListMatchesMap
    UsedIsResidentBytes
    PrefetchedBytesExact
    PendingIsExact
    QuietAfterStop
PROPERTIES
    ImplementsLru
    StopTerminates
    PendingDrains
