SPECIFICATION StoreSpec
CONSTANTS
    NoFd = NoFd
    NoData = NoData
    Objects = {s0, a, b}
    StoreFile = s0
    Fds = {f1, f2}
    Mappings = {m1, m2}
    Sizes = {0, 2, 7}
    Page = 3
    MaxU64 = 8
    Chunks = {0, 1, 3, 5}
INVARIANTS
    EveryResourceIsOwnedOnce
    AdviceCoversRequest
    SlicesTileFile
