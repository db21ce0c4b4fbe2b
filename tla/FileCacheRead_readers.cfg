SPECIFICATION FairReadSpec
CONSTANTS
    Threads = {r1, r2}
    Writers = {}
    NULL = NULL
    BufSize = 2
    ClusterSize = 4
    InitLens = {3}
    MaxLen = 3
    WriteSizes = {1, 2, 3}
    Failures = {"buffer"}
    ReadSizes = {3}
    Threshold = 3
    ReadAnytime = TRUE
    PoolPressure = TRUE
INVARIANTS
    Defined
    ReadsTheFile
    ReadersInv
PROPERTIES
    ReadReturns
