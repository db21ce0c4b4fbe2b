SPECIFICATION FairReadSpec
CONSTANTS
    Threads = {w}
    Writers = {w}
    NULL = NULL
    BufSize = 2
    ClusterSize = 4
    InitLens = {0}
    MaxLen = 7
    WriteSizes = {1, 2}
    Failures = {}
    ReadSizes = {2, 3}
    Threshold = 2
    ReadAnytime = FALSE
    PoolPressure = FALSE
INVARIANTS
    ReadsTheFile
    IInv
PROPERTIES
    SyncReturns
    ReadReturns
CHECK_DEADLOCK FALSE
