SPECIFICATION ReadSpec
CONSTANTS
    Threads = {w}
    Writers = {w}
    NULL = NULL
    BufSize = 2
    ClusterSize = 4
    InitLens = {0}
    MaxLen = 5
    WriteSizes = {1, 2, 3}
    Failures = {}
    ReadSizes = {2, 3}
    Threshold = 2
    ReadAnytime = TRUE
    PoolPressure = FALSE
INVARIANTS
    NoLostBytes
CHECK_DEADLOCK FALSE
