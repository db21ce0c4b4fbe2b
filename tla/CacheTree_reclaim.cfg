SPECIFICATION ReadSpec
CONSTANTS
    Threads = {w}
    Writers = {w}
    NULL = NULL
    BufSize = 2
    ClusterSize = 4
    InitLens = {0, 1}
    MaxLen = 9
    WriteSizes = {1, 2, 3}
    Failures = {}
    ReadSizes = {}
    Threshold = 2
    ReadAnytime = FALSE
    Width = 2
    PoolPressure = TRUE
INVARIANTS
    NoLostBytes
    RadixIsTree
CHECK_DEADLOCK FALSE
