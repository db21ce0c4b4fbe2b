SPECIFICATION TruncateSpec
CONSTANTS
    Threads = {w}
    Writers = {w}
    NULL = NULL
    BufSize = 2
    ClusterSize = 4
    InitLens = {0}
    MaxLen = 4
    WriteSizes = {1, 2}
    Failures = {}
    Lens = {0, 1}
INVARIANTS
    SyncDurable
CHECK_DEADLOCK FALSE
