SPECIFICATION Spec
CONSTANTS
    Threads = {w}
    Writers = {w}
    NULL = NULL
    BufSize = 2
    ClusterSize = 4
    InitLens = {1}
    MaxLen = 5
    WriteSizes = {1, 2, 3}
    Failures = {}
INVARIANTS
    SyncDurable
