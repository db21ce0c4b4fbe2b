SPECIFICATION Spec
CONSTANTS
    Threads = {w, s}
    Writers = {w}
    NULL = NULL
    BufSize = 2
    ClusterSize = 2
    InitLens = {0, 2}
    MaxLen = 5
    WriteSizes = {1, 2, 3}
    Failures = {"request", "resize"}
INVARIANTS
    TypeOK
    IInv
    ExtendInv
    SyncDurable
    LengthBacked
    NoLostBytes
    FlushWithinBlob
    Defined
PROPERTIES
    LengthMonotone
