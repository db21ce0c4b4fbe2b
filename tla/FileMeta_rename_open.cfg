SPECIFICATION Spec
CONSTANTS
    Clients = {c1, c2}
    Names = {n1, n2}
    Blobs = {1, 2}
    NULL = NULL
    Failures = {}
    Overlap = FALSE
    RenameOntoOpen = TRUE
INVARIANTS
    Served
