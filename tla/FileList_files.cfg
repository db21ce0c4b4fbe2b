SPECIFICATION FairListingSpec
CONSTANTS
    Clients = {c1, c2}
    Names = {1, 2}
    Blobs = {1, 2}
    NULL = NULL
    Failures = {"resize"}
    Overlap = FALSE
    RenameOntoOpen = FALSE
INVARIANTS
    TypeOK
    Defined
    Served
    NotResurrected
    RefCounts
    Agreement
    MetaInv
PROPERTIES
    CallReturns
    ListingComplete
    ListingReturns
