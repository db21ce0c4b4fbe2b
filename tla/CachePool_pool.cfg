SPECIFICATION FairSpec
CONSTANTS
    FileSystems = {s1, s2}
    Names = {n}
    NULL = NULL
    Default = 1
    Sizes = {2}
    MaxTries = 1
    MaxRing = 2
INVARIANTS
    TypeOK
    ListBalanced
    Conserved
    
PROPERTIES
    Reclaims
CHECK_DEADLOCK FALSE
