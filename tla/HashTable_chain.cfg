SPECIFICATION Spec
CONSTANTS
    Keys = {0, 2, 4, 6, 1}
    Values = {v}
    Size = 2
    NULL = NULL
    Garbage = {"null"}
    MaxItems = 4
INVARIANTS
    IsMap
