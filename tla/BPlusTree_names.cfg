SPECIFICATION Spec
CONSTANTS
    MAX_KEY_NUM = 2
    Names = {1, 2, 3, 4, 5, 6, 7}
    Removable = {1, 2, 6, 7}
    Files = {f}
    NULL = NULL
    CondGarbage = {1}
INVARIANTS
    TypeOK
    FindComplete
    Linked
    Balanced
    ListedInOrder
PROPERTIES
    ImplementsIndex
