SPECIFICATION Spec
CONSTANTS
    Paths = {a, b, paren}
    Odd = {paren}
    t1 = t1
    t2 = t2
    Words = {t1, t2}
    Contents <- MCContents
    Empty = empty
    MaxEvents = 3
    MaxCrashes = 1
    None = none
INVARIANTS
    TypeOK
    TreeIsReplay
    MapListsTree
    RecallHolesAreFailures
SYMMETRY Symmetry
