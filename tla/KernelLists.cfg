SPECIFICATION ListSpec
CONSTANTS
    NULL = NULL
    Task = {t1, t2, t3, t4}
    Slot = {s1, s2, s3, s4}
INVARIANT
    ListsWellFormed
PROPERTIES
    ListsAreQueues
SYMMETRY ListSymmetry
