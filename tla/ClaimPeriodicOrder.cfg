SPECIFICATION Spec
CONSTANTS
    MaxThread = 3
    TickMod = 8
    ClockBound = 8
    MsgBits <- None
    Masks <- None
    Data <- None
    CreateRequests <- ConflictFree
INVARIANTS
    PeriodicPreempts
CHECK_DEADLOCK FALSE
