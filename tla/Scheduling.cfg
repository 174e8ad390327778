SPECIFICATION HistorySpec
CONSTANTS
    MaxThread = 3
    TickMod = 64
    ClockBound = 5
    MsgBits <- None
    Masks <- None
    Data <- None
    CreateRequests <- AllLevels
INVARIANTS
    TypeOK
    OnlyCpRuns
    TasksCounted
    NoInternalAbort
    PeriodicOrder
    PeriodicPreempts
    WithinWcet
PROPERTIES
    PeriodsBeginOnTime
CHECK_DEADLOCK FALSE
