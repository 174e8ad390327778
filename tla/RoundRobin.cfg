SPECIFICATION FairSpec
CONSTANTS
    MaxThread = 5
    TickMod = 2
    ClockBound = 2
    MsgBits <- None
    Masks <- None
    Data <- None
    CreateRequests <- OnlyRR
PROPERTIES
    RRServedWithoutTermination
