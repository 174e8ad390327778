SPECIFICATION OsSpec
CONSTANTS
    MaxThread = 3
    TickMod = 64
    ClockBound = 2
    MsgBits <- OneBit
    Masks <- FullMask
    Data <- ThreeData
    SentBy <- OwnDatumButServer
    AnsweredBy <- OwnDatum
    CreateRequests <- RRAndPeriodic
INVARIANTS
    OneServer
PROPERTIES
    KeepsRendezvous
CHECK_DEADLOCK FALSE
