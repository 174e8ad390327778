SPECIFICATION Spec
CONSTANTS
    MaxThread = 3
    TickMod = 64
    ClockBound = 0
    MsgBits <- OneBit
    Masks <- OneBitMasks
    Data <- OneDatum
    CreateRequests <- RRAndPeriodic
INVARIANTS
    QueuesHoldLiveTasks
    RunningAtFront
    QueuedSendersBlocked
    NoMessageForDead
    NoMissedMessage
    PeriodicNotBlocked
    SystemPreempts
    IdleOnlyWhenNothingReady
PROPERTIES
    UnblockedByPartner
    FirstComeFirstServed
CHECK_DEADLOCK FALSE
