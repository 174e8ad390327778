SPECIFICATION FeedSpec
CONSTANTS
    MAXTASKS = 8
    Delay <- Delays
    Period <- Periods
    Duration <- Durations
    ClockMod = 24
    PACKET_SIZE = 2
    SendPeriod = 6
    Capacity = 5
    MaxBehind = 1
    LikeMagic = {1}
INVARIANT
    PacketsWhole
PROPERTIES
    KeepsTaking
