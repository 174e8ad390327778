SPECIFICATION SchedSpec
CONSTANTS
    MAXTASKS = 8
    Delay <- Delays
    Period <- Periods
    Duration <- Durations
    ClockMod = 512
INVARIANT
    SchedTypeOK
PROPERTIES
    EveryPeriodRuns
    SleepsToNextRelease
