SPECIFICATION GameFairSpec
CONSTANTS
    FullHealth = 2
    HealthMod = 4
    FullLaser = 2
    BackOff = 2
INVARIANTS
    GameTypeOK
    DeadStops
    AliveHasHealth
PROPERTIES
    HitsKill
    LaserRunsOut
    ModeChangesUntilDeath
