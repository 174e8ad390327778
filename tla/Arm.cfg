SPECIFICATION ArmSpec
CONSTANTS
    DEG_MIN = 1
    DEG_MAX = 3
    S_MAX_SPEED = 3
    Threshold = 2
    Second = 6
    ClockMod = 8
    DeltaMod = 64
    ARM_TICK_PERIOD = 2
PROPERTY
    HeldStickMoves
