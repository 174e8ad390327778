SPECIFICATION Spec
CONSTANTS
    RX_BUFFER_SIZE = 4
    Byte = {0, 1}
INVARIANTS
    NoUartError
PROPERTIES
    IsByteQueue
    DropsOnlyWhenFull
