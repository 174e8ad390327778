SPECIFICATION RxSpec
CONSTANTS
    Capacity = 8
    Byte = {}
    PayloadSize = 2
    Payload <- Payloads
    MaxPackets = 3
INVARIANTS
    RestIsThere
PROPERTIES
    TakenFromOnePacket
CHECK_DEADLOCK FALSE
