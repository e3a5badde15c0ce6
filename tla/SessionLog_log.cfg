\* Small chunks and a buffer that a long line does not fit into.
SPECIFICATION Spec
CONSTANTS
    Bytes = {27}
    Capacity = 4
    MaxChunk = 2
    MaxEvents = 4
    MaxFaults = 2
INVARIANTS
    TypeOK
    ReadIsGenuine
    ReplayIsPrefix
    LossBounded
CHECK_DEADLOCK FALSE
