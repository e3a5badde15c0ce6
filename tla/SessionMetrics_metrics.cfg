\* A ring of two, keys that flush and keys that wait, a reconnect.
SPECIFICATION FairSpec
CONSTANTS
    FlushInterval = 30
    Hour = 60
    MaxSize = 2
    RttCapacity = 2
    StatsPeriod = 60
    Keys = {"text", "immediate", "lead2", "cont"}
    Delays = {30}
    MaxRtt = 60
    MaxTyped = 3
    MaxReads = 3
    MaxSessions = 2
CHECK_DEADLOCK FALSE
INVARIANTS
    TypeOK
    RingKeepsLatest
    SamplesGenuine
    BytesAccounted
    IntervalTuned
PROPERTY BarCatchesUp
