\* Any bytes, any mode switch at any moment, tuned intervals.
SPECIFICATION Spec
CONSTANTS
    FlushInterval = 10
    MaxSize = 2
    Hour = 15
    Adaptive = TRUE
    StartRaw = FALSE
    Keys = {"text", "immediate", "lead4", "cont"}
    MaxTyped = 5
    MaxLost = 1
    Rtts = {0}
    Delays = {5}
    Utf8Only = FALSE
    Switching = "any_time"
INVARIANTS
    TypeOK
    CarryIsPartialChar
    BelowMaxSize
    AsciiHeldOnTime
    Accounted
