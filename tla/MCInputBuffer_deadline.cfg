\* A batch that begins with a multi-byte character.
SPECIFICATION Spec
CONSTANTS
    FlushInterval = 10
    MaxSize = 3
    Hour = 20
    Adaptive = FALSE
    StartRaw = FALSE
    Keys = {"text", "lead2", "cont"}
    MaxTyped = 3
    MaxLost = 0
    Rtts = {}
    Delays = {5}
    Utf8Only = TRUE
    Switching = "never"
INVARIANT HeldOnTime
