\* Well-formed UTF-8, modes switched between characters: a FIFO channel of
\* whole characters in bounded batches that drain.
SPECIFICATION FairSpec
CONSTANTS
    FlushInterval = 10
    MaxSize = 2
    Hour = 20
    Adaptive = FALSE
    StartRaw = FALSE
    Keys = {"text", "immediate", "lead2", "lead4", "cont"}
    MaxTyped = 6
    MaxLost = 1
    Rtts = {}
    Delays = {5}
    Utf8Only = TRUE
    Switching = "between_chars"
PROPERTIES
    WholeChars
    ChannelSpec
    BatchBound
    BatchDrains
