\* A session lost between the bytes of a character.
SPECIFICATION Spec
CONSTANTS
    FlushInterval = 1
    Hour = 2
    MaxSize = 2
    Reconnects = {TRUE}
    Keys = {"text", "lead2", "cont"}
    PtyCap = 2
    SplitReads = FALSE
    StdinEnds = FALSE
    EarlyResize = FALSE
    SpawnFails = FALSE
    UserSignals = {}
    MaxTyped = 2
    MaxOutput = 0
    MaxSessions = 2
    MaxUserActs = 0
INVARIANT NoReplay
