\* One-byte keys, every signal, with and without reconnection.
SPECIFICATION FairSpec
CONSTANTS
    FlushInterval = 1
    Hour = 2
    MaxSize = 2
    Reconnects = {TRUE, FALSE}
    Keys = {"text", "immediate"}
    PtyCap = 1
    SplitReads = FALSE
    StdinEnds = TRUE
    EarlyResize = FALSE
    SpawnFails = TRUE
    UserSignals = {"TERM", "HUP"}
    MaxTyped = 2
    MaxOutput = 1
    MaxSessions = 3
    MaxUserActs = 1
INVARIANTS
    TypeOK
    DeliveredInFull
    PtySizeFollows
PROPERTIES
    RawNeverBuffered
    ChildExitEnds
    KeysArrive
    TermLeavesLoop
    LossIsReplaced
