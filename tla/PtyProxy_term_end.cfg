\* SIGTERM while ssh lives.
SPECIFICATION FairSpec
CONSTANTS
    FlushInterval = 1
    Hour = 2
    MaxSize = 2
    Reconnects = {FALSE}
    Keys = {"text"}
    PtyCap = 2
    SplitReads = FALSE
    StdinEnds = FALSE
    EarlyResize = FALSE
    SpawnFails = FALSE
    UserSignals = {"TERM"}
    MaxTyped = 1
    MaxOutput = 0
    MaxSessions = 1
    MaxUserActs = 1
PROPERTY TermEnds
