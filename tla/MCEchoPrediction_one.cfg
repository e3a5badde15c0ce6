\* One guess at a time, no Enter, Backspace or Tab, any reply, and reads that
\* cut neither a character nor a sequence; full-screen programs and a reconnect.
SPECIFICATION Spec
CONSTANTS
    MissThreshold = 2
    Batches <- QuietBatches
    Talk <- MixedTalk
    MaxPending = 1
    StartRaw = {FALSE, TRUE}
    SplitChars = FALSE
    SplitSequences = FALSE
    MaxTyped = 3
    MaxTalk = 2
    MaxReconnects = 1
CHECK_DEADLOCK FALSE
INVARIANTS
    TypeOK
    ScreenIsTruth
    ErasesOnlyGuesses
    RawUndisturbed
