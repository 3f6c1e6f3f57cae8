\* All that the window can meet at once: a terminal, lines that repeat, a log without prompt.
SPECIFICATION FairSpec
CONSTANTS
    MaxEvents = 2
    MaxRetries = 1
    ToolLines = {3}
    Repeats = {4}
    Terminals = TRUE
    Unseeded = TRUE
INVARIANTS
    TypeOK
    BufferIsLog
PROPERTIES
    HistoryIsKept
    CatchesUp
    PillRests
    StreamReturns
