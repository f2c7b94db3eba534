SPECIFICATION EndsSpec
CONSTANTS
    Channels <- MCChannels
    NoSeq <- NullSeq
    FirstSeq = 0
    SeenCap = 1
    MaxSends = 2
    MaxEvents = 1
    MaxEdits = 1
    MaxPicks = 1
    MaxReturns = 1
    MaxFaults = 1
    NULL = NULL
    Prompts = {p1, p2}
    Locals = {l1}
    Interrupts = {i1}
    Attempts = 1
    MaxDrops = 1
    MaxErrors = 1
    Budget = 3
CHECK_DEADLOCK FALSE
INVARIANTS RowsOrdered OneBubble DraftKept ProjectionFaithful
PROPERTIES BrowserTurnsSerial TextsSettle
