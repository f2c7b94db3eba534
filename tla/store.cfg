SPECIFICATION LossSpec
CONSTANTS
    i1 = i1
    i2 = i2
    r1 = r1
    r2 = r2
    Instances = {i1, i2}
    Requests = {r1, r2}
    Home <- TwoHomes
    Frames <- OneCoordinate
    PresenceBus = TRUE
    LegacyLogs <- LegacyTerminal
    MaxGen = 1
    MaxLosses = 1
INVARIANTS
    AckedFramesKept
PROPERTIES
    TerminalIsLast
    ImplementsChannelLog
    RequestsSettle
