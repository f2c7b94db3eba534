SPECIFICATION PartsSpec
CONSTANTS
    MaxEvents = 3
    MaxStreams = 2
    MaxUuid = 3
    Bytes = {b1, b2}
    Batches <- SmallBatches
    Conns = {c1, c2}
    MaxRequests = 3
    Sessions = {n1, n2}
    Retries = 1
    Subscribers = {s1}
    StartIndexes <- Starts
    BatchLimit = 2
    MaxFailures = 3
    MaxRows = 4
    MaxGen = 1
    MaxFaults = 4
    Attempts = 3
    MaxFrames = 3
    MaxCloses = 1
    MaxRotations = 1
    MaxBreaks = 3
    MaxWire = 3
    NULL = NULL
    Texts = {t1, t2}
    Locals = {l1}
    Budget = 3
CHECK_DEADLOCK FALSE
INVARIANTS
    MutationsGapless
    AdmittedInOrder
    NothingOutlivesClose
    NoGhost
    ContiguousReplay
    GateGuardsTurn
    AppliedOnce
PROPERTIES
    AmbiguityEnds
    TeardownEnds
    EventuallyDelivered
    EveryFrameArrives
