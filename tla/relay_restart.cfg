SPECIFICATION Spec
CONSTANTS
    NULL = NULL
    Prompts = {p1, p2}
    Interrupts = {}
    Devices = {}
    Texts = {t1}
    Gates = {}
    FailureLimit = 2
    MaxLives = 2
    MaxPostFailures = 0
    MaxBreaks = 0
    MaxCommands = 2
    MaxEvents = 1
SYMMETRY Interchangeable
INVARIANT RestartNeverCollides
CHECK_DEADLOCK FALSE
