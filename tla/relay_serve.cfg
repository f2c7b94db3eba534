SPECIFICATION PartsSpec
CONSTANTS
    NULL = NULL
    Prompts = {p1}
    Interrupts = {i1}
    Devices = {d1, d2}
    Texts = {}
    Gates = {g1}
    FailureLimit = 2
    MaxLives = 2
    MaxPostFailures = 1
    MaxBreaks = 2
    MaxCommands = 2
    MaxEvents = 2
    Messages = {m1, m2, m3}
    NoMessage = NoMessage
    MaxGroups = 2
    MaxPending = 2
    MaxStored = 2
    MaxFailures = 2
    MaxDropped = 1
    Pages = {v1, v2}
    Requests = {question, native}
    Native = {native}
    Questions = {question}
    Forms = {answer}
    MaxGrants = 3
    MaxReloads = 1
CHECK_DEADLOCK FALSE
INVARIANTS DrivenOnce DrivenIsPublished GapOnlyAtTail CardTellsOutcome
PROPERTIES CommandsSettle CompleteAdmitted
