SPECIFICATION Spec
CONSTANTS
    NULL = NULL
    Prompts = {p1}
    Locals = {l1}
    Interrupts = {i1}
    Models = {m1, m2}
    ChosenModels = {m1}
    Kinds = {"ask"}
    MaxOutputs = 1
    MaxDecisions = 2
    PageSize = 3
    Attempts = 2
    Budget = 3
CHECK_DEADLOCK FALSE
INVARIANTS ProjectionComplete
PROPERTIES DecisionsOnce ModelFresh
