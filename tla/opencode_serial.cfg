SPECIFICATION OpencodeSpec
CONSTANTS
    NULL = NULL
    Prompts = {p1, p2}
    Locals = {l1}
    Interrupts = {}
    Attempts = 1
    MaxDrops = 0
    MaxErrors = 0
    Budget = 3
CHECK_DEADLOCK FALSE
INVARIANT OneTextAtATime
