SPECIFICATION PaneSpec
CONSTANTS
    NULL = NULL
    Texts = {t1, t2}
    Locals = {l1}
    Budget = 3
INVARIANTS NeverIntoTurn
CHECK_DEADLOCK FALSE
