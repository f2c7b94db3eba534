SPECIFICATION PartsSpec
CONSTANTS
    None = None
    Values = {a, b}
    Catalogs = {c1, c2}
    NoCatalog = NoCatalog
    Retries = 1
    Backlog = 1
    MaxEvents = 2
    MaxRevisions = 3
    MaxReloads = 1
CHECK_DEADLOCK FALSE
INVARIANTS
    DeadStaysDead
    PreviewForward
PROPERTIES
    PageAgrees
