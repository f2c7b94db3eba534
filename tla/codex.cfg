SPECIFICATION FairSpec
CONSTANTS
    NULL = NULL
    Prompts = {p1, p2}
    Locals = {l1}
    Interrupts = {i1}
    Kinds = {"agent", "cmd", "patch"}
    MaxReplies = 1
    MaxErrors = 1
    MaxDecisions = 1
    Budget = 3
CHECK_DEADLOCK FALSE
INVARIANTS TranscriptFaithful CardsTruthful
PROPERTIES TextsSettle
