SPECIFICATION Spec
CONSTANTS
    Updates = {u1, u2, u3}
    Kinds = {"text", "ask", "newchat", "flushmemory", "photo", "yes", "no"}
    IdleTicks = 1
    PromptTicks = 2
    MaxClock = 3
    MaxFaults = 1
    Sequential = TRUE
    None = None
SYMMETRY Symmetric
INVARIANTS OneReset OneConfirm OffForgets
PROPERTIES RollbackOwnEmpty
CHECK_DEADLOCK FALSE
