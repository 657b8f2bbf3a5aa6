SPECIFICATION Spec
CONSTANTS
    Updates = {u1, u2}
    Kinds = {"text", "newchat", "flushmemory", "yes"}
    IdleTicks = 1
    PromptTicks = 1
    MaxClock = 2
    MaxFaults = 1
    Sequential = FALSE
    None = None
INVARIANTS EndedAfterActivity
PROPERTIES EveryUpdateEnds
CHECK_DEADLOCK FALSE
