SPECIFICATION FairSpec
CONSTANTS
    Calls = {c1, c2}
    Keys = {k1, k2}
    Ids = {s1, s2}
    None = None
    MaxFaults = 1
INVARIANTS MirrorFaithful OneKeyPerSession
PROPERTIES ImplementsLedger RebuildOnlyLive EveryCallReturns EndedLeavesIndex
CHECK_DEADLOCK FALSE
