SPECIFICATION Spec
CONSTANTS
    MaxMonth = 1
    MaxBills = 2
    MaxFaults = 1
    MaxStarts = 2
INVARIANTS NeverOvercounts FlushSaves
PROPERTIES CostsReachCache
CHECK_DEADLOCK FALSE
