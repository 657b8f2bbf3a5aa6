SPECIFICATION FairSpec
CONSTANTS
    Jobs = {j1, j2}
    CronJobs = {j2}
    Isolated = {}
    Nesting = {}
    Callers = {c1}
    Nobody = Nobody
    Threshold = 1
    MaxOverlap = 1
    MaxQueue = 2
    MaxTime = 1
    MaxFaults = 1
INVARIANTS NoLostTask AttemptedOnce StopDrains
PROPERTIES TasksAttempted
CHECK_DEADLOCK FALSE
