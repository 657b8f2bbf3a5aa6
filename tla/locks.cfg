SPECIFICATION FairSpec
CONSTANTS
    Procs = {p1, p2, p3}
    Keys = {1, 2, 3}
    Null = Null
PROPERTIES ImplementsQueues EveryCallReturns
