SPECIFICATION FairSpec
CONSTANTS
    Calls = {c1, c2}
    Codes = {k1}
    Legacy = {}
    Users = {root, u1, u2}
    Root = root
    Names = {n0, n1}
    RootName = n0
    None = None
    MaxFaults = 1
INVARIANTS AdminRemains SavedFollows OneClaimant
PROPERTIES EveryCallReturns
