SPECIFICATION Spec
CONSTANTS
    Calls = {c1, c2}
    Codes = {k1, k2}
    Legacy = {}
    Users = {root, u1, u2}
    Root = root
    Names = {n0, n1, n2}
    RootName = n0
    None = None
    MaxFaults = 0
INVARIANT OneClaimant
SYMMETRY Symmetric
