SPECIFICATION Spec
CONSTANTS
    Calls = {c1, c2}
    Users = {u1}
    Names = {milk, eggs}
    MaxItems = 3
    MaxFaults = 1
    None = None
SYMMETRY Symmetric
INVARIANTS Accounted PantryOnce
PROPERTIES PositionsKept
CHECK_DEADLOCK FALSE
