SPECIFICATION Spec
CONSTANTS
    Calls = {c1, c2}
    Names = {n1, n2}
    None = None
    MaxBatches = 2
    MaxFaults = 1
SYMMETRY Symmetric
INVARIANTS OnePlace StockKept WasteLogTrue NoCircle
