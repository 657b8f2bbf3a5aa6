SPECIFICATION Spec
CONSTANTS
    Edits = {e1, e2}
    Appends = {a1, a2}
    Apps = {x1}
    Users = {u1, u2}
    Sequential = FALSE
    MaxFaults = 1
    None = None
SYMMETRY Symmetric
INVARIANTS NoSilentOverwrite OnlyNewestApplied AnswersTrue PressAnswered
CHECK_DEADLOCK FALSE
