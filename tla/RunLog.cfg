SPECIFICATION Spec

CONSTANTS
    MaxRun = 3
    MaxBoots = 2
    RecordsFail = TRUE
    RemovesFail = TRUE
    Overtakes = FALSE

INVARIANTS
    RecordedOnce
    RecordInOrder
    NoRunLost

CHECK_DEADLOCK FALSE
