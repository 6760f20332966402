\* Every request is bounded, so the system stops when all are answered.
SPECIFICATION Spec
CHECK_DEADLOCK FALSE
CONSTANTS
    b1 = b1
    b2 = b2
    NoBatch = NoBatch
    Batches = {b1}
    N = 2
    Requests <- RenameOrCopy
    ComponentOf <- Alone
    MaxRetained = 1
    MaxCancels = 1
    MaxUndos = 0
    MaxFaults = 1
INVARIANTS
    ResultsAreTrue
    MovedCanBeUndone
PROPERTIES
    CancelStopsTheRest
    BatchAndCloseEnd
