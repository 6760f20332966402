\* Every request is bounded, so the system stops when all are answered.
SPECIFICATION Spec
CHECK_DEADLOCK FALSE
CONSTANTS
    b1 = b1
    b2 = b2
    NoBatch = NoBatch
    Batches = {b1, b2}
    N = 1
    ComponentOf <- Alone
    Requests <- Moves
    MaxRetained = 1
    MaxCancels = 0
    MaxUndos = 1
    MaxFaults = 0
INVARIANTS
    EndedMeansReady
PROPERTIES
    EndIsFinal
SYMMETRY Interchangeable
