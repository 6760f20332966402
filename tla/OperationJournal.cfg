SPECIFICATION Spec
CONSTANTS
    b1 = b1
    b2 = b2
    o1 = o1
    o2 = o2
    o3 = o3
    Batches = {b1, b2}
    Ops = {o1, o2, o3}
    BatchOf <- MCBatchOf
    Policies = {"Skip", "Replace"}
    Destinations = {"requested"}
    MaxRequested = 2
INVARIANTS
    CountersMatchItems
    FinishedBatchIsSettled
PROPERTIES
    TemporaryIsNeverForgotten
CHECK_DEADLOCK FALSE
