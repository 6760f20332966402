SPECIFICATION Spec
CONSTANTS
    N = 2
    Paths = {"a", "b", "c"}
    Src <- SwapSrc
    Dst <- SwapDst
    HashOf <- Distinct
    Marked = {1}
    Dormant = {}
    Outside = {}
    ClockTies = FALSE
    Cancels = FALSE
    MaxOutside = 0
    MaxCrashes = 0
    MaxFaults = 0
INVARIANTS
    MarkerFollowsFile
CHECK_DEADLOCK FALSE
