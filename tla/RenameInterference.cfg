SPECIFICATION Spec
CONSTANTS
    N = 3
    Paths = {"a", "b", "c"}
    Src <- CycleSrc
    Dst <- CycleDst
    HashOf <- Lookalike
    Marked = {1, 2, 3}
    Dormant = {}
    Outside = {"appear", "leave", "replace"}
    ClockTies = TRUE
    Cancels = TRUE
    MaxOutside = 2
    MaxCrashes = 2
    MaxFaults = 1
INVARIANTS
    NoFileLost
    HiddenFileIsTracked
PROPERTIES
    ForeignFilesStay
    ImplementsRelocation
CHECK_DEADLOCK FALSE
