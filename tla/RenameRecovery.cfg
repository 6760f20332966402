SPECIFICATION FairSpec
CONSTANTS
    N = 3
    Paths = {"a", "b", "c"}
    Src <- CycleSrc
    Dst <- CycleDst
    HashOf <- Distinct
    Marked = {1, 2, 3}
    Dormant = {}
    Outside = {}
    ClockTies = FALSE
    Cancels = TRUE
    MaxOutside = 0
    MaxCrashes = 2
    MaxFaults = 0
INVARIANTS
    RecoverySettles
    MetadataFollowsFile
PROPERTIES
    SecondRecoveryIsNoOp
    ProjectOpens
CHECK_DEADLOCK FALSE
