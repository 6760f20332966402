SPECIFICATION Spec
CONSTANTS
    Routes = {"Copy", "CrossMove", "Trash", "Replace"}
    Lookalike = TRUE
    MaxOutside = 2
    MaxCrashes = 2
    MaxFaults = 2
INVARIANTS
    SourceSurvives
    ReplacedOnlyForItsSuccessor
    HiddenPartIsTracked
    CrashAloneIsResolved
PROPERTIES
    ForeignFilesStay
    ResultsAreTrue
