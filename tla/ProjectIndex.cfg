CONSTANTS
    Paths <- ThreePaths
    Folders <- TwoFolders
    Root = "/"
    Home <- HomeOf
    Holds <- HoldsOf
    WalkOrder <- WalkedInOrder
    FirstInode <- OneFile
    FirstMarks = {"f/a", "c"}
    MaxQueued = 1
    MaxWrites = 2
    MaxSaves = 1
SPECIFICATION Spec
\* The program waits for the user and for other programs.
CHECK_DEADLOCK FALSE
INVARIANTS
    NoChangeIsForgotten
    TextIsCurrent
    ShownMarkIsStored
PROPERTIES
    ClosedIsQuiet
    ComesToRest
