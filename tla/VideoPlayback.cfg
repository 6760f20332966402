CONSTANTS
    Attempts = {1, 2}
    Bounds <- MCBounds
SPECIFICATION Spec
\* The program waits for the user.
CHECK_DEADLOCK FALSE
INVARIANTS
    PlayerBelongsToSession
    StateMatchesPlayer
PROPERTIES
    SeekEnds
    EndIsTold
    PlayerFollowsView
