\* Every request is made once, so the system stops when all are answered.
SPECIFICATION Spec
CHECK_DEADLOCK FALSE
CONSTANTS
    Images <- Visible
    Interactive <- Seen
    Others <- Competing
    ClassOf <- Class
    Default = 2
    Limits = {0, 1}
    MaxLimit = 2
    MaxChanges = 2
INVARIANTS
    NoWakeUpIsMissed
PROPERTIES
    ImagesAreAnswered
