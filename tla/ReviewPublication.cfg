SPECIFICATION Spec
CONSTANTS
    MaxAttempts = 1
    MaxCommands = 3
    Events = {"crash", "close", "fault", "slow", "read"}
    MaxEvents = 2
INVARIANTS
    HistoryIsAChain
    JobsCoverTheGap
    ArchiveBasisIsPublic
    AgentSeesTheLatest
PROPERTIES
    SavedBecomesPublic
CHECK_DEADLOCK FALSE
