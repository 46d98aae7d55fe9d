CONSTANTS
    Ids = {x, y}
    Legacy = {x}
    LegacyColumns = {"inserted_at", "alias"}
    MaxCommits = 2
    MaxTime = 3
    MaxFaults = 1
    MaxCount = 1
    MaxAge = 2
    Delta = 1
    Paused = TRUE
    Paced = TRUE
    Reopened = TRUE
    Blocked = FALSE
SPECIFICATION Spec
INVARIANTS AliasesKept SchemaCurrent  Recoverable 
PROPERTY AutoSnapshotFresh
CHECK_DEADLOCK FALSE
