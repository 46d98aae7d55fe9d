SPECIFICATION FairSpec
CONSTANTS
    Clients = {"v1", "v2", "v3", "a1"}
    Method <- MethodOf
    Deletable = TRUE
    Keep = 2
    PruneTo = {0, 1}
    StrictClock = TRUE
INVARIANTS TypeOK VersionIdentifies RevisionsContiguous
PROPERTIES NoClobber MergedSpec AllAnswered
CHECK_DEADLOCK FALSE
