SPECIFICATION Spec
CONSTANTS
    Clients = {"p1", "n1", "v1", "a1"}
    Method <- MethodOf
    Deletable = TRUE
    Keep = 2
    PruneTo = {}
    StrictClock = TRUE
INVARIANTS Recoverable
CHECK_DEADLOCK FALSE
