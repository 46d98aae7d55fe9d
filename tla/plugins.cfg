SPECIFICATION FairSpec
CONSTANTS
    Builtin = 1
    Extra = {p1, p2}
    Callers = {c1, c2}
    Nesting = {c2}
    MaxNesting = 3
    MaxDispatches = 2
    RegisterFirst = TRUE
INVARIANTS NoLostPlugin
PROPERTIES DispatchStable 
CHECK_DEADLOCK FALSE
