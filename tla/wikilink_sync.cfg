SPECIFICATION Spec
CONSTANTS
    Targets = {t1, t2}
    Sources = {"manual", "wikilink"}
    Callers = {e1, l1}
    Editors = {e1}
    Backend = "sqlite"
    Ops = {"link"}
INVARIANTS WikilinksMatch
 
