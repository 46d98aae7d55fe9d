SPECIFICATION EdgesSpec
CONSTANTS
    Targets = {t1, t2}
    Sources = {"manual", "wikilink"}
    Callers = {c1, c2}
    Backend = "memory"
    Ops = {"add", "remove", "unlink"}
PROPERTY SourceSetsSpec
