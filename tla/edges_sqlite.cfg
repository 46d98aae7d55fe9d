SPECIFICATION EdgesSpec
CONSTANTS
    Targets = {t1}
    Sources = {"manual", "wikilink", "locus"}
    Callers = {c1, c2, c3}
    Backend = "sqlite"
    Ops = {"add", "remove", "link", "unlink"}
INVARIANT LinkedIffDeclared
