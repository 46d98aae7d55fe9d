SPECIFICATION Spec
CONSTANTS
    Artifacts = {"c", "g", "t", "u"}
    Agents = {"a1"}
    KindOf <- WorkKinds
    Ready = {"t"}
    Ops = {"status", "parent_of", "unlink"}
    Targets = {"work.active", "work.complete", "cancelled"}
    Forces = {TRUE, FALSE}
    Careful = TRUE
    Linkable <- TreeLinks
    Seeded = {"c", "g", "t", "u"}
    SeedParents <- TreeEdges
    SeedDeps <- TaskDependency
INVARIANTS TypeOK RollupReaches ReopenReaches
PROPERTIES ChildrenFirst DependenciesFirst
