SPECIFICATION Spec
CONSTANTS
    Artifacts = {"g", "h", "t", "k"}
    Agents = {"a1"}
    KindOf <- WorkKinds
    Ready = {"t"}
    Ops = {"parent_of", "depends_on", "unlink", "setparent", "setdeps", "create", "delete"}
    Targets = {"work.complete"}
    Forces = {FALSE}
    Careful = TRUE
    Linkable <- StructureLinks
    Seeded = {"g", "t"}
    SeedParents <- NoEdges
    SeedDeps <- NoEdges
INVARIANTS  ClosedWorld NoDangling DependsOnAcyclic
