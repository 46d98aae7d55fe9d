SPECIFICATION FairUpkeepSpec
CONSTANTS
    Artifacts = {"g", "t", "n"}
    Agents = {"a", "k"}
    KindOf <- ChainKinds
    Ready = {"t"}
    Ops = {"status"}
    Targets = {"work.active", "work.complete"}
    Forces = {TRUE}
    Careful = TRUE
    Linkable <- NoEdges
    Seeded = {"g", "t", "n"}
    SeedParents <- ChainEdges
    SeedDeps <- NoEdges
    Keepers = {"k"}
    Worked = {"t"}
    Jobs = {"bulk", "cascade", "field", "upsert", "import", "check"}
    Bulks = {{"g", "t"}}
    Upserts <- NoteUpserts
    Records <- NoteRecords
 
PROPERTIES JobsReturn
