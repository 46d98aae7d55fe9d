SPECIFICATION Spec
CONSTANTS
    Ids = {"x", "y"}
    Words = {"v", "w"}
    NoWord = "-"
    Clients = {"c1"}
    Writes = {"put", "bulk", "append", "replace", "delete", "rename"}
    MaxRowid = 3
INVARIANTS TypeOK FindsContent
PROPERTY ExactKept
