CONSTANTS
    Ids = {1, 2, 3}
    Drafts <- MCDrafts
    Relations = {"parent_of", "follows"}
    Sources = {"manual", "sync"}
    Filters <- MCFilters
    ScopeLabels <- MCScopeLabels
    Profiles <- MCProfiles
    Seeds = {2}
    PageLimit = 1
    PruneTo = {0, 1}
    Keep = 50
    VecTable <- MCVecTable
    Avoided <- MCAvoided
SPECIFICATION Spec
INVARIANTS  SamePages SameEvents PagesComplete PollComplete ImportRestores
CHECK_DEADLOCK FALSE
