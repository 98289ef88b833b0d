CONSTANTS
    Keys = {1, 2, 3}
    NoKey = 0
    NumSlots = 3
    Generations = 3
    Hash <- MCHash
    Clients = {c1}
    Hp = Hp
    ExtraTries = 2
    HpKeys = {1}
    ClearShared = FALSE
    MaxFilters = 2
    MaxEntries = 3
SPECIFICATION FairSpec
INVARIANTS TypeOK NoLookupInBackup InSync EntriesFindable CallTakesEffect
PROPERTIES ImplementsFilterTable CallsReturn
