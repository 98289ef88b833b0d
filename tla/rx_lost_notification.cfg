\* The link state may change.
CONSTANTS
    NumPointers = 3
    Null = Null
    Clients = {c1, c2}
    FifoSize = 2
    Etypes = {avb}
    MaxEtypeFilters = 0
    Tags = {x}
    LinkStates = {"DOWN", "UP"}
    HasHpChannel = FALSE
    MaxBacklog = 2
SPECIFICATION FairSpec
PROPERTY WaitingPacketsAnnounced
