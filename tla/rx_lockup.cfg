\* The filter may fill the queue before the server takes a packet.
CONSTANTS
    NumPointers = 2
    Null = Null
    Clients = {c1, c2}
    FifoSize = 2
    Etypes = {avb}
    MaxEtypeFilters = 0
    Tags = {x}
    LinkStates = {"DOWN"}
    HasHpChannel = FALSE
    MaxBacklog = 2
SPECIFICATION FairSpec
PROPERTY EveryPacketProcessed
