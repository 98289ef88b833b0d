\* Two clients, with fifos of two packets each; the filter stays a packet short
\* of filling the queue ahead of the server (rx_lockup shows why).
CONSTANTS
    NumPointers = 3
    Null = Null
    Clients = {c1, c2}
    FifoSize = 3
    Etypes = {avb}
    MaxEtypeFilters = 0
    Tags = {x}
    LinkStates = {"DOWN"}
    HasHpChannel = TRUE
    MaxBacklog = 2
SPECIFICATION FairSpec
INVARIANTS TypeOK HeldSlotsCounted RoutedOnce NoSlotLost RdOnOldest
PROPERTIES ImplementsRxDelivery EveryPacketProcessed WaitingPacketsAnnounced
