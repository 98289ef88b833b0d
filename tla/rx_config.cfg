\* Configuration calls and link status reports while packets are delivered.
CONSTANTS
    NumPointers = 2
    Null = Null
    Clients = {c1, c2}
    FifoSize = 3
    Etypes = {avb, ip}
    MaxEtypeFilters = 1
    Tags = {x}
    LinkStates = {"DOWN", "UP"}
    HasHpChannel = TRUE
    MaxBacklog = 1
SPECIFICATION Spec
PROPERTIES OnlyStatusHidesPackets ImplementsRxDelivery
SYMMETRY ClientSymmetry
