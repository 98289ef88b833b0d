\* Two clients that send at the same time.
CONSTANTS
    NumPointers = 3
    Null = Null
    Clients = {c1, c2}
    PoolEnd = 8
    HeaderWords = 1
    MinUsage = 2
    DummyPtr = DummyPtr
    FrameWords = {1, 2}
    DataWords = 2
    Tags = {x}
    PrioritizeRx = 3
    MaxPrioritize = 3
    TornRead = FALSE
SPECIFICATION Spec
PROPERTY ImplementsTxDelivery
