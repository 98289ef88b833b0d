\* One client: short packets fill the queue, long ones the pool.
CONSTANTS
    NumPointers = 3
    Null = Null
    Clients = {c1}
    PoolEnd = 8
    HeaderWords = 1
    MinUsage = 2
    DummyPtr = DummyPtr
    FrameWords = {1, 2}
    DataWords = 2
    Tags = {x}
    PrioritizeRx = 1
    MaxPrioritize = 1
    TornRead = FALSE
SPECIFICATION FairSpec
INVARIANTS TypeOK NullMeansEmpty ReservationsClear SlotForReservation TimeIsForWaiting
PROPERTIES ImplementsTxDelivery SendReturns
