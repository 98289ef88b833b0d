CONSTANTS
    Buffers = {b1, b2, b3, b4, b5}
    NoBuffer = NoBuffer
    Clients = {c1, c2}
    FifoSize = 2
    Frames <- MCFrames
    Threshold = 1
    HasHp = TRUE
    RestartHeld = FALSE
SPECIFICATION FairSpec
INVARIANTS TypeOK BuffersAccounted
PROPERTIES ImplementsRxDelivery BuffersReturn HpSent
