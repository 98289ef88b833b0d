\* Packets of an even number of words: none ends in the last MIN_USAGE words.
CONSTANTS
    PoolEnd = 20
    HeaderWords = 1
    MinUsage = 2
    NullPtr = NullPtr
    DummyPtr = DummyPtr
    FrameWords = {1, 3}
    MaxHeld = 2
    MaxIncoming = 1
    MaxLag = 2
SPECIFICATION FairSpec
INVARIANTS TypeOK LivePacketsIntact PacketsDisjoint
PROPERTY RoomReturns
