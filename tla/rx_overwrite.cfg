\* Packets of any length.
CONSTANTS
    PoolEnd = 16
    HeaderWords = 1
    MinUsage = 2
    NullPtr = NullPtr
    DummyPtr = DummyPtr
    FrameWords = {1, 2}
    MaxHeld = 5
    MaxIncoming = 1
    MaxLag = 1
SPECIFICATION Spec
INVARIANT LivePacketsIntact
