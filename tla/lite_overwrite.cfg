CONSTANTS
    NumberWords = 1600
    MaxPacket = 1530
    Lengths = {700, 1518}
    RingSize = 4
    MaxTokens = 2
    Clients = {c1}
    Reported = {c1}
SPECIFICATION Spec
INVARIANT PacketOwned
