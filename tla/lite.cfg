CONSTANTS
    NumberWords = 1600
    MaxPacket = 1530
    Lengths = {1518}
    RingSize = 3
    MaxTokens = 2
    Clients = {c1, c2}
    Reported = {c1}
SPECIFICATION FairSpec
INVARIANTS TypeOK BuffersClear WaitingNotified
PROPERTIES ImplementsMiiLayer OnlyStatusHides ReceiverRecovers PacketsTaken
