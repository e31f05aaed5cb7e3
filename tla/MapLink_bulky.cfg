CONSTANTS
    IdWidth = 3
    MaxAge = 2
    BatchSize = 2
    Bulky <- SecondPacket
    MaxPush = 3
SPECIFICATION FairSpec
PROPERTIES
    EveryPacketArrives
