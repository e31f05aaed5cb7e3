CONSTANTS
    IdWidth = 4
    MaxAge = 3
    BatchSize = 2
    Bulky <- NoPacket
    MaxPush = 4
SPECIFICATION FairSpec
INVARIANTS
    TypeOK
    OneOpenDatagram
    NothingLostOrRepeated
PROPERTIES
    ImplementsFifo
    EveryPacketArrives
