CONSTANTS
    alice = alice
    bob = bob
    carol = carol
    sword = sword
    Chars <- TwoChars
    Items <- OneItem
    NSlots = 1
    MaxLot = 1
    PartySize = 2
    CheckTime = 1
    LiveTime = 1
    Lead = 1
    TickWidth = 100
    BootTick = 2
    MaxLag = 1
    PoolTypes = {"PARTY"}
    StaleLots = TRUE
    MaxFree = 1
    MaxDrops = 2
    LastDrop = 3
    MaxTick = 5
    MaxLotters = 2
SPECIFICATION FairSpec
INVARIANTS
    CountIsOccupied
    DropsConserved
PROPERTIES
    EveryDropSettles
