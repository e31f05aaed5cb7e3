CONSTANTS
    alice = alice
    bob = bob
    carol = carol
    sword = sword
    Chars <- TwoChars
    Items <- OneItem
    NSlots = 1
    MaxLot = 1
    PartySize = 2
    CheckTime = 1
    LiveTime = 2
    Lead = 1
    TickWidth = 100
    BootTick = 3
    MaxLag = 1
    PoolTypes = {"ZONE"}
    StaleLots = FALSE
    MaxFree = 1
    MaxDrops = 1
    LastDrop = 6
    MaxTick = 6
    MaxLotters = 2
SPECIFICATION Spec
INVARIANTS
    WinnersAreMembers
