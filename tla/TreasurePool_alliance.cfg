CONSTANTS
    alice = alice
    bob = bob
    carol = carol
    sword = sword
    Chars <- ThreeChars
    Items <- OneItem
    NSlots = 1
    MaxLot = 2
    PartySize = 2
    CheckTime = 1
    LiveTime = 2
    Lead = 1
    TickWidth = 100
    BootTick = 3
    MaxLag = 1
    PoolTypes = {"PARTY", "ZONE"}
    StaleLots = FALSE
    MaxFree = 1
    MaxDrops = 2
    LastDrop = 6
    MaxTick = 6
    MaxLotters = 3
SPECIFICATION Spec
SYMMETRY Symmetry3
INVARIANTS
    LottersAreDecisions
    VerdictsAreFair
