CONSTANTS
    alice = alice
    bob = bob
    carol = carol
    sword = sword
    Chars <- TwoChars
    Items <- OneItem
    NSlots = 2
    MaxLot = 2
    PartySize = 2
    CheckTime = 1
    LiveTime = 2
    Lead = 1
    TickWidth = 100
    BootTick = 3
    MaxLag = 1
    PoolTypes = {"SOLO"}
    StaleLots = FALSE
    MaxFree = 1
    MaxDrops = 3
    LastDrop = 5
    MaxTick = 5
    MaxLotters = 3
SPECIFICATION Spec
SYMMETRY Symmetry2
INVARIANTS
    TypeOK
    CountIsOccupied
    DropsConserved
    LottersAreDecisions
    VerdictsAreFair
    NoEarlyVerdict
