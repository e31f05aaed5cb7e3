CONSTANTS
    a = a
    b = b
    c = c
    gil = gil
    ring = ring
    ore = ore
    Players = {a, b, c}
    NoOne = NoOne
    Goods = {ring, ore}
    Gil = gil
    Rare = {ring}
    Stack <- MCStack
    Size = 2
    TradeSlots = 2
    Stock <- MCStock
    Finds = {ring}
    MaxEvents = 3
SPECIFICATION Spec
INVARIANTS TypeOK OnlyLeaversStrand RareOnce OffersAreOwned
PROPERTY TradesAreBarter
CHECK_DEADLOCK FALSE
