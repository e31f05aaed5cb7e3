CONSTANTS
    haste = haste
    slow = slow
    sleep = sleep
    lullaby = lullaby
    burn = burn
    frost = frost
    minuet = minuet
    poison = poison
    healing = healing
    leavegame = leavegame
    Ids = {haste, slow, sleep, lullaby, burn, frost, minuet, poison, healing, leavegame}
    None = None
    Row <- MCRow
    Hook <- MCHook
    Songs = {minuet}
    Sleep = sleep
    Lullaby = lullaby
    Haste = haste
    Slow = slow
    Poison = poison
    Healing = healing
    Immune = {slow}
    Casts <- MCCasts
    MaxSongs = 2
    MaxIcons = 2
    Second = 2
    TickWidth = 101
    MaxEvents = 3
    MaxClock = 2
SPECIFICATION MCSpec
CHECK_DEADLOCK FALSE
INVARIANTS
    TypeOK
    Exclusive
    ModsInSync
    IconsCurrent
    SongsBounded
PROPERTIES
    SweepsMissNothing
    ComesBack
