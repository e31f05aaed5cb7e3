CONSTANTS
    alice = alice
    bob = bob
    carol = carol
    dave = dave
    Chars <- ThreeChars
    Zones = {"field", "house", "dynamis"}
    TreasureZones = {"dynamis"}
    Houses = {"house"}
    PartySize = 2
    AllianceSize = 3
    NParties = 3
    NAlliances = 2
    MaxInvites = 5
    MaxVisits = 1
SPECIFICATION PartiesSpec
CHECK_DEADLOCK FALSE
SYMMETRY Symmetry3
INVARIANTS
    TypeOK
    PartiesAgree
    SessionsAgree
    PoolsAgree
    PartySharesPool
