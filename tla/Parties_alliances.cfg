CONSTANTS
    alice = alice
    bob = bob
    carol = carol
    dave = dave
    Chars <- ThreeChars
    Zones = {"field", "house"}
    TreasureZones = {}
    Houses = {"house"}
    PartySize = 2
    AllianceSize = 3
    NParties = 3
    NAlliances = 2
    MaxInvites = 4
    MaxVisits = 0
SPECIFICATION Spec
CHECK_DEADLOCK FALSE
INVARIANTS
    OneAllianceEach
