----------------------------- MODULE MCParties -----------------------------
(* Small instances of Parties for TLC.                                     *)
EXTENDS Parties, TLC

CONSTANTS alice, bob, carol, dave

ThreeChars == {alice, bob, carol}
FourChars == {alice, bob, carol, dave}
NoZone == {}

Symmetry3 == Permutations(ThreeChars)
Symmetry4 == Permutations(FourChars)

\* Three parties of one in the zone z without a pool of its own, in the alliance
\* a or, if that is Null, in none: what is left when the others, who are not
\* modelled here, have gone.
ThreeParties(z, a, i, v) ==
    \E who \in {f \in [1 .. 3 -> ThreeChars] : ToSet(f) = ThreeChars} :
        LET nth(c) == CHOOSE n \in 1 .. 3 : who[n] = c
            pools == IF a = Null THEN [p \in 1 .. 3 |-> <<who[p]>>] ELSE <<who>>
        IN  /\ zone = [c \in Chars |-> z]
            /\ arrived = [c \in Chars |-> TRUE]
            /\ InvitePending = [c \in Chars |-> Nobody]
            /\ heap = [party |-> [p \in PartyPtrs |->
                                    [members |-> <<who[p]>>, leader |-> who[p], alliance |-> a]],
                       alliance |-> [b \in AlliancePtrs |->
                                       IF b = a THEN [list |-> <<1, 2, 3>>, main |-> 1]
                                       ELSE NoAlliance],
                       pool |-> [p \in PoolPtrs |->
                                   IF p \in DOMAIN pools
                                   THEN [members |-> pools[p], ofZone |-> FALSE]
                                   ELSE NoPool],
                       PParty |-> [c \in Chars |-> nth(c)],
                       PTreasurePool |-> [c \in Chars |-> IF a = Null THEN nth(c) ELSE 1],
                       partyid |-> [c \in Chars |-> c],
                       broken |-> FALSE]
            /\ invites = i /\ visits = v

\* From scratch in the zones without pools of their own, with all invitations but
\* one; from three parties, where the last two invitations can make two alliances;
\* from a full alliance with one more invitation; and from a full alliance with the
\* arrivals in treasure zones.
PartiesSpec ==
    /\ \/ \E where \in [Chars -> Zones \ TreasureZones] : Fresh(where, 1, MaxVisits)
       \/ ThreeParties("field", Null, MaxInvites - 2, MaxVisits)
       \/ ThreeParties("field", 1, MaxInvites - 1, MaxVisits)
       \/ ThreeParties("field", 1, MaxInvites, 0)
    /\ [][Next]_vars
=============================================================================
