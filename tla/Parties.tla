-------------------------------- MODULE Parties --------------------------------
(***************************************************************************)
(* Parties and alliances of player characters and the treasure pools their *)
(* members share (src/src/map/party.cpp, alliance.cpp, the handlers of the *)
(* packets 0x06E-0x077, and what zone.cpp and map.cpp do to them when a    *)
(* character changes zones or logs out).                                   *)
(*                                                                         *)
(* CParty, CAlliance and CTreasurePool objects refer to each other and to  *)
(* the characters by raw pointers.  Here they live in one record, heap,    *)
(* under small numbers, and every method is an operator that takes the     *)
(* heap, and returns it changed.  What a pool does with its items is in    *)
(* module TreasurePool.                                                    *)
(***************************************************************************)
EXTENDS Integers, FiniteSets, SequencesExt, Lists

CONSTANTS
    Chars,          \* the player characters
    Zones,          \* the zones of one region
    TreasureZones,  \* those with a pool for the whole zone (MISC_TREASURE)
    Houses,         \* those 0x00A enters without IncreaseZoneCounter: mog houses
    PartySize,      \* members of a full party (6)
    AllianceSize,   \* parties of a full alliance (3)
    NParties,       \* bound: CParty objects at a time
    NAlliances,     \* bound: CAlliance objects at a time
    MaxInvites,     \* bound: invitations in a run
    MaxVisits       \* bound: arrivals in treasure zones in a run

Null == 0           \* the NULL pointer
Nobody == "nobody"  \* no character; partyid 0 in accounts_sessions

PartyPtrs == 1 .. NParties
AlliancePtrs == 1 .. NAlliances
PoolPtrs == 1 .. Cardinality(Chars) + MaxVisits

ASSUME PartiesAssumption ==
    /\ IsFiniteSet(Chars) /\ Nobody \notin Chars /\ TreasureZones \subseteq Zones
    /\ Houses \subseteq Zones \ TreasureZones
    /\ PartySize \in Nat \ {0, 1} /\ AllianceSize \in Nat \ {0, 1}
    /\ NParties \in Nat /\ NAlliances \in Nat /\ MaxInvites \in Nat /\ MaxVisits \in Nat

VARIABLES
    zone,           \* loc.zone, or loc.destination while that is NULL
    arrived,        \* loc.zone is not NULL
    InvitePending,  \* who has invited the character
    heap,           \* see HeapType
    invites,        \* invitations so far
    visits          \* arrivals in treasure zones so far

vars == <<zone, arrived, InvitePending, heap, invites, visits>>

\* A freed party or pool has no members, a freed alliance no parties.
HeapType ==
    [party : [PartyPtrs -> [members : Seq(Chars), leader : Chars \cup {Nobody},
                            alliance : AlliancePtrs \cup {Null}]],
     alliance : [AlliancePtrs -> [list : Seq(PartyPtrs), main : PartyPtrs \cup {Null}]],
     pool : [PoolPtrs -> [members : Seq(Chars), ofZone : BOOLEAN]],
     PParty : [Chars -> PartyPtrs \cup {Null}],
     PTreasurePool : [Chars -> PoolPtrs \cup {Null}],
     partyid : [Chars -> Chars \cup {Nobody}],   \* column of accounts_sessions
     broken : BOOLEAN]   \* freed memory was used, or an assertion failed

TypeOK ==
    /\ zone \in [Chars -> Zones]
    /\ arrived \in [Chars -> BOOLEAN]
    /\ InvitePending \in [Chars -> Chars \cup {Nobody}]
    /\ heap \in HeapType
    /\ invites \in 0 .. MaxInvites /\ visits \in 0 .. MaxVisits

NoParty == [members |-> <<>>, leader |-> Nobody, alliance |-> Null]
NoAlliance == [list |-> <<>>, main |-> Null]
NoPool == [members |-> <<>>, ofZone |-> FALSE]

PartyOf(h, c) == h.party[h.PParty[c]]
Leads(h, c) == h.PParty[c] # Null /\ PartyOf(h, c).leader = c
Allied(h, c) == h.PParty[c] # Null /\ PartyOf(h, c).alliance # Null
AllianceOf(h, c) == h.alliance[PartyOf(h, c).alliance]

\* What lies in a freed party is nobody's; no new one is put where an alliance
\* still points.
FreePartyPtrs(h) ==
    {p \in PartyPtrs : /\ h.party[p] = NoParty
                       /\ \A a \in AlliancePtrs : p \notin ToSet(h.alliance[a].list)}
FreeAlliancePtrs(h) == {a \in AlliancePtrs : h.alliance[a] = NoAlliance}
FreePoolPtrs(h) == {p \in PoolPtrs : h.pool[p].members = <<>>}

\* ReloadParty goes through every party of the alliance.
ReloadParty(h, p) ==
    LET a == h.party[p].alliance
    IN  IF a # Null /\ \E q \in ToSet(h.alliance[a].list) : h.party[q] = NoParty
        THEN [h EXCEPT !.broken = TRUE]
        ELSE h

-----------------------------------------------------------------------------
(* Treasure pools: who is in which.                                        *)

\* CTreasurePool::DelMember; an empty pool is deleted, and an empty zone pool
\* is out of the reach of every character.
LeavePool(h, c) ==
    LET p == h.PTreasurePool[c]
        rest == RemoveFirst(h.pool[p].members, c)
    IN  IF p # Null /\ c \in ToSet(h.pool[p].members)
        THEN [h EXCEPT !.PTreasurePool[c] = Null,
                       !.pool[p] = IF rest = <<>> THEN NoPool ELSE [@ EXCEPT !.members = rest]]
        ELSE h

JoinPool(h, c, p) ==
    [h EXCEPT !.PTreasurePool[c] = p, !.pool[p].members = Append(@, c)]

NewPool(h, c, ofZone) ==
    LET p == Min(FreePoolPtrs(h))
    IN  JoinPool([h EXCEPT !.pool[p] = [members |-> <<>>, ofZone |-> ofZone]], c, p)

InZonePool(h, c) == h.PTreasurePool[c] # Null /\ h.pool[h.PTreasurePool[c]].ofZone

\* mutant: the old pool is not left
SoloPoolOverwritten(h, c) ==
    IF h.PTreasurePool[c] = Null \/ InZonePool(h, c) THEN h ELSE NewPool(h, c, FALSE)

\* What DisbandParty and RemoveMember do to the pool of a member.
SoloPool(h, c) ==
    IF h.PTreasurePool[c] = Null \/ InZonePool(h, c) THEN h
    ELSE NewPool(LeavePool(h, c), c, FALSE)

\* The parties whose members ReloadTreasurePool goes through.
Fellows(h, c) == IF Allied(h, c) THEN AllianceOf(h, c).list ELSE <<h.PParty[c]>>

\* Where in the list of p those with a pool in the zone of c are.
Near(h, c, p) ==
    {i \in DOMAIN h.party[p].members :
        LET x == h.party[p].members[i]
        IN  x # c /\ h.PTreasurePool[x] # Null /\ zone[x] = zone[c]}

\* mutant: a character keeps the pool it has
PoolKept(h, c) == IF h.PTreasurePool[c] = Null THEN NewPool(h, c, FALSE) ELSE h

\* Joins the pool of the first other member in the same zone.
ReloadTreasurePool(h, c) ==
    LET all == Fellows(h, c)
        stop == {i \in DOMAIN all : h.party[all[i]] = NoParty \/ Near(h, c, all[i]) # {}}
        party == all[Min(stop)]
        first == h.party[party].members[Min(Near(h, c, party))]
    IN  IF InZonePool(h, c) THEN h
        ELSE IF stop # {} /\ h.party[party] = NoParty THEN [h EXCEPT !.broken = TRUE]
        ELSE IF stop # {}
             THEN JoinPool(LeavePool(h, c), c, h.PTreasurePool[first])
        ELSE IF h.PTreasurePool[c] = Null THEN NewPool(h, c, FALSE)
        ELSE h

-----------------------------------------------------------------------------
(* CParty.                                                                 *)

AddMember(h, p, c) ==
    LET h1 == [h EXCEPT !.PParty[c] = p, !.party[p].members = Append(@, c)]
        h2 == ReloadTreasurePool(ReloadParty(h1, p), c)
    IN  [h2 EXCEPT !.partyid[c] = h.party[p].leader]

\* mutant: the rows are not updated
LeaderInMemoryOnly(h, p, c) == [h EXCEPT !.party[p].leader = c]

\* The rows of the party, those whose partyid is its id (its leader's).
SetLeader(h, p, c) ==
    [h EXCEPT !.party[p].leader = c,
              !.partyid = [x \in Chars |-> IF @[x] = h.party[p].leader THEN c ELSE @[x]]]

\* The constructor: m_PartyID is the founder's id before SetLeader runs.
NewParty(h, c) ==
    LET p == Min(FreePartyPtrs(h))
    IN  AddMember([h EXCEPT !.party[p] = [NoParty EXCEPT !.leader = c]], p, c)

\* m_PAlliance is forgotten, the alliance is not told.
DisbandParty(h, p) ==
    LET all == h.party[p].members
        h1 == [h EXCEPT !.PParty = [x \in Chars |-> IF x \in ToSet(all) THEN Null ELSE @[x]],
                        !.partyid = [x \in Chars |-> IF @[x] = h.party[p].leader THEN Nobody
                                                     ELSE @[x]]]
    IN  [InTurn(SoloPool, h1, all) EXCEPT !.party[p] = NoParty]

Dismissed(h, p, c) ==
    LET h1 == [h EXCEPT !.party[p].members = RemoveFirst(@, c), !.PParty[c] = Null]
        h2 == SoloPool(ReloadParty(h1, p), c)
    IN  [h2 EXCEPT !.partyid[c] = Nobody]

\* RemoveMember and RemovePartyLeader: the first other member leads.
RemoveMember(h, c) ==
    LET p == h.PParty[c]
        all == h.party[p].members
        heir == all[Min({i \in DOMAIN all : all[i] # c})]
    IN  IF h.party[p].leader # c THEN Dismissed(h, p, c)
        ELSE IF Len(all) = 1 THEN DisbandParty(h, p)
        ELSE Dismissed(SetLeader(h, p, heir), p, c)

-----------------------------------------------------------------------------
(* CAlliance.                                                              *)

\* Every party of the list is reloaded.
Dangling(h, list) ==
    \E q \in ToSet(list) : h.party[q] = NoParty \/ ReloadParty(h, q).broken

AddParty(h, a, p) ==
    LET h1 == [h EXCEPT !.party[p].alliance = a, !.alliance[a].list = Append(@, p)]
        h2 == [h1 EXCEPT !.broken = @ \/ Dangling(h1, h1.alliance[a].list)]
    IN  InTurn(ReloadTreasurePool, h2, h.party[p].members)

\* mutant: takes the leader of the lead party for the lead party
LedByLeader(h, p) ==
    LET a == Min(FreeAlliancePtrs(h))
        h1 == AddParty(h, a, p)
    IN  [h1 EXCEPT !.alliance[a].main = h.party[p].leader]

\* The constructor, given the party of PEntity.
NewAlliance(h, p) ==
    LET a == Min(FreeAlliancePtrs(h))
        h1 == AddParty(h, a, p)
    IN  [h1 EXCEPT !.alliance[a].main = p]

QuitPool(h, c) == IF InZonePool(h, c) THEN h ELSE LeavePool(h, c)

JoinLeader(h, leader, list) ==
    LET Follow(g, c) == IF c = leader THEN g ELSE JoinPool(g, c, g.PTreasurePool[leader])
    IN  InTurn(Follow, h, list)

\* removeParty: the leader gets a pool, the others are put into it.
FollowLeader(h, p) ==
    LET leader == h.party[p].leader
        all == h.party[p].members
    IN  JoinLeader(NewPool(InTurn(QuitPool, h, all), leader, FALSE), leader, all)

\* removeParty erases the party while it goes through the list: of a party that
\* is listed twice in a row one entry stays.
Struck(list, p) == Restricted(list, DOMAIN list \ Skipping({i \in DOMAIN list : list[i] = p}))

\* a is the object removeParty is called on; it erases from the list of the
\* party's own m_PAlliance with an iterator of a's.
RemoveParty(h, a, p) ==
    LET rest == Struck(h.alliance[a].list, p)
        h1 == [h EXCEPT !.alliance[a] =
                   [list |-> rest,
                    main |-> IF @.main = p /\ rest # <<>> THEN Head(rest) ELSE @.main],
                 !.party[p].alliance = Null]
        wrong == \/ h.party[p].alliance # a
                 \/ h.alliance[a].main = p /\ rest = <<>>
                 \/ Dangling(h1, rest)
    IN  IF wrong THEN [h EXCEPT !.broken = TRUE] ELSE FollowLeader(h1, p)

\* Third party, second party, then the first, which keeps its pool.
DissolveAlliance(h, a) ==
    LET list == h.alliance[a].list
        n == Len(list)
        wrong == n = 1 \/ \E q \in ToSet(list) : h.party[q] = NoParty
        h1 == IF n = 3 THEN RemoveParty(h, a, list[3]) ELSE h
        h2 == RemoveParty(h1, a, list[2])
    IN  IF wrong THEN [h EXCEPT !.broken = TRUE]
        ELSE IF h2.broken THEN h2
        ELSE [h2 EXCEPT !.party[list[1]].alliance = Null, !.alliance[a] = NoAlliance]

-----------------------------------------------------------------------------
(* The packets of a character in the world.                                *)

\* Nobody is in a party and everybody is about to enter a zone; i invitations
\* and v arrivals of the bounds are used up already.
Fresh(where, i, v) ==
    /\ zone = where
    /\ arrived = [c \in Chars |-> FALSE]
    /\ InvitePending = [c \in Chars |-> Nobody]
    /\ heap = [party |-> [p \in PartyPtrs |-> NoParty],
               alliance |-> [a \in AlliancePtrs |-> NoAlliance],
               pool |-> [p \in PoolPtrs |-> NoPool],
               PParty |-> [c \in Chars |-> Null],
               PTreasurePool |-> [c \in Chars |-> Null],
               partyid |-> [c \in Chars |-> Nobody],
               broken |-> FALSE]
    /\ invites = i /\ visits = v

Init == \E where \in [Chars -> Zones] : Fresh(where, 0, 0)

\* Nothing is said of what happens after undefined behaviour.
InWorld(c) == arrived[c] /\ ~heap.broken
Away(c) == ~arrived[c] /\ ~heap.broken

\* 0x06E: a free character, or the leader of a party that is in no alliance,
\* may be invited.
Invite(a, b) ==
    /\ a # b /\ InWorld(a) /\ arrived[b]
    /\ heap.PParty[a] = Null \/ Leads(heap, a)
    /\ InvitePending[b] = Nobody
    /\ heap.PParty[b] = Null \/ (Leads(heap, b) /\ ~Allied(heap, b))
    /\ invites < MaxInvites
    /\ invites' = invites + 1
    /\ InvitePending' = [InvitePending EXCEPT ![b] = a]
    /\ UNCHANGED <<zone, arrived, heap, visits>>

\* 0x074 with "no", or with an inviter who is gone.
Decline(c) ==
    /\ InWorld(c) /\ InvitePending[c] # Nobody
    /\ InvitePending' = [InvitePending EXCEPT ![c] = Nobody]
    /\ UNCHANGED <<zone, arrived, heap, invites, visits>>

\* 0x074 with "yes" between two leaders.
Ally(c, inviter) ==
    LET a == PartyOf(heap, inviter).alliance
        main == heap.alliance[a].main
        full == Len(heap.alliance[a].list) = AllianceSize
    IN  IF a # Null /\ heap.party[main] = NoParty
        THEN heap' = [heap EXCEPT !.broken = TRUE] /\ UNCHANGED InvitePending
        ELSE IF a # Null /\ heap.party[main].leader = inviter /\ full
        THEN UNCHANGED <<heap, InvitePending>>
        ELSE /\ InvitePending' = [InvitePending EXCEPT ![c] = Nobody]
             /\ IF a # Null /\ heap.party[main].leader = inviter
                THEN heap' = AddParty(heap, a, heap.PParty[c])
                ELSE /\ FreeAlliancePtrs(heap) # {}
                     /\ heap' = LET h == NewAlliance(heap, heap.PParty[inviter])
                                IN  AddParty(h, PartyOf(h, inviter).alliance, h.PParty[c])

\* mutant: does not ask whether the party is full by now
JoinFullParty(c, inviter) ==
    LET h == IF heap.PParty[inviter] = Null THEN NewParty(heap, inviter) ELSE heap
    IN  /\ heap.PParty[inviter] = Null => FreePartyPtrs(heap) # {}
        /\ heap' = AddMember(h, h.PParty[inviter], c)
        /\ InvitePending' = [InvitePending EXCEPT ![c] = Nobody]

\* 0x074 with "yes" of a character without a party.
JoinParty(c, inviter) ==
    LET h == IF heap.PParty[inviter] = Null THEN NewParty(heap, inviter) ELSE heap
        p == h.PParty[inviter]
    IN  /\ heap.PParty[inviter] = Null => FreePartyPtrs(heap) # {}
        /\ heap' = IF h.party[p].leader = inviter /\ Len(h.party[p].members) < PartySize
                   THEN AddMember(h, p, c)
                   ELSE h
        /\ InvitePending' = [InvitePending EXCEPT ![c] = Nobody]

Accept(c) ==
    LET inviter == InvitePending[c]
    IN  /\ InWorld(c) /\ inviter # Nobody /\ arrived[inviter]
        /\ IF Leads(heap, c) /\ Leads(heap, inviter) THEN Ally(c, inviter)
           ELSE IF heap.PParty[c] = Null THEN JoinParty(c, inviter)
           ELSE /\ InvitePending' = [InvitePending EXCEPT ![c] = Nobody]
                /\ UNCHANGED heap
        /\ UNCHANGED <<zone, arrived, invites, visits>>

\* 0x06F
Leave(c) ==
    LET h == heap
        a == PartyOf(h, c).alliance
    IN  /\ InWorld(c) /\ h.PParty[c] # Null
        /\ heap' = IF Allied(h, c) /\ AllianceOf(h, c).main # h.PParty[c] /\ Leads(h, c)
                   THEN IF Len(AllianceOf(h, c).list) = 2 THEN DissolveAlliance(h, a)
                        ELSE RemoveParty(h, a, h.PParty[c])
                   ELSE RemoveMember(h, c)
        /\ UNCHANGED <<zone, arrived, InvitePending, invites, visits>>

\* 0x070
Disband(c) ==
    LET h == heap
        a == PartyOf(h, c).alliance
    IN  /\ InWorld(c) /\ Leads(h, c)
        /\ heap' = IF Allied(h, c) /\ AllianceOf(h, c).main = h.PParty[c]
                   THEN DissolveAlliance(h, a)
                   ELSE DisbandParty(h, h.PParty[c])
        /\ UNCHANGED <<zone, arrived, InvitePending, invites, visits>>

\* 0x071; nothing keeps a leader from naming itself.
Kick(c, b) ==
    /\ InWorld(c) /\ Leads(heap, c) /\ heap.PParty[b] = heap.PParty[c]
    /\ heap' = RemoveMember(heap, b)
    /\ UNCHANGED <<zone, arrived, InvitePending, invites, visits>>

\* 0x077 with role 0.
Promote(c, b) ==
    /\ InWorld(c) /\ Leads(heap, c) /\ b # c /\ heap.PParty[b] = heap.PParty[c]
    /\ heap' = ReloadParty(SetLeader(heap, heap.PParty[c], b), heap.PParty[c])
    /\ UNCHANGED <<zone, arrived, InvitePending, invites, visits>>

-----------------------------------------------------------------------------
(* Zone changes and logging out.                                           *)

\* 0x00D and DecreaseZoneCounter, on the way to zone z.
ZoneOut(c, z) ==
    /\ InWorld(c)
    /\ z \in TreasureZones => visits < MaxVisits
    /\ zone' = [zone EXCEPT ![c] = z]
    /\ arrived' = [arrived EXCEPT ![c] = FALSE]
    /\ InvitePending' = [InvitePending EXCEPT ![c] = Nobody]
    /\ heap' = LeavePool(heap, c)
    /\ UNCHANGED <<invites, visits>>

\* It asserts that PTreasurePool is NULL.  A treasure zone has just been given a new
\* pool by LoadPlayerZoneSettings, for this character.
IncreaseZoneCounter(h, c) ==
    IF h.PTreasurePool[c] # Null THEN [h EXCEPT !.broken = TRUE]
    ELSE IF zone[c] \in TreasureZones THEN NewPool(h, c, TRUE)
    ELSE IF h.PParty[c] # Null THEN ReloadTreasurePool(h, c)
    ELSE NewPool(h, c, FALSE)

\* 0x00A.  Into a mog house only loc.zone is set: nobody is given a pool there.
ZoneIn(c) ==
    /\ Away(c)
    /\ visits' = IF zone[c] \in TreasureZones THEN visits + 1 ELSE visits
    /\ visits' <= MaxVisits
    /\ arrived' = [arrived EXCEPT ![c] = TRUE]
    /\ heap' = IF zone[c] \in Houses THEN heap ELSE IncreaseZoneCounter(heap, c)
    /\ UNCHANGED <<zone, InvitePending, invites>>

\* Check_Map_For_Player_Cleanup for a character that has left its zone with
\* /logout, then Close_Session_Clean_Map and the destructor.
Logout(c) ==
    LET h == heap
        p == h.PParty[c]
        a == PartyOf(h, c).alliance
        h1 == IF Allied(h, c) /\ Leads(h, c) /\ Len(PartyOf(h, c).members) = 1
              THEN CASE Len(AllianceOf(h, c).list) = 2 -> DissolveAlliance(h, a)
                     [] Len(AllianceOf(h, c).list) = 3 -> RemoveParty(h, a, p)
                     [] OTHER -> h
              ELSE h
        h2 == IF h1.broken THEN h1 ELSE RemoveMember(h1, c)
    IN  /\ Away(c) /\ p # Null
        /\ heap' = LeavePool(h2, c)
        /\ UNCHANGED <<zone, arrived, InvitePending, invites, visits>>

Next ==
    \/ \E c \in Chars, b \in Chars : Invite(c, b) \/ Kick(c, b) \/ Promote(c, b)
    \/ \E c \in Chars : Accept(c) \/ Decline(c) \/ Leave(c) \/ Disband(c)
    \/ \E c \in Chars, z \in Zones : ZoneOut(c, z)
    \/ \E c \in Chars : ZoneIn(c) \/ Logout(c)

Spec == Init /\ [][Next]_vars

-----------------------------------------------------------------------------
(* Properties.                                                             *)

Once(s, x) == Cardinality({i \in DOMAIN s : s[i] = x}) = 1

\* A character that has a party is in its list once, its leader is a member
\* and it is never overfull, however many invitations are open when somebody
\* accepts; nobody else is in the list.
PartiesAgree ==
    /\ \A c \in Chars, p \in PartyPtrs :
          IF heap.PParty[c] = p THEN Once(heap.party[p].members, c)
          ELSE c \notin ToSet(heap.party[p].members)
    /\ \A p \in PartyPtrs : heap.party[p] # NoParty =>
          /\ heap.party[p].leader \in ToSet(heap.party[p].members)
          /\ Len(heap.party[p].members) <= PartySize

\* The column partyid of accounts_sessions, which the search server reads, is
\* the leader's id for every member of a party and 0 for everybody else, through
\* all changes of the leader.
SessionsAgree ==
    \A c \in Chars :
        heap.partyid[c] = IF heap.PParty[c] = Null THEN Nobody ELSE PartyOf(heap, c).leader

\* A character in the world but for the mog houses has a pool; a pool that a
\* character has has it as a member (once, if it is not a zone's), and no other
\* pool outside treasure zones does.
PoolsAgree ==
    ~heap.broken => \A c \in Chars :
        /\ arrived[c] /\ zone[c] \notin Houses => heap.PTreasurePool[c] # Null
        /\ heap.PTreasurePool[c] # Null =>
              LET pool == heap.pool[heap.PTreasurePool[c]]
              IN  IF pool.ofZone THEN c \in ToSet(pool.members) ELSE Once(pool.members, c)
        /\ \A p \in PoolPtrs \ {heap.PTreasurePool[c]} :
              c \in ToSet(heap.pool[p].members) => heap.pool[p].ofZone

ListsAgree ==
    \A a \in AlliancePtrs, p \in PartyPtrs :
        p \in ToSet(heap.alliance[a].list) => heap.party[p].alliance = a

\* Members of one party who are in the same zone share one pool, as long as every
\* alliance lists only parties that know of it (see OneAllianceEach).  In a mog
\* house a member has no pool, unless its party or alliance changed there: those
\* who have one share it.
PartySharesPool ==
    ~heap.broken /\ ListsAgree => \A c, d \in Chars :
        /\ heap.PParty[c] # Null /\ heap.PParty[c] = heap.PParty[d]
        /\ arrived[c] /\ arrived[d] /\ zone[c] = zone[d]
        /\ zone[c] \notin TreasureZones
        => \/ heap.PTreasurePool[c] = heap.PTreasurePool[d]
           \/ zone[c] \in Houses /\ Null \in {heap.PTreasurePool[c], heap.PTreasurePool[d]}

\* IncreaseZoneCounter, which a mog house skips:
\* DSP_DEBUG_BREAK_IF(PChar->PTreasurePool != NULL).
ArrivesWithoutPool ==
    [][\A c \in Chars : ~arrived[c] /\ arrived'[c] /\ zone[c] \notin Houses
            => heap.PTreasurePool[c] = Null]_vars

\* "party leaders have no alliance - create a new one!": no party is ever put
\* into a second alliance.
OneAllianceEach ==
    \A p \in PartyPtrs : heap.party[p] # NoParty =>
        Cardinality({a \in AlliancePtrs : p \in ToSet(heap.alliance[a].list)}) <= 1
=============================================================================
