---------------------------- MODULE TreasurePool ----------------------------
(***************************************************************************)
(* One object of class CTreasurePool (src/src/map/treasure_pool.cpp): the  *)
(* items a party, an alliance or a whole zone has found and has not shared *)
(* out yet.  Members lot for an item or pass on it; the zone timer calls   *)
(* CheckItems, which hands out every item whose time has come.             *)
(*                                                                         *)
(* The map server runs timers and packet handlers on one thread, so every  *)
(* action is one complete handler.  Ticks count units of the program's     *)
(* milliseconds and wrap at TickWidth, as uint32 does.                     *)
(***************************************************************************)
EXTENDS Integers, Sequences, FiniteSets, FiniteSetsExt, Lists

CONSTANTS
    Chars,       \* characters that may be members of the pool
    Items,       \* item numbers that monsters and chests drop
    NSlots,      \* TREASUREPOOL_SIZE
    MaxLot,      \* the highest lot (999 in packet 0x041)
    PartySize,   \* members of a party pool before it becomes an alliance pool
    CheckTime,   \* TREASURE_CHECKTIME
    LiveTime,    \* TREASURE_LIVETIME
    Lead,        \* how far AddItem sets TimeStamp back (2500 ms)
    TickWidth,   \* 2^32
    BootTick,    \* the tick when the server starts ("+27 hours", timer.cpp)
    MaxLag,      \* a timer's tick argument may be this much older than gettick()
    PoolTypes,   \* the types the pool may be created with
    StaleLots,   \* lots may arrive late or twice (see StaleLot)
    MaxFree,     \* bound: free inventory slots of a character
    MaxDrops,    \* bound: items dropped into the pool
    LastDrop,    \* bound: no item drops after this tick
    MaxTick,     \* bound: the clock stops here
    MaxLotters   \* bound: lots that StaleLot puts on one slot

NoItem == 0
Nobody == "nobody"
Silent == -1

Slots == 0 .. NSlots - 1
Ticks == 0 .. TickWidth - 1
Lots == 0 .. MaxLot
Types == {"none", "SOLO", "PARTY", "ALLIANCE", "ZONE"}

ASSUME CharsAssumption == IsFiniteSet(Chars) /\ Nobody \notin Chars
ASSUME ItemsAssumption == NoItem \notin Items
ASSUME SizeAssumption ==
    /\ NSlots \in Nat \ {0} /\ MaxLot \in Nat \ {0} /\ PartySize \in Nat \ {0}
    /\ MaxFree \in Nat /\ MaxDrops \in Nat /\ MaxLotters \in Nat
    /\ StaleLots \in BOOLEAN
    /\ PoolTypes \in SUBSET {"SOLO", "PARTY", "ZONE"} /\ PoolTypes # {}
\* The server is restarted before its tick counter wraps (49 days), and it
\* starts with more than an item's life on the clock.
ASSUME TickAssumption ==
    /\ CheckTime \in Nat /\ LiveTime \in Nat /\ Lead \in Nat /\ MaxLag \in Nat
    /\ BootTick \in Nat /\ MaxTick \in Nat /\ TickWidth \in Nat
    /\ LiveTime < BootTick /\ Lead <= BootTick /\ MaxLag <= BootTick
    /\ BootTick <= MaxTick /\ MaxTick < TickWidth

VARIABLES
    members,      \* the vector members, as the set of its elements
    type,         \* m_TreasurePoolType; "none" while no such object exists
    m_PoolItems,  \* slot -> [ID, TimeStamp, Lotters]
    m_count,
    m_Tick,
    now,          \* what gettick() returns
    free,         \* free inventory slots of each character
    found,        \* history: items dropped so far
    settled,      \* history: items that left the pool
    hist,         \* history: slot -> when its item dropped, what each member said
    verdicts      \* history: what the last step decided

vars == <<members, type, m_PoolItems, m_count, m_Tick, now, free,
          found, settled, hist, verdicts>>

LotInfo == [lot : Lots, member : Chars]
PoolItem == [ID : Items \cup {NoItem}, TimeStamp : Ticks, Lotters : Seq(LotInfo)]
Memory == [born : Ticks, said : [Chars -> Lots \cup {Silent}]]
Outcome == [kind : {"kept", "lost", "won", "error"}, to : Chars \cup {Nobody}]
Occupied == {s \in Slots : m_PoolItems[s].ID # NoItem}

TypeOK ==
    /\ members \in SUBSET Chars
    /\ type \in Types
    /\ m_PoolItems \in [Slots -> PoolItem]
    /\ m_count \in Int
    /\ m_Tick \in Ticks
    /\ now \in BootTick .. MaxTick
    /\ free \in [Chars -> Int]
    /\ found \in 0 .. MaxDrops
    /\ settled \in Int
    /\ hist \in [Slots -> Memory]

-----------------------------------------------------------------------------
(* Tick arithmetic and the choice of who gets an item.                     *)

\* a - b in uint32 arithmetic.
Sub(a, b) == IF b <= a THEN a - b ELSE TickWidth + a - b

Kept == [kind |-> "kept", to |-> Nobody]
Lost == [kind |-> "lost", to |-> Nobody]
Won(c) == [kind |-> "won", to |-> c]
Error(c) == [kind |-> "error", to |-> c]

EmptySlot == [ID |-> NoItem, TimeStamp |-> 0, Lotters |-> <<>>]
Quiet == [c \in Chars |-> Silent]

Voters(lots) == {lots[i].member : i \in DOMAIN lots}
HighestLot(lots) == Max({0} \cup {lots[i].lot : i \in DOMAIN lots})

\* The comparison is strict, so the first of several equal lots wins.
HighestLotter(lots) ==
    lots[Min({i \in DOMAIN lots : lots[i].lot = HighestLot(lots)})].member

ClaimantsWithPassers(lots, room) ==   \* mutant: forgets who passed
    room \cap IF HighestLot(lots) > 0 THEN {HighestLotter(lots)} ELSE members

\* Members the item may go to: the highest lotter if anyone lotted, else a
\* random member who has not passed; in each case only with inventory room.
Claimants(lots, room) ==
    room \cap IF HighestLot(lots) > 0 THEN {HighestLotter(lots)}
              ELSE members \ Voters(lots)

DueWhenAllVoted(item, tick, room) ==   \* mutant: forgets the time limit
    /\ item.ID # NoItem
    /\ Len(item.Lotters) = Cardinality(members)

Due(item, tick, room) ==
    /\ item.ID # NoItem
    /\ \/ Sub(tick, item.TimeStamp) > LiveTime
       \/ type = "SOLO" /\ members \cap room # {}
       \/ Len(item.Lotters) = Cardinality(members)

\* CheckTreasureItem: what may become of a slot.  charutils::AddItem can
\* refuse (a rare item already owned, a failed INSERT): TreasureError.
Outcomes(item, tick, room) ==
    IF ~Due(item, tick, room) THEN {Kept}
    ELSE LET claim == Claimants(item.Lotters, room)
         IN  IF claim = {} THEN {Lost}
             ELSE {Won(c) : c \in claim} \cup {Error(c) : c \in claim}

Gone(out) == {s \in Slots : out[s].kind # "kept"}
WinsOf(out, c) == {s \in Slots : out[s] = Won(c)}

\* Characters with a free inventory slot before slot s is looked at.
Room(out, s) == {c \in Chars : free[c] > Cardinality({t \in WinsOf(out, c) : t < s})}
HasRoom == {c \in Chars : free[c] > 0}

\* What is remembered of a decision, for the properties.
Verdict(o, h, evicted) ==
    [kind |-> o.kind, to |-> o.to, said |-> h.said,
     held |-> Sub(now, h.born), evicted |-> evicted]

\* TreasureWon, TreasureError and TreasureLost for every slot that out settles.
Settle(items, h, out) ==
    /\ m_PoolItems' = [s \in Slots |-> IF s \in Gone(out) THEN EmptySlot ELSE items[s]]
    /\ m_count' = m_count - Cardinality(Gone(out))
    /\ settled' = settled + Cardinality(Gone(out))
    /\ free' = [c \in Chars |-> free[c] - Cardinality(WinsOf(out, c))]
    /\ hist' = [s \in Slots |-> IF s \in Gone(out) THEN [h[s] EXCEPT !.said = Quiet]
                                ELSE h[s]]
    /\ verdicts' = {Verdict(out[s], h[s], FALSE) : s \in Gone(out)}

-----------------------------------------------------------------------------
(* Construction and membership.                                            *)

Init ==
    /\ members = {}
    /\ type \in IF PoolTypes = {"ZONE"} THEN {"ZONE"} ELSE (PoolTypes \cap {"ZONE"}) \cup {"none"}
    /\ m_PoolItems = [s \in Slots |-> EmptySlot]
    /\ m_count = 0 /\ m_Tick = 0
    /\ now = BootTick
    /\ free \in [Chars -> 0 .. MaxFree]
    /\ found = 0 /\ settled = 0
    /\ hist = [s \in Slots |-> [born |-> 0, said |-> Quiet]]
    /\ verdicts = {}

\* The constructor and the AddMember call every caller makes right after it.
NewPool(c) ==
    /\ type = "none"
    /\ type' \in PoolTypes \ {"ZONE"}
    /\ members' = {c}
    /\ m_PoolItems' = [s \in Slots |-> EmptySlot]
    /\ m_count' = 0 /\ m_Tick' = 0
    /\ hist' = [s \in Slots |-> [born |-> 0, said |-> Quiet]]
    /\ verdicts' = {}
    /\ UNCHANGED <<now, free, found, settled>>

AddMember(c) ==
    /\ type # "none"
    /\ c \notin members
    /\ members' = members \cup {c}
    /\ type' = CASE type = "SOLO" /\ Cardinality(members') > 1 -> "PARTY"
                 [] type = "PARTY" /\ Cardinality(members') > PartySize -> "ALLIANCE"
                 [] OTHER -> type
    /\ verdicts' = {}
    /\ UNCHANGED <<m_PoolItems, m_count, m_Tick, now, free, found, settled, hist>>

ErasedFirst(lots, c) ==   \* mutant: misses the first entry
    {k \in DOMAIN lots : k > 1 /\ lots[k].member = c}

\* DelMember's loop goes on after an entry it has erased with the one after the
\* next.
Erased(lots, c) == Skipping({k \in DOMAIN lots : lots[k].member = c})

Withdrawn(item, c) ==
    [item EXCEPT !.Lotters = Restricted(@, DOMAIN @ \ Erased(@, c))]

\* Leaving a party pool withdraws the member's lots, leaving a zone pool does
\* not.  The last member to leave deletes a pool that is not a zone's, with
\* whatever it holds.
DelMember(c) ==
    /\ c \in members
    /\ members' = members \ {c}
    /\ IF type = "ZONE"
       THEN UNCHANGED <<type, m_PoolItems, m_count, m_Tick, settled, hist>>
       ELSE /\ hist' = [s \in Slots |-> [hist[s] EXCEPT !.said[c] = Silent]]
            /\ IF members' = {}
               THEN /\ type' = "none"
                    /\ m_PoolItems' = [s \in Slots |-> EmptySlot]
                    /\ m_count' = 0 /\ m_Tick' = 0
                    /\ settled' = settled + Cardinality(Occupied)
               ELSE /\ m_PoolItems' = [s \in Slots |-> Withdrawn(m_PoolItems[s], c)]
                    /\ UNCHANGED <<type, m_count, m_Tick, settled>>
    /\ verdicts' = {}
    /\ UNCHANGED <<now, free, found>>

-----------------------------------------------------------------------------
(* Items arrive, members lot and pass, the timer shares out.               *)

\* The first empty slot, or else the first of the oldest ones.
FreeSlot ==
    IF Occupied # Slots THEN Min(Slots \ Occupied)
    ELSE Min({s \in Slots : \A t \in Slots :
                 m_PoolItems[s].TimeStamp <= m_PoolItems[t].TimeStamp})

One(b) == IF b THEN 1 ELSE 0

StillFresh(item) == item                                   \* mutant: not made overdue
Overdue(item) == [item EXCEPT !.TimeStamp = 0]

StartNow == now                                       \* mutant: not set back
StartTick == Sub(now, Lead)

\* A full pool settles its oldest item at once: TimeStamp 0 makes it overdue.
MadeRoom ==
    IF Occupied = Slots THEN Outcomes(Overdue(m_PoolItems[FreeSlot]), now, HasRoom)
    ELSE {Kept}

\* Lotters is not reset: AddItem relies on the settling before it.
NewItem(i, o1) ==
    [ID |-> i, TimeStamp |-> StartTick,
     Lotters |-> IF o1.kind # "kept" THEN <<>> ELSE m_PoolItems[FreeSlot].Lotters]

\* A solo pool hands the new item over at once.
HandedOver(i, o1) ==
    IF type = "SOLO"
    THEN Outcomes(NewItem(i, o1), now, {c \in Chars : free[c] > One(o1 = Won(c))})
    ELSE {Kept}

\* o1 became of the item that made room, o2 of the new one.
Enter(i, o1, o2) ==
    LET s == FreeSlot
        out1 == o1.kind # "kept"
        out2 == o2.kind # "kept"
        h == [born |-> now, said |-> Quiet]
    IN  /\ m_PoolItems' = [m_PoolItems EXCEPT ![s] =
                             IF out2 THEN EmptySlot ELSE NewItem(i, o1)]
        /\ m_count' = (m_count - One(out1)) + 1 - One(out2)
        /\ settled' = settled + One(out1) + One(out2)
        /\ free' = [c \in Chars |-> free[c] - One(o1 = Won(c)) - One(o2 = Won(c))]
        /\ hist' = [hist EXCEPT ![s] = h]
        /\ verdicts' = (IF out1 THEN {Verdict(o1, hist[s], TRUE)} ELSE {})
                   \cup (IF out2 THEN {Verdict(o2, h, FALSE)} ELSE {})

\* AddItem and AddItemFromChest.
AddItem(i) ==
    /\ members # {}
    /\ found < MaxDrops /\ now <= LastDrop
    /\ \E o1 \in MadeRoom : \E o2 \in HandedOver(i, o1) : Enter(i, o1, o2)
    /\ found' = found + 1
    /\ UNCHANGED <<members, type, m_Tick, now>>

WithMask(item, c, lot) ==   \* mutant: stores what a pass is shown as (65535)
    [item EXCEPT !.Lotters =
        Append(@, [lot |-> IF lot = 0 THEN MaxLot + 1 ELSE lot, member |-> c])]

WithVoteAppended(item, c, lot) ==   \* mutant: a pass never replaces a lot
    [item EXCEPT !.Lotters = Append(@, [lot |-> lot, member |-> c])]

\* LotItem; lot 0 is a pass.  A pass overwrites the member's first entry, a
\* lot is always appended.  No test asks whether the slot holds an item.
WithLot(item, c, lot) ==
    LET mine == {i \in DOMAIN item.Lotters : item.Lotters[i].member = c}
    IN  IF lot = 0 /\ mine # {}
        THEN [item EXCEPT !.Lotters = [@ EXCEPT ![Min(mine)] = [lot |-> 0, member |-> c]]]
        ELSE [item EXCEPT !.Lotters = Append(@, [lot |-> lot, member |-> c])]

LotItem(c, s, lot, h) ==
    LET items == [m_PoolItems EXCEPT ![s] = WithLot(@, c, lot)]
        complete == Len(items[s].Lotters) = Cardinality(members)
    IN  \E o \in IF complete THEN Outcomes(items[s], m_Tick, HasRoom) ELSE {Kept} :
            /\ Settle(items, h, [t \in Slots |-> IF t = s THEN o ELSE Kept])
            /\ UNCHANGED <<members, type, m_Tick, now, found>>

\* Packets 0x041 and 0x042 as a client sends them: one lot for an item it has
\* not decided on, or a pass, which may follow its own lot.
Lot(c, s, lot) ==
    /\ c \in members
    /\ m_PoolItems[s].ID # NoItem
    /\ IF lot = 0 THEN hist[s].said[c] # 0 ELSE hist[s].said[c] = Silent
    /\ LotItem(c, s, lot, [hist EXCEPT ![s].said[c] = lot])

\* The same packet delivered twice (parse does not look at the sequence number
\* of what the client repeats), or after the item it was meant for has gone.
StaleLot(c, s, lot) ==
    /\ StaleLots
    /\ c \in members
    /\ hist[s].born > 0
    /\ m_PoolItems[s].ID = NoItem \/ hist[s].said[c] # Silent
    /\ Len(m_PoolItems[s].Lotters) < MaxLotters
    /\ LotItem(c, s, lot, hist)

\* CheckItems, called from the zone timer for every member with the timer's
\* tick.  The slots are looked at in order; a slot won before may have taken
\* the last inventory slot of a character.
CheckItems(tick) ==
    /\ members # {}
    /\ tick >= m_Tick
    /\ m_count # 0
    /\ Sub(tick, m_Tick) > CheckTime
    /\ \E out \in [Slots -> Outcome] :
          /\ \A s \in Slots : out[s] \in Outcomes(m_PoolItems[s], tick, Room(out, s))
          /\ Settle(m_PoolItems, hist, out)
    /\ m_Tick' = tick
    /\ UNCHANGED <<members, type, now, found>>

ZoneTimer == \E lag \in 0 .. MaxLag : CheckItems(now - lag)

\* Time passes.
Clock ==
    /\ now < MaxTick
    /\ now' = now + 1
    /\ verdicts' = {}
    /\ UNCHANGED <<members, type, m_PoolItems, m_count, m_Tick, free, found, settled, hist>>

\* The rest of the game fills and empties inventories.
Inventory(c, n) ==
    /\ n # free[c]
    /\ free' = [free EXCEPT ![c] = n]
    /\ verdicts' = {}
    /\ UNCHANGED <<members, type, m_PoolItems, m_count, m_Tick, now, found, settled, hist>>

Next ==
    \/ \E c \in Chars : NewPool(c) \/ AddMember(c) \/ DelMember(c)
    \/ \E i \in Items : AddItem(i)
    \/ \E c \in Chars, s \in Slots, lot \in Lots : Lot(c, s, lot) \/ StaleLot(c, s, lot)
    \/ ZoneTimer
    \/ Clock
    \/ \E c \in Chars, n \in 0 .. MaxFree : Inventory(c, n)

Spec == Init /\ [][Next]_vars

\* The kernel keeps running timers and the clock keeps ticking.
Fairness == WF_vars(Clock) /\ WF_vars(ZoneTimer)

FairSpec == Spec /\ Fairness

-----------------------------------------------------------------------------
(* Properties.                                                             *)

\* m_count is the number of occupied slots.  CheckItems trusts it: a count that
\* reaches 0 too soon leaves items in the pool that nobody looks at again.
CountIsOccupied == m_count = Cardinality(Occupied)

\* Every item that dropped is in exactly one slot or has left the pool exactly
\* once: won, refused, lost or deleted with it.  In particular AddItem never
\* overwrites an item that is still waiting.
DropsConserved == found = settled + Cardinality(Occupied)

\* Outside zone pools ("Everything else does" remove lot info) the lots on a
\* slot are what the present members said about the item in it: one entry for
\* each member that has spoken, with its latest word, and none of a member that
\* left or of an earlier item.
LottersAreDecisions ==
    type # "ZONE" => \A s \in Slots :
        LET lots == m_PoolItems[s].Lotters
            spoke == {c \in Chars : hist[s].said[c] # Silent}
        IN  /\ spoke \subseteq members
            /\ Len(lots) = Cardinality(spoke)
            /\ \A c \in spoke : \E i \in DOMAIN lots :
                  lots[i] = [lot |-> hist[s].said[c], member |-> c]

\* An item goes to a member with the highest lot; if nobody lotted, to a member
\* who has not passed.  It is lost only if that member, or all those members,
\* had no inventory room.  (A decision is judged in the state right after it.)
VerdictsAreFair ==
    \A v \in verdicts :
        LET lotters == {c \in Chars : v.said[c] > 0}
            best == {c \in lotters : \A x \in lotters : v.said[x] <= v.said[c]}
            silent == {c \in members : v.said[c] = Silent}
        IN  IF lotters # {}
            THEN v.to \in best \/ (v.kind = "lost" /\ \E c \in best : free[c] = 0)
            ELSE v.to \in silent \/ (v.kind = "lost" /\ \A c \in silent : free[c] = 0)

\* Before its time is up an item is settled only in a solo pool, to make place
\* for a new one in a full pool, or because all members have spoken, although
\* the timer's tick may be older than the tick at which the item dropped.
NoEarlyVerdict ==
    \A v \in verdicts :
        \/ type = "SOLO" \/ v.evicted
        \/ v.held + Lead > LiveTime
        \/ \A c \in members : v.said[c] # Silent

\* TreasureWon and TreasureError assert that the character they name belongs to
\* the pool (DSP_DEBUG_BREAK_IF(winner->PTreasurePool != this)).
WinnersAreMembers ==
    \A v \in verdicts : v.kind \in {"won", "error"} => v.to \in members

\* Every item that drops leaves the pool in the end, as long as somebody stays
\* in it (the zone timer checks a pool through its members).
EveryDropSettles ==
    \A k \in 1 .. MaxDrops : (found = k) ~> (settled >= k \/ members = {})
=============================================================================
