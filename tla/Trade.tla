-------------------------------- MODULE Trade --------------------------------
(***************************************************************************)
(* Trades between players: the handlers of packets 0x032 (ask), 0x033      *)
(* (accept, cancel, confirm) and 0x034 (lay an item out), the container a  *)
(* character trades from, and the inventories the items move between.      *)
(* A character that leaves the zone in the middle of a trade is modelled:  *)
(* 0x00D forgets the pending trade and keeps the container.  Every packet  *)
(* is handled once: a datagram that the network repeats is not modelled.   *)
(***************************************************************************)
EXTENDS Integers, FiniteSets, FiniteSetsExt

CONSTANTS Players, NoOne,
          Goods,       \* item ids other than gil
          Gil,         \* the currency, in slot 0 of every inventory
          Rare,        \* ids of which a character may own one
          Stack,       \* [Ids -> Nat]: stack size of each id
          Size,        \* slots of an inventory
          TradeSlots,  \* slots of the trade window: 0 .. TradeSlots - 1
          Stock,       \* [Players -> inventory]: what each player starts with
          Finds,       \* the goods that may arrive from elsewhere
          MaxEvents    \* bound: requests, arrivals of items and departures together

Ids == Goods \cup {Gil}

ASSUME TradeConstants ==
    /\ NoOne \notin Players \cup Ids /\ Gil \notin Goods
    /\ Rare \subseteq Goods /\ Finds \subseteq Goods
    /\ Stack \in [Ids -> Nat \ {0}]
    /\ Size \in Nat /\ TradeSlots \in Nat \ {0} 
    /\ MaxEvents \in Nat

Slots   == 0..Size
Window  == 0..(TradeSlots - 1)
NoSlot  == -1
NoItem  == [id |-> NoOne, qty |-> 0, reserve |-> 0]
Items   == {NoItem} \cup UNION {[id : {g}, qty : 1..Stack[g], reserve : 0..Stack[g]] : g \in Goods}
Money   == [id : {Gil}, qty : 0..Stack[Gil], reserve : 0..Stack[Gil]]
Bags    == {bag \in [Slots -> Items \cup Money] : \A s \in Slots : bag[s] \in Money <=> s = 0}

\* Inventories with one slot of each rare item at most.
Singly(bags) == \A p \in Players, id \in Rare :
    Cardinality({s \in Slots : bags[p][s].id = id}) <= 1

ASSUME StockAssumption == Stock \in [Players -> Bags] /\ Singly(Stock)

VARIABLES inv,       \* inv[p][s]: the item in slot s of p's inventory
          pending,   \* CCharEntity::TradePending
          cont,      \* CCharEntity::UContainer
          here,      \* the players in the zone
          events,    \* requests, arrivals and departures so far
          strays     \* history: players whose trade lost a side to a zone change

vars == <<inv, pending, cont, here, events, strays>>

\* CUContainer: the trade slots point at items of the owner's inventory.
Empty == [type |-> "EMPTY", lock |-> FALSE, slot |-> [t \in Window |-> NoSlot]]
Containers == [type : {"EMPTY", "TRADE"}, lock : BOOLEAN,
               slot : [Window -> Slots \cup {NoSlot}]]

TypeOK == /\ inv \in [Players -> Bags]
          /\ pending \in [Players -> Players \cup {NoOne}]
          /\ cont \in [Players -> Containers]
          /\ here \subseteq Players
          /\ events \in 0..MaxEvents
          /\ strays \subseteq Players

Init == /\ inv = Stock
        /\ pending = [p \in Players |-> NoOne]
        /\ cont = [p \in Players |-> Empty]
        /\ here = Players
        /\ events = 0
        /\ strays = {}

-----------------------------------------------------------------------------
(* Inventories: functions from an inventory to the inventory after.        *)

Least(a, b) == IF a <= b THEN a ELSE b

FreeSlots(bag) == {s \in 1..Size : bag[s] = NoItem}
HasItem(bag, id) == \E s \in Slots : bag[s].id = id

\* Mutant: an item of which nothing is left keeps its slot.
UpdateItemKept(bag, s, delta) ==
    IF bag[s] = NoItem \/ bag[s].qty + delta < 0 THEN bag
    ELSE [bag EXCEPT ![s].qty = Least(@ + delta, Stack[bag[s].id])]

\* charutils::UpdateItem: too large a withdrawal changes nothing, a stack is
\* capped at its size, and an item of which nothing is left goes away.
UpdateItem(bag, s, delta) ==
    LET left == Least(bag[s].qty + delta, Stack[bag[s].id])
    IN  IF bag[s] = NoItem \/ bag[s].qty + delta < 0 THEN bag
        ELSE IF left > 0 \/ bag[s].id = Gil THEN [bag EXCEPT ![s] = [@ EXCEPT !.qty = left]]
        ELSE [bag EXCEPT ![s] = NoItem]

\* Mutant: nobody asks whether a rare item is owned already.
AddItemAgain(bag, item) ==
    IF item.id = Gil THEN UpdateItem(bag, 0, item.qty)
    ELSE IF FreeSlots(bag) = {} THEN bag
    ELSE [bag EXCEPT ![Min(FreeSlots(bag))] = item]

\* charutils::AddItem of an item that exists: gil joins the gil, a rare item
\* already owned and an item without a free slot are destroyed.
AddItem(bag, item) ==
    IF item.id = Gil THEN UpdateItem(bag, 0, item.qty)
    ELSE IF (item.id \in Rare /\ HasItem(bag, item.id)) \/ FreeSlots(bag) = {} THEN bag
    ELSE [bag EXCEPT ![Min(FreeSlots(bag))] = item]

\* charutils::AddItem by id: a new item of that id.
AddNew(bag, id, n) ==
    IF FreeSlots(bag) = {} \/ n = 0 THEN bag
    ELSE AddItem(bag, [id |-> id, qty |-> Least(n, Stack[id]), reserve |-> 0])

-----------------------------------------------------------------------------
(* What a container holds, and the exchange.                               *)

Filled(c) == {t \in Window : c.slot[t] # NoSlot}
Laid(p) == {inv[p][cont[p].slot[t]] : t \in Filled(cont[p])}

\* Mutant: the target may be one slot short.
CanTradeTight(p, q) == /\ Cardinality(FreeSlots(inv[q])) + 1 >= Cardinality(Filled(cont[p]))
                       /\ \A item \in Laid(p) : item.id \in Rare => ~HasItem(inv[q], item.id)

\* charutils::CanTrade: room for every item laid out, and no rare item twice.
CanTrade(p, q) == /\ Cardinality(FreeSlots(inv[q])) >= Cardinality(Filled(cont[p]))
                  /\ \A item \in Laid(p) : item.id \in Rare => ~HasItem(inv[q], item.id)

\* One slot of charutils::DoTrade: whether the target could take the item is
\* not asked before the giver loses it.
MoveSlot(p, q, bags, s) ==
    LET item == bags[p][s]
        taken == IF Stack[item.id] = 1 THEN AddItem(bags[q], item)
                 ELSE AddNew(bags[q], item.id, item.reserve)
        mid == [bags EXCEPT ![q] = taken]
    IN  [mid EXCEPT ![p] = UpdateItem(mid[p], s, -item.reserve)]

\* charutils::DoTrade: p's slots to q, in the order of the trade window;
\* after[k] are the inventories when the first k places have been handled.
DoTrade(p, q, bags) ==
    LET after[k \in 0..TradeSlots] ==
            IF k = 0 THEN bags
            ELSE IF cont[p].slot[k - 1] = NoSlot THEN after[k - 1]
            ELSE MoveSlot(p, q, after[k - 1], cont[p].slot[k - 1])
    IN  after[TradeSlots]

\* Mutant: the trade slots keep their pointers.
CleanedShallow(S) == [r \in Players |-> IF r \notin S THEN cont[r]
                                        ELSE [cont[r] EXCEPT !.type = "EMPTY", !.lock = FALSE]]

\* CUContainer::Clean, for the containers of the players in S.
Cleaned(S) == [r \in Players |-> IF r \in S THEN Empty ELSE cont[r]]

-----------------------------------------------------------------------------
(* The handlers.                                                           *)

Mutual(p, q) == pending[p] = q /\ pending[q] = p
Trading(p, q) == /\ p \in Players /\ q \in Players /\ Mutual(p, q)
                 /\ cont[p].type = "TRADE" /\ cont[q].type = "TRADE"

\* The target of a 0x033 or 0x034 of p: found in the zone by its targid.
Target(p, q) == p \in here /\ q \in here /\ p # q /\ pending[p] = q

\* Mutant: the target's container is not looked at.
AskAnyone(p, q) ==
    /\ p # q /\ {p, q} \subseteq here
    /\ ~Trading(p, pending[p])
    /\ pending[q] # p
    /\ events < MaxEvents
    /\ pending' = [pending EXCEPT ![p] = q, ![q] = p]
    /\ events' = events + 1
    /\ UNCHANGED <<inv, cont, here, strays>>

\* 0x032: p asks q for a trade; a client in a trade does not ask.
Ask(p, q) ==
    /\ p # q /\ {p, q} \subseteq here
    /\ ~Trading(p, pending[p])
    /\ pending[q] # p
    /\ cont[q].type = "EMPTY" /\ events < MaxEvents
    /\ pending' = [pending EXCEPT ![p] = q, ![q] = p]
    /\ events' = events + 1
    /\ UNCHANGED <<inv, cont, here, strays>>

\* SetType(UCONTAINER_TRADE)
Opened(c) == [c EXCEPT !.type = "TRADE"]

\* 0x033, action 0: both containers must be free and the players near.
Accept(p, q, near) ==
    /\ Target(p, q) /\ pending[q] = p
    /\ ~Trading(p, q)                          \* the client's window is not open
    /\ IF near /\ cont[p].type = "EMPTY" /\ cont[q].type = "EMPTY"
       THEN /\ cont' = [cont EXCEPT ![p] = Opened(@), ![q] = Opened(@)]
            /\ UNCHANGED pending
       ELSE /\ pending' = [pending EXCEPT ![p] = NoOne, ![q] = NoOne]
            /\ UNCHANGED cont
    /\ UNCHANGED <<inv, here, events, strays>>

\* 0x033, action 1: what p has put into a trade goes back; q's too if q is
\* in the trade with p.
Cancel(p, q) ==
    LET over == {r \in {p, q} : cont[r].type = "TRADE" /\ (r = q => pending[q] = p)}
    IN  /\ Target(p, q)
        /\ cont' = Cleaned(over)
        /\ pending' = [r \in Players |-> IF r = p \/ r \in over THEN NoOne ELSE pending[r]]
        /\ strays' = strays \ over
        /\ UNCHANGED <<inv, here, events>>

\* 0x033, action 2: p confirms; the second to confirm makes the exchange.
Confirm(p, q) ==
    /\ Target(p, q) /\ pending[q] = p
    /\ cont[p].type = "TRADE"                  \* the client's window is open
    /\ IF ~cont[q].lock
       THEN /\ cont' = [cont EXCEPT ![p] = [@ EXCEPT !.lock = TRUE]]
            /\ UNCHANGED <<inv, pending, strays>>
       ELSE /\ inv' = IF CanTrade(p, q) /\ CanTrade(q, p)
                      THEN DoTrade(q, p, DoTrade(p, q, inv)) ELSE inv
            /\ cont' = Cleaned({p, q})
            /\ pending' = [pending EXCEPT ![p] = NoOne, ![q] = NoOne]
            /\ strays' = strays \ {p, q}
    /\ UNCHANGED <<here, events>>

\* 0x034: n of the item in slot s goes to place t of the window; the reserve
\* changes even where SetItem finds the container locked.
SetItem(c, t, s) == IF c.lock THEN c ELSE [c EXCEPT !.slot = [@ EXCEPT ![t] = s]]
PutItem(p, n, s, t) ==
    /\ inv' = [inv EXCEPT ![p][s].reserve = Least(n, inv[p][s].qty)]
    /\ cont' = [cont EXCEPT ![p] = SetItem(@, t, IF n > 0 THEN s ELSE NoSlot)]

Lay(p, q, n, s, t) ==
    /\ Target(p, q) /\ inv[p][s] # NoItem
    /\ cont[p].type = "TRADE" /\ ~cont[p].lock \* the client's window is open
    /\ (s = 0) <=> (t = 0)                    \* place 0 of the window is the gil's
    /\ IF n = 0 THEN cont[p].slot[t] = s
       ELSE s \notin {cont[p].slot[u] : u \in Window \ {t}}
    /\ PutItem(p, n, s, t)
    /\ UNCHANGED <<pending, here, events, strays>>

-----------------------------------------------------------------------------
(* What goes on around a trade.                                            *)

\* An item arrives from elsewhere (a treasure pool, a script).
Arrive(p, id) ==
    /\ p \in here /\ events < MaxEvents
    /\ inv' = [inv EXCEPT ![p] = AddNew(@, id, 1)]
    /\ events' = events + 1
    /\ UNCHANGED <<pending, cont, here, strays>>

\* 0x00D: p leaves the zone; its container and its partner stay as they are.
Leave(p) ==
    /\ p \in here /\ events < MaxEvents
    /\ here' = here \ {p}
    /\ events' = events + 1
    /\ pending' = [pending EXCEPT ![p] = NoOne]
    /\ strays' = strays \cup {r \in Players : /\ r = p \/ pending[r] = p
                                              /\ cont[r].type = "TRADE"}
    /\ UNCHANGED <<inv, cont>>

\* 0x00A: p is back in the zone.
Enter(p) ==
    /\ p \notin here
    /\ here' = here \cup {p}
    /\ UNCHANGED <<inv, pending, cont, events, strays>>

Next ==
    \E p \in Players :
        \/ Leave(p) \/ Enter(p)
        \/ \E id \in Finds : Arrive(p, id)
        \/ \E q \in Players :
            \/ Ask(p, q) \/ Cancel(p, q) \/ Confirm(p, q)
            \/ \E near \in BOOLEAN : Accept(p, q, near)
            \/ \E s \in Slots, t \in Window : \E n \in 0..inv[p][s].qty : Lay(p, q, n, s, t)

Spec == Init /\ [][Next]_vars

-----------------------------------------------------------------------------
(* Properties.                                                             *)

\* A container in a trade belongs to a live trade: its owner and the partner
\* wait for each other and both containers are in it.  Only a zone change in
\* the middle of a trade leaves a container behind (0x00D keeps it); no
\* request, acceptance or cancellation of a third player does.
OnlyLeaversStrand ==
    \A p \in Players : cont[p].type = "TRADE" => p \in strays \/ Trading(p, pending[p])

\* A rare item is owned once at most, although trades and arrivals race:
\* CanTrade looks when the exchange is made, not when the item is laid out.
RareOnce == Singly(inv)

\* What was laid out can still be given when the exchange comes: the window
\* points at items that exist, no item twice, no more of one than there is.
OffersAreOwned == \A p \in Players :
    /\ \A t \in Filled(cont[p]) : LET item == inv[p][cont[p].slot[t]]
                                  IN  item # NoItem /\ item.reserve <= item.qty
    /\ \A t, u \in Filled(cont[p]) : cont[p].slot[t] = cont[p].slot[u] => t = u

\* The trade implements Barter: the exchange is all or nothing, happens only
\* when both sides have confirmed, and moves exactly what was laid out.
Total(f, n) == LET sum[k \in 0..n] == IF k = 0 THEN f[0] ELSE f[k] + sum[k - 1] IN sum[n]
Held(p) == [id \in Ids |->
    Total([s \in Slots |-> IF inv[p][s].id = id THEN inv[p][s].qty ELSE 0], Size)]
Offered(p) == [id \in Ids |->
    Total([t \in Window |-> IF t \in Filled(cont[p]) /\ inv[p][cont[p].slot[t]].id = id
                            THEN inv[p][cont[p].slot[t]].reserve ELSE 0], TradeSlots - 1)]
Firm(p) == IF cont[p].lock /\ Trading(p, pending[p]) THEN pending[p] ELSE NoOne

Bartering == INSTANCE Barter WITH
    Cap   <- [id \in Ids |-> IF id = Gil THEN Stack[Gil] ELSE Stack[id] * Size],
    hold  <- [p \in Players |-> Held(p)],
    offer <- [p \in Players |-> Offered(p)],
    firm  <- [p \in Players |-> Firm(p)]

TradesAreBarter == Bartering!Spec
=============================================================================
