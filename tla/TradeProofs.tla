----------------------------- MODULE TradeProofs -----------------------------
(* No request, answer or confirmation of anybody strands a trade; and      *)
(* whatever is laid out, given and received, inventories stay well-formed, *)
(* rare items single and offers covered; and the trades implement Barter.  *)
EXTENDS Trade, IterationLemmas

\* The part of the type invariant that speaks of who trades with whom.
DealTypeOK == /\ pending \in [Players -> Players \cup {NoOne}]
              /\ cont \in [Players -> Containers]
              /\ strays \subseteq Players

DealInv == DealTypeOK /\ OnlyLeaversStrand

USE DEF Trading, Mutual

LEMMA EmptyTyped == Empty \in Containers /\ Empty.type = "EMPTY"
BY DEF Empty, Containers

LEMMA DealInit == Init => DealInv
BY EmptyTyped DEF Init, DealInv, DealTypeOK, OnlyLeaversStrand

\* Changing a container in its lock or slots leaves every trade as it is.
LEMMA SameTypes ==
    ASSUME DealInv, DealTypeOK', pending' = pending, strays' = strays,
           \A r \in Players : cont'[r].type = cont[r].type
    PROVE  DealInv'
BY DEF DealInv, DealTypeOK, OnlyLeaversStrand

LEMMA AskStep ==
    ASSUME DealInv, NEW p \in Players, NEW q \in Players, Ask(p, q)
    PROVE  DealInv'
<1>1. DealTypeOK'
  BY DEF DealInv, DealTypeOK, Ask
<1>2. ASSUME NEW r \in Players, cont'[r].type = "TRADE", r \notin strays'
      PROVE  Trading(r, pending[r])'
  <2>1. r # q /\ cont[r].type = "TRADE" /\ r \notin strays
    BY <1>2 DEF Ask
  <2>2. Trading(r, pending[r])
    BY <2>1 DEF DealInv, OnlyLeaversStrand
  <2>3. r # p
    BY <2>2 DEF Ask
  <2>4. pending[r] # p /\ pending[r] # q
    BY <2>2 DEF Ask
  <2> QED
    BY <2>1, <2>2, <2>3, <2>4 DEF Ask, DealInv, DealTypeOK
<1> QED
  BY <1>1, <1>2 DEF DealInv, OnlyLeaversStrand

LEMMA AcceptStep ==
    ASSUME TradeConstants, DealInv, NEW p \in Players, NEW q \in Players,
           NEW near \in BOOLEAN, Accept(p, q, near)
    PROVE  DealInv'
<1>0. \A c \in Containers : Opened(c) \in Containers /\ Opened(c).type = "TRADE"
  BY DEF Containers, Opened
<1>1. DealTypeOK'
  BY <1>0 DEF DealInv, DealTypeOK, Accept
<1>2. p # q /\ Mutual(p, q)
  BY DEF Accept, Target
<1>3. CASE near /\ cont[p].type = "EMPTY" /\ cont[q].type = "EMPTY"
  <2>1. ASSUME NEW r \in Players, cont'[r].type = "TRADE", r \notin strays'
        PROVE  Trading(r, pending[r])'
    <3>1. \A u \in Players : cont'[u].type = IF u \in {p, q} THEN "TRADE" ELSE cont[u].type
      BY <1>0, <1>2, <1>3 DEF Accept, DealInv, DealTypeOK
    <3>2. CASE r \in {p, q}
      BY <1>2, <1>3, <3>1, <3>2 DEF Accept
    <3>3. CASE r \notin {p, q}
      <4>1. Trading(r, pending[r])
        BY <2>1, <3>1, <3>3 DEF Accept, DealInv, OnlyLeaversStrand
      <4> QED
        BY <1>3, <4>1, <3>1 DEF Accept
    <3> QED
      BY <3>2, <3>3
  <2> QED
    BY <1>1, <2>1 DEF DealInv, OnlyLeaversStrand
<1>4. CASE ~(near /\ cont[p].type = "EMPTY" /\ cont[q].type = "EMPTY")
  <2>1. ASSUME NEW r \in Players, cont'[r].type = "TRADE", r \notin strays'
        PROVE  Trading(r, pending[r])'
    <3>1. cont[r].type = "TRADE" /\ r \notin strays
      BY <1>4, <2>1 DEF Accept
    <3>2. Trading(r, pending[r])
      BY <3>1 DEF DealInv, OnlyLeaversStrand
    <3>3. r \notin {p, q} /\ pending[r] \notin {p, q}
      BY <1>2, <3>2 DEF Accept
    <3> QED
      BY <1>4, <3>2, <3>3 DEF Accept, DealInv, DealTypeOK
  <2> QED
    BY <1>1, <2>1 DEF DealInv, OnlyLeaversStrand
<1> QED
  BY <1>3, <1>4

\* Emptying the containers of both sides of a trade, or of a side whose
\* partner is not in a trade with it, strands nobody else.
LEMMA CleanedStep ==
    ASSUME DealInv, NEW S \in SUBSET Players,
           cont' = Cleaned(S), strays' = strays \ S,
           pending' \in [Players -> Players \cup {NoOne}],
           \A r \in Players \ S : cont[r].type = "TRADE" => pending'[r] = pending[r],
           \A r \in S : cont[r].type = "TRADE" /\ Trading(r, pending[r]) => pending[r] \in S
    PROVE  DealInv'
<1>1. \A r \in Players : cont'[r] = IF r \in S THEN Empty ELSE cont[r]
  BY DEF Cleaned
<1>2. DealTypeOK'
  BY <1>1, EmptyTyped DEF DealInv, DealTypeOK, Cleaned
<1>3. ASSUME NEW r \in Players, cont'[r].type = "TRADE", r \notin strays'
      PROVE  Trading(r, pending[r])'
  <2>1. r \notin S /\ cont[r].type = "TRADE" /\ r \notin strays
    BY <1>1, <1>3, EmptyTyped
  <2>2. Trading(r, pending[r])
    BY <2>1 DEF DealInv, OnlyLeaversStrand
  <2>3. pending[r] \notin S
    BY <2>1, <2>2
  <2> QED
    BY <1>1, <2>1, <2>2, <2>3
<1> QED
  BY <1>2, <1>3 DEF DealInv, OnlyLeaversStrand

LEMMA CancelStep ==
    ASSUME TradeConstants, DealInv, NEW p \in Players, NEW q \in Players, Cancel(p, q)
    PROVE  DealInv'
<1> DEFINE over == {r \in {p, q} : cont[r].type = "TRADE" /\ (r = q => pending[q] = p)}
<1>1. /\ over \in SUBSET Players /\ cont' = Cleaned(over) /\ strays' = strays \ over
      /\ pending' = [r \in Players |-> IF r = p \/ r \in over THEN NoOne ELSE pending[r]]
      /\ p # q /\ pending[p] = q
  BY DEF Cancel, Target
<1>2. pending' \in [Players -> Players \cup {NoOne}]
  BY <1>1 DEF DealInv, DealTypeOK
<1>3. \A r \in Players \ over : cont[r].type = "TRADE" => pending'[r] = pending[r]
  BY <1>1
<1>4. \A r \in over : cont[r].type = "TRADE" /\ Trading(r, pending[r]) => pending[r] \in over
  BY <1>1
<1> QED
  BY <1>1, <1>2, <1>3, <1>4, CleanedStep

LEMMA ConfirmStep ==
    ASSUME TradeConstants, DealInv, NEW p \in Players, NEW q \in Players, Confirm(p, q)
    PROVE  DealInv'
<1>1. p # q /\ Mutual(p, q)
  BY DEF Confirm, Target
<1>2. CASE ~cont[q].lock
  <2>1. cont' = [cont EXCEPT ![p] = [@ EXCEPT !.lock = TRUE]] /\ pending' = pending /\ strays' = strays
    BY <1>2 DEF Confirm
  <2>2. DealTypeOK' /\ \A r \in Players : cont'[r].type = cont[r].type
    BY <2>1 DEF DealInv, DealTypeOK, Containers
  <2> QED
    BY <2>1, <2>2, SameTypes
<1>3. CASE cont[q].lock
  <2>1. /\ cont' = Cleaned({p, q}) /\ strays' = strays \ {p, q}
        /\ pending' = [pending EXCEPT ![p] = NoOne, ![q] = NoOne]
    BY <1>3 DEF Confirm
  <2>2. pending' \in [Players -> Players \cup {NoOne}]
    BY <2>1 DEF DealInv, DealTypeOK
  <2>3. \A r \in Players \ {p, q} : pending'[r] = pending[r]
    BY <2>1 DEF DealInv, DealTypeOK
  <2>4. \A r \in {p, q} : pending[r] \in {p, q}
    BY <1>1
  <2> QED
    BY <2>1, <2>2, <2>3, <2>4, CleanedStep
<1> QED
  BY <1>2, <1>3

LEMMA PutItemStep ==
    ASSUME DealInv, NEW p \in Players, NEW n, NEW s \in Slots, NEW t \in Window,
           PutItem(p, n, s, t), pending' = pending, strays' = strays
    PROVE  DealInv'
<1> DEFINE new == SetItem(cont[p], t, IF n > 0 THEN s ELSE NoSlot)
<1>1. cont' = [cont EXCEPT ![p] = new]
  BY DEF PutItem
<1>2. cont[p] \in Containers
  BY DEF DealInv, DealTypeOK
<1>3. new \in Containers /\ new.type = cont[p].type
  BY <1>2 DEF SetItem, Containers
<1> HIDE DEF new
<1>4. DealTypeOK' /\ \A r \in Players : cont'[r].type = cont[r].type
  BY <1>1, <1>3 DEF DealInv, DealTypeOK
<1> QED
  BY <1>4, SameTypes

LEMMA LeaveStep ==
    ASSUME TradeConstants, DealInv, NEW p \in Players, Leave(p)
    PROVE  DealInv'
BY DEF Leave, DealInv, DealTypeOK, OnlyLeaversStrand, TradeConstants

LEMMA DealNext ==
    ASSUME TradeConstants, DealInv, [Next]_vars
    PROVE  DealInv'
<1>1. CASE UNCHANGED vars
  BY <1>1 DEF vars, DealInv, DealTypeOK, OnlyLeaversStrand
<1>2. ASSUME NEW p \in Players, Leave(p)
      PROVE  DealInv'
  BY <1>2, LeaveStep
<1>3. ASSUME NEW p \in Players, Enter(p) \/ \E id \in Finds : Arrive(p, id)
      PROVE  DealInv'
  BY <1>3 DEF Enter, Arrive, DealInv, DealTypeOK, OnlyLeaversStrand
<1>4. ASSUME NEW p \in Players, NEW q \in Players,
             Ask(p, q) \/ Cancel(p, q) \/ Confirm(p, q) \/ \E near \in BOOLEAN : Accept(p, q, near)
      PROVE  DealInv'
  BY <1>4, AskStep, CancelStep, ConfirmStep, AcceptStep
<1>5. ASSUME NEW p \in Players, NEW q \in Players, NEW s \in Slots, NEW t \in Window,
             NEW n \in 0..inv[p][s].qty, Lay(p, q, n, s, t)
      PROVE  DealInv'
  <2>1. PutItem(p, n, s, t) /\ pending' = pending /\ strays' = strays
    BY <1>5 DEF Lay
  <2> QED
    BY <2>1, PutItemStep
<1> QED
  BY <1>1, <1>2, <1>3, <1>4, <1>5 DEF Next

\* OnlyLeaversStrand holds for any number of players, slots and items: in
\* whatever order requests, acceptances, cancellations and confirmations come,
\* a container in a trade has a partner that is in the trade with it, unless
\* somebody left the zone in the middle of one.
THEOREM NobodyStranded == Spec => []OnlyLeaversStrand
<1>1. Init => DealInv
  BY DealInit
<1>2. DealInv /\ [Next]_vars => DealInv'
  BY TradeConstants, DealNext
<1>3. DealInv => OnlyLeaversStrand
  BY DEF DealInv
<1> QED
  BY <1>1, <1>2, <1>3, PTL DEF Spec

-----------------------------------------------------------------------------
(* Inventories: what each call does to them.                               *)

\* What a slot of an inventory holds.
IsGood(item) == /\ item = [id |-> item.id, qty |-> item.qty, reserve |-> item.reserve]
                /\ item.id \in Goods /\ item.qty \in 1..Stack[item.id]
                /\ item.reserve \in 0..Stack[item.id]

LEMMA ItemKinds ==
    /\ \A item \in Items : item = NoItem \/ IsGood(item)
    /\ \A item : IsGood(item) => item \in Items
    /\ NoItem \in Items /\ NoItem \notin Money /\ \A item \in Items : item \notin Money
    /\ \A item \in Money : item.id = Gil /\ item.qty \in 0..Stack[Gil]
                             /\ item.reserve \in 0..Stack[Gil]
<1>1. ASSUME NEW item \in Items PROVE item = NoItem \/ IsGood(item)
  BY DEF Items, IsGood
<1>2. ASSUME NEW item, IsGood(item) PROVE item \in Items
  <2>1. item \in [id : {item.id}, qty : 1..Stack[item.id], reserve : 0..Stack[item.id]]
    BY <1>2 DEF IsGood
  <2> QED
    BY <1>2, <2>1 DEF Items, IsGood
<1>3. NoItem \in Items /\ NoItem \notin Money
  BY TradeConstants DEF Items, NoItem, Money, Ids
<1>4. ASSUME NEW item \in Items PROVE item \notin Money
  <2>1. \A x \in Money : x.id = Gil
    BY DEF Money
  <2> QED
    BY <1>1, <1>3, <2>1, TradeConstants DEF IsGood
<1>5. \A item \in Money : item.id = Gil /\ item.qty \in 0..Stack[Gil]
                           /\ item.reserve \in 0..Stack[Gil]
  BY DEF Money
<1> QED
  BY <1>1, <1>2, <1>3, <1>4, <1>5

\* Slot 0 of an inventory holds the gil, the others goods or nothing.
LEMMA BagSlots ==
    ASSUME NEW bag \in Bags
    PROVE  /\ bag \in [Slots -> Items \cup Money]
           /\ bag[0] \in Money /\ bag[0].id = Gil
           /\ \A s \in Slots \ {0} : bag[s] \in Items /\ (bag[s] = NoItem \/ IsGood(bag[s]))
<1>1. 0 \in Slots
  BY TradeConstants DEF Slots
<1> QED
  BY <1>1, ItemKinds DEF Bags

LEMMA BagOf ==
    ASSUME NEW bag \in [Slots -> Items \cup Money], bag[0] \in Money,
           \A s \in Slots \ {0} : bag[s] \in Items
    PROVE  bag \in Bags
BY ItemKinds DEF Bags

LEMMA BagExcept ==
    ASSUME NEW bag \in Bags, NEW s \in Slots, NEW x \in IF s = 0 THEN Money ELSE Items,
           NEW new, new = [bag EXCEPT ![s] = x]
    PROVE  new \in Bags /\ new[s] = x /\ \A t \in Slots \ {s} : new[t] = bag[t]
<1>1. bag \in [Slots -> Items \cup Money] /\ bag[0] \in Money
      /\ \A t \in Slots \ {0} : bag[t] \in Items
  BY BagSlots
<1>2. new \in [Slots -> Items \cup Money] /\ new[s] = x /\ \A t \in Slots \ {s} : new[t] = bag[t]
  BY <1>1
<1>3. 0 \in Slots
  BY TradeConstants DEF Slots
<1>4. new[0] \in Money /\ \A t \in Slots \ {0} : new[t] \in Items
  BY <1>1, <1>2, <1>3
<1> QED
  BY <1>2, <1>4, BagOf

\* Every slot's item has an id that Stack knows, or there is none.
LEMMA SlotFacts ==
    ASSUME NEW bag \in Bags, NEW s \in Slots
    PROVE  /\ bag[s] \in Items \cup Money
           /\ bag[s] # NoItem => /\ bag[s].id \in Ids /\ bag[s].qty \in 0..Stack[bag[s].id]
                                 /\ bag[s].reserve \in 0..Stack[bag[s].id]
                                 /\ (bag[s].id = Gil <=> s = 0)
           /\ bag[s].qty \in Nat /\ bag[s].reserve \in Nat
           /\ s = 0 => bag[s] # NoItem
<1>1. CASE s = 0
  BY <1>1, BagSlots, ItemKinds, TradeConstants DEF Ids
<1>2. CASE s # 0
  <2>1. bag[s] = NoItem \/ IsGood(bag[s])
    BY <1>2, BagSlots
  <2>2. CASE bag[s] = NoItem
    BY <1>2, <2>2, ItemKinds DEF NoItem
  <2>3. CASE IsGood(bag[s])
    <3>1. Stack[bag[s].id] \in Nat
      BY <2>3, TradeConstants DEF IsGood, Ids
    <3> QED
      BY <1>2, <2>3, <3>1, ItemKinds, TradeConstants DEF IsGood, Ids
  <2> QED
    BY <2>1, <2>2, <2>3
<1> QED
  BY <1>1, <1>2

\* A withdrawal or a deposit changes one slot, to less or more of the same item
\* or to nothing.
LEMMA UpdateItemKeeps ==
    ASSUME NEW bag \in Bags, NEW s \in Slots, NEW delta \in Int
    PROVE  /\ UpdateItem(bag, s, delta) \in Bags
           /\ \A t \in Slots \ {s} : UpdateItem(bag, s, delta)[t] = bag[t]
           /\ UpdateItem(bag, s, delta)[s].id \in {bag[s].id, NoOne}
<1> DEFINE item == bag[s]
           left == Least(item.qty + delta, Stack[item.id])
<1>0. PICK new : new = UpdateItem(bag, s, delta)
  OBVIOUS
<1>1. bag \in [Slots -> Items \cup Money] /\ bag[0] \in Money
      /\ \A t \in Slots \ {0} : bag[t] \in Items
  BY BagSlots
<1>2. CASE item = NoItem \/ item.qty + delta < 0
  BY <1>2 DEF UpdateItem
<1>3. CASE ~(item = NoItem \/ item.qty + delta < 0)
  <2>1. /\ item.id \in Ids /\ item.qty \in Nat /\ item.reserve \in 0..Stack[item.id]
        /\ Stack[item.id] \in Nat \ {0} /\ (item.id = Gil <=> s = 0)
    BY <1>3, SlotFacts, TradeConstants
  <2>2. left \in 0..Stack[item.id]
    BY <1>3, <2>1 DEF Least
  <2>a. ASSUME NEW x \in IF s = 0 THEN Money ELSE Items,
               new = [bag EXCEPT ![s] = x], x.id \in {item.id, NoOne}
        PROVE  /\ new \in Bags /\ new[s].id \in {item.id, NoOne}
               /\ \A t \in Slots \ {s} : new[t] = bag[t]
    <3>1. new \in Bags
      BY <2>a, BagExcept
    <3>2. new[s] = x
      BY <1>1, <2>a
    <3>3. \A t \in Slots \ {s} : new[t] = bag[t]
      BY <2>a, BagExcept
    <3> QED
      BY <2>a, <3>1, <3>2, <3>3
  <2>3. CASE left > 0 \/ item.id = Gil
    <3>1. new = [bag EXCEPT ![s] = [item EXCEPT !.qty = left]]
      BY <1>0, <1>3, <2>3 DEF UpdateItem
    <3>2. CASE s = 0
      <4>1. [item EXCEPT !.qty = left] \in Money /\ [item EXCEPT !.qty = left].id = item.id
        BY <1>1, <2>1, <2>2, <3>2 DEF Money
      <4> QED
        BY <1>0, <2>a, <3>1, <3>2, <4>1
    <3>3. CASE s # 0
      <4>1. IsGood(item) /\ left \in 1..Stack[item.id]
        BY <1>3, <2>1, <2>2, <2>3, <3>3, BagSlots
      <4>2. IsGood([item EXCEPT !.qty = left]) /\ [item EXCEPT !.qty = left].id = item.id
        BY <4>1 DEF IsGood
      <4>3. [item EXCEPT !.qty = left] \in Items
        BY <4>2, ItemKinds
      <4> QED
        BY <1>0, <2>a, <3>1, <3>3, <4>2, <4>3
    <3> QED
      BY <3>2, <3>3
  <2>4. CASE ~(left > 0 \/ item.id = Gil)
    <3>1. new = [bag EXCEPT ![s] = NoItem] /\ s # 0
      BY <1>0, <1>3, <2>1, <2>4 DEF UpdateItem
    <3>2. NoItem \in Items /\ NoItem.id = NoOne
      BY ItemKinds DEF NoItem
    <3> QED
      BY <1>0, <2>a, <3>1, <3>2
  <2> QED
    BY <2>3, <2>4
<1> QED
  BY <1>2, <1>3

\* No rare item twice, slot by slot.
Once(bag) == \A id \in Rare, s, t \in Slots : bag[s].id = id /\ bag[t].id = id => s = t

LEMMA SinglyIsOnce ==
    ASSUME NEW bags
    PROVE  Singly(bags) <=> \A p \in Players : Once(bags[p])
<1>1. IsFiniteSet(Slots)
  BY TradeConstants, FS_Interval DEF Slots
<1>2. ASSUME NEW bag, NEW id
      PROVE  Cardinality({s \in Slots : bag[s].id = id}) <= 1
                <=> \A s, t \in Slots : bag[s].id = id /\ bag[t].id = id => s = t
  <2> DEFINE S == {s \in Slots : bag[s].id = id}
  <2>1. IsFiniteSet(S)
    BY <1>1, FS_Subset
  <2>2. Cardinality(S) <= 1 <=> \A x, y \in S : x = y
    BY <2>1, AtMostOne
  <2> QED
    BY <2>2
<1>3. ASSUME NEW bag
      PROVE  Once(bag) <=> \A id \in Rare : Cardinality({s \in Slots : bag[s].id = id}) <= 1
  BY <1>2 DEF Once
<1> QED
  BY <1>3 DEF Singly

LEMMA UpdateItemOnce ==
    ASSUME NEW bag \in Bags, NEW s \in Slots, NEW delta \in Int, Once(bag)
    PROVE  Once(UpdateItem(bag, s, delta))
<1>1. NoOne \notin Rare
  BY TradeConstants DEF Ids
<1>2. PICK new : new = UpdateItem(bag, s, delta)
  OBVIOUS
<1>3. \A t \in Slots : new[t].id \in {bag[t].id, NoOne}
  BY <1>2, UpdateItemKeeps
<1>4. Once(new)
  BY <1>1, <1>3 DEF Once
<1> QED
  BY <1>2, <1>4

\* A free slot is a slot, not the gil's, and Min finds one.
LEMMA FreeSlotFound ==
    ASSUME NEW bag \in Bags, FreeSlots(bag) # {}
    PROVE  /\ Min(FreeSlots(bag)) \in Slots \ {0}
           /\ bag[Min(FreeSlots(bag))] = NoItem
<1>1. FreeSlots(bag) \in SUBSET Nat
  BY DEF FreeSlots
<1>2. Min(FreeSlots(bag)) \in FreeSlots(bag)
  BY <1>1, MinOfNaturals
<1> QED
  BY <1>2, TradeConstants DEF FreeSlots, Slots

\* An item comes into a free slot, or joins the gil, or is lost; a rare one
\* that is there already is lost.
LEMMA AddItemKeeps ==
    ASSUME NEW bag \in Bags, NEW item \in Items \cup Money
    PROVE  /\ AddItem(bag, item) \in Bags
           /\ Once(bag) => Once(AddItem(bag, item))
           /\ item.id # Gil =>
                 \A t \in Slots : bag[t] # NoItem => AddItem(bag, item)[t] = bag[t]
<1>0. PICK new : new = AddItem(bag, item)
  OBVIOUS
<1>1. CASE item.id = Gil
  <2>1. item.qty \in Int
    <3>1. NoItem.id # Gil
      BY TradeConstants DEF NoItem, Ids
    <3>2. item \in Money
      BY <1>1, <3>1, ItemKinds, TradeConstants DEF IsGood
    <3> QED
      BY <3>2, ItemKinds
  <2>2. 0 \in Slots
    BY TradeConstants DEF Slots
  <2>3. new = UpdateItem(bag, 0, item.qty)
    BY <1>0, <1>1 DEF AddItem
  <2> QED
    BY <1>0, <1>1, <2>1, <2>2, <2>3, UpdateItemKeeps, UpdateItemOnce
<1>2. CASE item.id # Gil
  <2>1. item \in Items
    BY <1>2, ItemKinds
  <2>2. CASE (item.id \in Rare /\ HasItem(bag, item.id)) \/ FreeSlots(bag) = {}
    BY <1>2, <2>2 DEF AddItem
  <2>3. CASE ~((item.id \in Rare /\ HasItem(bag, item.id)) \/ FreeSlots(bag) = {})
    <3> DEFINE f == Min(FreeSlots(bag))
    <3>1. f \in Slots \ {0} /\ bag[f] = NoItem
      BY <2>3, FreeSlotFound
    <3>2. new = [bag EXCEPT ![f] = item]
      BY <1>0, <1>2, <2>3 DEF AddItem
    <3> HIDE DEF f
    <3>3. new \in Bags /\ \A t \in Slots \ {f} : new[t] = bag[t]
      <4>1. item \in IF f = 0 THEN Money ELSE Items
        BY <2>1, <3>1
      <4>2. new \in Bags
        BY <3>1, <3>2, <4>1, BagExcept
      <4>3. \A t \in Slots \ {f} : new[t] = bag[t]
        BY <3>2, BagSlots
      <4> QED
        BY <4>2, <4>3
    <3>4. new[f] = item
      BY <3>1, <3>2, BagSlots
    <3>5. ASSUME Once(bag) PROVE Once(new)
      <4> SUFFICES ASSUME NEW id \in Rare, NEW s \in Slots, NEW t \in Slots,
                          new[s].id = id, new[t].id = id, s # t
                   PROVE  FALSE
        BY DEF Once
      <4>1. CASE s # f /\ t # f
        BY <3>3, <3>5, <4>1 DEF Once
      <4>2. CASE s = f \/ t = f
        <5>1. item.id = id /\ \E u \in Slots : bag[u].id = id
          BY <3>3, <3>4, <4>2
        <5> QED
          BY <2>3, <5>1 DEF HasItem
      <4> QED
        BY <4>1, <4>2
    <3> QED
      BY <1>0, <3>1, <3>3, <3>5
  <2> QED
    BY <2>2, <2>3
<1> QED
  BY <1>1, <1>2

LEMMA AddNewKeeps ==
    ASSUME NEW bag \in Bags, NEW id, NEW n \in Nat, n # 0 => id \in Ids
    PROVE  /\ AddNew(bag, id, n) \in Bags
           /\ Once(bag) => Once(AddNew(bag, id, n))
           /\ id # Gil => \A t \in Slots : bag[t] # NoItem => AddNew(bag, id, n)[t] = bag[t]
<1>1. CASE FreeSlots(bag) = {} \/ n = 0
  BY <1>1 DEF AddNew
<1>2. CASE ~(FreeSlots(bag) = {} \/ n = 0)
  <2>1. PICK item : item = [id |-> id, qty |-> Least(n, Stack[id]), reserve |-> 0]
    OBVIOUS
  <2>2. id \in Ids /\ Stack[id] \in Nat \ {0} /\ Least(n, Stack[id]) \in 1..Stack[id]
    BY <1>2, TradeConstants DEF Least
  <2>3. item \in Items \cup Money
    <3>1. CASE id = Gil
      BY <2>1, <2>2, <3>1 DEF Money
    <3>2. CASE id # Gil
      <4>1. IsGood(item)
        BY <2>1, <2>2, <3>2 DEF IsGood, Ids
      <4> QED
        BY <4>1, ItemKinds
    <3> QED
      BY <3>1, <3>2
  <2>4. AddNew(bag, id, n) = AddItem(bag, item) /\ item.id = id
    BY <1>2, <2>1 DEF AddNew
  <2> QED
    BY <2>3, <2>4, AddItemKeeps
<1> QED
  BY <1>1, <1>2

-----------------------------------------------------------------------------
(* The exchange: a loop over the places of the trade window.               *)

GoodBags == {bags \in [Players -> Bags] : Singly(bags)}

\* One slot changes hands.
LEMMA MoveSlotKeeps ==
    ASSUME NEW p \in Players, NEW q \in Players, NEW s \in Slots, NEW bags \in GoodBags
    PROVE  /\ MoveSlot(p, q, bags, s) \in GoodBags
           /\ \A r \in Players \ {p, q} : MoveSlot(p, q, bags, s)[r] = bags[r]
<1> DEFINE item == bags[p][s]
           taken == IF Stack[item.id] = 1 THEN AddItem(bags[q], item)
                    ELSE AddNew(bags[q], item.id, item.reserve)
<1>0. PICK mid : mid = [bags EXCEPT ![q] = taken]
  OBVIOUS
<1>1. bags \in [Players -> Bags] /\ \A r \in Players : Once(bags[r])
  BY SinglyIsOnce DEF GoodBags
<1>2. /\ item \in Items \cup Money /\ item.reserve \in Nat
      /\ item.reserve # 0 => item.id \in Ids
  BY <1>1, SlotFacts DEF NoItem
<1>3. taken \in Bags /\ Once(taken)
  BY <1>1, <1>2, AddItemKeeps, AddNewKeeps
<1> HIDE DEF taken
<1>4. mid \in [Players -> Bags] /\ (\A r \in Players : Once(mid[r]))
      /\ \A r \in Players \ {q} : mid[r] = bags[r]
  BY <1>0, <1>1, <1>3
<1>5. PICK given : given = UpdateItem(mid[p], s, -item.reserve)
  OBVIOUS
<1>6. given \in Bags /\ Once(given)
  <2>1. -item.reserve \in Int
    BY <1>2
  <2> QED
    BY <1>4, <1>5, <2>1, UpdateItemKeeps, UpdateItemOnce
<1>7. MoveSlot(p, q, bags, s) = [mid EXCEPT ![p] = given]
  BY <1>0, <1>5 DEF MoveSlot, taken
<1>8. PICK new : new = [mid EXCEPT ![p] = given]
  OBVIOUS
<1>9. new \in [Players -> Bags] /\ (\A r \in Players : Once(new[r]))
      /\ \A r \in Players \ {p, q} : new[r] = bags[r]
  BY <1>4, <1>6, <1>8
<1>10. new \in GoodBags
  BY <1>9, SinglyIsOnce DEF GoodBags
<1> QED
  BY <1>7, <1>8, <1>9, <1>10

\* DoTrade is a run of rounds: each moves one slot, or none.
LEMMA DoTradeRun ==
    ASSUME NEW p \in Players, NEW q \in Players, NEW bags \in GoodBags,
           cont[p] \in Containers
    PROVE  \E g : /\ g[0] = bags /\ DoTrade(p, q, bags) = g[TradeSlots]
                  /\ \A k \in 1 .. TradeSlots :
                        g[k] = IF cont[p].slot[k-1] = NoSlot THEN g[k-1]
                               ELSE MoveSlot(p, q, g[k-1], cont[p].slot[k-1])
                  /\ \A k \in 0 .. TradeSlots :
                        g[k] \in GoodBags /\ \A r \in Players \ {p, q} : g[k][r] = bags[r]
<1> DEFINE Sound == {b \in GoodBags : \A r \in Players \ {p, q} : b[r] = bags[r]}
           at == cont[p].slot
           Round(k, b) == IF at[k-1] = NoSlot THEN b ELSE MoveSlot(p, q, b, at[k-1])
           round == [x \in (1 .. TradeSlots) \X Sound |-> Round(x[1], x[2])]
           IsRun(f) == f = [k \in 0 .. TradeSlots |->
                              IF k = 0 THEN bags
                              ELSE IF cont[p].slot[k-1] = NoSlot THEN f[k-1]
                              ELSE MoveSlot(p, q, f[k-1], cont[p].slot[k-1])]
<1>1. TradeSlots \in Nat /\ bags \in Sound
  BY TradeConstants
<1>2. ASSUME NEW k \in 1 .. TradeSlots, NEW b \in Sound PROVE Round(k, b) \in Sound
  <2>1. k - 1 \in Window
    BY <1>1 DEF Window
  <2>2. at[k-1] \in Slots \cup {NoSlot}
    BY <2>1 DEF Containers
  <2>3. CASE at[k-1] = NoSlot
    BY <2>3
  <2>4. CASE at[k-1] # NoSlot
    <3>1. at[k-1] \in Slots
      BY <2>2, <2>4
    <3> HIDE DEF at
    <3>2. /\ MoveSlot(p, q, b, at[k-1]) \in GoodBags
          /\ \A r \in Players \ {p, q} : MoveSlot(p, q, b, at[k-1])[r] = b[r]
      BY <3>1, MoveSlotKeeps
    <3> QED
      BY <2>4, <3>2
  <2> QED
    BY <2>3, <2>4
<1>3. round \in [(1 .. TradeSlots) \X Sound -> Sound]
  <2> HIDE DEF Sound, Round
  <2> QED
    BY <1>2
<1>4. PICK f \in [0 .. TradeSlots -> Sound] :
         f[0] = bags /\ \A k \in 1 .. TradeSlots : f[k] = round[<<k, f[k-1]>>]
  <2>1. PICK S : S = Sound
    OBVIOUS
  <2>2. PICK r : r = round
    OBVIOUS
  <2>3. bags \in S /\ r \in [(1 .. TradeSlots) \X S -> S]
    BY <1>1, <1>3, <2>1, <2>2
  <2> HIDE DEF Sound, round
  <2>4. PICK f \in RunsOf(TradeSlots, S, bags, r) : TRUE
    BY <1>1, <2>3, RunExists
  <2> QED
    BY <2>1, <2>2, <2>4 DEF RunsOf
<1>5. \A k \in 1 .. TradeSlots : f[k] = Round(k, f[k-1])
  <2> TAKE k \in 1 .. TradeSlots
  <2>1. k - 1 \in 0 .. TradeSlots
    BY <1>1
  <2> HIDE DEF Sound, Round
  <2> QED
    BY <1>4, <2>1
<1>6. IsRun(f)
  <2>1. \A k \in 0 .. TradeSlots : k = 0 \/ k \in 1 .. TradeSlots
    BY <1>1
  <2> HIDE DEF Sound, round
  <2> QED
    BY <1>4, <1>5, <2>1
<1>7. PICK g : g = CHOOSE h : IsRun(h)
  OBVIOUS
<1>8. IsRun(g)
  <2> HIDE DEF IsRun
  <2> QED
    BY <1>6, <1>7
<1>9. DoTrade(p, q, bags) = g[TradeSlots]
  BY <1>7 DEF DoTrade
<1>10. g[0] = bags /\ \A k \in 1 .. TradeSlots : g[k] = Round(k, g[k-1])
  <2>1. 0 \in 0 .. TradeSlots /\ \A k \in 1 .. TradeSlots : k \in 0 .. TradeSlots /\ k # 0
    BY <1>1
  <2> QED
    BY <1>8, <2>1
<1>11. \A k \in 1 .. TradeSlots : g[k-1] \in Sound => g[k] \in Sound
  <2> HIDE DEF Sound, Round
  <2> QED
    BY <1>2, <1>10
<1>12. \A k \in 0 .. TradeSlots : g[k] \in Sound
  <2> HIDE DEF Sound
  <2> QED
    BY <1>1, <1>10, <1>11, KeptByRounds
<1>13. /\ \A k \in 1 .. TradeSlots :
             g[k] = IF cont[p].slot[k-1] = NoSlot THEN g[k-1]
                    ELSE MoveSlot(p, q, g[k-1], cont[p].slot[k-1])
       /\ \A k \in 0 .. TradeSlots :
             g[k] \in GoodBags /\ \A r \in Players \ {p, q} : g[k][r] = bags[r]
  BY <1>10, <1>12
<1> HIDE DEF IsRun, Round, Sound
<1> QED
  BY <1>9, <1>10, <1>13

\* The loop of an exchange keeps every inventory well formed and without a rare
\* item twice, and leaves the other players' inventories alone.
LEMMA DoTradeKeeps ==
    ASSUME NEW p \in Players, NEW q \in Players, NEW bags \in GoodBags,
           cont[p] \in Containers
    PROVE  /\ DoTrade(p, q, bags) \in GoodBags
           /\ \A r \in Players \ {p, q} : DoTrade(p, q, bags)[r] = bags[r]
<1>1. TradeSlots \in 0 .. TradeSlots
  BY TradeConstants
<1> QED
  BY <1>1, DoTradeRun

-----------------------------------------------------------------------------
(* What has been laid out: the window points at items that are there.      *)

\* OffersAreOwned for one player, with inventory bag and container c; and of
\* what is laid out some is offered.
Owned(bag, c) ==
    /\ \A t \in Filled(c) : /\ bag[c.slot[t]] # NoItem /\ bag[c.slot[t]].reserve > 0
                             /\ bag[c.slot[t]].reserve <= bag[c.slot[t]].qty
    /\ \A t, u \in Filled(c) : c.slot[t] = c.slot[u] => t = u

\* The inductive invariant: TypeOK, RareOnce and OffersAreOwned together, the
\* last two player by player.
TradeInv == TypeOK /\ \A p \in Players : Once(inv[p]) /\ Owned(inv[p], cont[p])

LEMMA NothingLaidOut == \A bag : Owned(bag, Empty)
BY DEF Owned, Filled, Empty

\* A container's type and lock do not say what is laid out.
LEMMA OwnedBySlots ==
    ASSUME NEW bag, NEW c, NEW d, d.slot = c.slot, Owned(bag, c)
    PROVE  Owned(bag, d)
BY DEF Owned, Filled

LEMMA TradeInvInit == Init => TradeInv
<1> SUFFICES ASSUME Init PROVE TradeInv
  OBVIOUS
<1>1. TypeOK
  BY StockAssumption, TradeConstants, EmptyTyped DEF Init, TypeOK
<1>2. \A p \in Players : Once(inv[p])
  BY StockAssumption, SinglyIsOnce DEF Init
<1>3. \A p \in Players : cont[p] = Empty
  BY DEF Init
<1>4. \A p \in Players : Once(inv[p]) /\ Owned(inv[p], cont[p])
  BY <1>2, <1>3, NothingLaidOut
<1> QED
  BY <1>1, <1>4 DEF TradeInv

\* Requests and comings and goings touch neither inventories nor containers.
LEMMA PacketsTouchNoGoods ==
    ASSUME TradeInv, NEW p \in Players, NEW q \in Players,
           Ask(p, q) \/ Leave(p) \/ Enter(p)
    PROVE  TradeInv'
<1>1. inv' = inv /\ cont' = cont
  BY DEF Ask, Leave, Enter
<1>2. TypeOK'
  BY TradeConstants DEF TradeInv, TypeOK, Ask, Leave, Enter
<1>3. \A r \in Players : Once(inv'[r]) /\ Owned(inv'[r], cont'[r])
  BY <1>1 DEF TradeInv
<1> QED
  BY <1>2, <1>3 DEF TradeInv

LEMMA AcceptGoods ==
    ASSUME TradeInv, NEW p \in Players, NEW q \in Players, NEW near \in BOOLEAN,
           Accept(p, q, near)
    PROVE  TradeInv'
<1>0. \A c \in Containers : Opened(c) \in Containers /\ Opened(c).slot = c.slot
  BY DEF Containers, Opened
<1>1. inv' = inv /\ here' = here /\ events' = events /\ strays' = strays
  BY DEF Accept
<1>2. cont \in [Players -> Containers] /\ pending \in [Players -> Players \cup {NoOne}]
  BY DEF TradeInv, TypeOK
<1>3. /\ cont' \in [Players -> Containers] /\ pending' \in [Players -> Players \cup {NoOne}]
      /\ \A r \in Players : cont'[r].slot = cont[r].slot
  BY <1>0, <1>2 DEF Accept
<1>4. TypeOK'
  BY <1>1, <1>3 DEF TradeInv, TypeOK
<1>5. \A r \in Players : Once(inv'[r]) /\ Owned(inv'[r], cont'[r])
  BY <1>1, <1>3, OwnedBySlots DEF TradeInv
<1> QED
  BY <1>4, <1>5 DEF TradeInv

\* A container that is cleaned offers nothing; the others are as they were.
LEMMA CleanedGoods ==
    ASSUME TradeInv, NEW S \in SUBSET Players, cont' = Cleaned(S),
           inv' \in GoodBags, \A r \in Players \ S : inv'[r] = inv[r], TypeOK'
    PROVE  TradeInv'
<1>1. \A r \in Players : cont'[r] = IF r \in S THEN Empty ELSE cont[r]
  BY DEF Cleaned
<1>2. \A r \in Players : Once(inv'[r])
  BY SinglyIsOnce DEF GoodBags
<1>3. \A r \in Players : Owned(inv'[r], cont'[r])
  BY <1>1, NothingLaidOut DEF TradeInv
<1> QED
  BY <1>2, <1>3 DEF TradeInv

LEMMA CancelGoods ==
    ASSUME TradeInv, NEW p \in Players, NEW q \in Players, Cancel(p, q)
    PROVE  TradeInv'
<1>1. PICK over : over = {r \in {p, q} : cont[r].type = "TRADE" /\ (r = q => pending[q] = p)}
  OBVIOUS
<1>2. /\ cont' = Cleaned(over) /\ strays' = strays \ over
      /\ pending' = [r \in Players |-> IF r = p \/ r \in over THEN NoOne ELSE pending[r]]
      /\ inv' = inv /\ here' = here /\ events' = events
  BY <1>1 DEF Cancel
<1>3. over \in SUBSET Players
  BY <1>1
<1>4. cont' \in [Players -> Containers]
  BY <1>2, EmptyTyped DEF Cleaned, TradeInv, TypeOK
<1>5. TypeOK'
  BY <1>2, <1>4 DEF TradeInv, TypeOK
<1>6. inv' \in GoodBags
  BY <1>2, SinglyIsOnce DEF GoodBags, TradeInv, TypeOK, RareOnce
<1> QED
  BY <1>2, <1>3, <1>5, <1>6, CleanedGoods

\* The exchange: the items of both windows move, then both windows are empty.
LEMMA ConfirmGoods ==
    ASSUME TradeInv, NEW p \in Players, NEW q \in Players, Confirm(p, q)
    PROVE  TradeInv'
<1>0. /\ inv \in [Players -> Bags] /\ cont \in [Players -> Containers]
      /\ pending \in [Players -> Players \cup {NoOne}] /\ strays \subseteq Players
      /\ inv \in GoodBags
  BY SinglyIsOnce DEF TradeInv, TypeOK, GoodBags
<1>1. here' = here /\ events' = events
  BY DEF Confirm
<1>2. CASE ~cont[q].lock
  <2>1. /\ cont' = [cont EXCEPT ![p] = [@ EXCEPT !.lock = TRUE]]
        /\ inv' = inv /\ pending' = pending /\ strays' = strays
    BY <1>2 DEF Confirm
  <2>2. [cont[p] EXCEPT !.lock = TRUE] \in Containers /\ [cont[p] EXCEPT !.lock = TRUE].slot = cont[p].slot
    BY <1>0 DEF Containers
  <2>3. cont' \in [Players -> Containers] /\ \A r \in Players : cont'[r].slot = cont[r].slot
    BY <1>0, <2>1, <2>2
  <2>4. TypeOK'
    BY <1>1, <2>1, <2>3 DEF TradeInv, TypeOK
  <2>5. \A r \in Players : Once(inv'[r]) /\ Owned(inv'[r], cont'[r])
    BY <2>1, <2>3, OwnedBySlots DEF TradeInv
  <2> QED
    BY <2>4, <2>5 DEF TradeInv
<1>3. CASE cont[q].lock
  <2>1. /\ cont' = Cleaned({p, q}) /\ strays' = strays \ {p, q}
        /\ pending' = [pending EXCEPT ![p] = NoOne, ![q] = NoOne]
        /\ inv' = IF CanTrade(p, q) /\ CanTrade(q, p)
                  THEN DoTrade(q, p, DoTrade(p, q, inv)) ELSE inv
    BY <1>3 DEF Confirm
  <2>2. PICK mid : mid = DoTrade(p, q, inv)
    OBVIOUS
  <2>3. mid \in GoodBags /\ \A r \in Players \ {p, q} : mid[r] = inv[r]
    BY <1>0, <2>2, DoTradeKeeps
  <2>4. /\ DoTrade(q, p, mid) \in GoodBags
        /\ \A r \in Players \ {p, q} : DoTrade(q, p, mid)[r] = mid[r]
    BY <1>0, <2>3, DoTradeKeeps
  <2>5. inv' \in GoodBags /\ \A r \in Players \ {p, q} : inv'[r] = inv[r]
    BY <1>0, <2>1, <2>2, <2>3, <2>4
  <2>6. cont' \in [Players -> Containers]
    BY <1>0, <2>1, EmptyTyped DEF Cleaned
  <2>7. TypeOK'
    BY <1>0, <1>1, <2>1, <2>5, <2>6 DEF TradeInv, TypeOK, GoodBags
  <2> QED
    BY <2>1, <2>5, <2>7, CleanedGoods
<1> QED
  BY <1>2, <1>3

\* Whatever comes, slots that are taken keep what is in them.
LEMMA ArriveGoods ==
    ASSUME TradeInv, NEW p \in Players, NEW id \in Finds, Arrive(p, id)
    PROVE  TradeInv'
<1>0. inv \in [Players -> Bags] /\ cont \in [Players -> Containers] /\ events \in 0..MaxEvents
  BY DEF TradeInv, TypeOK
<1>1. PICK new : new = AddNew(inv[p], id, 1)
  OBVIOUS
<1>2. /\ inv' = [inv EXCEPT ![p] = new] /\ pending' = pending /\ cont' = cont
      /\ here' = here /\ strays' = strays /\ events' \in 0..MaxEvents
  BY <1>0, <1>1, TradeConstants DEF Arrive
<1>3. id \in Ids /\ id # Gil
  BY TradeConstants DEF Ids
<1>4. new \in Bags /\ Once(new) /\ \A t \in Slots : inv[p][t] # NoItem => new[t] = inv[p][t]
  BY <1>0, <1>1, <1>3, AddNewKeeps DEF TradeInv
<1>5. TypeOK'
  BY <1>0, <1>2, <1>4 DEF TradeInv, TypeOK
<1>6. \A r \in Players : Once(inv'[r])
  BY <1>0, <1>2, <1>4 DEF TradeInv
<1>7. Owned(new, cont[p])
  <2>1. Owned(inv[p], cont[p])
    BY DEF TradeInv
  <2>2. \A t \in Filled(cont[p]) : cont[p].slot[t] \in Slots
    BY <1>0 DEF Filled, Containers
  <2> QED
    BY <1>4, <2>1, <2>2 DEF Owned
<1>8. \A r \in Players : Owned(inv'[r], cont'[r])
  BY <1>0, <1>2, <1>7 DEF TradeInv
<1> QED
  BY <1>5, <1>6, <1>8 DEF TradeInv

\* An item is laid out that is there, in a place of its own, and no more of it
\* than there is.
LEMMA LayGoods ==
    ASSUME TradeInv, NEW p \in Players, NEW q \in Players, NEW s \in Slots, NEW t \in Window,
           NEW n \in 0..inv[p][s].qty, Lay(p, q, n, s, t)
    PROVE  TradeInv'
<1>0. inv \in [Players -> Bags] /\ cont \in [Players -> Containers]
  BY DEF TradeInv, TypeOK
<1>1. PICK bag, c : bag = inv[p] /\ c = cont[p]
  OBVIOUS
<1>2. /\ bag \in Bags /\ c \in Containers /\ Once(bag) /\ Owned(bag, c)
      /\ bag[s] # NoItem /\ ~c.lock
      /\ IF n = 0 THEN c.slot[t] = s ELSE s \notin {c.slot[u] : u \in Window \ {t}}
  BY <1>0, <1>1 DEF TradeInv, Lay
<1>3. PICK x : x = [bag[s] EXCEPT !.reserve = Least(n, bag[s].qty)]
  OBVIOUS
<1>4. PICK new : new = [bag EXCEPT ![s] = x]
  OBVIOUS
<1>5. PICK d : d = SetItem(c, t, IF n > 0 THEN s ELSE NoSlot)
  OBVIOUS
<1>6. /\ inv' = [inv EXCEPT ![p] = new] /\ cont' = [cont EXCEPT ![p] = d]
      /\ pending' = pending /\ here' = here /\ events' = events /\ strays' = strays
  <2>1. /\ pending' = pending /\ here' = here /\ events' = events /\ strays' = strays
        /\ PutItem(p, n, s, t)
    BY DEF Lay
  <2>2. inv' = [inv EXCEPT ![p] = [inv[p] EXCEPT ![s] =
                   [inv[p][s] EXCEPT !.reserve = Least(n, inv[p][s].qty)]]]
    BY <2>1 DEF PutItem
  <2>3. cont' = [cont EXCEPT ![p] = SetItem(cont[p], t, IF n > 0 THEN s ELSE NoSlot)]
    BY <2>1 DEF PutItem
  <2>4. inv' = [inv EXCEPT ![p] = new]
    BY <1>1, <1>3, <1>4, <2>2
  <2>5. cont' = [cont EXCEPT ![p] = d]
    BY <1>1, <1>5, <2>3
  <2> QED
    BY <2>1, <2>4, <2>5
<1>7. /\ bag[s].id \in Ids /\ bag[s].qty \in 0..Stack[bag[s].id] /\ Stack[bag[s].id] \in Nat
      /\ bag[s] \in Items \cup Money
  BY <1>2, SlotFacts, TradeConstants
<1>8. Least(n, bag[s].qty) = n
  BY <1>1, <1>7 DEF Least
<1>9. /\ x \in IF s = 0 THEN Money ELSE Items
      /\ x # NoItem /\ x.id = bag[s].id /\ x.qty = bag[s].qty /\ x.reserve = n
  <2>1. CASE s = 0
    <3>1. bag[s] \in Money
      BY <1>2, <2>1, BagSlots
    <3>2. x \in Money /\ x.id = bag[s].id /\ x.qty = bag[s].qty /\ x.reserve = n
      BY <1>1, <1>3, <1>7, <1>8, <3>1, ItemKinds DEF Money
    <3> QED
      BY <2>1, <3>2, ItemKinds
  <2>2. CASE s # 0
    <3>1. IsGood(bag[s])
      BY <1>2, <2>2, BagSlots
    <3>2. IsGood(x) /\ x.id = bag[s].id /\ x.qty = bag[s].qty /\ x.reserve = n
      BY <1>1, <1>3, <1>7, <1>8, <3>1 DEF IsGood
    <3>3. x \in Items /\ x # NoItem
      BY <3>2, ItemKinds DEF IsGood, NoItem
    <3> QED
      BY <2>2, <3>2, <3>3
  <2> QED
    BY <2>1, <2>2
<1>10. new \in Bags
  BY <1>2, <1>4, <1>9, BagExcept
<1>11. new[s] = x /\ \A u \in Slots \ {s} : new[u] = bag[u]
  BY <1>2, <1>4, BagSlots
<1>12. Once(new)
  <2>1. \A u \in Slots : new[u].id = bag[u].id
    BY <1>9, <1>11
  <2> QED
    BY <1>2, <2>1 DEF Once
<1>13. /\ d \in Containers /\ d.slot[t] = (IF n > 0 THEN s ELSE NoSlot)
       /\ \A u \in Window \ {t} : d.slot[u] = c.slot[u]
  <2>1. c.slot \in [Window -> Slots \cup {NoSlot}]
    BY <1>2 DEF Containers
  <2>2. d = [c EXCEPT !.slot = [@ EXCEPT ![t] = IF n > 0 THEN s ELSE NoSlot]]
    BY <1>2, <1>5 DEF SetItem
  <2> QED
    BY <1>2, <2>1, <2>2 DEF Containers
<1>14. Owned(new, d)
  <2>0. n \in Nat /\ n <= x.qty
    BY <1>1, <1>7, <1>9
  <2>1. NoSlot \notin Slots
    BY DEF NoSlot, Slots
  <2>2. \A u \in Filled(d) \ {t} : u \in Filled(c) /\ d.slot[u] = c.slot[u] /\ c.slot[u] \in Slots
    BY <1>2, <1>13 DEF Filled, Containers
  <2>3. t \in Filled(d) => n > 0 /\ d.slot[t] = s
    BY <1>13, <2>1 DEF Filled
  <2>4. \A u \in Filled(d) : /\ new[d.slot[u]] # NoItem /\ new[d.slot[u]].reserve > 0
                             /\ new[d.slot[u]].reserve <= new[d.slot[u]].qty
    <3>1. new[s] # NoItem /\ new[s].reserve = n /\ n <= new[s].qty
      BY <1>9, <1>11, <2>0
    <3>2. \A u \in Filled(d) \ {t} : /\ bag[d.slot[u]] # NoItem /\ bag[d.slot[u]].reserve > 0
                                     /\ bag[d.slot[u]].reserve <= bag[d.slot[u]].qty
      BY <1>2, <2>2 DEF Owned
    <3>3. t \in Filled(d) => /\ new[d.slot[t]] # NoItem /\ new[d.slot[t]].reserve > 0
                             /\ new[d.slot[t]].reserve <= new[d.slot[t]].qty
      BY <2>0, <2>3, <3>1
    <3>4. \A u \in Filled(d) \ {t} : new[d.slot[u]] = bag[d.slot[u]]
      <4>1. ASSUME NEW u \in Filled(d) \ {t} PROVE d.slot[u] \in Slots \ {s}
        <5>1. u \in Filled(c) /\ u \in Window \ {t} /\ d.slot[u] = c.slot[u] /\ c.slot[u] \in Slots
          BY <2>2 DEF Filled
        <5>2. c.slot[u] # s
          <6>1. CASE n = 0
            <7>1. t \in Filled(c) /\ c.slot[t] = s
              BY <1>2, <2>1, <6>1 DEF Filled
            <7> QED
              BY <1>2, <5>1, <7>1 DEF Owned
          <6>2. CASE n # 0
            BY <1>2, <5>1, <6>2
          <6> QED
            BY <6>1, <6>2
        <5> QED
          BY <5>1, <5>2
      <4> QED
        BY <1>11, <4>1
    <3> QED
      BY <3>2, <3>3, <3>4
  <2>5. ASSUME NEW u \in Filled(d), NEW w \in Filled(d), d.slot[u] = d.slot[w], u # w
        PROVE  FALSE
    <3>1. CASE u # t /\ w # t
      BY <1>2, <2>2, <2>5, <3>1 DEF Owned
    <3>2. CASE u = t \/ w = t
      <4>1. PICK v \in Filled(d) \ {t} : d.slot[v] = s /\ n > 0
        BY <2>3, <2>5, <3>2
      <4>2. c.slot[v] = s /\ v \in Window \ {t}
        BY <2>2, <4>1 DEF Filled
      <4> QED
        BY <1>2, <2>0, <4>1, <4>2
    <3> QED
      BY <3>1, <3>2
  <2> QED
    BY <2>4, <2>5 DEF Owned
<1>15. inv' \in [Players -> Bags] /\ cont' \in [Players -> Containers]
  BY <1>0, <1>6, <1>10, <1>13
<1>16. TypeOK'
  BY <1>6, <1>15 DEF TradeInv, TypeOK
<1>17. \A r \in Players : Once(inv'[r]) /\ Owned(inv'[r], cont'[r])
  BY <1>0, <1>6, <1>12, <1>14 DEF TradeInv
<1> QED
  BY <1>16, <1>17 DEF TradeInv

LEMMA TradeInvNext == TradeInv /\ [Next]_vars => TradeInv'
<1> SUFFICES ASSUME TradeInv, [Next]_vars PROVE TradeInv'
  OBVIOUS
<1>1. CASE UNCHANGED vars
  BY <1>1 DEF vars, TradeInv, TypeOK
<1>2. ASSUME NEW p \in Players, Leave(p) \/ Enter(p)
      PROVE  TradeInv'
  BY <1>2, PacketsTouchNoGoods
<1>3. ASSUME NEW p \in Players, NEW id \in Finds, Arrive(p, id)
      PROVE  TradeInv'
  BY <1>3, ArriveGoods
<1>4. ASSUME NEW p \in Players, NEW q \in Players,
             Ask(p, q) \/ Cancel(p, q) \/ Confirm(p, q) \/ \E near \in BOOLEAN : Accept(p, q, near)
      PROVE  TradeInv'
  BY <1>4, PacketsTouchNoGoods, CancelGoods, ConfirmGoods, AcceptGoods
<1>5. ASSUME NEW p \in Players, NEW q \in Players, NEW s \in Slots, NEW t \in Window,
             NEW n \in 0..inv[p][s].qty, Lay(p, q, n, s, t)
      PROVE  TradeInv'
  BY <1>5, LayGoods
<1> QED
  BY <1>1, <1>2, <1>3, <1>4, <1>5 DEF Next

LEMMA TradeInvImplies == TradeInv => TypeOK /\ RareOnce /\ OffersAreOwned
BY SinglyIsOnce DEF TradeInv, RareOnce, OffersAreOwned, Owned

\* Every slot of every inventory holds what belongs there, in every state: goods
\* in stacks of at most their size, the gil in slot 0, and the trade windows
\* point at slots.
THEOREM TradeTypeCorrect == Spec => []TypeOK
BY TradeInvInit, TradeInvNext, TradeInvImplies, PTL DEF Spec

\* RareOnce holds for any players and stock: no exchange and no arrival gives a
\* character a second rare item, although CanTrade is asked once, before both
\* halves of the exchange, and a rare item may arrive while a trade is open.
THEOREM RareItemsOnce == Spec => []RareOnce
BY TradeInvInit, TradeInvNext, TradeInvImplies, PTL DEF Spec

\* OffersAreOwned holds for windows and inventories of any size: what a player
\* has laid out is still there, no slot is laid out twice and no more of a stack
\* than it holds, whatever the player's other trades and finds did meanwhile.
THEOREM OffersStayOwned == Spec => []OffersAreOwned
BY TradeInvInit, TradeInvNext, TradeInvImplies, PTL DEF Spec

-----------------------------------------------------------------------------
(* Sums over the slots of an inventory and the places of a window.         *)

\* a[k] is the sum of the first numbers of f, up to f[k].
IsSum(f, n, a) == /\ a[0] = f[0] /\ \A k \in 1 .. n : a[k] = f[k] + a[k - 1]
                  /\ \A k \in 0 .. n : a[k] \in Int

LEMMA TotalSums ==
    ASSUME NEW n \in Nat, NEW f, \A k \in 0 .. n : f[k] \in Int
    PROVE  \E a : IsSum(f, n, a) /\ Total(f, n) = a[n]
<1> DEFINE round == [x \in (1 .. n) \X Int |-> f[x[1]] + x[2]]
           IsRun(g) == g = [k \in 0 .. n |-> IF k = 0 THEN f[0] ELSE f[k] + g[k - 1]]
<1>1. f[0] \in Int /\ \A k \in 1 .. n : f[k] \in Int /\ k - 1 \in 0 .. n /\ k \in 0 .. n /\ k # 0
  OBVIOUS
<1>2. PICK g \in [0 .. n -> Int] : g[0] = f[0] /\ \A k \in 1 .. n : g[k] = f[k] + g[k - 1]
  <2>1. PICK r : r = round
    OBVIOUS
  <2>2. PICK S : S = Int
    OBVIOUS
  <2>3. PICK g \in RunsOf(n, S, f[0], r) : TRUE
    <3>1. r \in [(1 .. n) \X S -> S] /\ f[0] \in S
      BY <1>1, <2>1, <2>2
    <3> QED
      BY <3>1, RunExists
  <2> QED
    BY <1>1, <2>1, <2>2, <2>3 DEF RunsOf
<1>3. IsRun(g)
  <2>1. \A k \in 0 .. n : k = 0 \/ k \in 1 .. n
    OBVIOUS
  <2> QED
    BY <1>2, <2>1
<1>4. PICK a : a = CHOOSE h : IsRun(h)
  OBVIOUS
<1>5. IsRun(a)
  <2> HIDE DEF IsRun
  <2> QED
    BY <1>3, <1>4
<1>6. Total(f, n) = a[n]
  BY <1>4 DEF Total
<1>7. a[0] = f[0] /\ \A k \in 1 .. n : a[k] = f[k] + a[k - 1]
  <2>1. 0 \in 0 .. n
    OBVIOUS
  <2> QED
    BY <1>1, <1>5, <2>1
<1> HIDE DEF IsRun
<1>8. \A k \in 0 .. n : a[k] \in Int
  <2>1. PICK S : S = Int
    OBVIOUS
  <2>2. a[0] \in S
    BY <1>1, <1>7, <2>1
  <2>4. ASSUME NEW k \in 1 .. n, a[k-1] \in S PROVE a[k] \in S
    <3>1. f[k] \in Int /\ a[k-1] \in Int
      BY <1>1, <2>1, <2>4
    <3>2. a[k] = f[k] + a[k - 1]
      BY <1>7
    <3> QED
      BY <2>1, <3>1, <3>2
  <2>3. \A k \in 0 .. n : a[k] \in S
    BY <2>2, <2>4, KeptByRounds
  <2> QED
    BY <2>1, <2>3
<1> QED
  BY <1>6, <1>7, <1>8 DEF IsSum

\* Sums of the same numbers are the same.
LEMMA SumsAgree ==
    ASSUME NEW n \in Nat, NEW f, NEW g, NEW a, NEW b, IsSum(f, n, a), IsSum(g, n, b),
           \A k \in 0 .. n : f[k] = g[k]
    PROVE  \A k \in 0 .. n : a[k] = b[k]
<1> DEFINE d == [k \in 0 .. n |-> a[k] - b[k]]
<1>1. \A k \in 0 .. n : a[k] \in Int /\ b[k] \in Int
  BY DEF IsSum
<1>2. 0 \in 0 .. n /\ \A k \in 1 .. n : k - 1 \in 0 .. n /\ k \in 0 .. n
  OBVIOUS
<1>3. d[0] = 0
  BY <1>1, <1>2 DEF IsSum
<1>4. ASSUME NEW k \in 1 .. n, d[k-1] = 0 PROVE d[k] = 0
  <2>1. a[k-1] = b[k-1]
    BY <1>1, <1>2, <1>4
  <2>2. a[k] = b[k]
    BY <1>2, <2>1 DEF IsSum
  <2> QED
    BY <1>1, <1>2, <2>2
<1> HIDE DEF d
<1>5. PICK S : S = {0}
  OBVIOUS
<1>6. d[0] \in S /\ \A k \in 1 .. n : d[k-1] \in S => d[k] \in S
  BY <1>3, <1>4, <1>5
<1>7. \A k \in 0 .. n : d[k] \in S
  BY <1>6, KeptByRounds
<1>8. \A k \in 0 .. n : d[k] = 0
  BY <1>5, <1>7
<1> QED
  BY <1>1, <1>8 DEF d

LEMMA TotalType ==
    ASSUME NEW n \in Nat, NEW f, \A k \in 0 .. n : f[k] \in Int
    PROVE  Total(f, n) \in Int
BY TotalSums DEF IsSum

LEMMA TotalSame ==
    ASSUME NEW n \in Nat, NEW f, NEW g, \A k \in 0 .. n : f[k] \in Int /\ f[k] = g[k]
    PROVE  Total(f, n) = Total(g, n)
<1>1. \A k \in 0 .. n : g[k] \in Int
  OBVIOUS
<1>2. PICK a : IsSum(f, n, a) /\ Total(f, n) = a[n]
  BY TotalSums
<1>3. PICK b : IsSum(g, n, b) /\ Total(g, n) = b[n]
  BY <1>1, TotalSums
<1> QED
  BY <1>2, <1>3, SumsAgree

\* One number more.
LEMMA TotalNext ==
    ASSUME NEW n \in Nat, NEW f, \A k \in 0 .. n : f[k] \in Int
    PROVE  /\ Total(f, 0) = f[0]
           /\ n # 0 => Total(f, n) = f[n] + Total(f, n - 1)
<1>1. Total(f, 0) = f[0]
  <2>1. \A k \in 0 .. 0 : f[k] \in Int
    OBVIOUS
  <2>2. PICK a : IsSum(f, 0, a) /\ Total(f, 0) = a[0]
    BY <2>1, TotalSums
  <2> QED
    BY <2>2 DEF IsSum
<1>2. ASSUME n # 0 PROVE Total(f, n) = f[n] + Total(f, n - 1)
  <2>0. PICK m \in Nat : m = n - 1
    BY <1>2
  <2>1. PICK a : IsSum(f, n, a) /\ Total(f, n) = a[n]
    BY TotalSums
  <2>2. \A k \in 0 .. m : f[k] \in Int
    BY <2>0
  <2>3. PICK b : IsSum(f, m, b) /\ Total(f, m) = b[m]
    BY <2>2, TotalSums
  <2>4. IsSum(f, m, a)
    <3>1. \A k \in 1 .. m : k \in 1 .. n
      BY <2>0
    <3>2. \A k \in 0 .. m : k \in 0 .. n
      BY <2>0
    <3> QED
      BY <2>1, <3>1, <3>2 DEF IsSum
  <2>5. a[m] = b[m]
    BY <2>3, <2>4, SumsAgree
  <2>6. a[n] = f[n] + a[n - 1]
    BY <1>2, <2>1 DEF IsSum
  <2> QED
    BY <2>0, <2>1, <2>3, <2>5, <2>6
<1> QED
  BY <1>1, <1>2

\* Where one number changes, the sum changes by as much.
LEMMA TotalChange ==
    ASSUME NEW n \in Nat, NEW f, NEW g, NEW s \in 0 .. n,
           \A k \in 0 .. n : f[k] \in Int /\ g[k] \in Int,
           \A k \in (0 .. n) \ {s} : g[k] = f[k]
    PROVE  Total(g, n) = Total(f, n) - f[s] + g[s]
<1>1. PICK a : IsSum(f, n, a) /\ Total(f, n) = a[n]
  BY TotalSums
<1>2. PICK b : IsSum(g, n, b) /\ Total(g, n) = b[n]
  BY TotalSums
<1> DEFINE Extra(k) == IF k < s THEN 0 ELSE g[s] - f[s]
           d == [k \in 0 .. n |-> b[k] - a[k] - Extra(k)]
<1>3. \A k \in 0 .. n : a[k] \in Int /\ b[k] \in Int /\ Extra(k) \in Int
  BY <1>1, <1>2 DEF IsSum
<1>4. 0 \in 0 .. n /\ \A k \in 1 .. n : k - 1 \in 0 .. n /\ k \in 0 .. n
  OBVIOUS
<1>5. d[0] = 0
  <2>1. a[0] = f[0] /\ b[0] = g[0]
    BY <1>1, <1>2 DEF IsSum
  <2>2. CASE s = 0
    BY <1>3, <1>4, <2>1, <2>2
  <2>3. CASE s # 0
    BY <1>3, <1>4, <2>1, <2>3
  <2> QED
    BY <2>2, <2>3
<1>6. ASSUME NEW k \in 1 .. n, d[k-1] = 0 PROVE d[k] = 0
  <2>1. b[k-1] - a[k-1] = Extra(k-1)
    BY <1>3, <1>4, <1>6
  <2>2. a[k] = f[k] + a[k-1] /\ b[k] = g[k] + b[k-1]
    BY <1>1, <1>2 DEF IsSum
  <2>3. g[k] - f[k] = Extra(k) - Extra(k-1)
    <3>1. CASE k = s
      BY <1>4, <3>1
    <3>2. CASE k # s
      <4>1. g[k] = f[k] /\ (k < s <=> k - 1 < s)
        BY <1>4, <3>2
      <4> QED
        BY <1>3, <1>4, <4>1
    <3> QED
      BY <3>1, <3>2
  <2>4. f[k] \in Int /\ g[k] \in Int
    BY <1>4
  <2>5. b[k] - a[k] = Extra(k)
    <3> HIDE DEF Extra
    <3> QED
      BY <1>3, <1>4, <2>1, <2>2, <2>3, <2>4
  <2> QED
    BY <1>3, <1>4, <2>5
<1> HIDE DEF d
<1>7. PICK S : S = {0}
  OBVIOUS
<1>8. d[0] \in S /\ \A k \in 1 .. n : d[k-1] \in S => d[k] \in S
  BY <1>5, <1>6, <1>7
<1>9. \A k \in 0 .. n : d[k] \in S
  BY <1>8, KeptByRounds
<1>10. d[n] = 0 /\ n \in 0 .. n /\ ~(n < s)
  BY <1>7, <1>9
<1>11. b[n] - a[n] = g[s] - f[s]
  BY <1>3, <1>10 DEF d
<1> QED
  BY <1>1, <1>2, <1>3, <1>10, <1>11

\* Natural numbers have a natural sum, no less than the first of them, and equal to it
\* where the others are 0.
LEMMA TotalNat ==
    ASSUME NEW n \in Nat, NEW f, \A k \in 0 .. n : f[k] \in Nat
    PROVE  /\ Total(f, n) \in Nat
           /\ (\A k \in 1 .. n : f[k] = 0) => Total(f, n) = f[0]
<1>1. PICK a : IsSum(f, n, a) /\ Total(f, n) = a[n]
  BY TotalSums
<1>2. 0 \in 0 .. n /\ n \in 0 .. n /\ \A k \in 1 .. n : k - 1 \in 0 .. n /\ k \in 0 .. n
  OBVIOUS
<1>3. a[n] \in Nat
  <2>1. PICK S : S = Nat
    OBVIOUS
  <2>2. a[0] \in S /\ \A k \in 1 .. n : a[k-1] \in S => a[k] \in S
    BY <1>1, <1>2, <2>1 DEF IsSum
  <2>3. \A k \in 0 .. n : a[k] \in S
    BY <2>2, KeptByRounds
  <2> QED
    BY <1>2, <2>1, <2>3
<1>4. ASSUME \A k \in 1 .. n : f[k] = 0 PROVE a[n] = f[0]
  <2>1. PICK S : S = {f[0]}
    OBVIOUS
  <2>2. a[0] \in S /\ \A k \in 1 .. n : a[k-1] \in S => a[k] \in S
    BY <1>1, <1>2, <1>4, <2>1 DEF IsSum
  <2>3. \A k \in 0 .. n : a[k] \in S
    BY <2>2, KeptByRounds
  <2> QED
    BY <1>2, <2>1, <2>3
<1> QED
  BY <1>1, <1>3, <1>4

Worth(item, id) == IF item.id = id THEN item.qty ELSE 0
HeldIn(bag, id) == Total([s \in Slots |-> Worth(bag[s], id)], Size)

LEMMA WorthType ==
    ASSUME NEW bag \in Bags, NEW s \in Slots, NEW id
    PROVE  Worth(bag[s], id) \in Nat
BY SlotFacts DEF Worth

\* What a bag holds is a number; its gil is in slot 0.
LEMMA HeldType ==
    ASSUME NEW bag \in Bags
    PROVE  (\A id : HeldIn(bag, id) \in Nat) /\ HeldIn(bag, Gil) = bag[0].qty
<1>1. Slots = 0 .. Size /\ Size \in Nat /\ 0 \in Slots
  BY TradeConstants DEF Slots
<1>2. ASSUME NEW id PROVE HeldIn(bag, id) \in Nat
  <2>1. PICK f : f = [s \in Slots |-> Worth(bag[s], id)]
    OBVIOUS
  <2>2. \A k \in 0 .. Size : f[k] \in Nat
    BY <1>1, <2>1, WorthType
  <2> QED
    BY <1>1, <2>1, <2>2, TotalNat DEF HeldIn
<1>3. HeldIn(bag, Gil) = bag[0].qty
  <2>1. PICK f : f = [s \in Slots |-> Worth(bag[s], Gil)]
    OBVIOUS
  <2>2. \A k \in 0 .. Size : f[k] \in Nat
    BY <1>1, <2>1, WorthType
  <2>3. \A k \in 1 .. Size : f[k] = 0
    <3> TAKE k \in 1 .. Size
    <3>1. k \in Slots \ {0}
      BY <1>1
    <3>2. bag[k] = NoItem \/ bag[k].id # Gil
      BY <3>1, SlotFacts
    <3>3. NoItem.id # Gil
      BY TradeConstants DEF NoItem, Ids
    <3> QED
      BY <2>1, <3>1, <3>2, <3>3 DEF Worth
  <2>4. f[0] = bag[0].qty
    BY <1>1, <2>1, BagSlots DEF Worth
  <2> QED
    BY <1>1, <2>1, <2>2, <2>3, <2>4, TotalNat DEF HeldIn
<1> QED
  BY <1>2, <1>3

\* Where one slot changes, what is held changes by as much.
LEMMA HeldChange ==
    ASSUME NEW bag \in Bags, NEW new \in Bags, NEW s \in Slots, NEW id,
           \A t \in Slots \ {s} : new[t] = bag[t]
    PROVE  HeldIn(new, id) = HeldIn(bag, id) - Worth(bag[s], id) + Worth(new[s], id)
<1>1. PICK n \in Nat : n = Size /\ Slots = 0 .. n
  BY TradeConstants DEF Slots
<1>2. PICK f, g : f = [t \in Slots |-> Worth(bag[t], id)] /\ g = [t \in Slots |-> Worth(new[t], id)]
  OBVIOUS
<1>3. \A k \in 0 .. n : f[k] \in Int /\ g[k] \in Int
  <2> TAKE k \in 0 .. n
  <2>1. f[k] = Worth(bag[k], id) /\ g[k] = Worth(new[k], id) /\ k \in Slots
    BY <1>1, <1>2
  <2>2. Worth(bag[k], id) \in Nat /\ Worth(new[k], id) \in Nat
    BY <2>1, WorthType
  <2> QED
    BY <2>1, <2>2
<1>4. \A k \in (0 .. n) \ {s} : g[k] = f[k]
  BY <1>1, <1>2
<1>5. f[s] = Worth(bag[s], id) /\ g[s] = Worth(new[s], id)
  BY <1>2
<1>6. s \in 0 .. n
  BY <1>1
<1>7. Total(g, n) = Total(f, n) - f[s] + g[s]
  BY <1>3, <1>4, <1>6, TotalChange
<1> QED
  BY <1>1, <1>2, <1>5, <1>7 DEF HeldIn

\* Part of what is in a slot is taken out of it.
LEMMA TakenOut ==
    ASSUME NEW bag \in Bags, NEW s \in Slots, bag[s] # NoItem, NEW n \in 1 .. bag[s].qty,
           NEW new, new = UpdateItem(bag, s, -n)
    PROVE  /\ new \in Bags /\ \A t \in Slots \ {s} : new[t] = bag[t]
           /\ \A id : HeldIn(new, id) = HeldIn(bag, id) - (IF bag[s].id = id THEN n ELSE 0)
           /\ FreeSlots(bag) \subseteq FreeSlots(new)
           /\ \A id \in Rare : HasItem(new, id) => HasItem(bag, id)
<1>1. bag[s].id \in Ids /\ bag[s].qty \in 0..Stack[bag[s].id] /\ Stack[bag[s].id] \in Nat
      /\ bag[s].qty \in Nat /\ (bag[s].id = Gil <=> s = 0)
  BY SlotFacts, TradeConstants
<1>2. PICK left \in Nat : left = bag[s].qty - n
  BY <1>1
<1>3. Least(bag[s].qty + -n, Stack[bag[s].id]) = left /\ ~(bag[s].qty + -n < 0)
  BY <1>1, <1>2 DEF Least
<1>4. /\ new \in Bags /\ (\A t \in Slots \ {s} : new[t] = bag[t])
      /\ new[s].id \in {bag[s].id, NoOne}
  <2>1. -n \in Int
    BY <1>1
  <2> QED
    BY <2>1, UpdateItemKeeps
<1>5. NoOne \notin Ids /\ Rare \subseteq Ids
  BY TradeConstants DEF Ids
<1>6. ASSUME NEW id PROVE Worth(new[s], id) = Worth(bag[s], id) - (IF bag[s].id = id THEN n ELSE 0)
  <2>0. bag \in [Slots -> Items \cup Money]
    BY BagSlots
  <2>1. CASE left > 0 \/ bag[s].id = Gil
    <3>1. new = [bag EXCEPT ![s] = [bag[s] EXCEPT !.qty = left]]
      BY <1>3, <2>1 DEF UpdateItem
    <3>2. bag[s] = [id |-> bag[s].id, qty |-> bag[s].qty, reserve |-> bag[s].reserve]
      <4>1. CASE s = 0
        BY <4>1, BagSlots DEF Money
      <4>2. CASE s # 0
        BY <4>2, BagSlots DEF IsGood
      <4> QED
        BY <4>1, <4>2
    <3>3. [bag[s] EXCEPT !.qty = left].id = bag[s].id /\ [bag[s] EXCEPT !.qty = left].qty = left
      BY <3>2
    <3>4. new[s].id = bag[s].id /\ new[s].qty = left
      BY <2>0, <3>1, <3>3
    <3> QED
      BY <1>1, <1>2, <3>4 DEF Worth
  <2>2. CASE ~(left > 0 \/ bag[s].id = Gil)
    <3>1. new = [bag EXCEPT ![s] = NoItem] /\ left = 0
      BY <1>2, <1>3, <2>2 DEF UpdateItem
    <3>2. new[s] = NoItem /\ NoItem.qty = 0
      BY <2>0, <3>1 DEF NoItem
    <3> QED
      BY <1>1, <1>2, <3>1, <3>2 DEF Worth
  <2> QED
    BY <2>1, <2>2
<1>7. ASSUME NEW id PROVE HeldIn(new, id) = HeldIn(bag, id) - (IF bag[s].id = id THEN n ELSE 0)
  <2>1. HeldIn(new, id) = HeldIn(bag, id) - Worth(bag[s], id) + Worth(new[s], id)
    BY <1>4, HeldChange
  <2>2. HeldIn(bag, id) \in Nat /\ Worth(bag[s], id) \in Nat /\ n \in Int
    BY <1>1, HeldType, WorthType
  <2> QED
    BY <1>6, <2>1, <2>2
<1>8. FreeSlots(bag) \subseteq FreeSlots(new)
  <2>1. \A t \in FreeSlots(bag) : t \in Slots \ {s}
    BY TradeConstants DEF FreeSlots, Slots
  <2> QED
    BY <1>4, <2>1 DEF FreeSlots
<1>9. \A id \in Rare : HasItem(new, id) => HasItem(bag, id)
  BY <1>4, <1>5 DEF HasItem
<1> QED
  BY <1>4, <1>7, <1>8, <1>9

\* Gil joins the gil, as far as the stack goes.
LEMMA GilJoins ==
    ASSUME NEW bag \in Bags, NEW n \in Nat, NEW new, new = UpdateItem(bag, 0, n)
    PROVE  /\ new \in Bags /\ \A t \in Slots \ {0} : new[t] = bag[t]
           /\ new[0].id = Gil /\ new[0].reserve = bag[0].reserve
           /\ new[0].qty = Least(bag[0].qty + n, Stack[Gil])
           /\ bag[0].qty <= new[0].qty
<1>1. 0 \in Slots /\ Gil \in Ids /\ Stack[Gil] \in Nat \ {0}
  BY TradeConstants DEF Slots, Ids
<1>2. /\ bag \in [Slots -> Items \cup Money] /\ bag[0] \in Money /\ bag[0].id = Gil
      /\ bag[0] # NoItem /\ bag[0].qty \in 0 .. Stack[Gil]
      /\ bag[0] = [id |-> bag[0].id, qty |-> bag[0].qty, reserve |-> bag[0].reserve]
  BY <1>1, BagSlots, ItemKinds DEF Money
<1>3. new \in Bags /\ \A t \in Slots \ {0} : new[t] = bag[t]
  <2>1. n \in Int
    OBVIOUS
  <2> QED
    BY <1>1, <2>1, UpdateItemKeeps
<1>4. PICK left : left = Least(bag[0].qty + n, Stack[Gil])
  OBVIOUS
<1>5. left >= bag[0].qty /\ ~(bag[0].qty + n < 0)
  BY <1>1, <1>2, <1>4 DEF Least
<1>6. new = [bag EXCEPT ![0] = [bag[0] EXCEPT !.qty = left]]
  BY <1>2, <1>4, <1>5 DEF UpdateItem
<1>7. [bag[0] EXCEPT !.qty = left] = [id |-> Gil, qty |-> left, reserve |-> bag[0].reserve]
  BY <1>2
<1>8. new[0] = [id |-> Gil, qty |-> left, reserve |-> bag[0].reserve]
  BY <1>1, <1>2, <1>6, <1>7
<1> QED
  BY <1>3, <1>4, <1>5, <1>8

\* What lands in a bag of gil with n more.
More(held, n, id) == IF id = Gil THEN Least(held + n, Stack[Gil]) ELSE held + n

\* What a bag has after n of item.id have come into it, given room and no rare item twice.
Received(bag, new, id, n) ==
    /\ new \in Bags
    /\ \A i : HeldIn(new, i) = IF i = id THEN More(HeldIn(bag, i), n, i) ELSE HeldIn(bag, i)
    /\ \A t \in Slots \ {0} : bag[t] # NoItem => new[t] = bag[t]
    /\ new[0].id = Gil /\ new[0].reserve = bag[0].reserve /\ bag[0].qty <= new[0].qty
    /\ \E f : FreeSlots(bag) \ {f} \subseteq FreeSlots(new)
    /\ \A i \in Rare \ {id} : HasItem(new, i) => HasItem(bag, i)

LEMMA AddedGil ==
    ASSUME NEW bag \in Bags, NEW n \in Nat, NEW new, new = UpdateItem(bag, 0, n)
    PROVE  Received(bag, new, Gil, n)
<1>1. /\ new \in Bags /\ (\A t \in Slots \ {0} : new[t] = bag[t])
      /\ new[0].id = Gil /\ new[0].reserve = bag[0].reserve
      /\ new[0].qty = Least(bag[0].qty + n, Stack[Gil]) /\ bag[0].qty <= new[0].qty
  BY GilJoins
<1>2. 0 \in Slots /\ bag[0].id = Gil
  BY BagSlots, TradeConstants DEF Slots
<1>3. HeldIn(new, Gil) = Least(HeldIn(bag, Gil) + n, Stack[Gil])
  BY <1>1, HeldType
<1>4. ASSUME NEW i, i # Gil PROVE HeldIn(new, i) = HeldIn(bag, i)
  <2>1. HeldIn(new, i) = HeldIn(bag, i) - Worth(bag[0], i) + Worth(new[0], i)
    BY <1>1, <1>2, HeldChange
  <2>2. Worth(bag[0], i) = 0 /\ Worth(new[0], i) = 0 /\ HeldIn(bag, i) \in Nat
    BY <1>1, <1>2, <1>4, HeldType DEF Worth
  <2> QED
    BY <2>1, <2>2
<1>5. FreeSlots(bag) \subseteq FreeSlots(new)
  BY <1>1, TradeConstants DEF FreeSlots, Slots
<1>6. \A i \in Rare \ {Gil} : HasItem(new, i) => HasItem(bag, i)
  BY <1>1 DEF HasItem
<1> QED
  BY <1>1, <1>3, <1>4, <1>5, <1>6 DEF Received, More

LEMMA SlotTaken ==
    ASSUME NEW bag \in Bags, NEW item \in Items, item # NoItem,
           NEW f \in Slots \ {0}, bag[f] = NoItem,
           NEW new \in Bags, new[f] = item, \A t \in Slots \ {f} : new[t] = bag[t]
    PROVE  Received(bag, new, item.id, item.qty)
<1>1. IsGood(item) /\ item.id # Gil /\ item.qty \in Nat
  <2>1. IsGood(item)
    BY ItemKinds
  <2> QED
    BY <2>1, TradeConstants DEF IsGood, Ids
<1>2. 0 \in Slots
  BY TradeConstants DEF Slots
<1>3. ASSUME NEW i
      PROVE  HeldIn(new, i) = IF i = item.id THEN HeldIn(bag, i) + item.qty ELSE HeldIn(bag, i)
  <2>1. HeldIn(new, i) = HeldIn(bag, i) - Worth(bag[f], i) + Worth(new[f], i)
    BY HeldChange
  <2>2. Worth(bag[f], i) = 0 /\ HeldIn(bag, i) \in Nat
    BY HeldType DEF Worth, NoItem
  <2>3. Worth(new[f], i) = IF i = item.id THEN item.qty ELSE 0
    BY DEF Worth
  <2>4. PICK held, now : held = HeldIn(bag, i) /\ now = HeldIn(new, i)
    OBVIOUS
  <2>5. now = held - 0 + (IF i = item.id THEN item.qty ELSE 0) /\ held \in Nat
    BY <2>1, <2>2, <2>3, <2>4
  <2>6. now = IF i = item.id THEN held + item.qty ELSE held
    BY <1>1, <2>5
  <2> QED
    BY <2>4, <2>6
<1>4. new[0] = bag[0] /\ bag[0].id = Gil /\ bag[0].qty \in Nat
  BY <1>2, SlotFacts, BagSlots
<1>5. \E u : FreeSlots(bag) \ {u} \subseteq FreeSlots(new)
  <2>1. FreeSlots(bag) \ {f} \subseteq FreeSlots(new)
    BY TradeConstants DEF FreeSlots, Slots
  <2> QED
    BY <2>1
<1>6. \A i \in Rare \ {item.id} : HasItem(new, i) => HasItem(bag, i)
  BY DEF HasItem
<1>7. \A t \in Slots \ {0} : bag[t] # NoItem => new[t] = bag[t]
  OBVIOUS
<1>8. \A i : HeldIn(new, i) = IF i = item.id THEN More(HeldIn(bag, i), item.qty, i) ELSE HeldIn(bag, i)
  BY <1>1, <1>3 DEF More
<1>9. new[0].id = Gil /\ new[0].reserve = bag[0].reserve /\ bag[0].qty <= new[0].qty
  BY <1>4
<1> QED
  BY <1>5, <1>6, <1>7, <1>8, <1>9 DEF Received

LEMMA AddedGoods ==
    ASSUME NEW bag \in Bags, NEW item \in Items, item # NoItem, FreeSlots(bag) # {}
    PROVE  Received(bag, [bag EXCEPT ![Min(FreeSlots(bag))] = item], item.id, item.qty)
<1>1. PICK f : f = Min(FreeSlots(bag))
  OBVIOUS
<1>2. PICK new : new = [bag EXCEPT ![f] = item]
  OBVIOUS
<1>3. f \in Slots \ {0} /\ bag[f] = NoItem
  BY <1>1, FreeSlotFound
<1>4. item \in IF f = 0 THEN Money ELSE Items
  BY <1>3
<1>5. new \in Bags
  BY <1>2, <1>3, <1>4, BagExcept
<1>6. new[f] = item /\ \A t \in Slots \ {f} : new[t] = bag[t]
  BY <1>2, <1>3, BagSlots
<1>7. Received(bag, new, item.id, item.qty)
  BY <1>3, <1>5, <1>6, SlotTaken
<1> QED
  BY <1>1, <1>2, <1>7

\* What DoTrade hands over arrives, if there is a free slot and a rare item is not there yet.
LEMMA Arrives ==
    ASSUME NEW bag \in Bags, NEW item \in Items \cup Money, item # NoItem,
           item.reserve \in 1 .. item.qty, FreeSlots(bag) # {},
           item.id \in Rare => ~HasItem(bag, item.id),
           NEW new, new = IF Stack[item.id] = 1 THEN AddItem(bag, item)
                          ELSE AddNew(bag, item.id, item.reserve)
    PROVE  Received(bag, new, item.id, item.reserve)
<1>1. /\ item.id \in Ids /\ item.qty \in 1 .. Stack[item.id] /\ Stack[item.id] \in Nat \ {0}
      /\ (item \in Money <=> item.id = Gil) /\ item.reserve \in 1 .. Stack[item.id]
  <2>1. CASE item \in Money
    BY <2>1, ItemKinds, TradeConstants DEF Ids
  <2>2. CASE item \notin Money
    <3>1. IsGood(item)
      BY <2>2, ItemKinds
    <3> QED
      BY <2>2, <3>1, TradeConstants DEF IsGood, Ids
  <2> QED
    BY <2>1, <2>2
<1>2. CASE Stack[item.id] = 1
  <2>1. item.qty = item.reserve /\ new = AddItem(bag, item)
    BY <1>1, <1>2
  <2>2. CASE item.id = Gil
    BY <1>1, <2>1, <2>2, AddedGil DEF AddItem
  <2>3. CASE item.id # Gil
    BY <1>1, <2>1, <2>3, AddedGoods DEF AddItem
  <2> QED
    BY <2>2, <2>3
<1>3. CASE Stack[item.id] # 1
  <2>1. PICK x : x = [id |-> item.id, qty |-> item.reserve, reserve |-> 0]
    OBVIOUS
  <2>2. Least(item.reserve, Stack[item.id]) = item.reserve /\ item.reserve # 0
    BY <1>1 DEF Least
  <2>3. new = AddItem(bag, x) /\ x.id = item.id /\ x.qty = item.reserve /\ x.qty \in Nat
    BY <1>1, <1>3, <2>1, <2>2 DEF AddNew
  <2>4. CASE item.id = Gil
    BY <2>3, <2>4, AddedGil DEF AddItem
  <2>5. CASE item.id # Gil
    <3>1. IsGood(x) /\ x # NoItem
      BY <1>1, <2>1, <2>5, TradeConstants DEF IsGood, NoItem, Ids
    <3>2. x \in Items
      BY <3>1, ItemKinds
    <3>3. new = [bag EXCEPT ![Min(FreeSlots(bag))] = x]
      BY <2>3, <2>5 DEF AddItem
    <3> QED
      BY <2>3, <3>1, <3>2, <3>3, AddedGoods
  <2> QED
    BY <2>4, <2>5
<1> QED
  BY <1>2, <1>3

-----------------------------------------------------------------------------
(* The exchange moves what the windows show.                               *)

\* What a bag has after n of the item in slot s have gone.
GivenUp(bag, new, s, n) ==
    /\ new \in Bags /\ \A t \in Slots \ {s} : new[t] = bag[t]
    /\ \A i : HeldIn(new, i) = HeldIn(bag, i) - (IF bag[s].id = i THEN n ELSE 0)
    /\ FreeSlots(bag) \subseteq FreeSlots(new)
    /\ \A i \in Rare : HasItem(new, i) => HasItem(bag, i)

\* After the move of slot s, which held item, from p to q.
Handed(p, q, bags, new, s, item) ==
    /\ new \in GoodBags /\ \A r \in Players \ {p, q} : new[r] = bags[r]
    /\ GivenUp(bags[p], new[p], s, item.reserve)
    /\ Received(bags[q], new[q], item.id, item.reserve)

\* A slot that changes hands: the giver has so much less, the taker so much more.
LEMMA MoveSlotMoves ==
    ASSUME NEW p \in Players, NEW q \in Players, p # q, NEW s \in Slots, NEW bags \in GoodBags,
           NEW item, item = bags[p][s], item # NoItem, item.reserve \in 1 .. item.qty,
           FreeSlots(bags[q]) # {}, item.id \in Rare => ~HasItem(bags[q], item.id),
           NEW new, new = MoveSlot(p, q, bags, s)
    PROVE  Handed(p, q, bags, new, s, item)
<1>1. bags \in [Players -> Bags]
  BY DEF GoodBags
<1>2. bags[p] \in Bags /\ bags[q] \in Bags /\ item \in Items \cup Money
  BY <1>1, SlotFacts
<1>3. PICK taken : taken = IF Stack[item.id] = 1 THEN AddItem(bags[q], item)
                           ELSE AddNew(bags[q], item.id, item.reserve)
  OBVIOUS
<1>4. Received(bags[q], taken, item.id, item.reserve)
  BY <1>2, <1>3, Arrives
<1>5. PICK given : given = UpdateItem(bags[p], s, -item.reserve)
  OBVIOUS
<1>6. GivenUp(bags[p], given, s, item.reserve)
  BY <1>2, <1>5, TakenOut DEF GivenUp
<1>7. PICK mid : mid = [bags EXCEPT ![q] = taken]
  OBVIOUS
<1>8. mid[p] = bags[p] /\ mid[q] = taken /\ mid \in [Players -> {mid[r] : r \in Players}]
  BY <1>1, <1>7
<1>9. new = [mid EXCEPT ![p] = given]
  BY <1>3, <1>5, <1>7, <1>8 DEF MoveSlot
<1>10. new[p] = given /\ new[q] = taken
  BY <1>8, <1>9
<1>11. new \in GoodBags /\ \A r \in Players \ {p, q} : new[r] = bags[r]
  BY MoveSlotKeeps
<1> QED
  BY <1>4, <1>6, <1>10, <1>11 DEF Handed

\* How much of id each place of the window offers.
Share(bag, c, id) == [t \in Window |-> IF t \in Filled(c) /\ bag[c.slot[t]].id = id
                                       THEN bag[c.slot[t]].reserve ELSE 0]
OfferedIn(bag, c, id) == Total(Share(bag, c, id), TradeSlots - 1)

\* What the first k places offer.
SoFar(bag, c, id, k) == IF k = 0 THEN 0 ELSE Total(Share(bag, c, id), k - 1)

LEMMA FilledSlots ==
    ASSUME NEW c \in Containers
    PROVE  /\ \A t \in Filled(c) : t \in Window /\ c.slot[t] \in Slots
           /\ \A t \in Window : t \notin Filled(c) => c.slot[t] = NoSlot
           /\ Window = 0 .. TradeSlots - 1 /\ TradeSlots \in Nat \ {0} /\ TradeSlots - 1 \in Nat
BY TradeConstants DEF Filled, Containers, Window

LEMMA ShareType ==
    ASSUME NEW bag \in Bags, NEW c \in Containers, NEW id, NEW t \in Window
    PROVE  Share(bag, c, id)[t] \in Nat
<1>1. CASE t \in Filled(c)
  BY <1>1, FilledSlots, SlotFacts DEF Share
<1>2. CASE t \notin Filled(c)
  BY <1>2 DEF Share
<1> QED
  BY <1>1, <1>2

LEMMA SoFarNext ==
    ASSUME NEW bag \in Bags, NEW c \in Containers, NEW id
    PROVE  /\ SoFar(bag, c, id, 0) = 0
           /\ \A k \in 1 .. TradeSlots :
                 /\ SoFar(bag, c, id, k - 1) \in Nat
                 /\ SoFar(bag, c, id, k) = SoFar(bag, c, id, k - 1) + Share(bag, c, id)[k - 1]
           /\ SoFar(bag, c, id, TradeSlots) = OfferedIn(bag, c, id)
           /\ OfferedIn(bag, c, id) \in Nat
<1>1. Window = 0 .. TradeSlots - 1 /\ TradeSlots \in Nat \ {0} /\ TradeSlots - 1 \in Nat
  BY FilledSlots
<1>2. PICK f : f = Share(bag, c, id)
  OBVIOUS
<1>3. \A t \in Window : f[t] \in Nat
  BY <1>2, ShareType
<1>4. \A n \in 0 .. TradeSlots - 1 : n \in Nat /\ \A t \in 0 .. n : f[t] \in Nat /\ f[t] \in Int
  <2>1. \A n \in 0 .. TradeSlots - 1 : \A t \in 0 .. n : t \in Window
    BY <1>1
  <2> QED
    BY <1>1, <1>3, <2>1
<1>5. \A n \in 0 .. TradeSlots - 1 : Total(f, n) \in Nat
  BY <1>4, TotalNat
<1>6. \A n \in 0 .. TradeSlots - 1 : Total(f, 0) = f[0] /\ (n # 0 => Total(f, n) = f[n] + Total(f, n - 1))
  BY <1>4, TotalNext
<1>7. ASSUME NEW k \in 1 .. TradeSlots
      PROVE  /\ SoFar(bag, c, id, k - 1) \in Nat
             /\ SoFar(bag, c, id, k) = SoFar(bag, c, id, k - 1) + f[k - 1]
  <2>1. k # 0 /\ k - 1 \in 0 .. TradeSlots - 1
    BY <1>1
  <2>2. SoFar(bag, c, id, k) = Total(f, k - 1)
    BY <1>2, <2>1 DEF SoFar
  <2>3. CASE k = 1
    <3>1. SoFar(bag, c, id, k - 1) = 0 /\ SoFar(bag, c, id, k) = f[0]
      BY <1>6, <2>1, <2>2, <2>3 DEF SoFar
    <3>2. f[0] \in Nat
      BY <1>1, <1>3
    <3> QED
      BY <2>3, <3>1, <3>2
  <2>4. CASE k # 1
    <3>1. k - 1 # 0 /\ k - 2 \in 0 .. TradeSlots - 1 /\ (k - 1) - 1 = k - 2
      BY <1>1, <2>4
    <3>2. SoFar(bag, c, id, k - 1) = Total(f, k - 2)
      BY <1>2, <3>1 DEF SoFar
    <3>3. Total(f, k - 1) = f[k - 1] + Total(f, k - 2)
      BY <1>6, <2>1, <3>1
    <3>4. Total(f, k - 2) \in Nat /\ f[k - 1] \in Nat
      BY <1>1, <1>3, <1>5, <2>1, <3>1
    <3> QED
      BY <2>2, <3>2, <3>3, <3>4
  <2> QED
    BY <2>3, <2>4
<1>8. SoFar(bag, c, id, TradeSlots) = OfferedIn(bag, c, id)
  BY <1>1 DEF SoFar, OfferedIn
<1>9. OfferedIn(bag, c, id) \in Nat
  <2>1. TradeSlots - 1 \in 0 .. TradeSlots - 1
    BY <1>1
  <2> QED
    BY <1>2, <1>5, <2>1 DEF OfferedIn
<1>10. SoFar(bag, c, id, 0) = 0
  BY DEF SoFar
<1> QED
  BY <1>2, <1>7, <1>8, <1>9, <1>10

\* The offer looks at nothing but the items laid out.
LEMMA OfferSame ==
    ASSUME NEW bag \in Bags, NEW new \in Bags, NEW c \in Containers, NEW id,
           \A t \in Filled(c) : /\ new[c.slot[t]].id = bag[c.slot[t]].id
                                /\ new[c.slot[t]].reserve = bag[c.slot[t]].reserve
    PROVE  OfferedIn(new, c, id) = OfferedIn(bag, c, id)
<1>0. PICK n \in Nat : n = TradeSlots - 1
  BY FilledSlots
<1>1. PICK f, g : f = Share(bag, c, id) /\ g = Share(new, c, id)
  OBVIOUS
<1>2. \A k \in 0 .. n : f[k] \in Nat /\ f[k] = g[k]
  <2>1. \A k \in 0 .. n : k \in Window
    BY <1>0, FilledSlots
  <2>2. \A k \in Window : f[k] \in Nat
    BY <1>1, ShareType
  <2>3. \A k \in Window : f[k] = g[k]
    BY <1>1 DEF Share
  <2> QED
    BY <2>1, <2>2, <2>3
<1>3. \A k \in 0 .. n : f[k] \in Int /\ f[k] = g[k]
  BY <1>2
<1>4. Total(f, n) = Total(g, n)
  BY <1>3, TotalSame
<1> QED
  BY <1>0, <1>1, <1>4 DEF OfferedIn

\* The places from k on that hold something.
Left(c, k) == {t \in Filled(c) : t >= k}

\* What CanTrade and the handlers have seen to when p's window goes to q.
Fit(p, q, bags, c) ==
    /\ Owned(bags[p], c)
    /\ Cardinality(FreeSlots(bags[q])) >= Cardinality(Filled(c))
    /\ \A t \in Filled(c) :
          bags[p][c.slot[t]].id \in Rare => ~HasItem(bags[q], bags[p][c.slot[t]].id)

\* b is bags after the first k places: what they offer has moved, and the rest
\* can still move.
Moved(p, q, bags, c, k, b) ==
    /\ b \in GoodBags /\ \A r \in Players \ {p, q} : b[r] = bags[r]
    /\ \A i : HeldIn(b[p], i) = HeldIn(bags[p], i) - SoFar(bags[p], c, i, k)
    /\ \A i : HeldIn(b[q], i) = More(HeldIn(bags[q], i), SoFar(bags[p], c, i, k), i)
    /\ \A t \in Left(c, k) : b[p][c.slot[t]] = bags[p][c.slot[t]]
    /\ Cardinality(FreeSlots(b[q])) >= Cardinality(Left(c, k))
    /\ \A t \in Left(c, k) :
          bags[p][c.slot[t]].id \in Rare => ~HasItem(b[q], bags[p][c.slot[t]].id)
    /\ \A t \in Slots \ {0} : bags[q][t] # NoItem => b[q][t] = bags[q][t]
    /\ b[q][0].id = Gil /\ b[q][0].reserve = bags[q][0].reserve /\ bags[q][0].qty <= b[q][0].qty
    /\ FreeSlots(bags[p]) \subseteq FreeSlots(b[p])
    /\ \A i \in Rare : HasItem(b[p], i) => HasItem(bags[p], i)

LEMMA FilledFinite ==
    ASSUME NEW c, NEW S \in SUBSET Filled(c)
    PROVE  IsFiniteSet(S) /\ Cardinality(S) \in Nat
<1>1. IsFiniteSet(Window)
  BY FS_Interval, TradeConstants DEF Window
<1>2. S \subseteq Window
  BY DEF Filled
<1> QED
  BY <1>1, <1>2, FS_Subset, FS_CardinalityType

LEMMA FreeSlotsFinite ==
    ASSUME NEW bag
    PROVE  IsFiniteSet(FreeSlots(bag)) /\ Cardinality(FreeSlots(bag)) \in Nat
<1>1. IsFiniteSet(1 .. Size)
  BY FS_Interval, TradeConstants
<1>2. FreeSlots(bag) \subseteq 1 .. Size
  BY DEF FreeSlots
<1> QED
  BY <1>1, <1>2, FS_Subset, FS_CardinalityType

LEMMA MovedAtFirst ==
    ASSUME NEW p \in Players, NEW q \in Players, NEW bags \in GoodBags, NEW c \in Containers,
           Fit(p, q, bags, c)
    PROVE  Moved(p, q, bags, c, 0, bags)
<1>1. bags[p] \in Bags /\ bags[q] \in Bags
  BY DEF GoodBags
<1>2. Left(c, 0) = Filled(c)
  BY FilledSlots DEF Left
<1>3. \A i : SoFar(bags[p], c, i, 0) = 0
  BY DEF SoFar
<1>4. ASSUME NEW i
      PROVE  /\ HeldIn(bags[p], i) = HeldIn(bags[p], i) - 0
             /\ HeldIn(bags[q], i) = More(HeldIn(bags[q], i), 0, i)
  <2>1. HeldIn(bags[p], i) \in Nat /\ HeldIn(bags[q], i) \in Nat
    BY <1>1, HeldType
  <2>2. HeldIn(bags[q], Gil) <= Stack[Gil] /\ Stack[Gil] \in Nat
    <3>1. bags[q][0].qty \in 0 .. Stack[Gil]
      BY <1>1, BagSlots, ItemKinds
    <3>2. Stack[Gil] \in Nat
      BY TradeConstants DEF Ids
    <3> QED
      BY <1>1, <3>1, <3>2, HeldType
  <2> QED
    BY <2>1, <2>2 DEF More, Least
<1>5. bags[q][0].id = Gil /\ bags[q][0].qty \in Nat
  <2>1. 0 \in Slots
    BY TradeConstants DEF Slots
  <2> QED
    BY <1>1, <2>1, BagSlots, SlotFacts
<1> QED
  BY <1>2, <1>3, <1>4, <1>5 DEF Moved, Fit

LEMMA LeftSkips ==
    ASSUME NEW c \in Containers, NEW k \in 1 .. TradeSlots
    PROVE  /\ c.slot[k - 1] = NoSlot => Left(c, k) = Left(c, k - 1) /\ k - 1 \notin Filled(c)
           /\ c.slot[k - 1] # NoSlot =>
                 /\ k - 1 \in Filled(c) /\ k - 1 \in Left(c, k - 1) /\ k - 1 \notin Left(c, k)
                 /\ Left(c, k - 1) = Left(c, k) \cup {k - 1}
<1>1. k - 1 \in Window /\ \A t \in Filled(c) : t \in Int
  BY FilledSlots
<1>2. \A t \in Filled(c) : t >= k - 1 <=> t >= k \/ t = k - 1
  BY <1>1
<1>3. k - 1 \in Filled(c) <=> c.slot[k - 1] # NoSlot
  BY <1>1 DEF Filled
<1>4. k - 1 >= k - 1 /\ ~(k - 1 >= k)
  OBVIOUS
<1> QED
  BY <1>2, <1>3, <1>4 DEF Left

LEMMA MovedNext ==
    ASSUME NEW p \in Players, NEW q \in Players, p # q, NEW bags \in GoodBags,
           NEW c \in Containers, Fit(p, q, bags, c), NEW k \in 1 .. TradeSlots,
           NEW b, Moved(p, q, bags, c, k - 1, b),
           NEW new, new = IF c.slot[k - 1] = NoSlot THEN b ELSE MoveSlot(p, q, b, c.slot[k - 1])
    PROVE  Moved(p, q, bags, c, k, new)
<1>1. /\ bags[p] \in Bags /\ bags[q] \in Bags /\ b \in GoodBags
      /\ b[p] \in Bags /\ b[q] \in Bags /\ Once(bags[p])
  BY SinglyIsOnce DEF GoodBags, Moved
<1>3. k - 1 \in Window
  BY FilledSlots
<1>4. \A i : /\ SoFar(bags[p], c, i, k - 1) \in Nat
             /\ SoFar(bags[p], c, i, k) = SoFar(bags[p], c, i, k - 1) + Share(bags[p], c, i)[k - 1]
  BY <1>1, SoFarNext
<1>5. CASE c.slot[k - 1] = NoSlot
  <2>1. Left(c, k) = Left(c, k - 1) /\ k - 1 \notin Filled(c) /\ new = b
    BY <1>5, LeftSkips
  <2>2. \A i : Share(bags[p], c, i)[k - 1] = 0
    BY <1>3, <2>1 DEF Share
  <2>3. \A i : SoFar(bags[p], c, i, k) = SoFar(bags[p], c, i, k - 1)
    BY <1>4, <2>2
  <2> QED
    BY <2>1, <2>3 DEF Moved
<1>6. CASE c.slot[k - 1] # NoSlot
  <2>1. PICK s : s = c.slot[k - 1]
    OBVIOUS
  <2>2. /\ k - 1 \in Filled(c) /\ k - 1 \in Left(c, k - 1) /\ k - 1 \notin Left(c, k)
        /\ Left(c, k - 1) = Left(c, k) \cup {k - 1} /\ s \in Slots
    BY <1>6, <2>1, LeftSkips, FilledSlots
  <2>3. PICK item : item = b[p][s]
    OBVIOUS
  <2>4. item = bags[p][s]
    BY <2>1, <2>2, <2>3 DEF Moved
  <2>5. PICK n : n = item.reserve
    OBVIOUS
  <2>6. item # NoItem /\ n \in 1 .. item.qty
    <3>1. item # NoItem /\ item.reserve <= item.qty /\ item.reserve > 0
      BY <2>1, <2>2, <2>4 DEF Fit, Owned
    <3>2. item.reserve \in Nat /\ item.qty \in Nat
      BY <1>1, <2>2, <2>3, SlotFacts
    <3> QED
      BY <2>5, <3>1, <3>2
  <2>7. item.id \in Rare => ~HasItem(b[q], item.id)
    BY <2>1, <2>2, <2>4 DEF Moved
  <2>8. FreeSlots(b[q]) # {}
    <3>1. Cardinality(Left(c, k - 1)) # 0 /\ Cardinality(Left(c, k - 1)) \in Nat
      <4>1. Left(c, k - 1) \subseteq Filled(c)
        BY DEF Left
      <4>2. IsFiniteSet(Left(c, k - 1)) /\ Cardinality(Left(c, k - 1)) \in Nat
        BY <4>1, FilledFinite
      <4> QED
        BY <2>2, <4>2, FS_EmptySet
    <3>2. Cardinality(FreeSlots(b[q])) \in Nat /\ Cardinality(FreeSlots(b[q])) >= Cardinality(Left(c, k - 1))
      BY FreeSlotsFinite DEF Moved
    <3>3. Cardinality(FreeSlots(b[q])) # 0
      BY <3>1, <3>2
    <3> QED
      BY <3>3, FS_EmptySet
  <2>9. new = MoveSlot(p, q, b, s)
    BY <1>6, <2>1
  <2>10. /\ new \in GoodBags /\ \A r \in Players \ {p, q} : new[r] = b[r]
         /\ GivenUp(b[p], new[p], s, n)
         /\ Received(b[q], new[q], item.id, n)
    <3>1. b \in GoodBags /\ s \in Slots /\ item.reserve \in 1 .. item.qty /\ item # NoItem
      BY <1>1, <2>2, <2>5, <2>6
    <3>2. PICK after : after = MoveSlot(p, q, b, s)
      OBVIOUS
    <3>3. Handed(p, q, b, after, s, item)
      BY <2>3, <2>7, <2>8, <3>1, <3>2, MoveSlotMoves
    <3> QED
      BY <2>5, <2>9, <3>2, <3>3 DEF Handed
  <2>11. \A i : Share(bags[p], c, i)[k - 1] = IF item.id = i THEN n ELSE 0
    BY <1>3, <2>1, <2>2, <2>4, <2>5 DEF Share
  <2>12. n \in Nat /\ \A i : HeldIn(bags[p], i) \in Nat /\ HeldIn(bags[q], i) \in Nat
    BY <1>1, <2>6, HeldType
  <2>13. ASSUME NEW i
         PROVE  /\ HeldIn(new[p], i) = HeldIn(bags[p], i) - SoFar(bags[p], c, i, k)
                /\ HeldIn(new[q], i) = More(HeldIn(bags[q], i), SoFar(bags[p], c, i, k), i)
    <3>1. PICK a \in Nat, hp \in Nat, hq \in Nat :
             a = SoFar(bags[p], c, i, k - 1) /\ hp = HeldIn(bags[p], i) /\ hq = HeldIn(bags[q], i)
      BY <1>4, <2>12
    <3>2. PICK m \in Nat : m = IF item.id = i THEN n ELSE 0
      BY <2>12
    <3>3. SoFar(bags[p], c, i, k) = a + m
      BY <1>4, <2>11, <3>1, <3>2
    <3>4. HeldIn(new[p], i) = (hp - a) - m
      BY <2>3, <2>10, <3>1, <3>2 DEF GivenUp, Moved
    <3>5. HeldIn(b[q], i) = More(hq, a, i)
      BY <3>1 DEF Moved
    <3>6. HeldIn(new[q], i) = IF i = item.id THEN More(More(hq, a, i), n, i) ELSE More(hq, a, i)
      BY <2>10, <3>5 DEF Received
    <3>7. More(More(hq, a, i), n, i) = More(hq, a + n, i)
      <4>1. Stack[Gil] \in Nat
        BY TradeConstants DEF Ids
      <4> QED
        BY <2>12, <4>1 DEF More, Least
    <3>8. HeldIn(new[q], i) = More(hq, a + m, i)
      BY <3>2, <3>6, <3>7
    <3> QED
      BY <3>1, <3>3, <3>4, <3>8
  <2>14. \A t \in Left(c, k) : t \in Left(c, k - 1) /\ c.slot[t] # s /\ c.slot[t] \in Slots
    <3>1. \A t \in Left(c, k) : t \in Left(c, k - 1) /\ t \in Filled(c) /\ t # k - 1
      BY <2>2 DEF Left
    <3> QED
      BY <2>1, <2>2, <3>1, FilledSlots DEF Fit, Owned
  <2>15. \A t \in Left(c, k) : new[p][c.slot[t]] = bags[p][c.slot[t]]
    BY <2>10, <2>14 DEF GivenUp, Moved
  <2>16. Cardinality(FreeSlots(new[q])) >= Cardinality(Left(c, k))
    <3>1. PICK f : FreeSlots(b[q]) \ {f} \subseteq FreeSlots(new[q])
      BY <2>10 DEF Received
    <3>2. IsFiniteSet(Left(c, k)) /\ Cardinality(Left(c, k)) \in Nat
      <4>1. Left(c, k) \subseteq Filled(c)
        BY DEF Left
      <4> QED
        BY <4>1, FilledFinite
    <3>3. Cardinality(Left(c, k - 1)) = Cardinality(Left(c, k)) + 1
      BY <2>2, <3>2, FS_AddElement
    <3>4. PICK free : free = FreeSlots(b[q]) \ {f}
      OBVIOUS
    <3>5. IsFiniteSet(free) /\ Cardinality(free) \in Nat
          /\ Cardinality(FreeSlots(b[q])) <= Cardinality(free) + 1
      <4>1. IsFiniteSet(FreeSlots(b[q])) /\ Cardinality(FreeSlots(b[q])) \in Nat
        BY FreeSlotsFinite
      <4>2. f \in FreeSlots(b[q]) => Cardinality(free) = Cardinality(FreeSlots(b[q])) - 1
        BY <3>4, <4>1, FS_RemoveElement
      <4>3. f \notin FreeSlots(b[q]) => free = FreeSlots(b[q])
        BY <3>4
      <4>4. IsFiniteSet(free) /\ Cardinality(free) \in Nat
        BY <3>4, <4>1, FS_Subset, FS_CardinalityType
      <4> QED
        BY <4>1, <4>2, <4>3, <4>4
    <3>6. Cardinality(free) <= Cardinality(FreeSlots(new[q])) /\ Cardinality(FreeSlots(new[q])) \in Nat
      BY <3>1, <3>4, FreeSlotsFinite, FS_Subset
    <3>7. Cardinality(FreeSlots(b[q])) >= Cardinality(Left(c, k - 1)) /\ Cardinality(FreeSlots(b[q])) \in Nat
      BY FreeSlotsFinite DEF Moved
    <3> QED
      BY <3>2, <3>3, <3>5, <3>6, <3>7
  <2>17. ASSUME NEW t \in Left(c, k), bags[p][c.slot[t]].id \in Rare
         PROVE  ~HasItem(new[q], bags[p][c.slot[t]].id)
    <3>1. t \in Left(c, k - 1) /\ c.slot[t] # s /\ c.slot[t] \in Slots
      BY <2>14
    <3>2. bags[p][c.slot[t]].id # item.id
      BY <1>1, <2>2, <2>4, <2>17, <3>1 DEF Once
    <3>3. ~HasItem(b[q], bags[p][c.slot[t]].id)
      BY <2>17, <3>1 DEF Moved
    <3> QED
      BY <2>10, <2>17, <3>2, <3>3 DEF Received
  <2>18. \A t \in Slots \ {0} : bags[q][t] # NoItem => new[q][t] = bags[q][t]
    BY <2>10 DEF Received, Moved
  <2>19. new[q][0].id = Gil /\ new[q][0].reserve = bags[q][0].reserve /\ bags[q][0].qty <= new[q][0].qty
    <3>1. bags[q][0].qty \in Nat /\ b[q][0].qty \in Nat /\ new[q][0].qty \in Nat
      <4>1. 0 \in Slots /\ new[q] \in Bags
        BY <2>10, TradeConstants DEF Slots, GoodBags
      <4> QED
        BY <1>1, <4>1, SlotFacts
    <3> QED
      BY <2>10, <3>1 DEF Received, Moved
  <2>20. /\ FreeSlots(bags[p]) \subseteq FreeSlots(new[p])
         /\ \A i \in Rare : HasItem(new[p], i) => HasItem(bags[p], i)
    BY <2>10 DEF GivenUp, Moved
  <2>21. \A r \in Players \ {p, q} : new[r] = bags[r]
    BY <2>10 DEF Moved
  <2> QED
    BY <2>10, <2>13, <2>15, <2>16, <2>17, <2>18, <2>19, <2>20, <2>21 DEF Moved
<1> QED
  BY <1>5, <1>6

\* All that p's window shows goes to q.
LEMMA DoTradeMoves ==
    ASSUME NEW p \in Players, NEW q \in Players, p # q, NEW bags \in GoodBags,
           NEW c, c = cont[p], c \in Containers, Fit(p, q, bags, c)
    PROVE  Moved(p, q, bags, c, TradeSlots, DoTrade(p, q, bags))
<1>1. TradeSlots \in Nat
  BY TradeConstants
<1>2. PICK g : /\ g[0] = bags /\ DoTrade(p, q, bags) = g[TradeSlots]
               /\ \A k \in 1 .. TradeSlots :
                     g[k] = IF c.slot[k-1] = NoSlot THEN g[k-1]
                            ELSE MoveSlot(p, q, g[k-1], c.slot[k-1])
  BY DoTradeRun
<1> DEFINE Good == {k \in 0 .. TradeSlots : Moved(p, q, bags, c, k, g[k])}
<1>3. PICK h : h = [k \in 0 .. TradeSlots |-> k]
  OBVIOUS
<1>4. h[0] \in Good
  BY <1>1, <1>2, <1>3, MovedAtFirst
<1>5. ASSUME NEW k \in 1 .. TradeSlots, h[k-1] \in Good PROVE h[k] \in Good
  <2>1. k - 1 \in 0 .. TradeSlots /\ k \in 0 .. TradeSlots
    BY <1>1
  <2>2. Moved(p, q, bags, c, k - 1, g[k-1])
    BY <1>3, <1>5, <2>1
  <2>3. PICK b, new : b = g[k-1] /\ new = g[k]
    OBVIOUS
  <2>4. new = IF c.slot[k - 1] = NoSlot THEN b ELSE MoveSlot(p, q, b, c.slot[k - 1])
    BY <1>2, <2>3
  <2>5. Moved(p, q, bags, c, k - 1, b)
    BY <2>2, <2>3
  <2>6. Moved(p, q, bags, c, k, new)
    BY <2>4, <2>5, MovedNext
  <2> QED
    BY <1>3, <2>1, <2>3, <2>6
<1> HIDE DEF Good
<1>6. \A k \in 0 .. TradeSlots : h[k] \in Good
  BY <1>1, <1>4, <1>5, KeptByRounds
<1>7. TradeSlots \in 0 .. TradeSlots
  BY <1>1
<1> QED
  BY <1>2, <1>3, <1>6, <1>7 DEF Good

\* CanTrade is what an exchange needs: what p has laid out fits into q's inventory.
LEMMA CanTradeFits ==
    ASSUME TradeInv, NEW p \in Players, NEW q \in Players, CanTrade(p, q)
    PROVE  Fit(p, q, inv, cont[p])
<1>1. Owned(inv[p], cont[p])
  BY DEF TradeInv
<1>2. \A t \in Filled(cont[p]) : inv[p][cont[p].slot[t]] \in Laid(p)
  BY DEF Laid
<1>3. /\ Cardinality(FreeSlots(inv[q])) >= Cardinality(Filled(cont[p]))
      /\ \A item \in Laid(p) : item.id \in Rare => ~HasItem(inv[q], item.id)
  BY DEF CanTrade
<1>4. \A t \in Filled(cont[p]) : inv[p][cont[p].slot[t]].id \in Rare =>
                                   ~HasItem(inv[q], inv[p][cont[p].slot[t]].id)
  BY <1>2, <1>3
<1> QED
  BY <1>1, <1>3, <1>4 DEF Fit

\* When p's goods have gone to q, what q has laid out is still there, and fits
\* into p's inventory as it did.
LEMMA StillFits ==
    ASSUME NEW p \in Players, NEW q \in Players, NEW bags \in GoodBags,
           NEW c \in Containers, NEW d \in Containers, Fit(q, p, bags, d),
           NEW b, Moved(p, q, bags, c, TradeSlots, b)
    PROVE  /\ Fit(q, p, b, d)
           /\ \A i : OfferedIn(b[q], d, i) = OfferedIn(bags[q], d, i)
<1>1. b[p] \in Bags /\ b[q] \in Bags /\ bags[p] \in Bags /\ bags[q] \in Bags
  BY DEF Moved, GoodBags
<1>2. bags[q][0].id = Gil /\ 0 \in Slots /\ Gil # NoItem.id
  BY <1>1, BagSlots, TradeConstants DEF Slots, NoItem, Ids
<1>3. ASSUME NEW t \in Filled(d), NEW s, s = d.slot[t]
      PROVE  /\ b[q][s] # NoItem /\ b[q][s].id = bags[q][s].id
             /\ b[q][s].reserve = bags[q][s].reserve
             /\ bags[q][s].reserve > 0 /\ b[q][s].reserve <= b[q][s].qty
  <2>1. s \in Slots /\ bags[q][s] # NoItem /\ bags[q][s].reserve > 0
        /\ bags[q][s].reserve <= bags[q][s].qty
    BY <1>3, FilledSlots DEF Fit, Owned
  <2>2. CASE s = 0
    <3>1. /\ b[q][0].id = Gil /\ b[q][0].reserve = bags[q][0].reserve
          /\ bags[q][0].qty <= b[q][0].qty
      BY DEF Moved
    <3>2. b[q][0].qty \in Nat /\ bags[q][0].qty \in Nat /\ bags[q][0].reserve \in Nat
      BY <1>1, <1>2, SlotFacts
    <3> QED
      BY <1>2, <2>1, <2>2, <3>1, <3>2
  <2>3. CASE s # 0
    <3>1. b[q][s] = bags[q][s]
      BY <2>1, <2>3 DEF Moved
    <3> QED
      BY <2>1, <3>1
  <2> QED
    BY <2>2, <2>3
<1>4. Owned(b[q], d)
  <2>1. \A t, u \in Filled(d) : d.slot[t] = d.slot[u] => t = u
    BY DEF Fit, Owned
  <2> QED
    BY <1>3, <2>1 DEF Owned
<1>5. Cardinality(FreeSlots(b[p])) >= Cardinality(Filled(d))
  <2>1. FreeSlots(bags[p]) \subseteq FreeSlots(b[p])
    BY DEF Moved
  <2>2. Cardinality(FreeSlots(bags[p])) <= Cardinality(FreeSlots(b[p]))
    BY <2>1, FreeSlotsFinite, FS_Subset
  <2>3. /\ Cardinality(FreeSlots(bags[p])) \in Nat /\ Cardinality(FreeSlots(b[p])) \in Nat
        /\ Cardinality(Filled(d)) \in Nat
    BY FreeSlotsFinite, FilledFinite
  <2>4. Cardinality(FreeSlots(bags[p])) >= Cardinality(Filled(d))
    BY DEF Fit
  <2> QED
    BY <2>2, <2>3, <2>4
<1>6. ASSUME NEW t \in Filled(d), b[q][d.slot[t]].id \in Rare
      PROVE  ~HasItem(b[p], b[q][d.slot[t]].id)
  <2>1. b[q][d.slot[t]].id = bags[q][d.slot[t]].id
    BY <1>3
  <2>2. ~HasItem(bags[p], bags[q][d.slot[t]].id)
    BY <1>6, <2>1 DEF Fit
  <2> QED
    BY <1>6, <2>1, <2>2 DEF Moved
<1>7. Fit(q, p, b, d)
  BY <1>4, <1>5, <1>6 DEF Fit
<1>8. \A t \in Filled(d) : /\ b[q][d.slot[t]].id = bags[q][d.slot[t]].id
                           /\ b[q][d.slot[t]].reserve = bags[q][d.slot[t]].reserve
  BY <1>3
<1>9. ASSUME NEW i PROVE OfferedIn(b[q], d, i) = OfferedIn(bags[q], d, i)
  BY <1>1, <1>8, OfferSame
<1> QED
  BY <1>7, <1>9

\* What p holds when it has given away n, and got m.
LEMMA ExchangeMoves ==
    ASSUME TradeInv, NEW p \in Players, NEW q \in Players, p # q,
           CanTrade(p, q), CanTrade(q, p),
           NEW fin, fin = DoTrade(q, p, DoTrade(p, q, inv))
    PROVE  /\ fin \in GoodBags /\ \A r \in Players \ {p, q} : fin[r] = inv[r]
           /\ \A i : /\ HeldIn(inv[p], i) - OfferedIn(inv[p], cont[p], i) \in Nat
                     /\ HeldIn(fin[p], i) = More(HeldIn(inv[p], i) - OfferedIn(inv[p], cont[p], i),
                                                 OfferedIn(inv[q], cont[q], i), i)
                     /\ HeldIn(fin[q], i) = More(HeldIn(inv[q], i), OfferedIn(inv[p], cont[p], i), i)
                                            - OfferedIn(inv[q], cont[q], i)
<1>0. inv \in GoodBags /\ cont[p] \in Containers /\ cont[q] \in Containers
  BY SinglyIsOnce DEF TradeInv, TypeOK, GoodBags
<1>1. Fit(p, q, inv, cont[p]) /\ Fit(q, p, inv, cont[q])
  BY CanTradeFits
<1>2. PICK mid : mid = DoTrade(p, q, inv)
  OBVIOUS
<1>3. Moved(p, q, inv, cont[p], TradeSlots, mid)
  BY <1>0, <1>1, <1>2, DoTradeMoves
<1>4. mid \in GoodBags
  BY <1>3 DEF Moved
<1>5. Fit(q, p, mid, cont[q]) /\ \A i : OfferedIn(mid[q], cont[q], i) = OfferedIn(inv[q], cont[q], i)
  <2>1. PICK c, d : c = cont[p] /\ d = cont[q]
    OBVIOUS
  <2>2. /\ c \in Containers /\ d \in Containers /\ Fit(q, p, inv, d)
        /\ Moved(p, q, inv, c, TradeSlots, mid)
    BY <1>0, <1>1, <1>3, <2>1
  <2>3. Fit(q, p, mid, d) /\ \A i : OfferedIn(mid[q], d, i) = OfferedIn(inv[q], d, i)
    BY <1>0, <2>2, StillFits
  <2> QED
    BY <2>1, <2>3
<1>6. Moved(q, p, mid, cont[q], TradeSlots, fin)
  BY <1>0, <1>2, <1>4, <1>5, DoTradeMoves
<1>7. fin \in GoodBags /\ \A r \in Players \ {p, q} : fin[r] = inv[r]
  BY <1>3, <1>6 DEF Moved
<1>8. ASSUME NEW i
      PROVE  /\ HeldIn(inv[p], i) - OfferedIn(inv[p], cont[p], i) \in Nat
             /\ HeldIn(fin[p], i) = More(HeldIn(inv[p], i) - OfferedIn(inv[p], cont[p], i),
                                         OfferedIn(inv[q], cont[q], i), i)
             /\ HeldIn(fin[q], i) = More(HeldIn(inv[q], i), OfferedIn(inv[p], cont[p], i), i)
                                    - OfferedIn(inv[q], cont[q], i)
  <2>1. /\ SoFar(inv[p], cont[p], i, TradeSlots) = OfferedIn(inv[p], cont[p], i)
        /\ SoFar(mid[q], cont[q], i, TradeSlots) = OfferedIn(inv[q], cont[q], i)
    BY <1>0, <1>4, <1>5, SoFarNext DEF GoodBags
  <2>2. /\ HeldIn(mid[p], i) = HeldIn(inv[p], i) - OfferedIn(inv[p], cont[p], i)
        /\ HeldIn(mid[q], i) = More(HeldIn(inv[q], i), OfferedIn(inv[p], cont[p], i), i)
    BY <1>3, <2>1 DEF Moved
  <2>3. /\ HeldIn(fin[q], i) = HeldIn(mid[q], i) - OfferedIn(inv[q], cont[q], i)
        /\ HeldIn(fin[p], i) = More(HeldIn(mid[p], i), OfferedIn(inv[q], cont[q], i), i)
    BY <1>6, <2>1 DEF Moved
  <2>4. HeldIn(mid[p], i) \in Nat
    BY <1>4, HeldType DEF GoodBags
  <2> QED
    BY <2>2, <2>3, <2>4
<1> QED
  BY <1>7, <1>8

-----------------------------------------------------------------------------
(* A trade as Barter sees it: holdings, offers and who stands by them.      *)

\* What a bag and a window say to Barter.
HeldBy(bag) == [id \in Ids |-> HeldIn(bag, id)]
OfferOf(bag, c) == [id \in Ids |-> OfferedIn(bag, c, id)]

LEMMA Views ==
    \A p \in Players : Held(p) = HeldBy(inv[p]) /\ Offered(p) = OfferOf(inv[p], cont[p])
BY DEF Held, HeldBy, HeldIn, Worth, Offered, OfferOf, OfferedIn, Share

LEMMA ViewsNext ==
    \A p \in Players : Held(p)' = HeldBy(inv'[p]) /\ Offered(p)' = OfferOf(inv'[p], cont'[p])
BY DEF Held, HeldBy, HeldIn, Worth, Offered, OfferOf, OfferedIn, Share, Filled

\* Only the places of the window say what is laid out.
LEMMA OfferBySlots ==
    ASSUME NEW bag, NEW c, NEW d, d.slot = c.slot
    PROVE  OfferOf(bag, d) = OfferOf(bag, c)
BY DEF OfferOf, OfferedIn, Share, Filled

LEMMA NothingOffered ==
    ASSUME NEW bag
    PROVE  OfferOf(bag, Empty) = Bartering!Nothing
<1>1. ASSUME NEW i PROVE OfferedIn(bag, Empty, i) = 0
  <2>1. PICK n : n = TradeSlots - 1
    OBVIOUS
  <2>2. n \in Nat /\ Window = 0 .. n
    BY <2>1, TradeConstants DEF Window
  <2>3. PICK g : g = Share(bag, Empty, i)
    OBVIOUS
  <2>4. \A k \in 0 .. n : g[k] = 0
    BY <2>2, <2>3 DEF Share, Filled, Empty
  <2>5. Total(g, n) = g[0]
    BY <2>2, <2>4, TotalNat
  <2> QED
    BY <2>1, <2>2, <2>3, <2>4, <2>5 DEF OfferedIn
<1> QED
  BY <1>1 DEF OfferOf, Bartering!Nothing

LEMMA WithdrawStep ==
    ASSUME \A r \in Players : /\ Held(r)' = Held(r) /\ Firm(r)' \in {Firm(r), NoOne}
                              /\ Offered(r)' \in {Offered(r), Bartering!Nothing}
    PROVE  Bartering!Withdraw
BY DEF Bartering!Withdraw

LEMMA LayOutStep ==
    ASSUME \A r \in Players : /\ Held(r)' = Held(r) /\ Firm(r)' = Firm(r)
                              /\ Firm(r) # NoOne => Offered(r)' = Offered(r)
    PROVE  Bartering!LayOut
BY DEF Bartering!LayOut

LEMMA AcquireStep ==
    ASSUME \A r \in Players : /\ \A i \in Ids : Held(r)'[i] >= Held(r)[i]
                              /\ Firm(r)' = Firm(r) /\ Offered(r)' = Offered(r)
    PROVE  Bartering!Acquire
BY DEF Bartering!Acquire

LEMMA CommitStep ==
    ASSUME NEW p \in Players, NEW q \in Players, Firm(p) = NoOne, Firm(p)' = q,
           \A r \in Players \ {p} : Firm(r)' = Firm(r),
           \A r \in Players : Held(r)' = Held(r) /\ Offered(r)' = Offered(r)
    PROVE  Bartering!Commit(p, q)
BY DEF Bartering!Commit

\* Where p's goods and q's are more than p can hold, p gets what fits.
Swapped(p, q) == \A i \in Ids :
    LET fair == Held(p)[i] - Offered(p)[i] + Offered(q)[i]
        cap == IF i = Gil THEN Stack[Gil] ELSE Stack[i] * Size
    IN  IF Held(p)[i] + Offered(q)[i] <= cap THEN Held(p)'[i] = fair ELSE Held(p)'[i] \in 0 .. fair

LEMMA DealStep ==
    ASSUME NEW p \in Players, NEW q \in Players, p # q, Firm(q) = p, Firm(p) = NoOne, Firm(q)' = NoOne,
           \A r \in Players \ {q} : Firm(r)' = Firm(r),
           \A r \in Players : Offered(r)' = IF r \in {p, q} THEN Bartering!Nothing ELSE Offered(r),
           \A r \in Players \ {p, q} : Held(r)' = Held(r),
           Swapped(p, q), Swapped(q, p)
    PROVE  Bartering!Deal(p, q)
<1>1. Bartering!Settled(p, q) /\ Bartering!Settled(q, p)
  BY DEF Swapped, Bartering!Settled
<1> QED
  BY <1>1 DEF Bartering!Deal

LEMMA BarterInit == Init => Bartering!Init
<1> SUFFICES ASSUME Init PROVE Bartering!Init
  OBVIOUS
<1>1. \A p \in Players : inv[p] \in Bags /\ cont[p] = Empty
  BY StockAssumption DEF Init
<1>2. \A p \in Players : Held(p) \in [Ids -> Nat]
  BY <1>1, Views, HeldType DEF HeldBy
<1>3. \A p \in Players : Offered(p) = Bartering!Nothing
  BY <1>1, Views, NothingOffered
<1>4. \A p \in Players : Firm(p) = NoOne
  BY <1>1, TradeConstants DEF Firm, Empty
<1> QED
  BY <1>2, <1>3, <1>4 DEF Bartering!Init

-----------------------------------------------------------------------------
(* Every handler does a step of Barter.                                     *)

\* A container out of a trade is clean, and of two that trade with each other
\* one at most has confirmed: the second confirmation ends the trade.
Lasting ==
    /\ \A p \in Players : cont[p].type = "EMPTY" => cont[p] = Empty
    /\ \A p, q \in Players : Trading(p, q) => ~(cont[p].lock /\ cont[q].lock)

BarterInv == TradeInv /\ Lasting

LEMMA LastingInit == Init => Lasting
BY DEF Init, Lasting, Empty

\* Whoever gives a trade up, or whose container is cleaned, is committed no more; everybody
\* else stays as committed as before, or less.
LEMMA Weaker ==
    ASSUME BarterInv, TypeOK',
           \A r \in Players : pending'[r] \in {pending[r], NoOne} /\ cont'[r] \in {cont[r], Empty}
    PROVE  Lasting' /\ \A r \in Players : Firm(r)' \in {Firm(r), NoOne}
<1>0. /\ pending \in [Players -> Players \cup {NoOne}]
      /\ pending' \in [Players -> Players \cup {NoOne}] /\ NoOne \notin Players
  BY TradeConstants DEF BarterInv, TradeInv, TypeOK
<1>1. ASSUME NEW p \in Players, NEW q \in Players, Trading(p, q)'
      PROVE  Trading(p, q) /\ cont'[p] = cont[p] /\ cont'[q] = cont[q] /\ pending'[p] = pending[p]
  BY <1>0, <1>1, EmptyTyped
<1>2. Lasting'
  BY <1>1 DEF Lasting, BarterInv
<1>3. ASSUME NEW r \in Players, Firm(r)' # NoOne PROVE Firm(r)' = Firm(r)
  <2>1. PICK q : q = pending'[r] /\ cont'[r].lock /\ Trading(r, q)'
    BY <1>3 DEF Firm
  <2>2. Trading(r, q) /\ cont'[r] = cont[r] /\ pending'[r] = pending[r]
    BY <1>1, <2>1
  <2> QED
    BY <2>1, <2>2 DEF Firm
<1> QED
  BY <1>2, <1>3

\* A step that gives trades up and moves nothing withdraws.
LEMMA GivesUp ==
    ASSUME BarterInv, TypeOK', inv' = inv,
           \A r \in Players : pending'[r] \in {pending[r], NoOne} /\ cont'[r] \in {cont[r], Empty}
    PROVE  Lasting' /\ Bartering!Withdraw
<1>1. Lasting' /\ \A r \in Players : Firm(r)' \in {Firm(r), NoOne}
  BY Weaker
<1>2. \A r \in Players : Held(r)' = Held(r) /\ Offered(r)' \in {Offered(r), Bartering!Nothing}
  BY Views, ViewsNext, NothingOffered
<1> QED
  BY <1>1, <1>2, WithdrawStep

LEMMA BarterLeave ==
    ASSUME BarterInv, TypeOK', NEW p \in Players, Leave(p) \/ Enter(p)
    PROVE  Lasting' /\ Bartering!Withdraw
<1>0. pending \in [Players -> Players \cup {NoOne}]
  BY DEF BarterInv, TradeInv, TypeOK
<1>1. inv' = inv /\ \A r \in Players : pending'[r] \in {pending[r], NoOne} /\ cont'[r] = cont[r]
  BY <1>0 DEF Leave, Enter
<1> QED
  BY <1>1, GivesUp

LEMMA BarterCancel ==
    ASSUME BarterInv, TypeOK', NEW p \in Players, NEW q \in Players, Cancel(p, q)
    PROVE  Lasting' /\ Bartering!Withdraw
<1>1. inv' = inv /\ \A r \in Players : pending'[r] \in {pending[r], NoOne} /\ cont'[r] \in {cont[r], Empty}
  BY DEF Cancel, Cleaned
<1> QED
  BY <1>1, GivesUp

\* A request goes to a container out of any trade, from a player who is in none.
LEMMA BarterAsk ==
    ASSUME BarterInv, TypeOK', NEW p \in Players, NEW q \in Players, Ask(p, q)
    PROVE  Lasting' /\ Bartering!Withdraw
<1>0. /\ pending \in [Players -> Players \cup {NoOne}] /\ NoOne \notin Players
      /\ inv' = inv /\ cont' = cont /\ p # q /\ cont[q].type = "EMPTY"
      /\ pending' = [pending EXCEPT ![p] = q, ![q] = p]
  BY TradeConstants DEF BarterInv, TradeInv, TypeOK, Ask
<1>1. /\ pending'[p] = q /\ pending'[q] = p
      /\ \A r \in Players \ {p, q} : pending'[r] = pending[r]
  BY <1>0
<1>2. ASSUME NEW r \in Players, NEW s \in Players, Trading(r, s)'
      PROVE  Trading(r, s) /\ pending'[r] = pending[r]
  BY <1>0, <1>1, <1>2
<1>3. Lasting'
  BY <1>0, <1>2 DEF Lasting, BarterInv
<1>4. ASSUME NEW r \in Players PROVE Firm(r)' \in {Firm(r), NoOne}
  <2>1. CASE Firm(r)' = NoOne
    BY <2>1
  <2>2. CASE Firm(r)' # NoOne
    <3>1. PICK s : s = pending'[r] /\ cont'[r].lock /\ Trading(r, s)'
      BY <2>2 DEF Firm
    <3>2. Trading(r, s) /\ pending'[r] = pending[r]
      BY <1>2, <3>1
    <3> QED
      BY <1>0, <3>1, <3>2 DEF Firm
  <2> QED
    BY <2>1, <2>2
<1>5. \A r \in Players : Held(r)' = Held(r) /\ Offered(r)' = Offered(r)
  BY <1>0, Views, ViewsNext
<1> QED
  BY <1>3, <1>4, <1>5, WithdrawStep

\* Both containers open clean, so neither side is committed.
LEMMA BarterAccept ==
    ASSUME BarterInv, TypeOK', NEW p \in Players, NEW q \in Players, NEW near \in BOOLEAN,
           Accept(p, q, near)
    PROVE  Lasting' /\ Bartering!Withdraw
<1>0. /\ pending \in [Players -> Players \cup {NoOne}] /\ NoOne \notin Players
      /\ inv' = inv /\ p # q /\ pending[p] = q /\ pending[q] = p
      /\ cont \in [Players -> Containers]
  BY TradeConstants DEF BarterInv, TradeInv, TypeOK, Accept, Target
<1>1. CASE near /\ cont[p].type = "EMPTY" /\ cont[q].type = "EMPTY"
  <2>1. pending' = pending /\ cont' = [cont EXCEPT ![p] = Opened(@), ![q] = Opened(@)]
    BY <1>1 DEF Accept
  <2>2. cont[p] = Empty /\ cont[q] = Empty
    BY <1>1 DEF BarterInv, Lasting
  <2>3. Opened(Empty).lock = FALSE /\ Opened(Empty).type = "TRADE" /\ Opened(Empty).slot = Empty.slot
    BY DEF Opened, Empty
  <2>4. /\ \A r \in Players \ {p, q} : cont'[r] = cont[r]
        /\ \A r \in {p, q} : cont'[r] = Opened(Empty) /\ cont[r] = Empty
    BY <1>0, <2>1, <2>2
  <2>5. ASSUME NEW r \in Players, NEW s \in Players, Trading(r, s)', r \notin {p, q}
        PROVE  Trading(r, s) /\ cont'[r] = cont[r] /\ cont'[s] = cont[s]
    BY <1>0, <2>1, <2>4, <2>5
  <2>6. Lasting'
    <3>1. ASSUME NEW r \in Players, cont'[r].type = "EMPTY" PROVE cont'[r] = Empty
      <4>1. r \notin {p, q}
        BY <2>3, <2>4, <3>1
      <4> QED
        BY <2>4, <3>1, <4>1 DEF BarterInv, Lasting
    <3>2. ASSUME NEW r \in Players, NEW s \in Players, Trading(r, s)'
          PROVE  ~(cont'[r].lock /\ cont'[s].lock)
      <4>1. CASE r \in {p, q}
        BY <2>3, <2>4, <4>1
      <4>2. CASE r \notin {p, q}
        BY <2>5, <3>2, <4>2 DEF BarterInv, Lasting
      <4> QED
        BY <4>1, <4>2
    <3> QED
      BY <3>1, <3>2 DEF Lasting
  <2>7. ASSUME NEW r \in Players PROVE Firm(r)' \in {Firm(r), NoOne}
    <3>1. CASE r \in {p, q}
      BY <2>3, <2>4, <3>1 DEF Firm
    <3>2. CASE r \notin {p, q} /\ Firm(r)' # NoOne
      <4>1. PICK s : s = pending'[r] /\ cont'[r].lock /\ Trading(r, s)'
        BY <3>2 DEF Firm
      <4> QED
        BY <2>1, <2>5, <3>2, <4>1 DEF Firm
    <3> QED
      BY <3>1, <3>2
  <2>8. \A r \in Players : cont'[r].slot = cont[r].slot
    BY <2>3, <2>4
  <2>9. \A r \in Players : Held(r)' = Held(r) /\ Offered(r)' = Offered(r)
    BY <1>0, <2>8, Views, ViewsNext, OfferBySlots
  <2> QED
    BY <2>6, <2>7, <2>9, WithdrawStep
<1>2. CASE ~(near /\ cont[p].type = "EMPTY" /\ cont[q].type = "EMPTY")
  <2>1. cont' = cont /\ pending' = [pending EXCEPT ![p] = NoOne, ![q] = NoOne]
    BY <1>2 DEF Accept
  <2>2. \A r \in Players : pending'[r] \in {pending[r], NoOne} /\ cont'[r] = cont[r]
    BY <1>0, <2>1
  <2> QED
    BY <1>0, <2>2, GivesUp
<1> QED
  BY <1>1, <1>2

\* The first to confirm is committed, if the other side is in the trade.
LEMMA BarterConfirmFirst ==
    ASSUME BarterInv, TypeOK', NEW p \in Players, NEW q \in Players, Confirm(p, q), ~cont[q].lock
    PROVE  Lasting' /\ (Bartering!Withdraw \/ Bartering!Commit(p, q))
<1>0. /\ pending \in [Players -> Players \cup {NoOne}] /\ NoOne \notin Players
      /\ inv' = inv /\ pending' = pending /\ p # q /\ pending[p] = q /\ pending[q] = p
      /\ cont[p].type = "TRADE" /\ cont \in [Players -> Containers]
      /\ cont' = [cont EXCEPT ![p] = [@ EXCEPT !.lock = TRUE]]
  BY TradeConstants DEF BarterInv, TradeInv, TypeOK, Confirm, Target
<1>1. /\ cont'[p].lock = TRUE /\ cont'[p].type = cont[p].type /\ cont'[p].slot = cont[p].slot
      /\ \A r \in Players \ {p} : cont'[r] = cont[r]
  BY <1>0 DEF Containers
<1>2. \A r, s \in Players : Trading(r, s)' <=> Trading(r, s)
  BY <1>0, <1>1
<1>3. Lasting'
  <2>1. ASSUME NEW r \in Players, cont'[r].type = "EMPTY" PROVE cont'[r] = Empty
    BY <1>0, <1>1, <2>1 DEF BarterInv, Lasting
  <2>2. ASSUME NEW r \in Players, NEW s \in Players, Trading(r, s)'
        PROVE  ~(cont'[r].lock /\ cont'[s].lock)
    <3>1. Trading(r, s)
      BY <1>0, <1>2, <2>2
    <3>2. CASE p \in {r, s}
      BY <1>0, <1>1, <3>1, <3>2
    <3>3. CASE p \notin {r, s}
      BY <1>1, <3>1, <3>3 DEF BarterInv, Lasting
    <3> QED
      BY <3>2, <3>3
  <2> QED
    BY <2>1, <2>2 DEF Lasting
<1>4. \A r \in Players : Held(r)' = Held(r) /\ Offered(r)' = Offered(r)
  <2>1. \A r \in Players : cont'[r].slot = cont[r].slot
    BY <1>1
  <2>2. ASSUME NEW r \in Players PROVE Held(r)' = Held(r) /\ Offered(r)' = Offered(r)
    <3>1. /\ Held(r) = HeldBy(inv[r]) /\ Held(r)' = HeldBy(inv[r])
          /\ Offered(r) = OfferOf(inv[r], cont[r]) /\ Offered(r)' = OfferOf(inv[r], cont'[r])
      BY <1>0, Views, ViewsNext
    <3>2. OfferOf(inv[r], cont'[r]) = OfferOf(inv[r], cont[r])
      BY <2>1, OfferBySlots
    <3> QED
      BY <3>1, <3>2
  <2> QED
    BY <2>2
<1>5. \A r \in Players \ {p} : Firm(r)' = Firm(r)
  BY <1>0, <1>1, <1>2 DEF Firm
<1>6. Firm(p)' \in {Firm(p), NoOne} \/ (Firm(p) = NoOne /\ Firm(p)' = q)
  BY <1>0, <1>1, <1>2 DEF Firm
<1>7. CASE Firm(p)' \in {Firm(p), NoOne}
  BY <1>3, <1>4, <1>5, <1>7, WithdrawStep
<1>8. CASE Firm(p) = NoOne /\ Firm(p)' = q
  BY <1>3, <1>4, <1>5, <1>8, CommitStep
<1> QED
  BY <1>6, <1>7, <1>8

\* What each side has after an exchange is what Barter says.
LEMMA BarterExchange ==
    ASSUME TradeInv, NEW p \in Players, NEW q \in Players, p # q,
           CanTrade(p, q), CanTrade(q, p),
           inv' = DoTrade(q, p, DoTrade(p, q, inv))
    PROVE  /\ Swapped(p, q) /\ Swapped(q, p)
           /\ \A r \in Players \ {p, q} : inv'[r] = inv[r]
<1>1. PICK fin : fin = DoTrade(q, p, DoTrade(p, q, inv))
  OBVIOUS
<1>2. /\ fin \in GoodBags /\ \A r \in Players \ {p, q} : fin[r] = inv[r]
      /\ \A i : /\ HeldIn(inv[p], i) - OfferedIn(inv[p], cont[p], i) \in Nat
                /\ HeldIn(fin[p], i) = More(HeldIn(inv[p], i) - OfferedIn(inv[p], cont[p], i),
                                            OfferedIn(inv[q], cont[q], i), i)
                /\ HeldIn(fin[q], i) = More(HeldIn(inv[q], i), OfferedIn(inv[p], cont[p], i), i)
                                       - OfferedIn(inv[q], cont[q], i)
  BY <1>1, ExchangeMoves
<1>3. /\ inv[p] \in Bags /\ inv[q] \in Bags /\ fin[p] \in Bags /\ fin[q] \in Bags
      /\ cont[p] \in Containers /\ cont[q] \in Containers
  BY <1>2 DEF GoodBags, TradeInv, TypeOK
<1>4. ASSUME NEW i \in Ids
      PROVE  /\ Held(p)[i] = HeldIn(inv[p], i) /\ Held(q)[i] = HeldIn(inv[q], i)
             /\ Held(p)'[i] = HeldIn(fin[p], i) /\ Held(q)'[i] = HeldIn(fin[q], i)
             /\ Offered(p)[i] = OfferedIn(inv[p], cont[p], i)
             /\ Offered(q)[i] = OfferedIn(inv[q], cont[q], i)
  BY <1>1, Views, ViewsNext DEF HeldBy, OfferOf
<1>5. ASSUME NEW i \in Ids
      PROVE  LET fair == Held(p)[i] - Offered(p)[i] + Offered(q)[i]
                 back == Held(q)[i] - Offered(q)[i] + Offered(p)[i]
                 cap == IF i = Gil THEN Stack[Gil] ELSE Stack[i] * Size
             IN  /\ IF Held(p)[i] + Offered(q)[i] <= cap THEN Held(p)'[i] = fair
                                                         ELSE Held(p)'[i] \in 0 .. fair
                 /\ IF Held(q)[i] + Offered(p)[i] <= cap THEN Held(q)'[i] = back
                                                         ELSE Held(q)'[i] \in 0 .. back
  <2>1. PICK hp, hq, op, oq, np, nq, top :
           /\ hp = HeldIn(inv[p], i) /\ hq = HeldIn(inv[q], i) /\ top = Stack[Gil]
           /\ op = OfferedIn(inv[p], cont[p], i) /\ oq = OfferedIn(inv[q], cont[q], i)
           /\ np = HeldIn(fin[p], i) /\ nq = HeldIn(fin[q], i)
    OBVIOUS
  <2>2. /\ hp \in Nat /\ hq \in Nat /\ op \in Nat /\ oq \in Nat /\ np \in Nat /\ nq \in Nat
        /\ top \in Nat
    BY <1>3, <2>1, HeldType, SoFarNext, TradeConstants DEF Ids
  <2>3. hp - op \in Nat /\ np = More(hp - op, oq, i) /\ nq = More(hq, op, i) - oq
    BY <1>2, <2>1
  <2>4. /\ Held(p)[i] = hp /\ Held(q)[i] = hq /\ Held(p)'[i] = np /\ Held(q)'[i] = nq
        /\ Offered(p)[i] = op /\ Offered(q)[i] = oq
    BY <1>4, <2>1
  <2>5. CASE i = Gil
    <3>1. /\ np = IF hp - op + oq <= top THEN hp - op + oq ELSE top
          /\ nq = (IF hq + op <= top THEN hq + op ELSE top) - oq
      BY <2>1, <2>3, <2>5 DEF More, Least
    <3>2. /\ IF hp + oq <= top THEN np = hp - op + oq ELSE np \in 0 .. hp - op + oq
          /\ IF hq + op <= top THEN nq = hq - oq + op ELSE nq \in 0 .. hq - oq + op
      BY <2>2, <2>3, <3>1
    <3> QED
      BY <2>1, <2>4, <2>5, <3>2
  <2>6. CASE i # Gil
    <3>1. np = hp - op + oq /\ nq = hq - oq + op
      BY <2>2, <2>3, <2>6 DEF More
    <3>2. np \in 0 .. hp - op + oq /\ nq \in 0 .. hq - oq + op
      BY <2>2, <3>1
    <3> QED
      BY <2>4, <3>1, <3>2
  <2> QED
    BY <2>5, <2>6
<1> QED
  BY <1>1, <1>2, <1>5 DEF Swapped

\* The second to confirm makes the exchange, or ends the trade without one.
LEMMA BarterConfirmSecond ==
    ASSUME BarterInv, TypeOK', NEW p \in Players, NEW q \in Players, Confirm(p, q), cont[q].lock
    PROVE  Lasting' /\ (Bartering!Withdraw \/ Bartering!Deal(p, q))
<1>0. /\ pending \in [Players -> Players \cup {NoOne}] /\ NoOne \notin Players
      /\ p # q /\ pending[p] = q /\ pending[q] = p /\ cont[p].type = "TRADE"
      /\ cont' = Cleaned({p, q}) /\ pending' = [pending EXCEPT ![p] = NoOne, ![q] = NoOne]
      /\ inv' = IF CanTrade(p, q) /\ CanTrade(q, p)
                THEN DoTrade(q, p, DoTrade(p, q, inv)) ELSE inv
      /\ cont \in [Players -> Containers]
  BY TradeConstants DEF BarterInv, TradeInv, TypeOK, Confirm, Target
<1>1. /\ \A r \in Players \ {p, q} : cont'[r] = cont[r] /\ pending'[r] = pending[r]
      /\ \A r \in {p, q} : cont'[r] = Empty /\ pending'[r] = NoOne
  BY <1>0 DEF Cleaned
<1>2. \A r \in Players : pending'[r] \in {pending[r], NoOne} /\ cont'[r] \in {cont[r], Empty}
  BY <1>1
<1>3. Lasting'
  BY <1>2, Weaker
<1>4. CASE ~(CanTrade(p, q) /\ CanTrade(q, p))
  BY <1>0, <1>2, <1>4, GivesUp
<1>5. CASE CanTrade(p, q) /\ CanTrade(q, p)
  <2>1. /\ Swapped(p, q) /\ Swapped(q, p)
        /\ \A r \in Players \ {p, q} : inv'[r] = inv[r]
    BY <1>0, <1>5, BarterExchange DEF BarterInv
  <2>2. cont[q].type = "TRADE"
    <3>1. Empty.lock = FALSE /\ cont[q].type \in {"EMPTY", "TRADE"}
      BY <1>0 DEF Empty, Containers
    <3> QED
      BY <3>1 DEF BarterInv, Lasting
  <2>3. Trading(p, q) /\ Trading(q, p) /\ ~cont[p].lock
    BY <1>0, <2>2 DEF BarterInv, Lasting
  <2>4. Firm(q) = p /\ Firm(p) = NoOne
    BY <1>0, <2>3 DEF Firm
  <2>5. Firm(q)' = NoOne /\ Firm(p)' = NoOne
    BY <1>0, <1>1 DEF Firm, Empty
  <2>6. ASSUME NEW r \in Players \ {p, q} PROVE Firm(r)' = Firm(r)
    <3>1. cont'[r] = cont[r] /\ pending'[r] = pending[r]
      BY <1>1
    <3>2. Trading(r, pending[r]) => pending[r] \in Players \ {p, q}
      BY <1>0
    <3>3. pending'[r] \in {p, q} => ~Trading(r, pending[r])'
      BY <1>0, <1>1
    <3>4. Trading(r, pending[r])' <=> Trading(r, pending[r])
      BY <1>0, <1>1, <3>1, <3>2, <3>3
    <3> QED
      BY <3>1, <3>4 DEF Firm
  <2>7. \A r \in Players \ {q} : Firm(r)' = Firm(r)
    BY <2>4, <2>5, <2>6
  <2>8. \A r \in Players \ {p, q} : Held(r)' = Held(r) /\ Offered(r)' = Offered(r)
    BY <1>1, <2>1, Views, ViewsNext
  <2>9. \A r \in {p, q} : Offered(r)' = Bartering!Nothing
    BY <1>1, ViewsNext, NothingOffered
  <2>10. \A r \in Players : Offered(r)' = IF r \in {p, q} THEN Bartering!Nothing ELSE Offered(r)
    BY <2>8, <2>9
  <2>11. Bartering!Deal(p, q)
    BY <1>0, <2>1, <2>4, <2>5, <2>7, <2>8, <2>10, DealStep
  <2> QED
    BY <1>3, <2>11
<1> QED
  BY <1>4, <1>5

\* Where nobody's type, lock or request changes, the same players stand by their offers.
LEMMA SameFirm ==
    ASSUME BarterInv, pending' = pending,
           \A r \in Players : cont'[r].type = cont[r].type /\ cont'[r].lock = cont[r].lock,
           \A r \in Players : cont'[r].type = "EMPTY" => cont'[r] = cont[r]
    PROVE  Lasting' /\ \A r \in Players : Firm(r)' = Firm(r)
<1>1. \A r, s \in Players : Trading(r, s)' <=> Trading(r, s)
  OBVIOUS
<1>2. Lasting'
  BY <1>1 DEF BarterInv, Lasting
<1>3. ASSUME NEW r \in Players PROVE Firm(r)' = Firm(r)
  <2>1. Trading(r, pending[r])' <=> Trading(r, pending[r])
    OBVIOUS
  <2> QED
    BY <2>1 DEF Firm
<1> QED
  BY <1>2, <1>3

\* Laying an item out changes the offer of a player who has not confirmed, and
\* no holdings.
LEMMA BarterLay ==
    ASSUME BarterInv, TypeOK', NEW p \in Players, NEW q \in Players,
           NEW s \in Slots, NEW t \in Window, NEW n \in 0..inv[p][s].qty, Lay(p, q, n, s, t)
    PROVE  Lasting' /\ Bartering!LayOut
<1>0. /\ inv \in [Players -> Bags] /\ cont \in [Players -> Containers]
      /\ inv' \in [Players -> Bags] /\ pending' = pending
      /\ cont[p].type = "TRADE" /\ ~cont[p].lock
  BY DEF BarterInv, TradeInv, TypeOK, Lay
<1>1. PICK m : m = Least(n, inv[p][s].qty)
  OBVIOUS
<1>2. PICK d : d = SetItem(cont[p], t, IF n > 0 THEN s ELSE NoSlot)
  OBVIOUS
<1>3. inv' = [inv EXCEPT ![p] = [inv[p] EXCEPT ![s] = [inv[p][s] EXCEPT !.reserve = m]]]
  BY <1>1 DEF Lay, PutItem
<1>4. cont' = [cont EXCEPT ![p] = d]
  BY <1>2 DEF Lay, PutItem
<1>5. d.type = cont[p].type /\ d.lock = cont[p].lock
  BY <1>0, <1>2 DEF SetItem, Containers
<1>6. /\ \A r \in Players \ {p} : cont'[r] = cont[r] /\ inv'[r] = inv[r]
      /\ cont'[p] = d
  BY <1>0, <1>3, <1>4
<1>7. Lasting' /\ \A r \in Players : Firm(r)' = Firm(r)
  <2>1. \A r \in Players : cont'[r].type = cont[r].type /\ cont'[r].lock = cont[r].lock
    BY <1>5, <1>6
  <2>2. \A r \in Players : cont'[r].type = "EMPTY" => cont'[r] = cont[r]
    BY <1>0, <1>5, <1>6
  <2> QED
    BY <1>0, <2>1, <2>2, SameFirm
<1>8. Held(p)' = Held(p)
  <2>1. PICK bag, new : bag = inv[p] /\ new = inv'[p]
    OBVIOUS
  <2>2. bag \in Bags /\ new \in Bags /\ new = [bag EXCEPT ![s] = [bag[s] EXCEPT !.reserve = m]]
    BY <1>0, <1>3, <2>1
  <2>3. bag \in [Slots -> Items \cup Money] /\ bag[s] # NoItem
    BY <2>1, <2>2, BagSlots DEF Lay
  <2>4. \A u \in Slots : new[u].id = bag[u].id /\ new[u].qty = bag[u].qty
    <3>1. new[s] = [bag[s] EXCEPT !.reserve = m] /\ \A u \in Slots \ {s} : new[u] = bag[u]
      BY <2>2, <2>3
    <3>2. new[s].id = bag[s].id /\ new[s].qty = bag[s].qty
      <4>1. bag[s] = [id |-> bag[s].id, qty |-> bag[s].qty, reserve |-> bag[s].reserve]
        BY <2>2, <2>3, BagSlots, ItemKinds DEF IsGood, Money
      <4> QED
        BY <3>1, <4>1
    <3> QED
      BY <3>1, <3>2
  <2>5. ASSUME NEW i PROVE HeldIn(new, i) = HeldIn(bag, i)
    <3>1. \A u \in Slots : Worth(new[u], i) = Worth(bag[u], i)
      BY <2>4 DEF Worth
    <3>2. [u \in Slots |-> Worth(new[u], i)] = [u \in Slots |-> Worth(bag[u], i)]
      BY <3>1
    <3> QED
      BY <3>2 DEF HeldIn
  <2> QED
    BY <2>1, <2>5, Views, ViewsNext DEF HeldBy
<1>9. \A r \in Players : Held(r)' = Held(r)
  BY <1>6, <1>8, Views, ViewsNext
<1>10. Firm(p) = NoOne
  BY <1>0 DEF Firm
<1>11. \A r \in Players : Firm(r) # NoOne => Offered(r)' = Offered(r)
  BY <1>6, <1>10, Views, ViewsNext
<1> QED
  BY <1>7, <1>9, <1>11, LayOutStep

\* What comes from elsewhere takes a free slot, and leaves what is laid out alone.
LEMMA BarterArrive ==
    ASSUME BarterInv, TypeOK', NEW p \in Players, NEW id \in Finds, Arrive(p, id)
    PROVE  Lasting' /\ Bartering!Acquire
<1>0. /\ inv \in [Players -> Bags] /\ cont \in [Players -> Containers]
      /\ inv' \in [Players -> Bags] /\ pending' = pending /\ cont' = cont
      /\ id \in Ids /\ id # Gil
  BY TradeConstants DEF BarterInv, TradeInv, TypeOK, Arrive, Ids
<1>1. PICK bag, new : bag = inv[p] /\ new = AddNew(bag, id, 1)
  OBVIOUS
<1>2. inv' = [inv EXCEPT ![p] = new]
  BY <1>1 DEF Arrive
<1>3. /\ inv'[p] = new /\ \A r \in Players \ {p} : inv'[r] = inv[r]
      /\ bag \in Bags /\ new \in Bags
  BY <1>0, <1>1, <1>2
<1>4. Lasting' /\ \A r \in Players : Firm(r)' = Firm(r)
  BY <1>0, SameFirm
<1>5. new = bag \/ Received(bag, new, id, 1)
  <2>1. CASE new # bag
    <3>1. PICK x : x = [id |-> id, qty |-> Least(1, Stack[id]), reserve |-> 0]
      OBVIOUS
    <3>2. Stack[id] \in Nat \ {0} /\ id \in Goods
      BY <1>0, TradeConstants DEF Ids
    <3>3. Least(1, Stack[id]) = 1
      BY <3>2 DEF Least
    <3>4. x.id = id /\ x.qty = 1 /\ IsGood(x)
      BY <3>1, <3>2, <3>3 DEF IsGood
    <3>5. x \in Items /\ x # NoItem
      BY <3>4, ItemKinds, TradeConstants DEF IsGood, NoItem, Ids
    <3>6. FreeSlots(bag) # {} /\ new = AddItem(bag, x)
      BY <1>1, <2>1, <3>1 DEF AddNew
    <3>7. new = [bag EXCEPT ![Min(FreeSlots(bag))] = x]
      BY <1>0, <2>1, <3>4, <3>6 DEF AddItem
    <3>8. Received(bag, [bag EXCEPT ![Min(FreeSlots(bag))] = x], x.id, x.qty)
      BY <1>3, <3>5, <3>6, AddedGoods
    <3> QED
      BY <3>4, <3>7, <3>8
  <2> QED
    BY <2>1
<1>6. \A i : HeldIn(new, i) >= HeldIn(bag, i)
  <2>1. ASSUME NEW i PROVE HeldIn(new, i) >= HeldIn(bag, i)
    <3>1. HeldIn(bag, i) \in Nat
      BY <1>3, HeldType
    <3>2. CASE new = bag
      BY <3>1, <3>2
    <3>3. CASE Received(bag, new, id, 1)
      <4>1. HeldIn(new, i) = IF i = id THEN More(HeldIn(bag, i), 1, i) ELSE HeldIn(bag, i)
        BY <3>3 DEF Received
      <4> QED
        BY <1>0, <3>1, <4>1 DEF More
    <3> QED
      BY <1>5, <3>2, <3>3
  <2> QED
    BY <2>1
<1>7. Offered(p)' = Offered(p)
  <2>1. PICK c : c = cont[p]
    OBVIOUS
  <2>2. c \in Containers /\ Owned(bag, c)
    BY <1>0, <1>1, <2>1 DEF BarterInv, TradeInv
  <2>3. \A t \in Filled(c) : /\ new[c.slot[t]].id = bag[c.slot[t]].id
                             /\ new[c.slot[t]].reserve = bag[c.slot[t]].reserve
    <3>1. ASSUME NEW t \in Filled(c)
          PROVE  /\ new[c.slot[t]].id = bag[c.slot[t]].id
                 /\ new[c.slot[t]].reserve = bag[c.slot[t]].reserve
      <4>1. c.slot[t] \in Slots /\ bag[c.slot[t]] # NoItem
        BY <2>2, FilledSlots DEF Owned
      <4>2. CASE new = bag
        BY <4>2
      <4>3. CASE Received(bag, new, id, 1)
        <5>1. new[0].id = Gil /\ new[0].reserve = bag[0].reserve /\ bag[0].id = Gil
          BY <1>3, <4>3, BagSlots DEF Received
        <5>2. c.slot[t] # 0 => new[c.slot[t]] = bag[c.slot[t]]
          BY <4>1, <4>3 DEF Received
        <5> QED
          BY <5>1, <5>2
      <4> QED
        BY <1>5, <4>2, <4>3
    <3> QED
      BY <3>1
  <2>4. \A i : OfferedIn(new, c, i) = OfferedIn(bag, c, i)
    BY <1>3, <2>2, <2>3, OfferSame
  <2> QED
    BY <1>0, <1>1, <1>3, <2>1, <2>4, Views, ViewsNext DEF OfferOf
<1>8. \A r \in Players : Offered(r)' = Offered(r)
  BY <1>0, <1>3, <1>7, Views, ViewsNext
<1>9. ASSUME NEW r \in Players, NEW i \in Ids PROVE Held(r)'[i] >= Held(r)[i]
  <2>1. Held(r)[i] = HeldIn(inv[r], i) /\ Held(r)'[i] = HeldIn(inv'[r], i)
    BY Views, ViewsNext DEF HeldBy
  <2>2. HeldIn(inv[r], i) \in Nat
    BY <1>0, HeldType
  <2> QED
    BY <1>1, <1>3, <1>6, <2>1, <2>2
<1> QED
  BY <1>4, <1>8, <1>9, AcquireStep

\* Every step keeps the invariant, and is a step of Barter or none.
LEMMA BarterStep ==
    BarterInv /\ [Next]_vars =>
        BarterInv' /\ [Bartering!Next]_Bartering!vars
<1> SUFFICES ASSUME BarterInv, [Next]_vars
             PROVE  /\ BarterInv'
                    /\ \/ Bartering!Next
                       \/ \A p \in Players : /\ Held(p)' = Held(p) /\ Offered(p)' = Offered(p)
                                             /\ Firm(p)' = Firm(p)
  BY DEF Bartering!vars
<1>1. TradeInv' /\ TypeOK'
  BY TradeInvNext DEF BarterInv, TradeInv
<1>2. CASE UNCHANGED vars
  <2>1. Lasting'
    BY <1>2 DEF vars, BarterInv, Lasting
  <2>2. \A p \in Players : Held(p)' = Held(p) /\ Offered(p)' = Offered(p)
    BY <1>2, Views, ViewsNext DEF vars
  <2>3. \A p \in Players : Firm(p)' = Firm(p)
    BY <1>2 DEF vars, Firm
  <2> QED
    BY <1>1, <2>1, <2>2, <2>3 DEF BarterInv
<1>3. ASSUME NEW p \in Players, Leave(p) \/ Enter(p)
      PROVE  Lasting' /\ Bartering!Next
  BY <1>1, <1>3, BarterLeave DEF Bartering!Next
<1>4. ASSUME NEW p \in Players, NEW id \in Finds, Arrive(p, id)
      PROVE  Lasting' /\ Bartering!Next
  BY <1>1, <1>4, BarterArrive DEF Bartering!Next
<1>5. ASSUME NEW p \in Players, NEW q \in Players,
             Ask(p, q) \/ Cancel(p, q) \/ \E near \in BOOLEAN : Accept(p, q, near)
      PROVE  Lasting' /\ Bartering!Next
  BY <1>1, <1>5, BarterAsk, BarterCancel, BarterAccept DEF Bartering!Next
<1>6. ASSUME NEW p \in Players, NEW q \in Players, Confirm(p, q)
      PROVE  Lasting' /\ Bartering!Next
  BY <1>1, <1>6, BarterConfirmFirst, BarterConfirmSecond DEF Bartering!Next
<1>7. ASSUME NEW p \in Players, NEW q \in Players, NEW s \in Slots, NEW t \in Window,
             NEW n \in 0..inv[p][s].qty, Lay(p, q, n, s, t)
      PROVE  Lasting' /\ Bartering!Next
  BY <1>1, <1>7, BarterLay DEF Bartering!Next
<1> QED
  BY <1>1, <1>2, <1>3, <1>4, <1>5, <1>6, <1>7 DEF Next, BarterInv

LEMMA BarterInvInit == Init => BarterInv
BY TradeInvInit, LastingInit DEF BarterInv

\* Trades implement Barter: whatever players ask, answer, lay out, confirm, cancel or leave, goods
\* change hands only when both have confirmed, both sides at once, and exactly as laid out; only
\* gil beyond a full purse is lost.
THEOREM TradeImplementsBarter == Spec => TradesAreBarter
BY BarterInvInit, BarterInit, BarterStep, PTL DEF Spec, TradesAreBarter, Bartering!Spec
=============================================================================
