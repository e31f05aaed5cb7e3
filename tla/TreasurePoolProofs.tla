------------------------- MODULE TreasurePoolProofs -------------------------
(***************************************************************************)
(* TreasurePool keeps its books for every number of characters, slots and  *)
(* ticks: TypeOK, CountIsOccupied and DropsConserved are invariants.       *)
(***************************************************************************)
EXTENDS TreasurePool, IterationLemmas

-----------------------------------------------------------------------------
(* Type correctness.                                                       *)

\* The slots are finitely many numbers, and so are the occupied ones.
LEMMA SlotsFinite ==
    /\ Slots \subseteq Nat /\ Slots # {} /\ IsFiniteSet(Slots)
    /\ \A T \in SUBSET Slots : IsFiniteSet(T) /\ Cardinality(T) \in Nat
<1>1. NSlots \in Nat \ {0}
    BY SizeAssumption
<1>2. IsFiniteSet(0 .. NSlots - 1)
    BY <1>1, FS_Interval
<1>3. 0 \in 0 .. NSlots - 1
    BY <1>1
<1>4. Slots = 0 .. NSlots - 1
    BY DEF Slots
<1>5. Slots \subseteq Nat
    BY <1>1, <1>4
<1>6. \A T \in SUBSET Slots : IsFiniteSet(T) /\ Cardinality(T) \in Nat
    BY <1>2, <1>4, FS_Subset, FS_CardinalityType
<1> QED BY <1>2, <1>3, <1>4, <1>5, <1>6

\* uint32 subtraction stays within the ticks.
LEMMA SubType ==
    ASSUME NEW a \in Ticks, NEW b \in Ticks
    PROVE  Sub(a, b) \in Ticks
BY TickAssumption DEF Sub, Ticks

\* Whatever is decided of a slot is an outcome.
LEMMA OutcomesType ==
    ASSUME NEW item, NEW tick, NEW room \in SUBSET Chars
    PROVE  Outcomes(item, tick, room) \subseteq Outcome
<1>1. Claimants(item.Lotters, room) \subseteq Chars
    BY DEF Claimants
<1>2. \A c \in Chars : Won(c) \in Outcome /\ Error(c) \in Outcome
    BY DEF Won, Error, Outcome
<1>3. Kept \in Outcome /\ Lost \in Outcome
    BY DEF Kept, Lost, Outcome
<1> QED BY <1>1, <1>2, <1>3 DEF Outcomes

\* A vote leaves a well-formed slot, with the same item and time.
LEMMA WithLotType ==
    ASSUME NEW item \in PoolItem, NEW c \in Chars, NEW lot \in Lots
    PROVE  /\ WithLot(item, c, lot) \in PoolItem
           /\ WithLot(item, c, lot).ID = item.ID
<1> DEFINE mine == {i \in DOMAIN item.Lotters : item.Lotters[i].member = c}
<1> USE DEF PoolItem
<1>1. item.Lotters \in Seq(LotInfo)
    OBVIOUS
<1>2. 0 \in Lots
    BY SizeAssumption DEF Lots
<1>3. CASE lot = 0 /\ mine # {}
    <2> DEFINE lots == [item.Lotters EXCEPT ![Min(mine)] = [lot |-> 0, member |-> c]]
    <2>1. WithLot(item, c, lot) = [item EXCEPT !.Lotters = lots]
        BY <1>3 DEF WithLot
    <2>2. Min(mine) \in DOMAIN item.Lotters
        <3>1. mine \in SUBSET Nat
            BY <1>1
        <3>2. Min(mine) \in mine
            BY <1>3, <3>1, MinOfNaturals
        <3> QED BY <3>2
    <2>3. [lot |-> 0, member |-> c] \in LotInfo
        BY <1>2 DEF LotInfo
    <2>4. lots \in Seq(LotInfo)
        BY <1>1, <2>2, <2>3, ExceptSeq
    <2> HIDE DEF lots
    <2> QED BY <2>1, <2>4
<1>4. CASE ~ (lot = 0 /\ mine # {})
    <2>1. WithLot(item, c, lot)
             = [item EXCEPT !.Lotters = Append(@, [lot |-> lot, member |-> c])]
        BY <1>4 DEF WithLot
    <2>2. [lot |-> lot, member |-> c] \in LotInfo
        BY DEF LotInfo
    <2>3. Append(item.Lotters, [lot |-> lot, member |-> c]) \in Seq(LotInfo)
        BY <1>1, <2>2
    <2>4. WithLot(item, c, lot)
             = [item EXCEPT !.Lotters = Append(item.Lotters, [lot |-> lot, member |-> c])]
        BY <2>1
    <2> QED BY <2>3, <2>4
<1> QED BY <1>3, <1>4

-----------------------------------------------------------------------------
(* The books: m_count and the history of drops agree with the slots.       *)

\* A pool that does not exist has no members and holds nothing.
AbsentPoolIsEmpty == type = "none" => members = {} /\ Occupied = {}

\* The inductive invariant.  NewPool starts from empty slots, so a deleted pool
\* must be known to be empty; apart from that the two equations need only the
\* types, because a full pool's oldest item is overdue once its TimeStamp is 0.
Books == TypeOK /\ CountIsOccupied /\ DropsConserved /\ AbsentPoolIsEmpty

\* Settling some occupied slots takes as many off the count as it empties.
LEMMA SettleKeepsBooks ==
    ASSUME Books,
           NEW items \in [Slots -> PoolItem], NEW h \in [Slots -> Memory],
           NEW out \in [Slots -> Outcome],
           \A s \in Slots : items[s].ID = m_PoolItems[s].ID,
           Gone(out) \subseteq Occupied,
           Settle(items, h, out),
           UNCHANGED found
    PROVE  /\ m_PoolItems' \in [Slots -> PoolItem]
           /\ m_count' \in Int /\ settled' \in Int
           /\ free' \in [Chars -> Int]
           /\ hist' \in [Slots -> Memory]
           /\ CountIsOccupied' /\ DropsConserved'
<1> DEFINE gone == Gone(out)
<1>1. Occupied \in SUBSET Slots
    BY DEF Occupied
<1>2. IsFiniteSet(Occupied) /\ Cardinality(Occupied) \in Nat
    BY <1>1, SlotsFinite
<1>3. IsFiniteSet(gone) /\ Cardinality(gone) \in Nat
    BY SlotsFinite DEF Gone
<1>4. EmptySlot \in PoolItem
    BY TickAssumption DEF EmptySlot, PoolItem, Ticks
<1>5. m_PoolItems' \in [Slots -> PoolItem]
    BY <1>4 DEF Settle
<1>6. Occupied' = Occupied \ gone
    <2>1. \A s \in Slots : m_PoolItems'[s].ID # NoItem
                              <=> (m_PoolItems[s].ID # NoItem /\ s \notin gone)
        BY DEF Settle, EmptySlot
    <2> HIDE DEF gone
    <2> QED BY <2>1 DEF Occupied
<1>7. Cardinality(Occupied') = Cardinality(Occupied) - Cardinality(gone)
    <2>1. Occupied \cap gone = gone
        OBVIOUS
    <2> QED BY <1>2, <1>6, <2>1, FS_Difference
<1>8. m_count' = m_count - Cardinality(gone) /\ settled' = settled + Cardinality(gone)
    BY DEF Settle
<1>9. m_count \in Int /\ settled \in Int /\ found \in Int
    BY DEF Books, TypeOK
<1>10. CountIsOccupied' /\ DropsConserved'
    <2> HIDE DEF gone
    <2>1. m_count = Cardinality(Occupied) /\ found = settled + Cardinality(Occupied)
        BY DEF Books, CountIsOccupied, DropsConserved
    <2> QED BY <1>2, <1>3, <1>7, <1>8, <1>9, <2>1 DEF CountIsOccupied, DropsConserved
<1>11. free' \in [Chars -> Int]
    <2>1. \A c \in Chars : Cardinality(WinsOf(out, c)) \in Nat
        BY SlotsFinite DEF WinsOf
    <2> QED BY <2>1 DEF Settle, Books, TypeOK
<1>12. hist' \in [Slots -> Memory]
    <2>1. \A s \in Slots : [h[s] EXCEPT !.said = Quiet] \in Memory
        BY DEF Memory, Quiet
    <2> QED BY <2>1 DEF Settle
<1> QED BY <1>3, <1>5, <1>8, <1>9, <1>10, <1>11, <1>12

\* Only a slot that holds an item is settled.
LEMMA OnlyItemsSettle ==
    ASSUME NEW item, NEW tick, NEW room,
           NEW o \in Outcomes(item, tick, room), o.kind # "kept"
    PROVE  item.ID # NoItem
BY DEF Outcomes, Due, Kept

\* An overdue item never stays: BootTick is more than an item's life.
LEMMA OverdueSettles ==
    ASSUME TypeOK, NEW item \in PoolItem, item.ID # NoItem,
           NEW room \in SUBSET Chars,
           NEW o \in Outcomes(Overdue(item), now, room)
    PROVE  o.kind # "kept"
<1>1. Overdue(item).TimeStamp = 0 /\ Overdue(item).ID # NoItem
    BY DEF Overdue, PoolItem
<1>2. Sub(now, 0) > LiveTime
    BY TickAssumption DEF Sub, TypeOK
<1>3. Due(Overdue(item), now, room)
    BY <1>1, <1>2 DEF Due
<1>4. \A c : Won(c).kind = "won" /\ Error(c).kind = "error"
    BY DEF Won, Error
<1>5. Lost.kind = "lost"
    BY DEF Lost
<1> QED BY <1>3, <1>4, <1>5 DEF Outcomes

\* A lot or a pass keeps the books, whatever is remembered of it.
LEMMA LotItemKeepsBooks ==
    ASSUME Books, NEW c \in members, NEW s \in Slots, NEW lot \in Lots,
           NEW h \in [Slots -> Memory], LotItem(c, s, lot, h)
    PROVE  Books'
<1> DEFINE items == [m_PoolItems EXCEPT ![s] = WithLot(@, c, lot)]
<1>0. c \in Chars /\ m_PoolItems \in [Slots -> PoolItem]
    BY DEF Books, TypeOK
<1>1. items \in [Slots -> PoolItem] /\ \A t \in Slots : items[t].ID = m_PoolItems[t].ID
    BY <1>0, WithLotType
<1>2. PICK o : /\ o = Kept \/ o \in Outcomes(items[s], m_Tick, HasRoom)
               /\ Settle(items, h, [t \in Slots |-> IF t = s THEN o ELSE Kept])
               /\ UNCHANGED <<members, type, m_Tick, now, found>>
    BY DEF LotItem
<1> DEFINE out == [t \in Slots |-> IF t = s THEN o ELSE Kept]
<1>3. Kept \in Outcome /\ Kept.kind = "kept"
    BY DEF Kept, Outcome
<1>4. out \in [Slots -> Outcome]
    <2>1. HasRoom \in SUBSET Chars
        BY DEF HasRoom
    <2>2. o \in Outcome
        BY <1>2, <1>3, <2>1, OutcomesType
    <2> QED BY <1>3, <2>2
<1>5. Gone(out) \subseteq Occupied
    <2>1. \A t \in Gone(out) : t = s /\ t \in Slots /\ o.kind # "kept"
        BY <1>3 DEF Gone
    <2>2. o.kind # "kept" => items[s].ID # NoItem
        BY <1>2, <1>3, OnlyItemsSettle
    <2> QED BY <1>1, <2>1, <2>2 DEF Occupied
<1> HIDE DEF items, out
<1>6. /\ m_PoolItems' \in [Slots -> PoolItem]
      /\ m_count' \in Int /\ settled' \in Int
      /\ free' \in [Chars -> Int]
      /\ hist' \in [Slots -> Memory]
      /\ CountIsOccupied' /\ DropsConserved'
    <2>1. Settle(items, h, out)
        BY <1>2 DEF out
    <2> QED BY <1>1, <1>2, <1>4, <1>5, <2>1, SettleKeepsBooks
<1>7. TypeOK'
    BY <1>2, <1>6 DEF Books, TypeOK
<1>8. AbsentPoolIsEmpty'
    BY <1>2 DEF Books, AbsentPoolIsEmpty
<1> QED BY <1>6, <1>7, <1>8 DEF Books

\* One round of the zone timer keeps the books.
LEMMA CheckItemsKeepsBooks ==
    ASSUME Books, NEW tick \in Ticks, CheckItems(tick)
    PROVE  Books'
<1>1. PICK out \in [Slots -> Outcome] :
          /\ \A s \in Slots : out[s] \in Outcomes(m_PoolItems[s], tick, Room(out, s))
          /\ Settle(m_PoolItems, hist, out)
    BY DEF CheckItems
<1>2. UNCHANGED <<members, type, now, found>> /\ m_Tick' = tick /\ members # {}
    BY DEF CheckItems
<1>3. Gone(out) \subseteq Occupied
    BY <1>1, OnlyItemsSettle DEF Gone, Occupied
<1>4. m_PoolItems \in [Slots -> PoolItem] /\ hist \in [Slots -> Memory]
    BY DEF Books, TypeOK
<1>5. /\ m_PoolItems' \in [Slots -> PoolItem]
      /\ m_count' \in Int /\ settled' \in Int
      /\ free' \in [Chars -> Int]
      /\ hist' \in [Slots -> Memory]
      /\ CountIsOccupied' /\ DropsConserved'
    BY <1>1, <1>2, <1>3, <1>4, SettleKeepsBooks
<1>6. TypeOK'
    BY <1>2, <1>5 DEF Books, TypeOK
<1>7. AbsentPoolIsEmpty'
    BY <1>2 DEF Books, AbsentPoolIsEmpty
<1> QED BY <1>5, <1>6, <1>7 DEF Books

\* The slot a new item goes to exists; it is occupied only if all slots are.
LEMMA FreeSlotType ==
    ASSUME TypeOK
    PROVE  FreeSlot \in Slots /\ (Occupied # Slots => FreeSlot \notin Occupied)
<1>1. CASE Occupied # Slots
    <2>1. Slots \ Occupied \in SUBSET Nat /\ Slots \ Occupied # {}
        BY <1>1, SlotsFinite DEF Occupied
    <2>2. Min(Slots \ Occupied) \in Slots \ Occupied
        BY <2>1, MinOfNaturals
    <2> QED BY <1>1, <2>2 DEF FreeSlot
<1>2. CASE Occupied = Slots
    <2> DEFINE times == {m_PoolItems[s].TimeStamp : s \in Slots}
               oldest == {s \in Slots : \A t \in Slots :
                             m_PoolItems[s].TimeStamp <= m_PoolItems[t].TimeStamp}
    <2>1. \A s \in Slots : m_PoolItems[s].TimeStamp \in Nat
        BY DEF TypeOK, PoolItem, Ticks
    <2>2. times \in SUBSET Nat /\ times # {}
        BY <2>1, SlotsFinite
    <2>3. Min(times) \in times /\ \A x \in times : Min(times) <= x
        BY <2>2, MinOfNaturals
    <2>4. PICK s \in Slots : m_PoolItems[s].TimeStamp = Min(times)
        BY <2>3
    <2>5. s \in oldest
        BY <2>3, <2>4
    <2>6. oldest \in SUBSET Nat /\ oldest # {}
        BY <2>5, SlotsFinite
    <2>7. Min(oldest) \in oldest
        BY <2>6, MinOfNaturals
    <2> QED BY <1>2, <2>7 DEF FreeSlot
<1> QED BY <1>1, <1>2

\* A new item: a full pool first settles its oldest item, for certain.
LEMMA AddItemKeepsBooks ==
    ASSUME Books, NEW i \in Items, AddItem(i)
    PROVE  Books'
<1> DEFINE s == FreeSlot
<1>1. PICK o1 \in MadeRoom : \E o2 \in HandedOver(i, o1) : Enter(i, o1, o2)
    BY DEF AddItem
<1>a. PICK o2 \in HandedOver(i, o1) : Enter(i, o1, o2)
    BY <1>1
<1> DEFINE item == NewItem(i, o1)
<1>b. /\ m_PoolItems' = [m_PoolItems EXCEPT ![s] =
                           IF o2.kind # "kept" THEN EmptySlot ELSE item]
      /\ m_count' = (m_count - One(o1.kind # "kept")) + 1 - One(o2.kind # "kept")
      /\ settled' = settled + One(o1.kind # "kept") + One(o2.kind # "kept")
      /\ free' = [c \in Chars |-> free[c] - One(o1 = Won(c)) - One(o2 = Won(c))]
      /\ hist' = [hist EXCEPT ![s] = [born |-> now, said |-> Quiet]]
    BY <1>a DEF Enter
<1>2. found' = found + 1 /\ found < MaxDrops
      /\ UNCHANGED <<members, type, m_Tick, now>> /\ members # {}
    BY DEF AddItem
<1>3. s \in Slots /\ (Occupied # Slots => s \notin Occupied)
    BY FreeSlotType DEF Books
<1>4. m_PoolItems \in [Slots -> PoolItem] /\ now \in Ticks /\ free \in [Chars -> Int]
      /\ hist \in [Slots -> Memory] /\ m_count \in Int /\ settled \in Int
      /\ found \in 0 .. MaxDrops
    BY TickAssumption DEF Books, TypeOK, Ticks
<1>5. StartTick \in Ticks
    <2>1. Lead \in Ticks
        BY TickAssumption DEF Ticks
    <2> QED BY <1>4, <2>1, SubType DEF StartTick
<1>6. item \in PoolItem /\ EmptySlot \in PoolItem /\ item.ID # NoItem
    <2>1. <<>> \in Seq(LotInfo) /\ m_PoolItems[s].Lotters \in Seq(LotInfo)
        BY <1>3, <1>4 DEF PoolItem
    <2>2. EmptySlot \in PoolItem
        BY TickAssumption DEF EmptySlot, PoolItem, Ticks
    <2> QED BY <1>1, <1>5, <2>1, <2>2, ItemsAssumption DEF NewItem, PoolItem
<1>7. o1.kind # "kept" <=> Occupied = Slots
    <2>1. CASE Occupied = Slots
        <3>1. m_PoolItems[s] \in PoolItem /\ m_PoolItems[s].ID # NoItem
            BY <1>3, <1>4, <2>1 DEF Occupied
        <3>2. HasRoom \in SUBSET Chars
            BY DEF HasRoom
        <3> QED BY <1>1, <2>1, <3>1, <3>2, OverdueSettles DEF Books, MadeRoom
    <2>2. CASE Occupied # Slots
        BY <1>1, <2>2 DEF Kept, MadeRoom
    <2> QED BY <2>1, <2>2
<1>8. m_PoolItems' \in [Slots -> PoolItem]
    BY <1>b, <1>3, <1>4, <1>6
<1>9. /\ One(o1.kind # "kept") \in Int /\ One(o2.kind # "kept") \in Int
      /\ \A c \in Chars : One(o1 = Won(c)) \in Int /\ One(o2 = Won(c)) \in Int
    BY DEF One
<1>10. m_count' \in Int /\ settled' \in Int /\ free' \in [Chars -> Int]
    BY <1>b, <1>4, <1>9
<1>11. hist' \in [Slots -> Memory]
    <2>1. [born |-> now, said |-> Quiet] \in Memory
        BY <1>4 DEF Memory, Quiet
    <2> QED BY <1>b, <1>3, <1>4, <2>1
<1>12. found' \in 0 .. MaxDrops
    BY <1>2, <1>4, SizeAssumption
<1>13. TypeOK'
    BY <1>2, <1>8, <1>10, <1>11, <1>12 DEF Books, TypeOK
<1>14. IsFiniteSet(Occupied) /\ Cardinality(Occupied) \in Nat
    <2>1. Occupied \in SUBSET Slots
        BY DEF Occupied
    <2> QED BY <2>1, SlotsFinite
<1>15. Occupied' = IF o2.kind # "kept" THEN Occupied \ {s} ELSE Occupied \cup {s}
    <2>1. \A t \in Slots : m_PoolItems'[t] = IF t # s THEN m_PoolItems[t]
                                ELSE IF o2.kind # "kept" THEN EmptySlot ELSE item
        BY <1>b, <1>4
    <2>2. EmptySlot.ID = NoItem
        BY DEF EmptySlot
    <2> HIDE DEF s
    <2> QED BY <1>3, <1>6, <2>1, <2>2 DEF Occupied
<1>16. Cardinality(Occupied')
          = (Cardinality(Occupied) - One(o1.kind # "kept")) + 1 - One(o2.kind # "kept")
    <2>1. s \in Occupied <=> o1.kind # "kept"
        BY <1>3, <1>7
    <2> HIDE DEF s
    <2>a. One(o1.kind # "kept") = IF s \in Occupied THEN 1 ELSE 0
        BY <2>1 DEF One
    <2>b. /\ Cardinality(Occupied \ {s}) = IF s \in Occupied
                   THEN Cardinality(Occupied) - 1 ELSE Cardinality(Occupied)
          /\ Cardinality(Occupied \cup {s}) = IF s \in Occupied
                   THEN Cardinality(Occupied) ELSE Cardinality(Occupied) + 1
        BY <1>14, FS_RemoveElement, FS_AddElement
    <2>2. Cardinality(Occupied \ {s})
             = Cardinality(Occupied) - One(o1.kind # "kept")
        BY <1>14, <2>a, <2>b
    <2>3. Cardinality(Occupied \cup {s})
             = (Cardinality(Occupied) - One(o1.kind # "kept")) + 1
        BY <1>14, <2>a, <2>b
    <2>4. CASE o2.kind # "kept"
        <3>1. One(o2.kind # "kept") = 1
            BY <2>4 DEF One
        <3> QED BY <1>9, <1>14, <1>15, <2>2, <2>4, <3>1
    <2>5. CASE o2.kind = "kept"
        <3>1. One(o2.kind # "kept") = 0
            BY <2>5 DEF One
        <3> QED BY <1>9, <1>14, <1>15, <2>3, <2>5, <3>1
    <2> QED BY <2>4, <2>5
<1>17. CountIsOccupied' /\ DropsConserved'
    <2>1. m_count = Cardinality(Occupied) /\ found = settled + Cardinality(Occupied)
        BY DEF Books, CountIsOccupied, DropsConserved
    <2> DEFINE a == One(o1.kind # "kept")
               b == One(o2.kind # "kept")
    <2>2. m_count' = (m_count - a) + 1 - b /\ settled' = settled + a + b
        BY <1>b
    <2>3. Cardinality(Occupied') = (Cardinality(Occupied) - a) + 1 - b
        BY <1>16
    <2>4. a \in Int /\ b \in Int
        BY <1>9
    <2> HIDE DEF a, b
    <2>5. m_count' = Cardinality(Occupied')
        BY <1>4, <1>14, <2>1, <2>2, <2>3, <2>4
    <2>6. found' = settled' + Cardinality(Occupied')
        BY <1>2, <1>4, <1>14, <2>1, <2>2, <2>3, <2>4
    <2> QED BY <2>5, <2>6 DEF CountIsOccupied, DropsConserved
<1>18. AbsentPoolIsEmpty'
    BY <1>2 DEF Books, AbsentPoolIsEmpty
<1> QED BY <1>13, <1>17, <1>18 DEF Books

\* Leaving withdraws lots but no item; the last to leave takes the items along.
LEMMA DelMemberKeepsBooks ==
    ASSUME Books, NEW c \in Chars, DelMember(c)
    PROVE  Books'
<1>1. m_PoolItems \in [Slots -> PoolItem] /\ hist \in [Slots -> Memory]
      /\ m_count \in Int /\ settled \in Int /\ found \in Int
      /\ m_Tick \in Ticks /\ type \in Types
    BY DEF Books, TypeOK
<1>2. UNCHANGED <<now, free, found>> /\ members' = members \ {c} /\ c \in members
    BY DEF DelMember
<1>3. IsFiniteSet(Occupied) /\ Cardinality(Occupied) \in Nat
    <2>1. Occupied \in SUBSET Slots
        BY DEF Occupied
    <2> QED BY <2>1, SlotsFinite
<1>4. type # "none"
    BY <1>2 DEF Books, AbsentPoolIsEmpty
<1>5. m_count = Cardinality(Occupied) /\ found = settled + Cardinality(Occupied)
    BY DEF Books, CountIsOccupied, DropsConserved
<1>6. CASE type = "ZONE"
    <2>1. UNCHANGED <<type, m_PoolItems, m_count, m_Tick, settled, hist>>
        BY <1>6 DEF DelMember
    <2>2. Occupied' = Occupied
        BY <2>1 DEF Occupied
    <2>3. TypeOK'
        BY <1>2, <2>1 DEF Books, TypeOK
    <2> QED BY <1>2, <1>4, <1>5, <2>1, <2>2, <2>3
            DEF Books, CountIsOccupied, DropsConserved, AbsentPoolIsEmpty
<1>7. CASE type # "ZONE"
    <2>1. hist' = [s \in Slots |-> [hist[s] EXCEPT !.said[c] = Silent]]
        BY <1>7 DEF DelMember
    <2>2. hist' \in [Slots -> Memory]
        <3>1. \A s \in Slots : [hist[s] EXCEPT !.said[c] = Silent] \in Memory
            BY <1>1 DEF Memory
        <3> QED BY <2>1, <3>1
    <2>3. CASE members' = {}
        <3>1. /\ type' = "none" /\ m_PoolItems' = [s \in Slots |-> EmptySlot]
              /\ m_count' = 0 /\ m_Tick' = 0
              /\ settled' = settled + Cardinality(Occupied)
            BY <1>7, <2>3 DEF DelMember
        <3>2. m_PoolItems' \in [Slots -> PoolItem] /\ Occupied' = {}
            <4>1. EmptySlot \in PoolItem /\ EmptySlot.ID = NoItem
                BY TickAssumption DEF EmptySlot, PoolItem, Ticks
            <4>2. \A s \in Slots : m_PoolItems'[s] = EmptySlot
                BY <3>1
            <4> QED BY <3>1, <4>1, <4>2 DEF Occupied
        <3>3. 0 \in Ticks
            BY TickAssumption DEF Ticks
        <3>4. TypeOK'
            BY <1>1, <1>2, <1>3, <2>2, <3>1, <3>2, <3>3 DEF Books, TypeOK, Types
        <3>5. CountIsOccupied' /\ DropsConserved'
            BY <1>1, <1>2, <1>3, <1>5, <3>1, <3>2, FS_EmptySet
               DEF CountIsOccupied, DropsConserved
        <3> QED BY <2>3, <3>2, <3>4, <3>5 DEF Books, AbsentPoolIsEmpty
    <2>4. CASE members' # {}
        <3>1. /\ m_PoolItems' = [s \in Slots |-> Withdrawn(m_PoolItems[s], c)]
              /\ UNCHANGED <<type, m_count, m_Tick, settled>>
            BY <1>7, <2>4 DEF DelMember
        <3>2. ASSUME NEW s \in Slots
              PROVE  /\ m_PoolItems'[s] \in PoolItem
                     /\ m_PoolItems'[s].ID = m_PoolItems[s].ID
            <4> DEFINE lots == m_PoolItems[s].Lotters
                       keep == DOMAIN lots \ Erased(lots, c)
            <4>1. lots \in Seq(LotInfo) /\ m_PoolItems[s] \in PoolItem
                BY <1>1 DEF PoolItem
            <4>2. Restricted(lots, keep) \in Seq(LotInfo)
                BY <4>1, RestrictedType
            <4>3. m_PoolItems'[s] = [m_PoolItems[s] EXCEPT !.Lotters = Restricted(lots, keep)]
                BY <3>1 DEF Withdrawn
            <4> HIDE DEF lots, keep
            <4> QED BY <4>1, <4>2, <4>3 DEF PoolItem
        <3>3. m_PoolItems' \in [Slots -> PoolItem]
            BY <3>1, <3>2
        <3>4. Occupied' = Occupied
            BY <3>2 DEF Occupied
        <3>5. TypeOK'
            BY <1>1, <1>2, <2>2, <3>1, <3>3 DEF Books, TypeOK
        <3> QED BY <1>2, <1>4, <1>5, <3>1, <3>4, <3>5
                DEF Books, CountIsOccupied, DropsConserved, AbsentPoolIsEmpty
    <2> QED BY <2>3, <2>4
<1> QED BY <1>6, <1>7

-----------------------------------------------------------------------------
(* The theorem.                                                            *)

LEMMA InitBooks == Init => Books
<1> SUFFICES ASSUME Init PROVE Books
    OBVIOUS
<1>1. EmptySlot \in PoolItem /\ EmptySlot.ID = NoItem
    BY TickAssumption DEF EmptySlot, PoolItem, Ticks
<1>2. m_PoolItems \in [Slots -> PoolItem] /\ Occupied = {}
    <2>1. \A s \in Slots : m_PoolItems[s] = EmptySlot
        BY DEF Init
    <2> QED BY <1>1, <2>1 DEF Init, Occupied
<1>3. [born |-> 0, said |-> Quiet] \in Memory /\ 0 \in Ticks
    BY TickAssumption DEF Memory, Quiet, Ticks
<1>4. hist \in [Slots -> Memory]
    BY <1>3 DEF Init
<1>5. TypeOK
    BY <1>2, <1>3, <1>4, SizeAssumption, TickAssumption DEF Init, TypeOK, Types
<1> QED BY <1>2, <1>5, FS_EmptySet
        DEF Init, Books, CountIsOccupied, DropsConserved, AbsentPoolIsEmpty

LEMMA NextKeepsBooks == Books /\ [Next]_vars => Books'
<1> SUFFICES ASSUME Books, [Next]_vars PROVE Books'
    OBVIOUS
<1>0. TypeOK /\ CountIsOccupied /\ DropsConserved /\ AbsentPoolIsEmpty
    BY DEF Books
<1>1. ASSUME NEW c \in Chars, NewPool(c) PROVE Books'
    <2>1. Occupied = {} /\ found = settled
        BY <1>0, <1>1, FS_EmptySet
           DEF NewPool, AbsentPoolIsEmpty, DropsConserved, TypeOK
    <2>2. EmptySlot \in PoolItem /\ EmptySlot.ID = NoItem
        BY TickAssumption DEF EmptySlot, PoolItem, Ticks
    <2>3. m_PoolItems' \in [Slots -> PoolItem] /\ Occupied' = {}
        <3>1. \A s \in Slots : m_PoolItems'[s] = EmptySlot
            BY <1>1 DEF NewPool
        <3> QED BY <1>1, <2>2, <3>1 DEF NewPool, Occupied
    <2>4. [born |-> 0, said |-> Quiet] \in Memory /\ 0 \in Ticks
        BY TickAssumption DEF Memory, Quiet, Ticks
    <2>5. hist' \in [Slots -> Memory]
        BY <1>1, <2>4 DEF NewPool
    <2>6. type' \in Types /\ type' # "none"
        BY <1>1, SizeAssumption DEF NewPool, Types
    <2>7. TypeOK'
        BY <1>0, <1>1, <2>3, <2>4, <2>5, <2>6 DEF NewPool, TypeOK
    <2> QED BY <1>0, <1>1, <2>1, <2>3, <2>6, <2>7, FS_EmptySet
            DEF NewPool, Books, CountIsOccupied, DropsConserved, AbsentPoolIsEmpty, TypeOK
<1>2. ASSUME NEW c \in Chars, AddMember(c) PROVE Books'
    <2>1. /\ UNCHANGED <<m_PoolItems, m_count, m_Tick, now, free, found, settled, hist>>
          /\ members' = members \cup {c} /\ type # "none"
          /\ type' \in {type, "PARTY", "ALLIANCE"}
        BY <1>2 DEF AddMember
    <2>2. Occupied' = Occupied
        BY <2>1 DEF Occupied
    <2>3. TypeOK'
        BY <1>0, <2>1 DEF TypeOK, Types
    <2> QED BY <1>0, <2>1, <2>2, <2>3
            DEF Books, CountIsOccupied, DropsConserved, AbsentPoolIsEmpty
<1>3. ASSUME NEW c \in Chars, DelMember(c) PROVE Books'
    BY <1>3, DelMemberKeepsBooks
<1>4. ASSUME NEW i \in Items, AddItem(i) PROVE Books'
    BY <1>4, AddItemKeepsBooks
<1>5. ASSUME NEW c \in Chars, NEW s \in Slots, NEW lot \in Lots, Lot(c, s, lot)
      PROVE  Books'
    <2> DEFINE h == [hist EXCEPT ![s].said[c] = lot]
    <2>1. hist \in [Slots -> Memory] /\ c \in members
        BY <1>0, <1>5 DEF TypeOK, Lot
    <2>2. [hist[s] EXCEPT !.said[c] = lot] \in Memory
        BY <2>1 DEF Memory
    <2>3. h \in [Slots -> Memory]
        BY <2>1, <2>2
    <2>4. LotItem(c, s, lot, h)
        BY <1>5 DEF Lot
    <2> QED BY <2>1, <2>3, <2>4, LotItemKeepsBooks
<1>6. ASSUME NEW c \in Chars, NEW s \in Slots, NEW lot \in Lots, StaleLot(c, s, lot)
      PROVE  Books'
    <2>1. hist \in [Slots -> Memory] /\ c \in members /\ LotItem(c, s, lot, hist)
        BY <1>0, <1>6 DEF TypeOK, StaleLot
    <2> QED BY <2>1, LotItemKeepsBooks
<1>7. ASSUME ZoneTimer PROVE Books'
    <2>1. PICK lag \in 0 .. MaxLag : CheckItems(now - lag)
        BY <1>7 DEF ZoneTimer
    <2>2. now - lag \in Ticks
        BY <1>0, TickAssumption DEF TypeOK, Ticks
    <2> QED BY <2>1, <2>2, CheckItemsKeepsBooks
<1>8. ASSUME Clock \/ (\E c \in Chars, n \in 0 .. MaxFree : Inventory(c, n))
             \/ UNCHANGED vars
      PROVE  Books'
    <2>1. /\ UNCHANGED <<members, type, m_PoolItems, m_count, m_Tick, found, settled, hist>>
          /\ now' = now \/ (now' = now + 1 /\ now < MaxTick)
          /\ free' = free \/ \E c \in Chars, n \in 0 .. MaxFree :
                                free' = [free EXCEPT ![c] = n]
        BY <1>8 DEF Clock, Inventory, vars
    <2>2. now' \in BootTick .. MaxTick
        BY <1>0, <2>1, TickAssumption DEF TypeOK
    <2>3. free' \in [Chars -> Int]
        BY <1>0, <2>1, SizeAssumption DEF TypeOK
    <2>4. TypeOK'
        BY <1>0, <2>1, <2>2, <2>3 DEF TypeOK
    <2>5. Occupied' = Occupied
        BY <2>1 DEF Occupied
    <2> QED BY <1>0, <2>1, <2>4, <2>5
            DEF Books, CountIsOccupied, DropsConserved, AbsentPoolIsEmpty
<1> QED BY <1>1, <1>2, <1>3, <1>4, <1>5, <1>6, <1>7, <1>8 DEF Next

\* The inductive invariant holds in every reachable state.
THEOREM BooksInvariant == Spec => []Books
<1>1. Init => Books
    BY InitBooks
<1>2. Books /\ [Next]_vars => Books'
    BY NextKeepsBooks
<1> QED BY <1>1, <1>2, PTL DEF Spec

\* Every variable keeps its type, whatever the members, the timer and late or
\* repeated lots do.
THEOREM TypeCorrect == Spec => []TypeOK
<1>1. Books => TypeOK
    BY DEF Books
<1> QED BY <1>1, BooksInvariant, PTL

\* m_count, which CheckItems trusts to skip an empty pool, is always the number
\* of occupied slots.
THEOREM CountCorrect == Spec => []CountIsOccupied
<1>1. Books => CountIsOccupied
    BY DEF Books
<1> QED BY <1>1, BooksInvariant, PTL

\* No item is overwritten, handed out twice or forgotten: drops are settled
\* exactly once or still in a slot.
THEOREM DropsCorrect == Spec => []DropsConserved
<1>1. Books => DropsConserved
    BY DEF Books
<1> QED BY <1>1, BooksInvariant, PTL
=============================================================================
