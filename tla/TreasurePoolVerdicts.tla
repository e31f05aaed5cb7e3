------------------------ MODULE TreasurePoolVerdicts ------------------------
(***************************************************************************)
(* Who gets what, for every number of characters, slots and ticks: when    *)
(* each lot reaches the pool once (~StaleLots), the lots on a slot are     *)
(* what the members said, every decision is fair, no item of a pool that   *)
(* is not a zone's is settled early, and its winners are members.          *)
(***************************************************************************)
EXTENDS TreasurePoolProofs

-----------------------------------------------------------------------------
(* The inductive invariant.                                                *)

Spoke(h) == {c \in Chars : h.said[c] # Silent}

\* The entries of a slot are the members who spoke about its item, each once
\* and with its latest word.
Recorded(item, h) ==
    /\ \A i \in DOMAIN item.Lotters :
          item.Lotters[i].lot = h.said[item.Lotters[i].member]
    /\ \A i, j \in DOMAIN item.Lotters :
          item.Lotters[i].member = item.Lotters[j].member => i = j
    /\ Spoke(h) = Voters(item.Lotters)

\* A slot is in order: an empty one has no entries (AddItem relies on it, it
\* does not reset Lotters), and an occupied one bears the tick of its drop.
InOrder(item, h) ==
    /\ Recorded(item, h)
    /\ item.ID = NoItem => item.Lotters = <<>>
    /\ item.ID # NoItem => h.born \in BootTick .. now /\ item.TimeStamp = h.born - Lead

SlotsInOrder == \A s \in Slots : InOrder(m_PoolItems[s], hist[s])

\* Leaving a pool that is not a zone's takes back what one said.
LeaversSilent == type # "ZONE" => \A s \in Slots : Spoke(hist[s]) \subseteq members

\* Nobody is given more items than he has room for.
RoomNotNegative == free \in [Chars -> Nat]

Ledger == SlotsInOrder /\ LeaversSilent /\ RoomNotNegative

\* What holds of the decisions of the last step.
Judged ==
    /\ VerdictsAreFair
    /\ type # "ZONE" => WinnersAreMembers
    /\ MaxLag <= Lead /\ type # "ZONE" => NoEarlyVerdict

-----------------------------------------------------------------------------
(* The highest lot.                                                        *)

\* HighestLot is a bound of the lots, and if it is not 0 then HighestLotter is
\* somebody who threw it.
LEMMA HighestLotFacts ==
    ASSUME NEW lots \in Seq(LotInfo)
    PROVE  /\ HighestLot(lots) \in Nat
           /\ \A i \in DOMAIN lots : lots[i].lot <= HighestLot(lots)
           /\ HighestLot(lots) > 0 => \E i \in DOMAIN lots :
                 lots[i].lot = HighestLot(lots) /\ HighestLotter(lots) = lots[i].member
<1> DEFINE S == {0} \cup {lots[i].lot : i \in DOMAIN lots}
           top == {i \in DOMAIN lots : lots[i].lot = HighestLot(lots)}
<1>1. \A i \in DOMAIN lots : lots[i].lot \in 0 .. MaxLot
    <2>1. \A i \in DOMAIN lots : lots[i] \in LotInfo
        OBVIOUS
    <2> QED BY <2>1 DEF LotInfo, Lots
<1>2. MaxLot \in Nat
    BY SizeAssumption
<1>3. S \in SUBSET (0 .. MaxLot) /\ S # {}
    BY <1>1, <1>2
<1>4. HighestLot(lots) \in S /\ \A x \in S : x <= HighestLot(lots)
    BY <1>2, <1>3, MaxOfNaturals DEF HighestLot
<1>5. ASSUME HighestLot(lots) > 0
      PROVE  \E i \in DOMAIN lots :
                lots[i].lot = HighestLot(lots) /\ HighestLotter(lots) = lots[i].member
    <2>1. top # {} /\ top \in SUBSET Nat
        BY <1>4, <1>5
    <2>2. Min(top) \in top
        BY <2>1, MinOfNaturals
    <2> QED BY <2>2 DEF HighestLotter
<1>6. HighestLot(lots) \in Nat
    BY <1>3, <1>4
<1> QED BY <1>4, <1>5, <1>6

-----------------------------------------------------------------------------
(* What the entries of a slot record.                                      *)

\* There are as many entries as members who spoke.
LEMMA RecordedLength ==
    ASSUME NEW item \in PoolItem, NEW h \in Memory, Recorded(item, h)
    PROVE  /\ IsFiniteSet(Spoke(h)) /\ Spoke(h) \subseteq Chars
           /\ Len(item.Lotters) = Cardinality(Spoke(h))
<1> DEFINE lots == item.Lotters
           who == [i \in 1 .. Len(lots) |-> lots[i].member]
<1>1. Len(lots) \in Nat /\ DOMAIN lots = 1 .. Len(lots)
    BY DEF PoolItem
<1>2. Spoke(h) = {lots[i].member : i \in 1 .. Len(lots)}
    BY <1>1 DEF Recorded, Voters
<1>3. \A i, j \in 1 .. Len(lots) : who[i] = who[j] => i = j
    BY <1>1 DEF Recorded
<1> HIDE DEF lots
<1>4. who \in Bijection(1 .. Len(lots), Spoke(h))
    BY <1>2, <1>3 DEF Bijection, Injection, Surjection, IsInjective
<1>5. IsFiniteSet(1 .. Len(lots)) /\ Cardinality(1 .. Len(lots)) = Len(lots)
    <2> DEFINE n == Len(lots)
    <2>1. n \in Nat
        BY <1>1
    <2> HIDE DEF n
    <2>2. IsFiniteSet(1 .. n) /\ Cardinality(1 .. n) = IF 1 > n THEN 0 ELSE n - 1 + 1
        BY <2>1, FS_Interval
    <2>3. Cardinality(1 .. n) = n
        BY <2>1, <2>2
    <2> QED BY <2>2, <2>3 DEF n
<1>6. ExistsBijection(1 .. Len(lots), Spoke(h))
    BY <1>4 DEF ExistsBijection
<1>7. IsFiniteSet(Spoke(h)) /\ Cardinality(Spoke(h)) = Cardinality(1 .. Len(lots))
    BY <1>5, <1>6, FS_Bijection
<1> QED BY <1>5, <1>7 DEF Spoke, lots

\* A lot of a member who has not decided, and a pass of one who has not passed,
\* is recorded: the pass replaces the one entry that the member has.
LEMMA VoteRecorded ==
    ASSUME NEW item \in PoolItem, NEW h \in Memory, Recorded(item, h),
           NEW c \in Chars, NEW lot \in Lots,
           IF lot = 0 THEN h.said[c] # 0 ELSE h.said[c] = Silent
    PROVE  Recorded(WithLot(item, c, lot), [h EXCEPT !.said[c] = lot])
<1> DEFINE lots == item.Lotters
           n == Len(lots)
           mine == {i \in DOMAIN lots : lots[i].member = c}
           h2 == [h EXCEPT !.said[c] = lot]
           new == WithLot(item, c, lot).Lotters
<1>1. lots \in Seq(LotInfo) /\ n \in Nat /\ DOMAIN lots = 1 .. n
    BY DEF PoolItem
<1>2. \A x \in Chars : h2.said[x] = IF x = c THEN lot ELSE h.said[x]
    BY DEF Memory
<1>3. lot # Silent /\ Silent \notin Lots
    BY SizeAssumption DEF Lots, Silent
<1>4. Spoke(h2) = Spoke(h) \cup {c}
    BY <1>2, <1>3 DEF Spoke
<1>5. /\ \A i \in 1 .. n : lots[i].lot = h.said[lots[i].member] /\ lots[i].member \in Chars
      /\ \A i, j \in 1 .. n : lots[i].member = lots[j].member => i = j
      /\ Spoke(h) = {lots[i].member : i \in 1 .. n}
    <2>1. \A i \in 1 .. n : lots[i].member \in Chars
        <3>1. \A i \in 1 .. n : lots[i] \in LotInfo
            BY <1>1
        <3> QED BY <3>1 DEF LotInfo
    <2> QED BY <1>1, <2>1 DEF Recorded, Voters
<1>6. CASE lot = 0 /\ mine # {}
    <2> DEFINE k == Min(mine)
    <2>1. k \in mine
        <3>1. mine \in SUBSET Nat
            BY <1>1
        <3> QED BY <1>6, <3>1, MinOfNaturals
    <2>2. k \in 1 .. n /\ lots[k].member = c
        BY <1>1, <2>1
    <2>3. new = [lots EXCEPT ![k] = [lot |-> lot, member |-> c]]
        BY <1>6 DEF WithLot, PoolItem
    <2> HIDE DEF k, lots, n, new, h2, mine
    <2>4. /\ DOMAIN new = 1 .. n
          /\ \A i \in 1 .. n : new[i] = IF i = k THEN [lot |-> lot, member |-> c] ELSE lots[i]
        BY <1>1, <2>3
    <2>5. \A i \in 1 .. n : new[i].member = lots[i].member
        BY <2>2, <2>4
    <2>6. \A i \in 1 .. n : new[i].lot = h2.said[new[i].member]
        <3> TAKE i \in 1 .. n
        <3>1. CASE i = k
            BY <1>2, <2>4, <3>1
        <3>2. CASE i # k
            <4>1. lots[i].member # c
                BY <1>5, <2>2, <3>2
            <4> QED BY <1>2, <1>5, <2>4, <3>2, <4>1
        <3> QED BY <3>1, <3>2
    <2>7. Spoke(h2) = Voters(new)
        <3>1. Spoke(h2) = Spoke(h)
            BY <1>4, <1>5, <2>2
        <3> QED BY <1>5, <2>4, <2>5, <3>1 DEF Voters
    <2>8. \A i, j \in 1 .. n : new[i].member = new[j].member => i = j
        BY <1>5, <2>5
    <2> QED BY <2>4, <2>6, <2>7, <2>8 DEF Recorded, new, h2
<1>7. CASE ~ (lot = 0 /\ mine # {})
    <2>1. mine = {}
        <3>1. CASE lot = 0
            BY <1>7, <3>1
        <3>2. CASE lot # 0
            <4>1. c \notin Spoke(h)
                BY <3>2 DEF Spoke
            <4> QED BY <1>1, <1>5, <4>1
        <3> QED BY <3>1, <3>2
    <2>2. new = Append(lots, [lot |-> lot, member |-> c])
        BY <1>7 DEF WithLot, PoolItem
    <2>3. \A i \in 1 .. n : lots[i].member # c
        BY <1>1, <2>1
    <2> HIDE DEF lots, n, new, h2, mine
    <2>4. /\ DOMAIN new = 1 .. n + 1
          /\ \A i \in 1 .. n : new[i] = lots[i]
          /\ new[n + 1] = [lot |-> lot, member |-> c]
        BY <1>1, <2>2 DEF n
    <2>5. \A i \in DOMAIN new : i \in 1 .. n \/ i = n + 1
        BY <1>1, <2>4
    <2>6. \A i \in DOMAIN new : new[i].lot = h2.said[new[i].member]
        <3>1. \A i \in 1 .. n : new[i].lot = h2.said[new[i].member]
            BY <1>2, <1>5, <2>3, <2>4
        <3>2. new[n + 1].lot = h2.said[new[n + 1].member]
            BY <1>2, <2>4
        <3> QED BY <2>5, <3>1, <3>2
    <2>7. \A i, j \in DOMAIN new : new[i].member = new[j].member => i = j
        BY <1>5, <2>3, <2>4, <2>5
    <2>8. Spoke(h2) = Voters(new)
        <3>1. 1 .. n \subseteq DOMAIN new /\ n + 1 \in DOMAIN new
            BY <1>1, <2>4
        <3>2. Voters(new) = {lots[i].member : i \in 1 .. n} \cup {c}
            BY <2>4, <2>5, <3>1 DEF Voters
        <3> QED BY <1>4, <1>5, <3>2
    <2> QED BY <2>6, <2>7, <2>8 DEF Recorded, new, h2
<1> QED BY <1>6, <1>7

\* DelMember's loop skips an entry after each one it erases; it still erases
\* all entries of the leaver, because there is only one.
LEMMA ErasesAll ==
    ASSUME NEW lots \in Seq(LotInfo), NEW c,
           \A i, j \in DOMAIN lots : lots[i].member = lots[j].member => i = j
    PROVE  Erased(lots, c) = {k \in DOMAIN lots : lots[k].member = c}
<1> DEFINE n == Len(lots)
<1>1. n \in Nat /\ DOMAIN lots = 1 .. n
    OBVIOUS
<1> DEFINE E == {k \in DOMAIN lots : lots[k].member = c}
<1>2. ASSUME NEW k \in E PROVE k \in Skipping(E)
    <2>1. k \in 1 .. k /\ k \in Int /\ \A i \in k .. k : i = k
        BY <1>1
    <2>2. k - 1 \notin E
        <3>1. k - 1 # k
            BY <2>1
        <3> QED BY <1>2, <3>1
    <2>3. (k - k) % 2 = 0 /\ k .. k \subseteq E
        BY <1>2, <2>1
    <2> HIDE DEF E
    <2> QED BY <1>2, <2>1, <2>2, <2>3 DEF Skipping
<1>3. Skipping(E) \subseteq E
    BY DEF Skipping
<1> QED BY <1>2, <1>3 DEF Erased

\* Leaving takes back one's entry and leaves those of the others.
LEMMA WithdrawalRecorded ==
    ASSUME NEW item \in PoolItem, NEW h \in Memory, Recorded(item, h), NEW c \in Chars
    PROVE  Recorded(Withdrawn(item, c), [h EXCEPT !.said[c] = Silent])
<1> DEFINE lots == item.Lotters
           n == Len(lots)
           keep == DOMAIN lots \ Erased(lots, c)
           h2 == [h EXCEPT !.said[c] = Silent]
           new == Withdrawn(item, c).Lotters
<1>1. lots \in Seq(LotInfo) /\ n \in Nat /\ DOMAIN lots = 1 .. n
    BY DEF PoolItem
<1>2. /\ \A i \in 1 .. n : lots[i].lot = h.said[lots[i].member] /\ lots[i].member \in Chars
      /\ \A i, j \in 1 .. n : lots[i].member = lots[j].member => i = j
      /\ Spoke(h) = {lots[i].member : i \in 1 .. n}
    <2>1. \A i \in 1 .. n : lots[i].member \in Chars
        <3>1. \A i \in 1 .. n : lots[i] \in LotInfo
            BY <1>1
        <3> QED BY <3>1 DEF LotInfo
    <2> QED BY <1>1, <2>1 DEF Recorded, Voters
<1>3. \A x \in Chars : h2.said[x] = IF x = c THEN Silent ELSE h.said[x]
    BY DEF Memory
<1>4. Spoke(h2) = Spoke(h) \ {c}
    BY <1>3 DEF Spoke
<1>5. keep = {k \in 1 .. n : lots[k].member # c}
    BY <1>1, <1>2, ErasesAll
<1>6. new = Restricted(lots, keep)
    BY DEF Withdrawn, PoolItem
<1> HIDE DEF lots, n, keep, h2, new
<1>7. keep \in SUBSET (DOMAIN lots)
    BY <1>1, <1>5
<1>8. /\ DOMAIN new = 1 .. Cardinality(keep)
      /\ \A i \in DOMAIN new : \E k \in keep : Rank(keep, k) = i /\ new[i] = lots[k]
      /\ \A k \in keep : Rank(keep, k) \in DOMAIN new /\ new[Rank(keep, k)] = lots[k]
    BY <1>1, <1>6, <1>7, RestrictedElements
<1>9. \A i \in DOMAIN new : new[i].lot = h2.said[new[i].member]
    <2> TAKE i \in DOMAIN new
    <2>1. PICK k \in keep : new[i] = lots[k]
        BY <1>8
    <2>2. k \in 1 .. n /\ lots[k].member # c
        BY <1>5
    <2> QED BY <1>2, <1>3, <2>1, <2>2
<1>10. \A i, j \in DOMAIN new : new[i].member = new[j].member => i = j
    <2> TAKE i, j \in DOMAIN new
    <2> HAVE new[i].member = new[j].member
    <2>1. PICK k \in keep : Rank(keep, k) = i /\ new[i] = lots[k]
        BY <1>8
    <2>2. PICK l \in keep : Rank(keep, l) = j /\ new[j] = lots[l]
        BY <1>8
    <2>3. k \in 1 .. n /\ l \in 1 .. n /\ lots[k].member = lots[l].member
        BY <1>5, <2>1, <2>2
    <2>4. k = l
        BY <1>2, <2>3
    <2> QED BY <2>1, <2>2, <2>4
<1>11. Voters(new) = Spoke(h2)
    <2>1. Voters(new) = {lots[k].member : k \in keep}
        BY <1>8 DEF Voters
    <2> QED BY <1>2, <1>4, <1>5, <2>1
<1> QED BY <1>9, <1>10, <1>11 DEF Recorded, new, h2

-----------------------------------------------------------------------------
(* Decisions.                                                              *)

\* What VerdictsAreFair asks, with the members who have room in place of those
\* who have room left in the state after the step.
Lotters(said) == {c \in Chars : said[c] > 0}
Best(said) == {c \in Lotters(said) : \A x \in Lotters(said) : said[x] <= said[c]}
Undecided(said) == {c \in members : said[c] = Silent}

FairChoice(o, said, room) ==
    IF Lotters(said) # {}
    THEN o.to \in Best(said) \/ (o.kind = "lost" /\ \E c \in Best(said) : c \notin room)
    ELSE o.to \in Undecided(said)
         \/ (o.kind = "lost" /\ \A c \in Undecided(said) : c \notin room)

\* Outcomes chooses by the entries, so it is fair if they record what was said.
LEMMA OutcomesAreFair ==
    ASSUME TypeOK, NEW item \in PoolItem, NEW h \in Memory, Recorded(item, h),
           NEW tick, NEW room \in SUBSET Chars,
           NEW o \in Outcomes(item, tick, room), o.kind # "kept"
    PROVE  /\ FairChoice(o, h.said, room)
           /\ o.kind \in {"won", "error"} => o.to \in Spoke(h) \cup members
<1> DEFINE lots == item.Lotters
           said == h.said
           claim == Claimants(lots, room)
<1>1. lots \in Seq(LotInfo) /\ \A c \in Chars : said[c] \in Lots \cup {Silent}
    BY DEF PoolItem, Memory
<1>2. /\ \A i \in DOMAIN lots : lots[i].lot = said[lots[i].member] /\ lots[i].member \in Chars
      /\ Spoke(h) = Voters(lots)
    <2>1. \A i \in DOMAIN lots : lots[i] \in LotInfo
        BY <1>1
    <2> QED BY <2>1 DEF Recorded, LotInfo
<1>3. /\ HighestLot(lots) \in Nat
      /\ \A i \in DOMAIN lots : lots[i].lot <= HighestLot(lots)
      /\ HighestLot(lots) > 0 => \E i \in DOMAIN lots :
             lots[i].lot = HighestLot(lots) /\ HighestLotter(lots) = lots[i].member
    BY <1>1, HighestLotFacts
<1>4. Outcomes(item, tick, room) \subseteq
          IF claim = {} THEN {Kept, Lost}
          ELSE {Kept} \cup {Won(c) : c \in claim} \cup {Error(c) : c \in claim}
    BY DEF Outcomes
<1>5. \/ o.kind = "lost" /\ claim = {}
      \/ o.kind \in {"won", "error"} /\ o.to \in claim
    BY <1>4 DEF Kept, Lost, Won, Error
<1>6. \A c \in Lotters(said) : \E i \in DOMAIN lots : lots[i].member = c
    <2>1. Lotters(said) \subseteq Spoke(h)
        BY DEF Lotters, Spoke, Silent
    <2> QED BY <1>2, <2>1 DEF Voters
<1>7. \A c \in Lotters(said) : said[c] <= HighestLot(lots)
    BY <1>2, <1>3, <1>6
<1> HIDE DEF lots, said, claim
<1>8. CASE HighestLot(lots) > 0
    <2> DEFINE w == HighestLotter(lots)
    <2>1. w \in Chars /\ said[w] = HighestLot(lots) /\ w \in Spoke(h)
        BY <1>2, <1>3, <1>8 DEF Voters
    <2>2. w \in Best(said)
        BY <1>7, <1>8, <2>1 DEF Best, Lotters
    <2>3. claim = room \cap {w}
        BY <1>8 DEF Claimants, claim
    <2>4. Lotters(said) # {}
        BY <2>2 DEF Best
    <2> QED BY <1>5, <2>1, <2>2, <2>3, <2>4 DEF FairChoice, said
<1>9. CASE ~ (HighestLot(lots) > 0)
    <2>1. Lotters(said) = {}
        <3>1. \A c \in Lotters(said) : said[c] > 0 /\ said[c] \in Int
            BY <1>1, SizeAssumption DEF Lotters, Lots, Silent
        <3> QED BY <1>3, <1>7, <1>9, <3>1
    <2>2. claim = room \cap (members \ Spoke(h))
        BY <1>2, <1>9 DEF Claimants, claim
    <2>3. members \ Spoke(h) = Undecided(said)
        BY DEF Spoke, Undecided, TypeOK, said
    <2>4. claim = room \cap Undecided(said) /\ Undecided(said) \subseteq members
        BY <2>2, <2>3 DEF Undecided
    <2> QED BY <1>5, <2>1, <2>4 DEF FairChoice, said
<1> QED BY <1>8, <1>9

\* Only a character with room wins.
LEMMA WinnersHaveRoom ==
    ASSUME NEW item, NEW tick, NEW room, NEW c, Won(c) \in Outcomes(item, tick, room)
    PROVE  c \in room
BY DEF Outcomes, Claimants, Won, Error, Lost, Kept

\* A round in which each winner still had room when his turn came takes no more
\* slots than he had, and uses up the last one of a member who had none left.
LEMMA WinsFit ==
    ASSUME RoomNotNegative, NEW out \in [Slots -> Outcome], NEW c \in Chars,
           \A s \in Slots : out[s] = Won(c) => c \in Room(out, s)
    PROVE  /\ free[c] - Cardinality(WinsOf(out, c)) \in Nat
           /\ \A s \in Slots : c \notin Room(out, s) =>
                 free[c] - Cardinality(WinsOf(out, c)) = 0
<1> DEFINE W == WinsOf(out, c)
           Before(s) == {t \in W : t < s}
<1>1. W \in SUBSET Slots /\ IsFiniteSet(W) /\ Cardinality(W) \in Nat
    <2>1. W \in SUBSET Slots
        BY DEF WinsOf
    <2> QED BY <2>1, SlotsFinite
<1>2. \A s \in Slots : /\ Before(s) \in SUBSET W /\ IsFiniteSet(Before(s))
                        /\ Cardinality(Before(s)) \in Nat
                        /\ Cardinality(Before(s)) <= Cardinality(W)
    <2>1. \A s \in Slots : Before(s) \in SUBSET W
        OBVIOUS
    <2> QED BY <1>1, <2>1, FS_Subset, FS_CardinalityType
<1>3. \A s \in Slots : c \in Room(out, s) <=> free[c] > Cardinality(Before(s))
    BY DEF Room
<1>4. free[c] \in Nat
    BY DEF RoomNotNegative
<1>5. free[c] >= Cardinality(W)
    <2>1. CASE W = {}
        BY <1>4, <2>1, FS_EmptySet
    <2>2. CASE W # {}
        <3> DEFINE m == Max(W)
        <3>1. m \in W /\ \A x \in W : x <= m
            <4>1. NSlots - 1 \in Nat
                BY SizeAssumption
            <4>2. W \in SUBSET (0 .. NSlots - 1)
                BY <1>1 DEF Slots
            <4> HIDE DEF W
            <4> QED BY <2>2, <4>1, <4>2, MaxOfNaturals
        <3>2. m \in Slots /\ out[m] = Won(c)
            BY <3>1 DEF WinsOf
        <3>3. free[c] > Cardinality(Before(m))
            BY <1>3, <3>2
        <3>4. W = Before(m) \cup {m} /\ m \notin Before(m)
            <4> HIDE DEF m, W
            <4>1. W \subseteq Nat
                BY <1>1, SlotsFinite
            <4>2. \A x \in W : x \in Int
                BY <4>1
            <4> QED BY <3>1, <4>2
        <3> HIDE DEF m, W, Before
        <3>5. Cardinality(W) = Cardinality(Before(m)) + 1
            BY <1>2, <3>2, <3>4, FS_AddElement
        <3> QED BY <1>1, <1>2, <1>4, <3>2, <3>3, <3>5
    <2> QED BY <2>1, <2>2
<1> HIDE DEF W, Before
<1>6. free[c] - Cardinality(W) \in Nat
    BY <1>1, <1>4, <1>5
<1>7. ASSUME NEW s \in Slots, c \notin Room(out, s) PROVE free[c] - Cardinality(W) = 0
    BY <1>1, <1>2, <1>3, <1>4, <1>5, <1>7
<1> QED BY <1>6, <1>7 DEF W

\* An item that is due is early only if all members have spoken: the timer's
\* tick is not so old that the drop lies in its future by more than Lead.
LEMMA NeverEarly ==
    ASSUME TypeOK, NEW item \in PoolItem, NEW h \in Memory, InOrder(item, h),
           Spoke(h) \subseteq members, MaxLag <= Lead,
           NEW tick \in Ticks, NEW room, Due(item, tick, room),
           tick \in now - MaxLag .. now \/ Len(item.Lotters) = Cardinality(members)
    PROVE  \/ type = "SOLO" \/ Sub(now, h.born) + Lead > LiveTime
           \/ \A c \in members : h.said[c] # Silent
<1>1. CASE Len(item.Lotters) = Cardinality(members)
    <2>1. IsFiniteSet(members)
        BY CharsAssumption, FS_Subset DEF TypeOK
    <2>2. Cardinality(Spoke(h)) = Cardinality(members)
        BY <1>1, RecordedLength DEF InOrder
    <2>3. Spoke(h) = members
        BY <2>1, <2>2, FS_Subset
    <2> QED BY <2>3 DEF Spoke
<1>2. CASE Len(item.Lotters) # Cardinality(members)
    <2>1. type = "SOLO" \/ Sub(tick, item.TimeStamp) > LiveTime
        BY <1>2 DEF Due
    <2>2. h.born \in BootTick .. now /\ item.TimeStamp = h.born - Lead
        BY DEF InOrder, Due
    <2>3. tick \in now - MaxLag .. now
        BY <1>2
    <2>4. now \in Int /\ tick \in Int /\ h.born \in Int
        BY TickAssumption DEF TypeOK, Ticks, Memory
    <2>5. Sub(tick, item.TimeStamp) = tick - h.born + Lead
        BY <2>2, <2>3, <2>4, TickAssumption DEF Sub
    <2>6. Sub(now, h.born) = now - h.born
        BY <2>2, <2>4 DEF Sub
    <2> QED BY <2>1, <2>2, <2>3, <2>4, <2>5, <2>6, TickAssumption DEF TypeOK
<1> QED BY <1>1, <1>2

-----------------------------------------------------------------------------
(* Each handler keeps the invariant.                                       *)

\* No entries record that nobody has spoken.
LEMMA NothingRecorded ==
    ASSUME NEW item, item.Lotters = <<>>, NEW h, h.said = Quiet
    PROVE  Recorded(item, h) /\ Spoke(h) = {}
<1>1. DOMAIN <<>> = {}
    OBVIOUS
<1>2. Spoke(h) = {}
    BY DEF Spoke, Quiet
<1>3. Voters(<<>>) = {}
    BY <1>1 DEF Voters
<1> QED BY <1>1, <1>2, <1>3 DEF Recorded

LEMMA EmptyInOrder ==
    ASSUME NEW h, h.said = Quiet
    PROVE  /\ EmptySlot.ID = NoItem /\ EmptySlot.Lotters = <<>> /\ Spoke(h) = {}
           /\ InOrder(EmptySlot, h) /\ InOrder(EmptySlot, h)'
<1>1. EmptySlot.ID = NoItem /\ EmptySlot.Lotters = <<>>
    BY DEF EmptySlot
<1>2. Recorded(EmptySlot, h) /\ Spoke(h) = {}
    BY <1>1, NothingRecorded
<1> QED BY <1>1, <1>2 DEF InOrder

\* VerdictsAreFair says it of every verdict, with the members and the room of
\* the state after the step.
FairVerdict(v, who, left) ==
    LET lotters == {c \in Chars : v.said[c] > 0}
        best == {c \in lotters : \A x \in lotters : v.said[x] <= v.said[c]}
        silent == {c \in who : v.said[c] = Silent}
    IN  IF lotters # {}
        THEN v.to \in best \/ (v.kind = "lost" /\ \E c \in best : left[c] = 0)
        ELSE v.to \in silent \/ (v.kind = "lost" /\ \A c \in silent : left[c] = 0)

\* One decision, taken while the members in room had room, is judged rightly
\* after the step if those who had none have none then.
LEMMA DecisionJudged ==
    ASSUME TypeOK,
           NEW item \in PoolItem, NEW h \in Memory, Recorded(item, h),
           NEW tick, NEW room \in SUBSET Chars,
           NEW o \in Outcomes(item, tick, room), o.kind # "kept",
           NEW left, \A c \in Chars : c \notin room => left[c] = 0,
           NEW v, v.kind = o.kind, v.to = o.to, v.said = h.said
    PROVE  FairVerdict(v, members, left)
<1>1. FairChoice(o, h.said, room)
    BY OutcomesAreFair
<1>2. Best(h.said) \subseteq Chars /\ Undecided(h.said) \subseteq Chars
    BY DEF Best, Lotters, Undecided, TypeOK
<1>3. IF Lotters(h.said) # {}
      THEN v.to \in Best(h.said)
           \/ (v.kind = "lost" /\ \E c \in Best(h.said) : left[c] = 0)
      ELSE v.to \in Undecided(h.said)
           \/ (v.kind = "lost" /\ \A c \in Undecided(h.said) : left[c] = 0)
    BY <1>1, <1>2 DEF FairChoice
<1> QED BY <1>3 DEF FairVerdict, Lotters, Best, Undecided

\* TreasureWon, TreasureError and TreasureLost for the slots of out.
LEMMA SettleKeepsLedger ==
    ASSUME TypeOK, RoomNotNegative, UNCHANGED <<members, type, now>>,
           NEW items \in [Slots -> PoolItem], NEW h \in [Slots -> Memory],
           \A s \in Slots : InOrder(items[s], h[s]),
           type # "ZONE" => \A s \in Slots : Spoke(h[s]) \subseteq members,
           NEW out \in [Slots -> Outcome], NEW tick \in Ticks,
           \A s \in Slots : out[s].kind # "kept" =>
               /\ out[s] \in Outcomes(items[s], tick, Room(out, s))
               /\ \/ tick \in now - MaxLag .. now
                  \/ Len(items[s].Lotters) = Cardinality(members),
           Settle(items, h, out)
    PROVE  Ledger' /\ Judged'
<1>1. \A s \in Slots : Room(out, s) \in SUBSET Chars
    BY DEF Room
<1>2. ASSUME NEW c \in Chars
      PROVE  /\ free[c] - Cardinality(WinsOf(out, c)) \in Nat
             /\ \A s \in Slots : c \notin Room(out, s) =>
                   free[c] - Cardinality(WinsOf(out, c)) = 0
    <2>1. \A s \in Slots : out[s] = Won(c) => c \in Room(out, s)
        BY WinnersHaveRoom DEF Won
    <2> QED BY <2>1, WinsFit
<1>3. free' = [c \in Chars |-> free[c] - Cardinality(WinsOf(out, c))]
    BY DEF Settle
<1>4. RoomNotNegative'
    BY <1>2, <1>3 DEF RoomNotNegative
<1>5. ASSUME NEW s \in Slots
      PROVE  /\ s \in Gone(out) => m_PoolItems'[s] = EmptySlot /\ hist'[s].said = Quiet
             /\ s \notin Gone(out) => m_PoolItems'[s] = items[s] /\ hist'[s] = h[s]
    BY DEF Settle, Memory
<1>6. ASSUME NEW s \in Slots
      PROVE  InOrder(m_PoolItems[s], hist[s])' /\ Spoke(hist'[s]) \subseteq Spoke(h[s])
    <2>1. CASE s \in Gone(out)
        BY <1>5, <2>1, EmptyInOrder DEF InOrder
    <2>2. CASE s \notin Gone(out)
        BY <1>5, <2>2 DEF InOrder
    <2> QED BY <2>1, <2>2
<1>7. Ledger'
    <2>1. SlotsInOrder'
        BY <1>6 DEF SlotsInOrder
    <2>2. LeaversSilent'
        BY <1>6 DEF LeaversSilent
    <2> QED BY <1>4, <2>1, <2>2 DEF Ledger
<1>8. ASSUME NEW v \in verdicts'
      PROVE  \E s \in Slots : /\ v = Verdict(out[s], h[s], FALSE)
                              /\ out[s].kind # "kept"
                              /\ out[s] \in Outcomes(items[s], tick, Room(out, s))
    BY DEF Settle, Gone
<1>9. \A s \in Slots : \A c \in Chars : c \notin Room(out, s) => free'[c] = 0
    BY <1>2, <1>3
<1>10. VerdictsAreFair'
    <2> SUFFICES ASSUME NEW v \in verdicts' PROVE FairVerdict(v, members', free')
        BY DEF VerdictsAreFair, FairVerdict
    <2>1. PICK s \in Slots : /\ v = Verdict(out[s], h[s], FALSE)
                             /\ out[s].kind # "kept"
                             /\ out[s] \in Outcomes(items[s], tick, Room(out, s))
        BY <1>8
    <2>2. /\ items[s] \in PoolItem /\ h[s] \in Memory /\ Recorded(items[s], h[s])
          /\ Room(out, s) \in SUBSET Chars
          /\ \A c \in Chars : c \notin Room(out, s) => free'[c] = 0
          /\ v.kind = out[s].kind /\ v.to = out[s].to /\ v.said = h[s].said
        BY <1>1, <1>9, <2>1 DEF Verdict, InOrder
    <2> QED BY <2>1, <2>2, DecisionJudged
<1>11. type' # "ZONE" => WinnersAreMembers'
    <2> SUFFICES ASSUME type # "ZONE", NEW v \in verdicts', v.kind \in {"won", "error"}
                 PROVE  v.to \in members'
        BY DEF WinnersAreMembers
    <2>1. PICK s \in Slots : /\ v = Verdict(out[s], h[s], FALSE)
                             /\ out[s].kind # "kept"
                             /\ out[s] \in Outcomes(items[s], tick, Room(out, s))
        BY <1>8
    <2>2. /\ items[s] \in PoolItem /\ h[s] \in Memory /\ Recorded(items[s], h[s])
          /\ Room(out, s) \in SUBSET Chars
          /\ \A c \in Chars : c \notin Room(out, s) => free'[c] = 0
          /\ v.kind = out[s].kind /\ v.to = out[s].to /\ v.said = h[s].said
        BY <1>1, <1>9, <2>1 DEF Verdict, InOrder
    <2>3. out[s].kind \in {"won", "error"} => out[s].to \in Spoke(h[s]) \cup members
        BY <2>1, <2>2, OutcomesAreFair
    <2> QED BY <2>2, <2>3
<1>12. MaxLag <= Lead /\ type' # "ZONE" => NoEarlyVerdict'
    <2> SUFFICES ASSUME MaxLag <= Lead, type # "ZONE", NEW v \in verdicts'
                 PROVE  \/ type = "SOLO" \/ v.held + Lead > LiveTime
                        \/ \A c \in members : v.said[c] # Silent
        BY DEF NoEarlyVerdict
    <2>1. PICK s \in Slots : /\ v = Verdict(out[s], h[s], FALSE)
                             /\ out[s].kind # "kept"
                             /\ out[s] \in Outcomes(items[s], tick, Room(out, s))
        BY <1>8
    <2>2. Due(items[s], tick, Room(out, s))
        BY <2>1 DEF Outcomes, Kept
    <2>3. v.held = Sub(now, h[s].born) /\ v.said = h[s].said
        BY <2>1 DEF Verdict
    <2> QED BY <2>1, <2>2, <2>3, NeverEarly
<1> QED BY <1>7, <1>10, <1>11, <1>12 DEF Judged

\* A lot or a pass, as a client sends it once.
LEMMA LotKeepsLedger ==
    ASSUME TypeOK, Ledger, NEW c \in Chars, NEW s \in Slots, NEW lot \in Lots,
           Lot(c, s, lot)
    PROVE  Ledger' /\ Judged'
<1> DEFINE items == [m_PoolItems EXCEPT ![s] = WithLot(@, c, lot)]
           h == [hist EXCEPT ![s].said[c] = lot]
<1>1. m_PoolItems \in [Slots -> PoolItem] /\ hist \in [Slots -> Memory] /\ c \in members
    BY DEF TypeOK, Lot
<1>2. /\ m_PoolItems[s].ID # NoItem
      /\ IF lot = 0 THEN hist[s].said[c] # 0 ELSE hist[s].said[c] = Silent
      /\ LotItem(c, s, lot, h)
    BY DEF Lot
<1>3. /\ WithLot(m_PoolItems[s], c, lot) \in PoolItem
      /\ WithLot(m_PoolItems[s], c, lot).ID = m_PoolItems[s].ID
      /\ WithLot(m_PoolItems[s], c, lot).TimeStamp = m_PoolItems[s].TimeStamp
    BY <1>1, WithLotType DEF WithLot, PoolItem
<1>4. items \in [Slots -> PoolItem]
      /\ \A t \in Slots : items[t] = IF t = s THEN WithLot(m_PoolItems[s], c, lot)
                                    ELSE m_PoolItems[t]
    BY <1>1, <1>3
<1>5. /\ [hist[s] EXCEPT !.said[c] = lot] \in Memory
      /\ [hist[s] EXCEPT !.said[c] = lot].born = hist[s].born
      /\ Spoke([hist[s] EXCEPT !.said[c] = lot]) \subseteq Spoke(hist[s]) \cup {c}
    BY <1>1 DEF Memory, Spoke
<1>6. h \in [Slots -> Memory]
      /\ \A t \in Slots : h[t] = IF t = s THEN [hist[s] EXCEPT !.said[c] = lot] ELSE hist[t]
    BY <1>1, <1>5
<1>7. \A t \in Slots : InOrder(m_PoolItems[t], hist[t])
    BY DEF Ledger, SlotsInOrder
<1> HIDE DEF items, h
<1>8. ASSUME NEW t \in Slots PROVE InOrder(items[t], h[t])
    <2>1. CASE t = s
        <3>1. Recorded(WithLot(m_PoolItems[s], c, lot), [hist[s] EXCEPT !.said[c] = lot])
            BY <1>1, <1>2, <1>7, VoteRecorded DEF InOrder
        <3> QED BY <1>2, <1>3, <1>4, <1>5, <1>6, <1>7, <2>1, <3>1 DEF InOrder
    <2>2. CASE t # s
        BY <1>4, <1>6, <1>7, <2>2
    <2> QED BY <2>1, <2>2
<1>9. type # "ZONE" => \A t \in Slots : Spoke(h[t]) \subseteq members
    BY <1>1, <1>5, <1>6 DEF Ledger, LeaversSilent
<1>10. PICK o : /\ \/ o = Kept
                   \/ /\ o \in Outcomes(items[s], m_Tick, HasRoom)
                      /\ Len(items[s].Lotters) = Cardinality(members)
                /\ Settle(items, h, [t \in Slots |-> IF t = s THEN o ELSE Kept])
                /\ UNCHANGED <<members, type, m_Tick, now, found>>
    BY <1>2 DEF LotItem, items
<1> DEFINE out == [t \in Slots |-> IF t = s THEN o ELSE Kept]
<1>11. HasRoom \in SUBSET Chars /\ Kept \in Outcome /\ Kept.kind = "kept"
    BY DEF HasRoom, Kept, Outcome
<1>12. out \in [Slots -> Outcome]
    <2>1. o \in Outcome
        BY <1>10, <1>11, OutcomesType
    <2> QED BY <1>11, <2>1
<1>13. Room(out, s) = HasRoom
    <2>1. ASSUME NEW x \in Chars PROVE {t \in WinsOf(out, x) : t < s} = {}
        <3>1. \A t \in WinsOf(out, x) : t = s
            BY DEF WinsOf, Kept, Won
        <3>2. ~ (s < s)
            BY SlotsFinite
        <3> QED BY <3>1, <3>2
    <2>2. \A x \in Chars : Cardinality({t \in WinsOf(out, x) : t < s}) = 0
        BY <2>1, FS_EmptySet
    <2> QED BY <2>2 DEF Room, HasRoom
<1>14. \A t \in Slots : out[t].kind # "kept" =>
           /\ out[t] \in Outcomes(items[t], m_Tick, Room(out, t))
           /\ \/ m_Tick \in now - MaxLag .. now
              \/ Len(items[t].Lotters) = Cardinality(members)
    <2> TAKE t \in Slots
    <2> HAVE out[t].kind # "kept"
    <2>1. t = s /\ out[t] = o /\ o # Kept
        BY <1>11
    <2> QED BY <1>10, <1>13, <2>1
<1>15. m_Tick \in Ticks /\ RoomNotNegative
    BY DEF TypeOK, Ledger
<1> HIDE DEF out
<1> QED
    <2>1. Settle(items, h, out)
        BY <1>10 DEF out
    <2> QED BY <1>4, <1>6, <1>8, <1>9, <1>10, <1>12, <1>14, <1>15, <2>1, SettleKeepsLedger

\* One round of the zone timer.
LEMMA CheckItemsKeepsLedger ==
    ASSUME TypeOK, Ledger, NEW lag \in 0 .. MaxLag, CheckItems(now - lag)
    PROVE  Ledger' /\ Judged'
<1>1. PICK out \in [Slots -> Outcome] :
          /\ \A s \in Slots : out[s] \in Outcomes(m_PoolItems[s], now - lag, Room(out, s))
          /\ Settle(m_PoolItems, hist, out)
    BY DEF CheckItems
<1>2. UNCHANGED <<members, type, now>>
    BY DEF CheckItems
<1>3. now - lag \in Ticks /\ now - lag \in now - MaxLag .. now
    BY TickAssumption DEF TypeOK, Ticks
<1>4. m_PoolItems \in [Slots -> PoolItem] /\ hist \in [Slots -> Memory] /\ RoomNotNegative
    BY DEF TypeOK, Ledger
<1>5. /\ \A s \in Slots : InOrder(m_PoolItems[s], hist[s])
      /\ type # "ZONE" => \A s \in Slots : Spoke(hist[s]) \subseteq members
    BY DEF Ledger, SlotsInOrder, LeaversSilent
<1> QED BY <1>1, <1>2, <1>3, <1>4, <1>5, SettleKeepsLedger

\* A new item: the oldest one of a full pool is decided on first, and a solo
\* pool decides on the new one at once.
LEMMA AddItemKeepsLedger ==
    ASSUME TypeOK, Ledger, NEW i \in Items, AddItem(i)
    PROVE  Ledger' /\ Judged'
<1> DEFINE s == FreeSlot
<1>n. PICK new : new = [born |-> now, said |-> Quiet]
    OBVIOUS
<1>0. PICK o1 \in MadeRoom : \E o2 \in HandedOver(i, o1) : Enter(i, o1, o2)
    BY DEF AddItem
<1>a. PICK o2 \in HandedOver(i, o1) : Enter(i, o1, o2)
    BY <1>0
<1>i. PICK item : item = NewItem(i, o1)
    OBVIOUS
<1> DEFINE room2 == {c \in Chars : free[c] > One(o1 = Won(c))}
<1>b. /\ m_PoolItems' = [m_PoolItems EXCEPT ![s] =
                            IF o2.kind # "kept" THEN EmptySlot ELSE item]
      /\ free' = [c \in Chars |-> free[c] - One(o1 = Won(c)) - One(o2 = Won(c))]
      /\ hist' = [hist EXCEPT ![s] = new]
      /\ verdicts' = (IF o1.kind # "kept" THEN {Verdict(o1, hist[s], TRUE)} ELSE {})
                 \cup (IF o2.kind # "kept" THEN {Verdict(o2, new, FALSE)} ELSE {})
    BY <1>n, <1>a, <1>i DEF Enter
<1>c. UNCHANGED <<members, type, now>>
    BY DEF AddItem
<1>1. s \in Slots /\ (Occupied # Slots => s \notin Occupied)
    BY FreeSlotType
<1>2. m_PoolItems \in [Slots -> PoolItem] /\ hist \in [Slots -> Memory]
      /\ now \in BootTick .. MaxTick /\ free \in [Chars -> Nat]
    BY DEF TypeOK, Ledger, RoomNotNegative
<1>3. InOrder(m_PoolItems[s], hist[s])
    BY <1>1 DEF Ledger, SlotsInOrder
<1>4. HasRoom \in SUBSET Chars /\ room2 \in SUBSET Chars
    BY DEF HasRoom
<1>5. \/ /\ o1 = Kept /\ m_PoolItems[s].Lotters = <<>>
      \/ /\ o1 \in Outcomes(Overdue(m_PoolItems[s]), now, HasRoom)
         /\ o1.kind # "kept"
    <2>1. CASE Occupied = Slots
        <3>1. m_PoolItems[s] \in PoolItem /\ m_PoolItems[s].ID # NoItem
            BY <1>1, <1>2, <2>1 DEF Occupied
        <3> QED BY <1>a, <1>4, <2>1, <3>1, OverdueSettles DEF MadeRoom
    <2>2. CASE Occupied # Slots
        <3>1. m_PoolItems[s].ID = NoItem
            BY <1>1, <2>2 DEF Occupied
        <3> QED BY <1>a, <1>3, <2>2, <3>1 DEF MadeRoom, InOrder
    <2> QED BY <2>1, <2>2
<1>6. item.Lotters = <<>> /\ item.ID = i /\ item.TimeStamp = StartTick
    BY <1>5, <1>i DEF NewItem
<1>7. \/ o2 = Kept
      \/ type = "SOLO" /\ o2 \in Outcomes(item, now, room2)
    BY <1>a, <1>i DEF HandedOver
<1>8. item \in PoolItem /\ new \in Memory
    <2>1. Lead \in Ticks /\ now \in Ticks
        BY <1>2, TickAssumption DEF Ticks
    <2>2. StartTick \in Ticks
        BY <2>1, SubType DEF StartTick
    <2>3. <<>> \in Seq(LotInfo)
        OBVIOUS
    <2>4. item \in PoolItem
        BY <1>i, <1>6, <2>2, <2>3 DEF NewItem, PoolItem
    <2> QED BY <1>n, <2>1, <2>4 DEF Memory, Quiet
<1>9. Recorded(item, new) /\ Spoke(new) = {}
    BY <1>n, <1>6, NothingRecorded
<1>10. InOrder(item, new)'
    <2>1. StartTick = now - Lead
        BY <1>2, TickAssumption DEF StartTick, Sub
    <2>2. new.born \in BootTick .. now' /\ item.TimeStamp = new.born - Lead
        BY <1>2, <1>c, <1>6, <1>n, <2>1
    <2>3. item.ID # NoItem
        BY <1>6, ItemsAssumption
    <2> QED BY <1>9, <2>2, <2>3 DEF InOrder
<1>11. ASSUME NEW c \in Chars
       PROVE  /\ free'[c] \in Nat
              /\ o1.kind # "kept" /\ c \notin HasRoom => free'[c] = 0
              /\ o2.kind # "kept" /\ c \notin room2 => free'[c] = 0
    <2> DEFINE a == One(o1 = Won(c))
               b == One(o2 = Won(c))
    <2>1. free'[c] = free[c] - a - b /\ free[c] \in Nat
        BY <1>b, <1>2
    <2>2. a \in {0, 1} /\ b \in {0, 1}
        BY DEF One
    <2>3. a = 1 => c \in HasRoom
        <3>1. Won(c).kind = "won" /\ Kept.kind = "kept"
            BY DEF Won, Kept
        <3>2. a = 1 => o1 = Won(c)
            BY DEF One
        <3> QED BY <1>5, <3>1, <3>2, WinnersHaveRoom
    <2>4. b = 1 => c \in room2
        <3>1. Won(c).kind = "won" /\ Kept.kind = "kept"
            BY DEF Won, Kept
        <3>2. b = 1 => o2 = Won(c)
            BY DEF One
        <3> QED BY <1>7, <3>1, <3>2, WinnersHaveRoom
    <2>5. (c \in HasRoom <=> free[c] > 0) /\ (c \in room2 <=> free[c] > a)
        BY DEF HasRoom
    <2> HIDE DEF a, b, room2
    <2> QED BY <2>1, <2>2, <2>3, <2>4, <2>5
<1> HIDE DEF room2
<1>12. Ledger'
    <2>1. RoomNotNegative'
        <3>1. free' \in [Chars -> Int]
            BY <1>b, <1>2 DEF One
        <3> QED BY <1>11, <3>1 DEF RoomNotNegative
    <2>2. ASSUME NEW t \in Slots
          PROVE  /\ InOrder(m_PoolItems[t], hist[t])'
                 /\ Spoke(hist'[t]) \subseteq Spoke(hist[t])
        <3>1. CASE t = s /\ o2.kind # "kept"
            <4>1. m_PoolItems'[t] = EmptySlot /\ hist'[t] = new
                BY <1>b, <1>1, <1>2, <3>1
            <4> QED BY <1>n, <1>9, <4>1, EmptyInOrder DEF InOrder
        <3>2. CASE t = s /\ o2.kind = "kept"
            <4>1. m_PoolItems'[t] = item /\ hist'[t] = new
                BY <1>b, <1>1, <1>2, <3>2
            <4> QED BY <1>9, <1>10, <4>1 DEF InOrder
        <3>3. CASE t # s
            <4>1. m_PoolItems'[t] = m_PoolItems[t] /\ hist'[t] = hist[t]
                BY <1>b, <1>1, <1>2, <3>3
            <4> QED BY <1>c, <4>1 DEF Ledger, SlotsInOrder, InOrder
        <3> QED BY <3>1, <3>2, <3>3
    <2>3. SlotsInOrder'
        BY <2>2 DEF SlotsInOrder
    <2>4. LeaversSilent'
        BY <1>c, <2>2 DEF Ledger, LeaversSilent
    <2> QED BY <2>1, <2>3, <2>4 DEF Ledger
<1>13. ASSUME NEW v \in verdicts'
       PROVE  /\ FairVerdict(v, members, free')
              /\ type # "ZONE" /\ v.kind \in {"won", "error"} => v.to \in members
              /\ v.evicted \/ type = "SOLO"
    <2>1. CASE o1.kind # "kept" /\ v = Verdict(o1, hist[s], TRUE)
        <3>1. /\ Overdue(m_PoolItems[s]) \in PoolItem /\ hist[s] \in Memory
              /\ Recorded(Overdue(m_PoolItems[s]), hist[s])
            <4>1. 0 \in Ticks
                BY TickAssumption DEF Ticks
            <4> QED BY <1>1, <1>2, <1>3, <4>1 DEF Overdue, PoolItem, InOrder, Recorded
        <3>2. v.kind = o1.kind /\ v.to = o1.to /\ v.said = hist[s].said
            BY <2>1 DEF Verdict
        <3>3. v.evicted
            BY <2>1 DEF Verdict
        <3>4. o1 \in Outcomes(Overdue(m_PoolItems[s]), now, HasRoom)
            BY <1>5, <2>1 DEF Kept
        <3>5. FairVerdict(v, members, free')
            BY <1>4, <1>11, <2>1, <3>1, <3>2, <3>4, DecisionJudged
        <3>6. o1.kind \in {"won", "error"} => o1.to \in Spoke(hist[s]) \cup members
            BY <1>4, <2>1, <3>1, <3>4, OutcomesAreFair
        <3>7. type # "ZONE" => Spoke(hist[s]) \subseteq members
            BY <1>1 DEF Ledger, LeaversSilent
        <3> QED BY <3>2, <3>3, <3>5, <3>6, <3>7
    <2>2. CASE o2.kind # "kept" /\ v = Verdict(o2, new, FALSE)
        <3>1. v.kind = o2.kind /\ v.to = o2.to /\ v.said = new.said
            BY <2>2 DEF Verdict
        <3>2. type = "SOLO" /\ o2 \in Outcomes(item, now, room2)
            BY <1>7, <2>2 DEF Kept
        <3>3. FairVerdict(v, members, free')
            BY <1>4, <1>8, <1>9, <1>11, <2>2, <3>1, <3>2, DecisionJudged
        <3>4. o2.kind \in {"won", "error"} => o2.to \in Spoke(new) \cup members
            BY <1>4, <1>8, <1>9, <2>2, <3>2, OutcomesAreFair
        <3> QED BY <1>9, <3>1, <3>2, <3>3, <3>4
    <2> QED BY <1>b, <2>1, <2>2
<1>14. Judged'
    <2>1. VerdictsAreFair'
        BY <1>c, <1>13 DEF VerdictsAreFair, FairVerdict
    <2>2. type' # "ZONE" => WinnersAreMembers'
        BY <1>c, <1>13 DEF WinnersAreMembers
    <2>3. NoEarlyVerdict'
        BY <1>c, <1>13 DEF NoEarlyVerdict
    <2> QED BY <2>1, <2>2, <2>3 DEF Judged
<1> QED BY <1>12, <1>14

\* Leaving: a zone pool keeps what the leaver said, any other forgets it, and
\* the last one to leave leaves empty slots behind.
LEMMA DelMemberKeepsLedger ==
    ASSUME TypeOK, Ledger, NEW c \in Chars, DelMember(c)
    PROVE  Ledger' /\ Judged'
<1>1. /\ UNCHANGED <<now, free>> /\ verdicts' = {}
      /\ members' = members \ {c} /\ c \in members
    BY DEF DelMember
<1>2. Judged'
    BY <1>1 DEF Judged, VerdictsAreFair, WinnersAreMembers, NoEarlyVerdict
<1>3. RoomNotNegative'
    BY <1>1 DEF Ledger, RoomNotNegative
<1>4. m_PoolItems \in [Slots -> PoolItem] /\ hist \in [Slots -> Memory]
    BY DEF TypeOK
<1>5. \A s \in Slots : InOrder(m_PoolItems[s], hist[s])
    BY DEF Ledger, SlotsInOrder
<1>6. CASE type = "ZONE"
    <2>1. UNCHANGED <<type, m_PoolItems, hist>>
        BY <1>6 DEF DelMember
    <2>2. SlotsInOrder'
        BY <1>1, <1>5, <2>1 DEF SlotsInOrder, InOrder
    <2>3. LeaversSilent'
        BY <1>6, <2>1 DEF LeaversSilent
    <2> QED BY <1>2, <1>3, <2>2, <2>3 DEF Ledger
<1>7. CASE type # "ZONE"
    <2>1. \A s \in Slots : Spoke(hist[s]) \subseteq members
        BY <1>7 DEF Ledger, LeaversSilent
    <2>2. \A s \in Slots : hist'[s] = [hist[s] EXCEPT !.said[c] = Silent]
        BY <1>7 DEF DelMember
    <2>3. ASSUME NEW s \in Slots
          PROVE  /\ Spoke(hist'[s]) = Spoke(hist[s]) \ {c}
                 /\ hist'[s].born = hist[s].born
                 /\ hist'[s].said \in [Chars -> Lots \cup {Silent}]
        <3>1. PICK h \in Memory : h = hist[s]
            BY <1>4
        <3>2. hist'[s] = [h EXCEPT !.said[c] = Silent]
            BY <2>2, <3>1
        <3>3. \A x \in Chars : hist'[s].said[x] = IF x = c THEN Silent ELSE h.said[x]
            BY <3>2 DEF Memory
        <3>4. hist'[s].born = h.born /\ hist'[s].said \in [Chars -> Lots \cup {Silent}]
            BY <3>2 DEF Memory
        <3> QED BY <3>1, <3>3, <3>4 DEF Spoke
    <2>4. LeaversSilent'
        BY <1>1, <2>1, <2>3 DEF LeaversSilent
    <2>5. CASE members' = {}
        <3>1. ASSUME NEW s \in Slots PROVE InOrder(m_PoolItems[s], hist[s])'
            <4>1. m_PoolItems'[s] = EmptySlot
                BY <1>7, <2>5 DEF DelMember
            <4>2. Spoke(hist'[s]) = {}
                BY <1>1, <2>1, <2>3, <2>5
            <4>3. hist'[s].said = Quiet
                BY <2>3, <4>2 DEF Spoke, Quiet
            <4> QED BY <4>1, <4>3, EmptyInOrder DEF InOrder
        <3> QED BY <1>2, <1>3, <2>4, <3>1 DEF Ledger, SlotsInOrder
    <2>6. CASE members' # {}
        <3>1. ASSUME NEW s \in Slots PROVE InOrder(m_PoolItems[s], hist[s])'
            <4>1. m_PoolItems'[s] = Withdrawn(m_PoolItems[s], c)
                BY <1>7, <2>6 DEF DelMember
            <4>2. m_PoolItems[s] \in PoolItem /\ hist[s] \in Memory
                BY <1>4
            <4>3. Recorded(m_PoolItems'[s], hist'[s])
                <5>1. Recorded(m_PoolItems[s], hist[s])
                    BY <1>5 DEF InOrder
                <5>2. Recorded(Withdrawn(m_PoolItems[s], c), [hist[s] EXCEPT !.said[c] = Silent])
                    BY <4>2, <5>1, WithdrawalRecorded
                <5> QED BY <2>2, <4>1, <5>2
            <4>4. /\ m_PoolItems'[s].ID = m_PoolItems[s].ID
                  /\ m_PoolItems'[s].TimeStamp = m_PoolItems[s].TimeStamp
                  /\ m_PoolItems[s].Lotters = <<>> => m_PoolItems'[s].Lotters = <<>>
                <5> DEFINE lots == m_PoolItems[s].Lotters
                           keep == DOMAIN lots \ Erased(lots, c)
                <5>1. m_PoolItems'[s] = [m_PoolItems[s] EXCEPT !.Lotters = Restricted(lots, keep)]
                    BY <4>1 DEF Withdrawn
                <5>2. ASSUME lots = <<>> PROVE Restricted(lots, keep) = <<>>
                    <6>1. keep = {} /\ lots \in Seq(LotInfo)
                        BY <4>2, <5>2 DEF PoolItem
                    <6>2. Restricted(lots, keep) \in Seq(LotInfo)
                        BY <6>1, RestrictedType
                    <6>3. DOMAIN Restricted(lots, keep) = {}
                        BY <6>1, FS_EmptySet DEF Restricted
                    <6> QED BY <6>2, <6>3
                <5> HIDE DEF lots, keep
                <5> QED BY <4>2, <5>1, <5>2 DEF PoolItem, lots
            <4> QED BY <1>1, <1>5, <2>3, <4>3, <4>4 DEF InOrder
        <3> QED BY <1>2, <1>3, <2>4, <3>1 DEF Ledger, SlotsInOrder
    <2> QED BY <2>5, <2>6
<1> QED BY <1>6, <1>7

-----------------------------------------------------------------------------
(* The theorems.                                                           *)

LEMMA InitLedger == Init => Ledger /\ Judged
<1> SUFFICES ASSUME Init PROVE Ledger /\ Judged
    OBVIOUS
<1>1. ASSUME NEW s \in Slots
      PROVE  InOrder(m_PoolItems[s], hist[s]) /\ Spoke(hist[s]) = {}
    <2>1. m_PoolItems[s] = EmptySlot /\ hist[s].said = Quiet
        BY DEF Init
    <2> QED BY <2>1, EmptyInOrder
<1>2. RoomNotNegative
    BY SizeAssumption DEF Init, RoomNotNegative
<1>3. Ledger
    BY <1>1, <1>2 DEF Ledger, SlotsInOrder, LeaversSilent
<1>4. Judged
    BY DEF Init, Judged, VerdictsAreFair, WinnersAreMembers, NoEarlyVerdict
<1> QED BY <1>3, <1>4

LEMMA NextKeepsLedger ==
    ASSUME ~ StaleLots, TypeOK, Ledger, Judged, [Next]_vars
    PROVE  Ledger' /\ Judged'
<1>0. SlotsInOrder /\ LeaversSilent /\ RoomNotNegative
    BY DEF Ledger
<1>1. ASSUME NEW c \in Chars, NewPool(c) PROVE Ledger' /\ Judged'
    <2>1. ASSUME NEW s \in Slots
          PROVE  InOrder(m_PoolItems[s], hist[s])' /\ Spoke(hist'[s]) = {}
        <3>1. m_PoolItems'[s] = EmptySlot /\ hist'[s].said = Quiet
            BY <1>1 DEF NewPool
        <3> QED BY <3>1, EmptyInOrder DEF InOrder
    <2>2. free' = free /\ verdicts' = {}
        BY <1>1 DEF NewPool
    <2>3. Ledger'
        BY <1>0, <2>1, <2>2 DEF Ledger, SlotsInOrder, LeaversSilent, RoomNotNegative
    <2> QED BY <2>2, <2>3 DEF Judged, VerdictsAreFair, WinnersAreMembers, NoEarlyVerdict
<1>2. ASSUME NEW c \in Chars, AddMember(c) PROVE Ledger' /\ Judged'
    <2>1. /\ UNCHANGED <<m_PoolItems, now, free, hist>> /\ verdicts' = {}
          /\ members' = members \cup {c}
          /\ type' # "ZONE" => type # "ZONE"
        BY <1>2 DEF AddMember
    <2>2. Ledger'
        BY <1>0, <2>1 DEF Ledger, SlotsInOrder, InOrder, LeaversSilent, RoomNotNegative
    <2> QED BY <2>1, <2>2 DEF Judged, VerdictsAreFair, WinnersAreMembers, NoEarlyVerdict
<1>3. ASSUME NEW c \in Chars, DelMember(c) PROVE Ledger' /\ Judged'
    BY <1>3, DelMemberKeepsLedger
<1>4. ASSUME NEW i \in Items, AddItem(i) PROVE Ledger' /\ Judged'
    BY <1>4, AddItemKeepsLedger
<1>5. ASSUME NEW c \in Chars, NEW s \in Slots, NEW lot \in Lots, Lot(c, s, lot)
      PROVE  Ledger' /\ Judged'
    BY <1>5, LotKeepsLedger
<1>6. ASSUME NEW c \in Chars, NEW s \in Slots, NEW lot \in Lots, StaleLot(c, s, lot)
      PROVE  Ledger' /\ Judged'
    BY <1>6 DEF StaleLot
<1>7. ASSUME ZoneTimer PROVE Ledger' /\ Judged'
    BY <1>7, CheckItemsKeepsLedger DEF ZoneTimer
<1>8. ASSUME Clock PROVE Ledger' /\ Judged'
    <2>1. /\ UNCHANGED <<members, type, m_PoolItems, free, hist>> /\ verdicts' = {}
          /\ now' = now + 1 /\ now \in Int
        BY <1>8, TickAssumption DEF Clock, TypeOK
    <2>2. \A k : k \in BootTick .. now => k \in BootTick .. now'
        BY <2>1, TickAssumption
    <2>3. Ledger'
        BY <1>0, <2>1, <2>2 DEF Ledger, SlotsInOrder, InOrder, LeaversSilent, RoomNotNegative
    <2> QED BY <2>1, <2>3 DEF Judged, VerdictsAreFair, WinnersAreMembers, NoEarlyVerdict
<1>9. ASSUME NEW c \in Chars, NEW n \in 0 .. MaxFree, Inventory(c, n)
      PROVE  Ledger' /\ Judged'
    <2>1. /\ UNCHANGED <<members, type, m_PoolItems, now, hist>> /\ verdicts' = {}
          /\ free' = [free EXCEPT ![c] = n] /\ n \in Nat
        BY <1>9, SizeAssumption DEF Inventory
    <2>2. Ledger'
        BY <1>0, <2>1 DEF Ledger, SlotsInOrder, InOrder, LeaversSilent, RoomNotNegative
    <2> QED BY <2>1, <2>2 DEF Judged, VerdictsAreFair, WinnersAreMembers, NoEarlyVerdict
<1>10. ASSUME UNCHANGED vars PROVE Ledger' /\ Judged'
    BY <1>10 DEF vars, Ledger, SlotsInOrder, InOrder, LeaversSilent, RoomNotNegative,
                 Judged, VerdictsAreFair, WinnersAreMembers, NoEarlyVerdict
<1> QED BY <1>1, <1>2, <1>3, <1>4, <1>5, <1>6, <1>7, <1>8, <1>9, <1>10 DEF Next

\* The inductive invariant holds in every reachable state.
THEOREM LedgerInvariant == ASSUME ~ StaleLots PROVE Spec => [](Ledger /\ Judged)
<1>1. Init => Ledger /\ Judged
    BY InitLedger
<1>2. TypeOK /\ Ledger /\ Judged /\ [Next]_vars => (Ledger /\ Judged)'
    BY NextKeepsLedger
<1> QED BY <1>1, <1>2, TypeCorrect, PTL DEF Spec

\* The loop of DelMember that skips entries, and LotItem that overwrites only
\* the first entry, still leave one entry for each member who has spoken, with
\* the latest word, and none of a leaver or of the slot's earlier item.
THEOREM LottersCorrect == ASSUME ~ StaleLots PROVE Spec => []LottersAreDecisions
<1>1. TypeOK /\ Ledger => LottersAreDecisions
    <2> SUFFICES ASSUME TypeOK, Ledger, type # "ZONE", NEW s \in Slots
                 PROVE  LET lots == m_PoolItems[s].Lotters
                            spoke == {c \in Chars : hist[s].said[c] # Silent}
                        IN  /\ spoke \subseteq members
                            /\ Len(lots) = Cardinality(spoke)
                            /\ \A c \in spoke : \E i \in DOMAIN lots :
                                  lots[i] = [lot |-> hist[s].said[c], member |-> c]
        BY DEF LottersAreDecisions
    <2> DEFINE lots == m_PoolItems[s].Lotters
    <2>1. m_PoolItems[s] \in PoolItem /\ hist[s] \in Memory
        BY DEF TypeOK
    <2>2. Recorded(m_PoolItems[s], hist[s]) /\ Spoke(hist[s]) \subseteq members
        BY DEF Ledger, SlotsInOrder, LeaversSilent, InOrder
    <2>3. Len(lots) = Cardinality(Spoke(hist[s]))
        BY <2>1, <2>2, RecordedLength
    <2>4. ASSUME NEW c \in Spoke(hist[s])
          PROVE  \E i \in DOMAIN lots : lots[i] = [lot |-> hist[s].said[c], member |-> c]
        <3>1. PICK i \in DOMAIN lots : lots[i].member = c
            BY <2>2 DEF Recorded, Voters
        <3>2. lots[i] \in LotInfo
            BY <2>1 DEF PoolItem
        <3>3. lots[i].lot = hist[s].said[c]
            BY <2>2, <3>1 DEF Recorded
        <3> QED BY <3>1, <3>2, <3>3 DEF LotInfo
    <2> QED BY <2>2, <2>3, <2>4 DEF Spoke
<1> QED BY <1>1, LedgerInvariant, TypeCorrect, PTL

\* Every decision is fair: by the round of the zone timer, by the last lot, by
\* the item that needs room and by a solo pool, in zone pools as well.
THEOREM VerdictsCorrect == ASSUME ~ StaleLots PROVE Spec => []VerdictsAreFair
<1>1. Judged => VerdictsAreFair
    BY DEF Judged
<1> QED BY <1>1, LedgerInvariant, PTL

\* The 2.5 seconds that AddItem sets the time stamp back make a timer that runs
\* at most that late safe: no wrap-around settles an item that has just dropped.
\* (A zone's pool may settle early once the entries of leavers are as many as
\* its members.)
THEOREM NotTooEarly ==
    ASSUME ~ StaleLots, MaxLag <= Lead
    PROVE  Spec => [](type # "ZONE" => NoEarlyVerdict)
<1>1. Judged => (type # "ZONE" => NoEarlyVerdict)
    BY DEF Judged
<1> QED BY <1>1, LedgerInvariant, PTL

\* The assertion in TreasureWon and TreasureError holds in every pool that is
\* not a zone's.
THEOREM PartyWinnersAreMembers ==
    ASSUME ~ StaleLots
    PROVE  Spec => [](type # "ZONE" => WinnersAreMembers)
<1>1. Judged => (type # "ZONE" => WinnersAreMembers)
    BY DEF Judged
<1> QED BY <1>1, LedgerInvariant, PTL
=============================================================================
