---------------------------- MODULE PartiesProofs ----------------------------
(* The lists of parties, the column of the database and the pools agree    *)
(* with the characters' own pointers, for any number of characters,        *)
(* parties, alliances and zones.                                           *)
EXTENDS Parties, IterationLemmas

-----------------------------------------------------------------------------
(* Member lists.                                                           *)

\* x is in the list s, in one place.
Single(s, x) == /\ x \in ToSet(s)
                /\ \A i, j \in DOMAIN s : s[i] = x /\ s[j] = x => i = j

LEMMA OnceIsSingle ==
    ASSUME NEW S, NEW s \in Seq(S), NEW x
    PROVE  Once(s, x) <=> Single(s, x)
<1> DEFINE P == {i \in DOMAIN s : s[i] = x}
<1>1. IsFiniteSet(P)
  <2>1. PICK n \in Nat : DOMAIN s = 1 .. n
    OBVIOUS
  <2>2. IsFiniteSet(1 .. n)
    BY FS_Interval
  <2> QED
    BY <2>1, <2>2, FS_Subset
<1>2. Cardinality(P) \in Nat /\ (Cardinality(P) = 0 <=> P = {})
      /\ (Cardinality(P) <= 1 <=> \A i, j \in P : i = j)
  BY <1>1, FS_CardinalityType, FS_EmptySet, AtMostOne
<1>3. P # {} <=> x \in ToSet(s)
  BY DEF ToSet
<1>4. (\A i, j \in P : i = j) <=> \A i, j \in DOMAIN s : s[i] = x /\ s[j] = x => i = j
  OBVIOUS
<1>5. Once(s, x) <=> Cardinality(P) = 1
  BY DEF Once
<1> HIDE DEF P
<1> QED
  BY <1>2, <1>3, <1>4, <1>5 DEF Single

LEMMA AppendFacts ==
    ASSUME NEW S, NEW s \in Seq(S), NEW c \in S
    PROVE  /\ Append(s, c) \in Seq(S) /\ Len(Append(s, c)) = Len(s) + 1
           /\ ToSet(Append(s, c)) = ToSet(s) \cup {c}
           /\ c \notin ToSet(s) => Single(Append(s, c), c)
           /\ \A x : x # c /\ Single(s, x) => Single(Append(s, c), x)
<1>1. PICK n \in Nat : n = Len(s) /\ DOMAIN s = 1 .. n
  OBVIOUS
<1>2. PICK r : r = Append(s, c)
  OBVIOUS
<1>3. r \in Seq(S) /\ Len(r) = n + 1 /\ DOMAIN r = 1 .. n + 1 /\ r[n + 1] = c
      /\ \A i \in 1 .. n : r[i] = s[i]
  BY <1>1, <1>2, AppendProperties
<1>4. \A i \in 1 .. n + 1 : i = n + 1 \/ i \in 1 .. n
  OBVIOUS
<1>5. 1 .. n \subseteq 1 .. n + 1 /\ n + 1 \in 1 .. n + 1
  OBVIOUS
<1>6. ToSet(r) = ToSet(s) \cup {c}
  BY <1>1, <1>3, <1>4, <1>5 DEF ToSet
<1>7. ASSUME c \notin ToSet(s) PROVE Single(r, c)
  <2>1. \A i \in 1 .. n : s[i] # c
    BY <1>1, <1>7 DEF ToSet
  <2> QED
    BY <1>3, <1>4, <1>6, <2>1 DEF Single
<1>8. ASSUME NEW x, x # c, Single(s, x) PROVE Single(r, x)
  BY <1>1, <1>3, <1>4, <1>6, <1>8 DEF Single
<1> QED
  BY <1>1, <1>2, <1>3, <1>6, <1>7, <1>8

LEMMA RemoveFirstFacts ==
    ASSUME NEW S, NEW s \in Seq(S), NEW c \in ToSet(s)
    PROVE  /\ RemoveFirst(s, c) \in Seq(S) /\ Len(RemoveFirst(s, c)) = Len(s) - 1
           /\ \A x : x # c => (x \in ToSet(RemoveFirst(s, c)) <=> x \in ToSet(s))
           /\ ToSet(RemoveFirst(s, c)) \subseteq ToSet(s)
           /\ Single(s, c) => c \notin ToSet(RemoveFirst(s, c))
           /\ \A x : x # c /\ Single(s, x) => Single(RemoveFirst(s, c), x)
<1>1. PICK n \in Nat : n = Len(s) /\ DOMAIN s = 1 .. n
  OBVIOUS
<1> DEFINE I == {i \in 1 .. n : s[i] = c}
           m == Min(I)
<1>2. I # {} /\ I \in SUBSET Nat
  BY <1>1 DEF ToSet
<1>3. m \in 1 .. n /\ s[m] = c
  <2> HIDE DEF I
  <2>1. m \in I
    BY <1>2, MinOfNaturals
  <2> QED
    BY <2>1 DEF I
<1>4. RemoveFirst(s, c) = SubSeq(s, 1, m - 1) \o SubSeq(s, m + 1, n)
  BY <1>1, <1>2 DEF RemoveFirst, RemoveAt, SelectInSeq
<1> HIDE DEF m
<1>5. PICK r : r = SubSeq(s, 1, m - 1) \o SubSeq(s, m + 1, n)
  OBVIOUS
<1>6. /\ SubSeq(s, 1, m - 1) \in Seq(S) /\ Len(SubSeq(s, 1, m - 1)) = m - 1
      /\ \A i \in 1 .. m - 1 : SubSeq(s, 1, m - 1)[i] = s[i]
  BY <1>1, <1>3
<1>7. /\ SubSeq(s, m + 1, n) \in Seq(S) /\ Len(SubSeq(s, m + 1, n)) = n - m
      /\ \A i \in 1 .. n - m : SubSeq(s, m + 1, n)[i] = s[m + i]
  BY <1>1, <1>3
<1>8. /\ r \in Seq(S) /\ Len(r) = n - 1 /\ DOMAIN r = 1 .. n - 1
      /\ \A i \in 1 .. n - 1 : r[i] = IF i <= m - 1 THEN SubSeq(s, 1, m - 1)[i]
                                      ELSE SubSeq(s, m + 1, n)[i - (m - 1)]
  <2>1. PICK a, b : a = SubSeq(s, 1, m - 1) /\ b = SubSeq(s, m + 1, n)
    OBVIOUS
  <2>2. a \in Seq(S) /\ b \in Seq(S) /\ Len(a) = m - 1 /\ Len(b) = n - m
    BY <1>6, <1>7, <2>1
  <2>3. /\ a \o b \in Seq(S) /\ Len(a \o b) = Len(a) + Len(b)
        /\ \A i \in 1 .. Len(a) + Len(b) :
              (a \o b)[i] = IF i <= Len(a) THEN a[i] ELSE b[i - Len(a)]
    BY <2>2, ConcatProperties
  <2>4. Len(a) + Len(b) = n - 1
    BY <1>1, <1>3, <2>2
  <2>5. r \in Seq(S) /\ Len(r) = n - 1
    BY <1>5, <2>1, <2>3, <2>4
  <2>6. DOMAIN r = 1 .. n - 1
    BY <2>5
  <2> QED
    BY <1>5, <2>1, <2>2, <2>3, <2>4, <2>5, <2>6
<1>9. \A i \in 1 .. n - 1 : r[i] = IF i < m THEN s[i] ELSE s[i + 1]
  <2> TAKE i \in 1 .. n - 1
  <2>1. CASE i < m
    BY <1>3, <1>6, <1>8, <2>1
  <2>2. CASE ~(i < m)
    <3>1. i - (m - 1) \in 1 .. n - m /\ m + (i - (m - 1)) = i + 1
      BY <1>1, <1>3, <2>2
    <3>2. r[i] = SubSeq(s, m + 1, n)[i - (m - 1)]
      BY <1>3, <1>8, <2>2
    <3> QED
      BY <1>7, <2>2, <3>1, <3>2
  <2> QED
    BY <2>1, <2>2
<1> DEFINE from(i) == IF i < m THEN i ELSE i + 1
<1>10. \A i \in 1 .. n - 1 : from(i) \in 1 .. n \ {m} /\ r[i] = s[from(i)]
  BY <1>1, <1>3, <1>9
<1>11. \A k \in 1 .. n \ {m} : \E i \in 1 .. n - 1 : from(i) = k
  <2> TAKE k \in 1 .. n \ {m}
  <2>1. CASE k < m
    BY <1>1, <1>3, <2>1
  <2>2. CASE k > m
    <3>1. k - 1 \in 1 .. n - 1 /\ ~(k - 1 < m)
      BY <1>1, <1>3, <2>2
    <3> QED
      BY <3>1
  <2> QED
    BY <1>3, <2>1, <2>2
<1>12. \A i, j \in 1 .. n - 1 : from(i) = from(j) => i = j
  BY <1>3
<1> HIDE DEF from
<1>13. \A x : x \in ToSet(r) <=> \E k \in 1 .. n \ {m} : s[k] = x
  <2> TAKE x
  <2>1. ASSUME x \in ToSet(r) PROVE \E k \in 1 .. n \ {m} : s[k] = x
    BY <1>8, <1>10, <2>1 DEF ToSet
  <2>2. ASSUME NEW k \in 1 .. n \ {m}, s[k] = x PROVE x \in ToSet(r)
    <3>1. PICK i \in 1 .. n - 1 : from(i) = k
      BY <1>11
    <3> QED
      BY <1>8, <1>10, <2>2, <3>1 DEF ToSet
  <2> QED
    BY <2>1, <2>2
<1>14. \A x : x # c => (x \in ToSet(r) <=> x \in ToSet(s))
  BY <1>1, <1>3, <1>13 DEF ToSet
<1>15. ToSet(r) \subseteq ToSet(s)
  BY <1>1, <1>13 DEF ToSet
<1>16. ASSUME Single(s, c) PROVE c \notin ToSet(r)
  BY <1>1, <1>3, <1>13, <1>16 DEF Single
<1>17. ASSUME NEW x, x # c, Single(s, x) PROVE Single(r, x)
  BY <1>1, <1>8, <1>10, <1>12, <1>14, <1>17 DEF Single
<1> QED
  BY <1>1, <1>4, <1>5, <1>8, <1>14, <1>15, <1>16, <1>17

-----------------------------------------------------------------------------
(* Pools.                                                                  *)

PoolRec == [members : Seq(Chars), ofZone : BOOLEAN]

\* A character is in the pool it points at, once if it is not a zone's, and no
\* other pool that is not a zone's has it.
PoolBooks(h) == \A c \in Chars :
    /\ h.PTreasurePool[c] # Null =>
          LET pool == h.pool[h.PTreasurePool[c]]
          IN  c \in ToSet(pool.members) /\ (~pool.ofZone => Single(pool.members, c))
    /\ \A p \in PoolPtrs :
          c \in ToSet(h.pool[p].members) /\ ~h.pool[p].ofZone => h.PTreasurePool[c] = p

\* c is in no pool, or in that of a zone.
Loose(h, c) == h.PTreasurePool[c] = Null \/ InZonePool(h, c)

\* A method that changes the pool of c leaves the others theirs.
OthersKeep(h, g, c) ==
    \A x \in Chars : x # c => /\ g.PTreasurePool[x] = h.PTreasurePool[x]
                              /\ InZonePool(g, x) <=> InZonePool(h, x)

ZonePools(h) == {p \in PoolPtrs : h.pool[p].members # <<>> /\ h.pool[p].ofZone}

\* g differs from h in the pools at most.
PoolsOnly(h, g) == /\ g.party = h.party /\ g.alliance = h.alliance
                   /\ g.PParty = h.PParty /\ g.partyid = h.partyid

\* The heap before a method that makes a pool: one more pool can be made.
Ready(h) == /\ h \in HeapType /\ PoolBooks(h)
            /\ Cardinality(ZonePools(h)) <= MaxVisits

\* What a method promises: nobody loses its pool without getting another, and
\* no zone's pool is made.
Housed(h, g) == /\ g \in HeapType /\ PoolBooks(g)
                /\ ZonePools(g) \subseteq ZonePools(h)
                /\ \A x \in Chars : h.PTreasurePool[x] # Null => g.PTreasurePool[x] # Null

LEMMA PointersDiffer ==
    /\ \A p \in PoolPtrs : p # Null
    /\ \A p \in PartyPtrs : p # Null
    /\ \A p \in AlliancePtrs : p # Null
BY DEF PoolPtrs, PartyPtrs, AlliancePtrs, Null

LEMMA ZonePoolsFinite ==
    ASSUME NEW h
    PROVE  IsFiniteSet(PoolPtrs) /\ IsFiniteSet(ZonePools(h)) /\ Cardinality(ZonePools(h)) \in Nat
<1>1. PICK n : n = Cardinality(Chars) + MaxVisits
  OBVIOUS
<1>2. n \in Nat
  BY <1>1, PartiesAssumption, FS_CardinalityType
<1>3. IsFiniteSet(PoolPtrs) /\ Cardinality(PoolPtrs) = n
  <2>1. PoolPtrs = 1 .. n
    BY <1>1 DEF PoolPtrs
  <2> QED
    BY <1>2, <2>1, FS_Interval
<1> QED
  BY <1>3, FS_Subset, FS_CardinalityType DEF ZonePools

LEMMA ReadyAgain ==
    ASSUME NEW h, NEW g, Ready(h), Housed(h, g)
    PROVE  Ready(g)
<1>1. Cardinality(ZonePools(g)) <= Cardinality(ZonePools(h))
  BY ZonePoolsFinite, FS_Subset DEF Housed
<1> QED
  BY <1>1, ZonePoolsFinite, PartiesAssumption DEF Ready, Housed

LEMMA HousedTwice ==
    ASSUME NEW h, NEW g, NEW k, Housed(h, g), Housed(g, k)
    PROVE  Housed(h, k)
BY DEF Housed

\* A method that leaves the pools alone.
LEMMA PoolsLeftAlone ==
    ASSUME NEW h \in HeapType, PoolBooks(h), NEW g \in HeapType,
           g.pool = h.pool, g.PTreasurePool = h.PTreasurePool
    PROVE  Housed(h, g)
BY DEF Housed, PoolBooks, ZonePools

\* Every pool that is not a zone's has a member of its own, and there have been
\* MaxVisits pools of zones at most: a character without a pool of its own
\* finds a free one.
LEMMA PoolsSuffice ==
    ASSUME NEW h, Ready(h), NEW c \in Chars, Loose(h, c)
    PROVE  FreePoolPtrs(h) # {}
<1> DEFINE others == Chars \ {c}
           own == {p \in PoolPtrs : h.pool[p].members # <<>> /\ ~h.pool[p].ofZone}
           reached == {h.PTreasurePool[x] : x \in others}
<1>0. h \in HeapType /\ PoolBooks(h)
  BY DEF Ready
<1>1. own \subseteq reached
  <2> SUFFICES ASSUME NEW p \in own PROVE p \in reached
    OBVIOUS
  <2>1. h.pool[p].members \in Seq(Chars) /\ h.pool[p].members # <<>>
    BY <1>0 DEF HeapType
  <2>2. PICK x : x = h.pool[p].members[1]
    OBVIOUS
  <2>3. x \in Chars /\ x \in ToSet(h.pool[p].members)
    BY <2>1, <2>2 DEF ToSet
  <2>4. h.PTreasurePool[x] = p
    BY <1>0, <2>3 DEF PoolBooks
  <2>5. x # c
    BY <2>4, PointersDiffer DEF Loose, InZonePool
  <2> QED
    BY <2>3, <2>4, <2>5
<1>2. IsFiniteSet(others) /\ Cardinality(others) = Cardinality(Chars) - 1
      /\ Cardinality(Chars) \in Nat
  BY PartiesAssumption, FS_RemoveElement, FS_CardinalityType
<1>3. IsFiniteSet(reached) /\ Cardinality(reached) <= Cardinality(others)
  <2>1. PICK f : f = [x \in others |-> h.PTreasurePool[x]]
    OBVIOUS
  <2>2. f \in Surjection(others, reached)
    BY <2>1 DEF Surjection
  <2> QED
    BY <1>2, <2>2, FS_Surjection
<1>4. IsFiniteSet(own) /\ Cardinality(own) <= Cardinality(reached)
  BY <1>1, <1>3, FS_Subset
<1>5. /\ IsFiniteSet(ZonePools(h)) /\ Cardinality(ZonePools(h)) <= MaxVisits
      /\ Cardinality(ZonePools(h)) \in Nat
  BY ZonePoolsFinite DEF Ready
<1> HIDE DEF reached, others
<1>6. own \cap ZonePools(h) = {}
  BY DEF ZonePools
<1>7. PICK busy : busy = own \cup ZonePools(h)
  OBVIOUS
<1> HIDE DEF own
<1>8. IsFiniteSet(busy) /\ Cardinality(busy) = Cardinality(own) + Cardinality(ZonePools(h))
  <2>1. Cardinality(own \cap ZonePools(h)) = 0
    BY <1>6, FS_EmptySet
  <2>2. Cardinality(own) \in Nat
    BY <1>4, FS_CardinalityType
  <2>3. IsFiniteSet(own \cup ZonePools(h))
        /\ Cardinality(own \cup ZonePools(h))
             = Cardinality(own) + Cardinality(ZonePools(h)) - Cardinality(own \cap ZonePools(h))
    BY <1>4, <1>5, FS_Union
  <2> QED
    BY <1>5, <1>7, <2>1, <2>2, <2>3
<1>9. Cardinality(own) \in Nat /\ Cardinality(reached) \in Nat
  BY <1>3, <1>4, FS_CardinalityType
<1>10. Cardinality(busy) < Cardinality(Chars) + MaxVisits
  BY <1>2, <1>3, <1>4, <1>5, <1>8, <1>9, PartiesAssumption
<1>11. Cardinality(PoolPtrs) = Cardinality(Chars) + MaxVisits
  <2>1. PICK n : n = Cardinality(Chars) + MaxVisits
    OBVIOUS
  <2>2. n \in Nat /\ PoolPtrs = 1 .. n
    BY <1>2, <2>1, PartiesAssumption DEF PoolPtrs
  <2> QED
    BY <2>1, <2>2, FS_Interval
<1>12. PoolPtrs # busy
  BY <1>2, <1>10, <1>11, PartiesAssumption
<1>13. busy \subseteq PoolPtrs
  BY <1>7 DEF own, ZonePools
<1>14. PICK p \in PoolPtrs : p \notin busy
  BY <1>12, <1>13
<1> QED
  BY <1>0, <1>7, <1>14 DEF own, ZonePools, FreePoolPtrs, HeapType

\* One character gets another pointer and one pool other members.
WithPool(h, c, v, p, rec) == [h EXCEPT !.PTreasurePool[c] = v, !.pool[p] = rec]

LEMMA PoolExcept ==
    ASSUME NEW h \in HeapType, NEW c \in Chars, NEW v, v \in PoolPtrs \/ v = Null,
           NEW p \in PoolPtrs, NEW rec \in PoolRec
    PROVE  LET g == WithPool(h, c, v, p, rec)
           IN  /\ g \in HeapType /\ PoolsOnly(h, g) /\ g.broken = h.broken
               /\ g.PTreasurePool = [h.PTreasurePool EXCEPT ![c] = v]
               /\ g.pool = [h.pool EXCEPT ![p] = rec]
BY DEF HeapType, PoolRec, PoolsOnly, WithPool

OthersPoint(h, g, c) == \A x \in Chars : x # c => g.PTreasurePool[x] = h.PTreasurePool[x]

\* Nobody gets into the pool of a zone.
NoneEnters(h, g) == \A x \in Chars : InZonePool(g, x) => InZonePool(h, x)

JoinsPool(h, g, c, p) ==
    /\ g \in HeapType /\ PoolsOnly(h, g) /\ g.broken = h.broken
    /\ g.PTreasurePool[c] = p /\ OthersPoint(h, g, c)
    /\ g.PTreasurePool = [h.PTreasurePool EXCEPT ![c] = p]
    /\ g.pool = [h.pool EXCEPT ![p] = [members |-> Append(h.pool[p].members, c),
                                       ofZone |-> h.pool[p].ofZone]]

LEMMA JoinPoolType ==
    ASSUME NEW h \in HeapType, NEW c \in Chars, NEW p \in PoolPtrs, NEW g, g = JoinPool(h, c, p)
    PROVE  JoinsPool(h, g, c, p)
<1>1. PICK old : old = h.pool[p]
  OBVIOUS
<1>2. old \in PoolRec
  BY <1>1 DEF HeapType, PoolRec
<1>3. PICK rec : rec = [members |-> Append(old.members, c), ofZone |-> old.ofZone]
  OBVIOUS
<1>4. rec \in PoolRec
  BY <1>2, <1>3 DEF PoolRec
<1>5. [old EXCEPT !.members = Append(@, c)]
        = [members |-> Append(old.members, c), ofZone |-> old.ofZone]
  BY <1>2 DEF PoolRec
<1>6. rec = [old EXCEPT !.members = Append(@, c)]
  BY <1>3, <1>5
<1>7. g = WithPool(h, c, p, p, rec)
  BY <1>1, <1>6 DEF JoinPool, WithPool
<1>8. /\ g \in HeapType /\ PoolsOnly(h, g) /\ g.broken = h.broken
      /\ g.PTreasurePool = [h.PTreasurePool EXCEPT ![c] = p]
      /\ g.pool = [h.pool EXCEPT ![p] = rec]
  BY <1>4, <1>7, PoolExcept
<1>9. g.PTreasurePool[c] = p /\ OthersPoint(h, g, c)
  BY <1>8 DEF HeapType, OthersPoint
<1> QED
  BY <1>1, <1>3, <1>8, <1>9 DEF JoinsPool

\* A character without a pool of its own can be put into any.
LEMMA JoinPoolFacts ==
    ASSUME NEW h \in HeapType, PoolBooks(h), NEW c \in Chars, Loose(h, c),
           NEW p \in PoolPtrs, NEW g, g = JoinPool(h, c, p)
    PROVE  /\ g \in HeapType /\ PoolBooks(g) /\ PoolsOnly(h, g) /\ g.broken = h.broken
           /\ g.PTreasurePool[c] = p /\ OthersKeep(h, g, c)
           /\ InZonePool(g, c) <=> h.pool[p].ofZone
           /\ ZonePools(g) \subseteq ZonePools(h) \cup (IF h.pool[p].ofZone THEN {p} ELSE {})
<1>1. PICK rec : rec = [members |-> Append(h.pool[p].members, c), ofZone |-> h.pool[p].ofZone]
  OBVIOUS
<1>2. h.pool[p].members \in Seq(Chars) /\ h.pool[p].ofZone \in BOOLEAN
  BY DEF HeapType
<1>5. /\ g \in HeapType /\ PoolsOnly(h, g) /\ g.broken = h.broken
      /\ g.PTreasurePool[c] = p /\ g.pool[p] = rec
      /\ \A x \in Chars : x # c => g.PTreasurePool[x] = h.PTreasurePool[x]
      /\ \A q \in PoolPtrs : q # p => g.pool[q] = h.pool[q]
  <2>1. /\ g \in HeapType /\ PoolsOnly(h, g) /\ g.broken = h.broken
        /\ g.PTreasurePool = [h.PTreasurePool EXCEPT ![c] = p]
        /\ g.pool = [h.pool EXCEPT ![p] = rec]
    <3>1. JoinsPool(h, g, c, p)
      BY JoinPoolType
    <3>2. [members |-> Append(h.pool[p].members, c), ofZone |-> h.pool[p].ofZone] = rec
      BY <1>1
    <3> QED
      BY <3>1, <3>2 DEF JoinsPool
  <2>2. h.PTreasurePool \in [Chars -> PoolPtrs \cup {Null}] /\ DOMAIN h.pool = PoolPtrs
    BY DEF HeapType
  <2> QED
    BY <2>1, <2>2
<1>6. /\ ToSet(rec.members) = ToSet(h.pool[p].members) \cup {c}
      /\ c \notin ToSet(h.pool[p].members) => Single(rec.members, c)
      /\ \A x : x # c /\ Single(h.pool[p].members, x) => Single(rec.members, x)
  BY <1>1, <1>2, AppendFacts
<1>7. \A q \in PoolPtrs : g.pool[q].ofZone = h.pool[q].ofZone
  BY <1>1, <1>5
<1>8. \A q \in PoolPtrs : ~h.pool[q].ofZone => c \notin ToSet(h.pool[q].members)
  BY PointersDiffer DEF PoolBooks, Loose, InZonePool
<1>9. ASSUME NEW x \in Chars, g.PTreasurePool[x] # Null
      PROVE  LET pool == g.pool[g.PTreasurePool[x]]
             IN  x \in ToSet(pool.members) /\ (~pool.ofZone => Single(pool.members, x))
  <2>1. CASE x = c
    <3>1. g.pool[g.PTreasurePool[x]] = rec
      BY <1>5, <2>1
    <3>2. c \in ToSet(rec.members)
      BY <1>6
    <3>3. ~rec.ofZone => Single(rec.members, c)
      BY <1>5, <1>6, <1>7, <1>8
    <3> QED
      BY <2>1, <3>1, <3>2, <3>3
  <2>2. CASE x # c
    <3>1. g.PTreasurePool[x] = h.PTreasurePool[x] /\ g.PTreasurePool[x] \in PoolPtrs
      BY <1>5, <1>9, <2>2 DEF HeapType
    <3>2. LET pool == h.pool[h.PTreasurePool[x]]
          IN  x \in ToSet(pool.members) /\ (~pool.ofZone => Single(pool.members, x))
      BY <1>9, <3>1 DEF PoolBooks
    <3>3. CASE h.PTreasurePool[x] = p
      BY <1>5, <1>6, <1>7, <2>2, <3>1, <3>2, <3>3
    <3>4. CASE h.PTreasurePool[x] # p
      BY <1>5, <3>1, <3>2, <3>4
    <3> QED
      BY <3>3, <3>4
  <2> QED
    BY <2>1, <2>2
<1>10. ASSUME NEW x \in Chars, NEW q \in PoolPtrs,
              x \in ToSet(g.pool[q].members), ~g.pool[q].ofZone
       PROVE  g.PTreasurePool[x] = q
  <2>1. CASE x = c
    BY <1>5, <1>7, <1>8, <1>10, <2>1
  <2>2. CASE x # c
    <3>1. x \in ToSet(h.pool[q].members) /\ ~h.pool[q].ofZone
      BY <1>5, <1>6, <1>7, <1>10, <2>2
    <3> QED
      BY <1>5, <2>2, <3>1 DEF PoolBooks
  <2> QED
    BY <2>1, <2>2
<1>11. PoolBooks(g)
  BY <1>9, <1>10 DEF PoolBooks
<1>12. OthersKeep(h, g, c)
  BY <1>5, <1>7 DEF OthersKeep, InZonePool, HeapType
<1>13. InZonePool(g, c) <=> h.pool[p].ofZone
  BY <1>5, <1>7, PointersDiffer DEF InZonePool
<1>14. ZonePools(g) \subseteq ZonePools(h) \cup (IF h.pool[p].ofZone THEN {p} ELSE {})
  BY <1>5, <1>7 DEF ZonePools
<1> QED
  BY <1>5, <1>11, <1>12, <1>13, <1>14

LEMMA LeavePoolFacts ==
    ASSUME NEW h \in HeapType, PoolBooks(h), NEW c \in Chars,
           NEW g, g = LeavePool(h, c)
    PROVE  /\ g \in HeapType /\ PoolBooks(g) /\ PoolsOnly(h, g) /\ g.broken = h.broken
           /\ ZonePools(g) \subseteq ZonePools(h)
           /\ g.PTreasurePool[c] = Null /\ OthersKeep(h, g, c)
<1>1. CASE h.PTreasurePool[c] = Null
  BY <1>1 DEF LeavePool, PoolsOnly, OthersKeep
<1>2. CASE h.PTreasurePool[c] # Null
  <2>1. PICK p \in PoolPtrs : p = h.PTreasurePool[c]
    BY <1>2 DEF HeapType
  <2>2. PICK old : old = h.pool[p]
    OBVIOUS
  <2>3. old \in PoolRec
    BY <2>2 DEF HeapType, PoolRec
  <2>4. c \in ToSet(old.members) /\ (~old.ofZone => Single(old.members, c))
    BY <1>2, <2>1, <2>2 DEF PoolBooks
  <2>5. PICK rec : rec = IF RemoveFirst(old.members, c) = <<>> THEN NoPool
                         ELSE [members |-> RemoveFirst(old.members, c), ofZone |-> old.ofZone]
    OBVIOUS
  <2>6. old.members \in Seq(Chars) /\ old.ofZone \in BOOLEAN
    BY <2>3 DEF PoolRec
  <2>7. /\ RemoveFirst(old.members, c) \in Seq(Chars)
        /\ Len(RemoveFirst(old.members, c)) = Len(old.members) - 1
        /\ \A x : x # c => (x \in ToSet(RemoveFirst(old.members, c)) <=> x \in ToSet(old.members))
        /\ Single(old.members, c) => c \notin ToSet(RemoveFirst(old.members, c))
        /\ \A x : x # c /\ Single(old.members, x) => Single(RemoveFirst(old.members, c), x)
    BY <2>4, <2>6, RemoveFirstFacts
  <2>8. Len(old.members) = 1 => \A x : x # c => x \notin ToSet(old.members)
    BY <2>4, <2>6 DEF ToSet
  <2>9. rec \in PoolRec
    <3>1. NoPool \in PoolRec
      BY EmptySeq DEF NoPool, PoolRec
    <3> QED
      BY <2>5, <2>6, <2>7, <3>1 DEF PoolRec
  <2>10. /\ \A x : x # c => (x \in ToSet(rec.members) <=> x \in ToSet(old.members))
         /\ \A x : x # c /\ Single(old.members, x) => Single(rec.members, x)
         /\ ~rec.ofZone => c \notin ToSet(rec.members)
         /\ Len(old.members) # 1 => rec.ofZone = old.ofZone
         /\ rec.ofZone => old.ofZone /\ old.members # <<>>
    <3>1. CASE Len(old.members) = 1
      <4>0. RemoveFirst(old.members, c) = <<>>
        BY <2>7, <3>1
      <4>1. rec.members = <<>> /\ ~rec.ofZone
        BY <2>5, <4>0 DEF NoPool
      <4>2. ToSet(rec.members) = {}
        BY <4>1 DEF ToSet
      <4> QED
        BY <2>8, <3>1, <4>1, <4>2 DEF Single
    <3>2. CASE Len(old.members) # 1
      <4>0. RemoveFirst(old.members, c) # <<>>
        <5>1. Len(old.members) \in Nat /\ Len(old.members) - 1 # 0
          BY <2>6, <3>2
        <5> QED
          BY <2>7, <5>1
      <4>1. rec.members = RemoveFirst(old.members, c) /\ rec.ofZone = old.ofZone
        BY <2>5, <4>0
      <4>2. old.members # <<>>
        BY <2>4 DEF ToSet
      <4> QED
        BY <2>4, <2>7, <4>1, <4>2
    <3> QED
      BY <3>1, <3>2
  <2>11. g = WithPool(h, c, Null, p, rec)
    <3>1. PICK rest : rest = RemoveFirst(old.members, c)
      OBVIOUS
    <3>2. [old EXCEPT !.members = rest] = [members |-> rest, ofZone |-> old.ofZone]
      BY <2>3 DEF PoolRec
    <3>3. rec = IF rest = <<>> THEN NoPool ELSE [old EXCEPT !.members = rest]
      BY <2>5, <3>1, <3>2
    <3>4. g = [h EXCEPT !.PTreasurePool[c] = Null,
                        !.pool[p] = IF rest = <<>> THEN NoPool ELSE [old EXCEPT !.members = rest]]
      BY <1>2, <2>1, <2>2, <2>4, <3>1 DEF LeavePool
    <3> QED
      BY <3>3, <3>4 DEF WithPool
  <2>12. /\ g \in HeapType /\ PoolsOnly(h, g) /\ g.broken = h.broken
         /\ g.PTreasurePool[c] = Null /\ g.pool[p] = rec
         /\ \A x \in Chars : x # c => g.PTreasurePool[x] = h.PTreasurePool[x]
         /\ \A q \in PoolPtrs : q # p => g.pool[q] = h.pool[q]
    <3>1. /\ g \in HeapType /\ PoolsOnly(h, g) /\ g.broken = h.broken
          /\ g.PTreasurePool = [h.PTreasurePool EXCEPT ![c] = Null]
          /\ g.pool = [h.pool EXCEPT ![p] = rec]
      BY <2>9, <2>11, PoolExcept
    <3>2. h.PTreasurePool \in [Chars -> PoolPtrs \cup {Null}] /\ DOMAIN h.pool = PoolPtrs
      BY DEF HeapType
    <3> QED
      BY <3>1, <3>2
  <2>13. ASSUME NEW x \in Chars, x # c, h.PTreasurePool[x] # Null
         PROVE  LET pool == g.pool[h.PTreasurePool[x]]
                IN  /\ x \in ToSet(pool.members)
                    /\ ~pool.ofZone => Single(pool.members, x)
                    /\ pool.ofZone = h.pool[h.PTreasurePool[x]].ofZone
    <3>1. h.PTreasurePool[x] \in PoolPtrs
      BY <2>13 DEF HeapType
    <3>2. LET pool == h.pool[h.PTreasurePool[x]]
          IN  x \in ToSet(pool.members) /\ (~pool.ofZone => Single(pool.members, x))
      BY <2>13 DEF PoolBooks
    <3>3. CASE h.PTreasurePool[x] = p
      BY <2>2, <2>8, <2>10, <2>12, <2>13, <3>2, <3>3
    <3>4. CASE h.PTreasurePool[x] # p
      BY <2>12, <3>1, <3>2, <3>4
    <3> QED
      BY <3>3, <3>4
  <2>14. ASSUME NEW x \in Chars, NEW q \in PoolPtrs,
                x \in ToSet(g.pool[q].members), ~g.pool[q].ofZone
         PROVE  g.PTreasurePool[x] = q
    <3>1. CASE x = c
      <4>1. q # p
        BY <2>10, <2>12, <2>14, <3>1
      <4> QED
        BY <2>1, <2>12, <2>14, <3>1, <4>1 DEF PoolBooks
    <3>2. CASE x # c
      <4>1. x \in ToSet(h.pool[q].members)
        BY <2>2, <2>10, <2>12, <2>14, <3>2
      <4>2. CASE q # p
        BY <2>12, <2>14, <3>2, <4>1, <4>2 DEF PoolBooks
      <4>3. CASE q = p
        <5>1. ~old.ofZone
          BY <2>2, <2>8, <2>10, <2>12, <2>14, <3>2, <4>1, <4>3
        <5> QED
          BY <2>2, <2>12, <3>2, <4>1, <4>3, <5>1 DEF PoolBooks
      <4> QED
        BY <4>2, <4>3
    <3> QED
      BY <3>1, <3>2
  <2>15. PoolBooks(g)
    BY <2>12, <2>13, <2>14 DEF PoolBooks
  <2>16. ZonePools(g) \subseteq ZonePools(h)
    BY <2>2, <2>10, <2>12 DEF ZonePools
  <2>17. OthersKeep(h, g, c)
    BY <2>12, <2>13 DEF OthersKeep, InZonePool
  <2> QED
    BY <2>12, <2>15, <2>16, <2>17
<1> QED
  BY <1>1, <1>2

LEMMA NewPoolFacts ==
    ASSUME NEW h \in HeapType, PoolBooks(h), NEW c \in Chars, Loose(h, c),
           FreePoolPtrs(h) # {}, NEW z \in BOOLEAN, NEW g, g = NewPool(h, c, z)
    PROVE  /\ g \in HeapType /\ PoolBooks(g) /\ PoolsOnly(h, g) /\ g.broken = h.broken
           /\ g.PTreasurePool[c] \in PoolPtrs /\ (InZonePool(g, c) <=> z)
           /\ OthersKeep(h, g, c)
           /\ \E p \in PoolPtrs : ZonePools(g) \subseteq ZonePools(h) \cup (IF z THEN {p} ELSE {})
<1>1. PICK p : p = Min(FreePoolPtrs(h))
  OBVIOUS
<1>2. p \in PoolPtrs /\ h.pool[p].members = <<>>
  <2>1. FreePoolPtrs(h) \in SUBSET Nat
    BY DEF FreePoolPtrs, PoolPtrs
  <2>2. p \in FreePoolPtrs(h)
    BY <1>1, <2>1, MinOfNaturals
  <2> QED
    BY <2>2 DEF FreePoolPtrs
<1>3. PICK rec : rec = [members |-> <<>>, ofZone |-> z]
  OBVIOUS
<1>4. PICK k : k = [h EXCEPT !.pool[p] = rec]
  OBVIOUS
<1>5. g = JoinPool(k, c, p)
  BY <1>1, <1>3, <1>4 DEF NewPool
<1>6. /\ k \in HeapType /\ PoolsOnly(h, k) /\ k.broken = h.broken
      /\ k.PTreasurePool = h.PTreasurePool /\ k.pool = [h.pool EXCEPT ![p] = rec]
  <2>1. rec \in [members : Seq(Chars), ofZone : BOOLEAN]
    BY <1>3, EmptySeq
  <2> QED
    BY <1>2, <1>4, <2>1 DEF HeapType, PoolsOnly
<1>7. /\ k.pool[p] = rec /\ rec.members = <<>> /\ rec.ofZone = z
      /\ \A q \in PoolPtrs : q # p => k.pool[q] = h.pool[q]
  BY <1>2, <1>3, <1>6 DEF HeapType
<1>8. ToSet(<<>>) = {}
  BY DEF ToSet
<1>9. \A x \in Chars : h.PTreasurePool[x] # Null =>
          h.PTreasurePool[x] \in PoolPtrs /\ h.PTreasurePool[x] # p
  BY <1>2, <1>8 DEF PoolBooks, HeapType
<1>10. PoolBooks(k)
  BY <1>6, <1>7, <1>8, <1>9 DEF PoolBooks
<1>11. \A x \in Chars : InZonePool(k, x) <=> InZonePool(h, x)
  BY <1>6, <1>7, <1>9 DEF InZonePool
<1>12. Loose(k, c)
  BY <1>6, <1>11 DEF Loose
<1>13. /\ g \in HeapType /\ PoolBooks(g) /\ PoolsOnly(k, g) /\ g.broken = k.broken
       /\ g.PTreasurePool[c] = p /\ OthersKeep(k, g, c)
       /\ InZonePool(g, c) <=> k.pool[p].ofZone
       /\ ZonePools(g) \subseteq ZonePools(k) \cup (IF k.pool[p].ofZone THEN {p} ELSE {})
  BY <1>2, <1>5, <1>6, <1>10, <1>12, JoinPoolFacts
<1>14. OthersKeep(h, g, c)
  BY <1>6, <1>11, <1>13 DEF OthersKeep
<1>15. ZonePools(k) \subseteq ZonePools(h)
  BY <1>7 DEF ZonePools
<1>16. ZonePools(g) \subseteq ZonePools(h) \cup (IF z THEN {p} ELSE {})
  BY <1>7, <1>13, <1>15
<1> QED
  BY <1>2, <1>6, <1>7, <1>13, <1>14, <1>16 DEF PoolsOnly

\* What DisbandParty and RemoveMember do to the pool of a member.
LEMMA SoloPoolFacts ==
    ASSUME NEW h, Ready(h), NEW c \in Chars, NEW g, g = SoloPool(h, c)
    PROVE  /\ Housed(h, g) /\ PoolsOnly(h, g) /\ g.broken = h.broken
           /\ OthersPoint(h, g, c) /\ NoneEnters(h, g)
<1>1. h \in HeapType /\ PoolBooks(h)
  BY DEF Ready
<1>2. CASE h.PTreasurePool[c] = Null \/ InZonePool(h, c)
  BY <1>1, <1>2 DEF SoloPool, Housed, PoolsOnly, OthersPoint, NoneEnters
<1>3. CASE ~(h.PTreasurePool[c] = Null \/ InZonePool(h, c))
  <2>1. PICK k : k = LeavePool(h, c)
    OBVIOUS
  <2>2. /\ k \in HeapType /\ PoolBooks(k) /\ PoolsOnly(h, k) /\ k.broken = h.broken
        /\ ZonePools(k) \subseteq ZonePools(h)
        /\ k.PTreasurePool[c] = Null /\ OthersKeep(h, k, c)
    BY <1>1, <2>1, LeavePoolFacts
  <2>3. Ready(k) /\ Loose(k, c)
    <3>1. Cardinality(ZonePools(k)) <= Cardinality(ZonePools(h))
      BY <2>2, ZonePoolsFinite, FS_Subset
    <3> QED
      BY <2>2, <3>1, ZonePoolsFinite, PartiesAssumption DEF Ready, Loose
  <2>4. g = NewPool(k, c, FALSE)
    BY <1>3, <2>1 DEF SoloPool
  <2>5. FreePoolPtrs(k) # {}
    BY <2>3, PoolsSuffice
  <2>6. /\ g \in HeapType /\ PoolBooks(g) /\ PoolsOnly(k, g) /\ g.broken = k.broken
        /\ g.PTreasurePool[c] \in PoolPtrs /\ (InZonePool(g, c) <=> FALSE)
        /\ OthersKeep(k, g, c)
    BY <2>2, <2>3, <2>4, <2>5, NewPoolFacts
  <2>7. \E p \in PoolPtrs : ZonePools(g) \subseteq ZonePools(k) \cup (IF FALSE THEN {p} ELSE {})
    BY <2>2, <2>3, <2>4, <2>5, NewPoolFacts
  <2>8. Housed(h, g) /\ PoolsOnly(h, g)
    BY <2>2, <2>6, <2>7, PointersDiffer DEF Housed, PoolsOnly, OthersKeep
  <2>9. OthersPoint(h, g, c) /\ NoneEnters(h, g)
    BY <2>2, <2>6 DEF OthersKeep, OthersPoint, NoneEnters
  <2> QED
    BY <2>2, <2>6, <2>8, <2>9
<1> QED
  BY <1>2, <1>3

\* The loop of DisbandParty over the members.
LEMMA SoloPoolsFacts ==
    ASSUME NEW h, Ready(h), NEW list \in Seq(Chars),
           NEW g, g = InTurn(SoloPool, h, list)
    PROVE  /\ Housed(h, g) /\ PoolsOnly(h, g) /\ g.broken = h.broken
           /\ NoneEnters(h, g)
           /\ \A x \in Chars : x \notin ToSet(list) => g.PTreasurePool[x] = h.PTreasurePool[x]
<1> DEFINE Sound == {k \in HeapType :
               /\ Ready(k) /\ Housed(h, k) /\ PoolsOnly(h, k) /\ k.broken = h.broken
               /\ NoneEnters(h, k)
               /\ \A x \in Chars : x \notin ToSet(list) => k.PTreasurePool[x] = h.PTreasurePool[x]}
           round == [x \in (1 .. Len(list)) \X Sound |-> SoloPool(x[2], list[x[1]])]
           IsRun(f) == f = [k \in 0 .. Len(list) |->
                              IF k = 0 THEN h ELSE SoloPool(f[k-1], list[k])]
<1>1. PICK n \in Nat : n = Len(list) /\ DOMAIN list = 1 .. n
  OBVIOUS
<1>2. h \in Sound
  BY DEF Ready, Housed, PoolsOnly, NoneEnters
<1>3. ASSUME NEW i \in 1 .. n, NEW k \in Sound PROVE SoloPool(k, list[i]) \in Sound
  <2>1. list[i] \in Chars /\ list[i] \in ToSet(list)
    BY <1>1 DEF ToSet
  <2>2. PICK m : m = SoloPool(k, list[i])
    OBVIOUS
  <2>3. /\ Ready(k) /\ Housed(h, k) /\ PoolsOnly(h, k) /\ k.broken = h.broken
        /\ NoneEnters(h, k)
        /\ \A x \in Chars : x \notin ToSet(list) => k.PTreasurePool[x] = h.PTreasurePool[x]
    OBVIOUS
  <2>4. /\ Housed(k, m) /\ PoolsOnly(k, m) /\ m.broken = k.broken
        /\ OthersPoint(k, m, list[i]) /\ NoneEnters(k, m)
    BY <2>1, <2>2, <2>3, SoloPoolFacts
  <2>5. Ready(m) /\ Housed(h, m)
    BY <2>3, <2>4, ReadyAgain, HousedTwice
  <2>6. /\ NoneEnters(h, m)
        /\ \A x \in Chars : x \notin ToSet(list) => m.PTreasurePool[x] = h.PTreasurePool[x]
    BY <2>1, <2>3, <2>4 DEF OthersPoint, NoneEnters
  <2> QED
    BY <2>2, <2>3, <2>4, <2>5, <2>6 DEF Housed, PoolsOnly
<1>4. PICK f \in [0 .. n -> Sound] :
         f[0] = h /\ \A k \in 1 .. n : f[k] = SoloPool(f[k-1], list[k])
  <2>1. PICK S : S = Sound
    OBVIOUS
  <2>2. PICK r : r = round
    OBVIOUS
  <2> HIDE DEF Sound
  <2>3. r \in [(1 .. n) \X S -> S]
    BY <1>1, <1>3, <2>1, <2>2
  <2>4. PICK f \in RunsOf(n, S, h, r) : TRUE
    BY <1>2, <2>1, <2>3, RunExists
  <2>5. \A k \in 1 .. n : k - 1 \in 0 .. n
    OBVIOUS
  <2> QED
    BY <1>1, <2>1, <2>2, <2>4, <2>5 DEF RunsOf
<1>5. IsRun(f)
  <2>1. \A k \in 0 .. n : k = 0 \/ k \in 1 .. n
    OBVIOUS
  <2> HIDE DEF Sound, round
  <2> QED
    BY <1>1, <1>4, <2>1
<1>6. PICK a : a = CHOOSE q : IsRun(q)
  OBVIOUS
<1>7. IsRun(a)
  <2> HIDE DEF IsRun
  <2> QED
    BY <1>5, <1>6
<1>8. g = a[n]
  BY <1>1, <1>6 DEF InTurn
<1>9. a[0] = h /\ \A k \in 1 .. n : a[k] = SoloPool(a[k-1], list[k])
  <2>1. 0 \in 0 .. n /\ \A k \in 1 .. n : k \in 0 .. n /\ k # 0
    OBVIOUS
  <2> QED
    BY <1>1, <1>7, <2>1
<1> HIDE DEF Sound, round, IsRun
<1>10. \A k \in 0 .. n : a[k] \in Sound
  BY <1>2, <1>3, <1>9, KeptByRounds
<1> QED
  BY <1>8, <1>10 DEF Sound

\* A member of a party that reloads its pool joins another member's, keeps its
\* own or gets a new one, unless memory of a freed party is read.
LEMMA ReloadPoolFacts ==
    ASSUME NEW h, Ready(h), NEW c \in Chars, h.PParty[c] # Null,
           NEW g, g = ReloadTreasurePool(h, c)
    PROVE  /\ Housed(h, g) /\ PoolsOnly(h, g) /\ (h.broken => g.broken)
           /\ g.broken \/ g.PTreasurePool[c] # Null
<1>1. h \in HeapType /\ PoolBooks(h)
  BY DEF Ready
<1>2. PICK all : all = Fellows(h, c)
  OBVIOUS
<1>3. PICK stop : stop = {i \in DOMAIN all : h.party[all[i]] = NoParty \/ Near(h, c, all[i]) # {}}
  OBVIOUS
<1>4. PICK party : party = all[Min(stop)]
  OBVIOUS
<1>5. PICK first : first = h.party[party].members[Min(Near(h, c, party))]
  OBVIOUS
<1>6. g = IF InZonePool(h, c) THEN h
          ELSE IF stop # {} /\ h.party[party] = NoParty THEN [h EXCEPT !.broken = TRUE]
          ELSE IF stop # {}
               THEN JoinPool(LeavePool(h, c), c, h.PTreasurePool[first])
          ELSE IF h.PTreasurePool[c] = Null THEN NewPool(h, c, FALSE)
          ELSE h
  BY <1>2, <1>3, <1>4, <1>5 DEF ReloadTreasurePool
<1>7. Housed(h, h) /\ PoolsOnly(h, h)
  BY <1>1 DEF Housed, PoolsOnly
<1>8. CASE InZonePool(h, c)
  BY <1>6, <1>7, <1>8 DEF InZonePool
<1>9. CASE ~InZonePool(h, c) /\ stop # {} /\ h.party[party] = NoParty
  <2>1. g = [h EXCEPT !.broken = TRUE]
    BY <1>6, <1>9
  <2>2. g \in HeapType /\ PoolsOnly(h, g) /\ g.broken /\ g.pool = h.pool
        /\ g.PTreasurePool = h.PTreasurePool
    BY <1>1, <2>1 DEF HeapType, PoolsOnly
  <2> QED
    BY <1>1, <2>2, PoolsLeftAlone
<1>10. CASE ~InZonePool(h, c) /\ stop # {} /\ h.party[party] # NoParty
  <2>1. all \in Seq(PartyPtrs)
    <3>1. h.PParty[c] \in PartyPtrs
      BY <1>1 DEF HeapType
    <3>2. CASE Allied(h, c)
      <4>1. PartyOf(h, c).alliance \in AlliancePtrs
        BY <1>1, <3>1, <3>2 DEF HeapType, PartyOf, Allied
      <4>2. AllianceOf(h, c).list \in Seq(PartyPtrs)
        BY <1>1, <4>1 DEF HeapType, AllianceOf
      <4> QED
        BY <1>2, <3>2, <4>2 DEF Fellows
    <3>3. CASE ~Allied(h, c)
      BY <1>2, <3>1, <3>3 DEF Fellows
    <3> QED
      BY <3>2, <3>3
  <2>2. Min(stop) \in stop
    <3>1. stop \in SUBSET Nat
      BY <1>3, <2>1
    <3> QED
      BY <1>10, <3>1, MinOfNaturals
  <2>3. party \in PartyPtrs /\ Near(h, c, party) # {}
    <3>1. PICK m : m = Min(stop)
      OBVIOUS
    <3>2. m \in DOMAIN all /\ (h.party[all[m]] = NoParty \/ Near(h, c, all[m]) # {})
      BY <1>3, <2>2, <3>1
    <3>3. party = all[m]
      BY <1>4, <3>1
    <3> QED
      BY <1>10, <2>1, <3>2, <3>3
  <2>4. h.party[party].members \in Seq(Chars)
    BY <1>1, <2>3 DEF HeapType
  <2>5. Min(Near(h, c, party)) \in Near(h, c, party)
    <3>1. Near(h, c, party) \in SUBSET Nat
      BY <2>4 DEF Near
    <3> QED
      BY <2>3, <3>1, MinOfNaturals
  <2>6. first \in Chars /\ first # c /\ h.PTreasurePool[first] # Null
    <3>1. PICK m : m = Min(Near(h, c, party))
      OBVIOUS
    <3>2. /\ m \in DOMAIN h.party[party].members
          /\ h.party[party].members[m] # c
          /\ h.PTreasurePool[h.party[party].members[m]] # Null
      BY <2>5, <3>1 DEF Near
    <3>3. first = h.party[party].members[m]
      BY <1>5, <3>1
    <3> QED
      BY <2>4, <3>2, <3>3
  <2>7. PICK q \in PoolPtrs : q = h.PTreasurePool[first]
    BY <1>1, <2>6 DEF HeapType
  <2>8. PICK k : k = LeavePool(h, c)
    OBVIOUS
  <2>9. /\ k \in HeapType /\ PoolBooks(k) /\ PoolsOnly(h, k) /\ k.broken = h.broken
        /\ ZonePools(k) \subseteq ZonePools(h)
        /\ k.PTreasurePool[c] = Null /\ OthersKeep(h, k, c)
    BY <1>1, <2>8, LeavePoolFacts
  <2>10. g = JoinPool(k, c, q)
    BY <1>6, <1>10, <2>7, <2>8
  <2>11. Loose(k, c)
    BY <2>9 DEF Loose
  <2>12. /\ g \in HeapType /\ PoolBooks(g) /\ PoolsOnly(k, g) /\ g.broken = k.broken
         /\ g.PTreasurePool[c] = q /\ OthersKeep(k, g, c)
         /\ ZonePools(g) \subseteq ZonePools(k) \cup (IF k.pool[q].ofZone THEN {q} ELSE {})
    BY <2>9, <2>10, <2>11, JoinPoolFacts
  <2>13. k.pool[q].ofZone => q \in ZonePools(k)
    <3>1. k.PTreasurePool[first] = q
      BY <2>6, <2>7, <2>9 DEF OthersKeep
    <3>2. first \in ToSet(k.pool[q].members)
      BY <2>6, <2>9, <3>1, PointersDiffer DEF PoolBooks
    <3> QED
      BY <3>2 DEF ZonePools, ToSet
  <2> QED
    BY <2>9, <2>12, <2>13, PointersDiffer DEF Housed, PoolsOnly, OthersKeep
<1>11. CASE ~InZonePool(h, c) /\ stop = {} /\ h.PTreasurePool[c] = Null
  <2>1. g = NewPool(h, c, FALSE)
    BY <1>6, <1>11
  <2>2. Loose(h, c)
    BY <1>11 DEF Loose
  <2>3. FreePoolPtrs(h) # {}
    BY <2>2, PoolsSuffice
  <2>4. /\ g \in HeapType /\ PoolBooks(g) /\ PoolsOnly(h, g) /\ g.broken = h.broken
        /\ g.PTreasurePool[c] \in PoolPtrs /\ OthersKeep(h, g, c)
    BY <1>1, <2>1, <2>2, <2>3, NewPoolFacts
  <2>5. \E p \in PoolPtrs : ZonePools(g) \subseteq ZonePools(h) \cup (IF FALSE THEN {p} ELSE {})
    BY <1>1, <2>1, <2>2, <2>3, NewPoolFacts
  <2> QED
    BY <2>4, <2>5, PointersDiffer DEF Housed, OthersKeep
<1>12. CASE ~InZonePool(h, c) /\ stop = {} /\ h.PTreasurePool[c] # Null
  BY <1>6, <1>7, <1>12
<1> QED
  BY <1>8, <1>9, <1>10, <1>11, <1>12

\* The members of the list reload their pools, one after the other: f[k] is the heap
\* when the first k have.
Reloads(h, g, list, f) ==
    /\ f[0] = h /\ f[Len(list)] = g
    /\ \A k \in 0 .. Len(list) : Ready(f[k]) /\ PoolsOnly(h, f[k])
    /\ \A k \in 1 .. Len(list) : /\ f[k] = ReloadTreasurePool(f[k-1], list[k])
                                 /\ f[k-1].broken => f[k].broken

\* The loop of AddParty over the members of the party.
LEMMA ReloadPoolsFacts ==
    ASSUME NEW h, Ready(h), NEW list \in Seq(Chars),
           \A i \in DOMAIN list : h.PParty[list[i]] # Null,
           NEW g, g = InTurn(ReloadTreasurePool, h, list)
    PROVE  /\ Housed(h, g) /\ PoolsOnly(h, g) /\ (h.broken => g.broken)
           /\ \E f : Reloads(h, g, list, f)
<1> DEFINE Sound == {k \in HeapType : /\ Ready(k) /\ Housed(h, k) /\ PoolsOnly(h, k)
                                      /\ h.broken => k.broken}
           round == [x \in (1 .. Len(list)) \X Sound |-> ReloadTreasurePool(x[2], list[x[1]])]
           IsRun(f) == f = [k \in 0 .. Len(list) |->
                              IF k = 0 THEN h ELSE ReloadTreasurePool(f[k-1], list[k])]
<1>1. PICK n \in Nat : n = Len(list)
  OBVIOUS
<1>2. h \in Sound
  BY DEF Ready, Housed, PoolsOnly
<1>3. ASSUME NEW i \in 1 .. n, NEW k \in Sound
      PROVE  /\ ReloadTreasurePool(k, list[i]) \in Sound
             /\ k.broken => ReloadTreasurePool(k, list[i]).broken
  <2>1. list[i] \in Chars /\ h.PParty[list[i]] # Null
    BY <1>1
  <2>2. PICK m : m = ReloadTreasurePool(k, list[i])
    OBVIOUS
  <2>3. Ready(k) /\ Housed(h, k) /\ PoolsOnly(h, k) /\ k.PParty[list[i]] # Null
    BY <2>1 DEF PoolsOnly
  <2>4. Housed(k, m) /\ PoolsOnly(k, m) /\ (k.broken => m.broken)
    BY <2>1, <2>2, <2>3, ReloadPoolFacts
  <2>5. Ready(m) /\ Housed(h, m)
    BY <2>3, <2>4, ReadyAgain, HousedTwice
  <2> QED
    BY <2>2, <2>3, <2>4, <2>5 DEF Housed, PoolsOnly
<1>4. PICK f \in [0 .. n -> Sound] :
         f[0] = h /\ \A k \in 1 .. n : f[k] = ReloadTreasurePool(f[k-1], list[k])
  <2>1. PICK S : S = Sound
    OBVIOUS
  <2>2. PICK r : r = round
    OBVIOUS
  <2> HIDE DEF Sound
  <2>3. r \in [(1 .. n) \X S -> S]
    BY <1>1, <1>3, <2>1, <2>2
  <2>4. PICK f \in RunsOf(n, S, h, r) : TRUE
    BY <1>2, <2>1, <2>3, RunExists
  <2>5. \A k \in 1 .. n : k - 1 \in 0 .. n
    OBVIOUS
  <2> QED
    BY <1>1, <2>1, <2>2, <2>4, <2>5 DEF RunsOf
<1>5. IsRun(f)
  <2>1. \A k \in 0 .. n : k = 0 \/ k \in 1 .. n
    OBVIOUS
  <2> HIDE DEF Sound, round
  <2> QED
    BY <1>1, <1>4, <2>1
<1>6. PICK a : a = CHOOSE q : IsRun(q)
  OBVIOUS
<1>7. IsRun(a)
  <2> HIDE DEF IsRun
  <2> QED
    BY <1>5, <1>6
<1>8. g = a[n]
  BY <1>1, <1>6 DEF InTurn
<1>9. a[0] = h /\ \A k \in 1 .. n : a[k] = ReloadTreasurePool(a[k-1], list[k])
  <2>1. 0 \in 0 .. n /\ \A k \in 1 .. n : k \in 0 .. n /\ k # 0
    OBVIOUS
  <2> QED
    BY <1>1, <1>7, <2>1
<1> HIDE DEF Sound, round, IsRun
<1>10. \A k \in 0 .. n : a[k] \in Sound
  <2>1. PICK S : S = Sound
    OBVIOUS
  <2>2. a[0] \in S /\ \A k \in 1 .. n : a[k-1] \in S => a[k] \in S
    BY <1>2, <1>3, <1>9, <2>1
  <2> QED
    BY <2>1, <2>2, KeptByRounds
<1>11. \A k \in 1 .. n : a[k-1].broken => a[k].broken
  <2>1. \A k \in 1 .. n : k - 1 \in 0 .. n
    OBVIOUS
  <2> QED
    BY <1>3, <1>9, <1>10, <2>1
<1>12. \A k \in 0 .. n : Ready(a[k]) /\ PoolsOnly(h, a[k])
  BY <1>10 DEF Sound
<1>13. Reloads(h, g, list, a)
  BY <1>1, <1>8, <1>9, <1>11, <1>12 DEF Reloads
<1> QED
  BY <1>8, <1>10, <1>13 DEF Sound

\* removeParty takes the members out of their pools; a zone's pool is kept.
LEMMA QuitPoolFacts ==
    ASSUME NEW h, Ready(h), NEW c \in Chars, NEW g, g = QuitPool(h, c)
    PROVE  /\ Ready(g) /\ PoolsOnly(h, g) /\ ZonePools(g) \subseteq ZonePools(h)
           /\ g.broken = h.broken
           /\ Loose(g, c) /\ OthersKeep(h, g, c)
<1>1. h \in HeapType /\ PoolBooks(h)
  BY DEF Ready
<1>2. CASE InZonePool(h, c)
  BY <1>2 DEF QuitPool, PoolsOnly, OthersKeep, Loose
<1>3. CASE ~InZonePool(h, c)
  <2>1. g = LeavePool(h, c)
    BY <1>3 DEF QuitPool
  <2>2. /\ g \in HeapType /\ PoolBooks(g) /\ PoolsOnly(h, g) /\ g.broken = h.broken
        /\ ZonePools(g) \subseteq ZonePools(h)
        /\ g.PTreasurePool[c] = Null /\ OthersKeep(h, g, c)
    BY <1>1, <2>1, LeavePoolFacts
  <2>3. Cardinality(ZonePools(g)) <= Cardinality(ZonePools(h))
    BY <2>2, ZonePoolsFinite, FS_Subset
  <2> QED
    BY <2>2, <2>3, ZonePoolsFinite, PartiesAssumption DEF Ready, Loose
<1> QED
  BY <1>2, <1>3

LEMMA QuitPoolsFacts ==
    ASSUME NEW h, Ready(h), NEW list \in Seq(Chars),
           NEW g, g = InTurn(QuitPool, h, list)
    PROVE  /\ Ready(g) /\ PoolsOnly(h, g) /\ ZonePools(g) \subseteq ZonePools(h)
           /\ g.broken = h.broken
           /\ \A x \in Chars : x \in ToSet(list) => Loose(g, x)
           /\ \A x \in Chars : x \notin ToSet(list) => g.PTreasurePool[x] = h.PTreasurePool[x]
<1> DEFINE Sound == {k \in HeapType :
               /\ Ready(k) /\ PoolsOnly(h, k) /\ ZonePools(k) \subseteq ZonePools(h)
               /\ k.broken = h.broken
               /\ \A x \in Chars : x \notin ToSet(list) => k.PTreasurePool[x] = h.PTreasurePool[x]}
           round == [x \in (1 .. Len(list)) \X Sound |-> QuitPool(x[2], list[x[1]])]
           IsRun(f) == f = [k \in 0 .. Len(list) |->
                              IF k = 0 THEN h ELSE QuitPool(f[k-1], list[k])]
<1>1. PICK n \in Nat : n = Len(list) /\ DOMAIN list = 1 .. n
  OBVIOUS
<1>2. h \in Sound
  BY DEF Ready, PoolsOnly
<1>3. ASSUME NEW i \in 1 .. n, NEW k \in Sound
      PROVE  /\ QuitPool(k, list[i]) \in Sound
             /\ Loose(QuitPool(k, list[i]), list[i])
             /\ OthersKeep(k, QuitPool(k, list[i]), list[i])
  <2>1. list[i] \in Chars /\ list[i] \in ToSet(list)
    BY <1>1 DEF ToSet
  <2>2. PICK m : m = QuitPool(k, list[i])
    OBVIOUS
  <2>3. /\ Ready(k) /\ PoolsOnly(h, k) /\ ZonePools(k) \subseteq ZonePools(h)
        /\ k.broken = h.broken
        /\ \A x \in Chars : x \notin ToSet(list) => k.PTreasurePool[x] = h.PTreasurePool[x]
    OBVIOUS
  <2>4. /\ Ready(m) /\ PoolsOnly(k, m) /\ ZonePools(m) \subseteq ZonePools(k)
        /\ m.broken = k.broken
        /\ Loose(m, list[i]) /\ OthersKeep(k, m, list[i])
    BY <2>1, <2>2, <2>3, QuitPoolFacts
  <2>5. \A x \in Chars : x \notin ToSet(list) => m.PTreasurePool[x] = h.PTreasurePool[x]
    BY <2>1, <2>3, <2>4 DEF OthersKeep
  <2> QED
    BY <2>2, <2>3, <2>4, <2>5 DEF Ready, PoolsOnly
<1>4. PICK f \in [0 .. n -> Sound] :
         f[0] = h /\ \A k \in 1 .. n : f[k] = QuitPool(f[k-1], list[k])
  <2>1. PICK S : S = Sound
    OBVIOUS
  <2>2. PICK r : r = round
    OBVIOUS
  <2> HIDE DEF Sound
  <2>3. r \in [(1 .. n) \X S -> S]
    BY <1>1, <1>3, <2>1, <2>2
  <2>4. PICK f \in RunsOf(n, S, h, r) : TRUE
    BY <1>2, <2>1, <2>3, RunExists
  <2>5. \A k \in 1 .. n : k - 1 \in 0 .. n
    OBVIOUS
  <2> QED
    BY <1>1, <2>1, <2>2, <2>4, <2>5 DEF RunsOf
<1>5. IsRun(f)
  <2>1. \A k \in 0 .. n : k = 0 \/ k \in 1 .. n
    OBVIOUS
  <2> HIDE DEF Sound, round
  <2> QED
    BY <1>1, <1>4, <2>1
<1>6. PICK a : a = CHOOSE q : IsRun(q)
  OBVIOUS
<1>7. IsRun(a)
  <2> HIDE DEF IsRun
  <2> QED
    BY <1>5, <1>6
<1>8. g = a[n]
  BY <1>1, <1>6 DEF InTurn
<1>9. a[0] = h /\ \A k \in 1 .. n : a[k] = QuitPool(a[k-1], list[k])
  <2>1. 0 \in 0 .. n /\ \A k \in 1 .. n : k \in 0 .. n /\ k # 0
    OBVIOUS
  <2> QED
    BY <1>1, <1>7, <2>1
<1> HIDE DEF Sound, round, IsRun
<1>10. \A k \in 0 .. n : a[k] \in Sound
  BY <1>2, <1>3, <1>9, KeptByRounds
<1> DEFINE Done == {k \in 0 .. n : \A j \in 1 .. k : Loose(a[k], list[j])}
<1>11. \A k \in 0 .. n : k \in Done
  <2>1. PICK id : id = [k \in 0 .. n |-> k]
    OBVIOUS
  <2>2. id[0] \in Done
    BY <2>1
  <2>3. ASSUME NEW k \in 1 .. n, id[k-1] \in Done PROVE id[k] \in Done
    <3>1. k \in 0 .. n /\ k - 1 \in 0 .. n /\ \A j \in 1 .. k : j = k \/ j \in 1 .. k - 1
      OBVIOUS
    <3>2. \A j \in 1 .. k - 1 : Loose(a[k-1], list[j])
      BY <2>1, <2>3, <3>1
    <3>3. Loose(a[k], list[k]) /\ OthersKeep(a[k-1], a[k], list[k])
      BY <1>3, <1>9, <1>10, <3>1
    <3>4. ASSUME NEW j \in 1 .. k PROVE Loose(a[k], list[j])
      <4>1. CASE list[j] = list[k]
        BY <3>3, <4>1
      <4>2. CASE list[j] # list[k]
        <5>1. j \in 1 .. k - 1 /\ list[j] \in Chars
          BY <1>1, <3>1, <4>2
        <5> QED
          BY <3>2, <3>3, <4>2, <5>1 DEF Loose, OthersKeep
      <4> QED
        BY <4>1, <4>2
    <3> QED
      BY <2>1, <3>1, <3>4
  <2> HIDE DEF Done
  <2>4. \A k \in 0 .. n : id[k] \in Done
    BY <2>2, <2>3, KeptByRounds
  <2> QED
    BY <2>1, <2>4
<1>12. n \in Done
  BY <1>11
<1>13. \A x \in Chars : x \in ToSet(list) => Loose(g, x)
  BY <1>1, <1>8, <1>12 DEF ToSet
<1>14. g \in Sound
  BY <1>8, <1>10
<1> QED
  BY <1>13, <1>14 DEF Sound

\* The members of a party are put into the pool of their leader, lp.
InLeadersPool(h, leader, list, k, d) ==
    LET lp == h.PTreasurePool[leader]
    IN  /\ d \in HeapType /\ PoolBooks(d) /\ PoolsOnly(h, d)
        /\ ZonePools(d) \subseteq ZonePools(h) /\ d.broken = h.broken
        /\ d.PTreasurePool[leader] = lp /\ ~InZonePool(d, leader)
        /\ \A j \in DOMAIN list : j > k /\ list[j] # leader => Loose(d, list[j])
        /\ \A j \in DOMAIN list : j <= k => d.PTreasurePool[list[j]] = lp
        /\ \A x \in Chars : x \notin ToSet(list) => d.PTreasurePool[x] = h.PTreasurePool[x]

LEMMA JoinLeaderFacts ==
    ASSUME NEW h, NEW leader \in Chars, NEW list \in Seq(Chars),
           InLeadersPool(h, leader, list, 0, h), h.PTreasurePool[leader] \in PoolPtrs,
           \A i, j \in DOMAIN list : list[i] = list[j] => i = j, leader \in ToSet(list),
           NEW g, g = JoinLeader(h, leader, list)
    PROVE  InLeadersPool(h, leader, list, Len(list), g)
<1>1. PICK n \in Nat : n = Len(list) /\ DOMAIN list = 1 .. n
  OBVIOUS
<1>2. PICK lp \in PoolPtrs : lp = h.PTreasurePool[leader]
  OBVIOUS
<1> DEFINE Follow(k, c) == IF c = leader THEN k ELSE JoinPool(k, c, k.PTreasurePool[leader])
           Sound == {k \in HeapType : k.PTreasurePool[leader] = lp}
           round == [x \in (1 .. Len(list)) \X Sound |-> Follow(x[2], list[x[1]])]
           IsRun(f) == f = [k \in 0 .. Len(list) |->
                              IF k = 0 THEN h ELSE Follow(f[k-1], list[k])]
<1>11. h \in Sound
  BY <1>2 DEF InLeadersPool
<1>12. ASSUME NEW i \in 1 .. n, NEW k \in Sound PROVE Follow(k, list[i]) \in Sound
  <2>1. list[i] \in Chars /\ k \in HeapType /\ k.PTreasurePool[leader] = lp
    BY <1>1
  <2>2. CASE list[i] = leader
    BY <2>2
  <2>3. CASE list[i] # leader
    <3>1. PICK m : m = JoinPool(k, list[i], lp)
      OBVIOUS
    <3>2. m \in HeapType /\ OthersPoint(k, m, list[i])
      <4> HIDE DEF Sound
      <4> QED
        BY <2>1, <3>1, JoinPoolType DEF JoinsPool
    <3>3. m.PTreasurePool[leader] = lp
      BY <2>1, <2>3, <3>2 DEF OthersPoint
    <3> QED
      BY <2>1, <2>3, <3>1, <3>2, <3>3
  <2> QED
    BY <2>2, <2>3
<1>13. PICK f \in [0 .. n -> Sound] :
         f[0] = h /\ \A k \in 1 .. n : f[k] = Follow(f[k-1], list[k])
  <2>1. PICK S : S = Sound
    OBVIOUS
  <2>2. PICK r : r = round
    OBVIOUS
  <2> HIDE DEF Sound, Follow
  <2>3. r \in [(1 .. n) \X S -> S]
    BY <1>1, <1>12, <2>1, <2>2
  <2>4. PICK f \in RunsOf(n, S, h, r) : TRUE
    <3>1. h \in S
      BY <1>11, <2>1
    <3>2. RunsOf(n, S, h, r) # {}
      BY <2>3, <3>1, RunExists
    <3> QED
      BY <3>2
  <2>5. \A k \in 1 .. n : k - 1 \in 0 .. n
    OBVIOUS
  <2> QED
    BY <1>1, <2>1, <2>2, <2>4, <2>5 DEF RunsOf
<1>14. IsRun(f)
  <2>1. \A k \in 0 .. n : k = 0 \/ k \in 1 .. n
    OBVIOUS
  <2> HIDE DEF Sound, round, Follow
  <2> QED
    BY <1>1, <1>13, <2>1
<1>15. PICK a : a = CHOOSE q : IsRun(q)
  OBVIOUS
<1>16. IsRun(a)
  <2> HIDE DEF IsRun
  <2> QED
    BY <1>14, <1>15
<1>17. g = a[n]
  BY <1>1, <1>15 DEF JoinLeader, InTurn
<1>18. a[0] = h /\ \A k \in 1 .. n : a[k] = Follow(a[k-1], list[k])
  <2>1. 0 \in 0 .. n /\ \A k \in 1 .. n : k \in 0 .. n /\ k # 0
    OBVIOUS
  <2> HIDE DEF Follow
  <2> QED
    BY <1>1, <1>16, <2>1
<1> HIDE DEF Sound, round, IsRun
<1> DEFINE Right(k, d) ==
        /\ d \in HeapType /\ PoolBooks(d) /\ PoolsOnly(h, d)
        /\ ZonePools(d) \subseteq ZonePools(h) /\ d.broken = h.broken
        /\ d.PTreasurePool[leader] = lp /\ ~InZonePool(d, leader)
        /\ \A j \in 1 .. n : j > k /\ list[j] # leader => Loose(d, list[j])
        /\ \A j \in 1 .. n : j <= k => d.PTreasurePool[list[j]] = lp
        /\ \A x \in Chars : x \notin ToSet(list) => d.PTreasurePool[x] = h.PTreasurePool[x]
<1>19. \A k, d : Right(k, d) <=> InLeadersPool(h, leader, list, k, d)
  BY <1>1, <1>2 DEF InLeadersPool
<1>20. ASSUME NEW k \in 1 .. n, NEW d, Right(k - 1, d), NEW m, m = Follow(d, list[k])
       PROVE  Right(k, m)
  <2>1. list[k] \in Chars /\ list[k] \in ToSet(list)
    BY <1>1 DEF ToSet
  <2>2. \A j \in 1 .. n : j > k - 1 <=> j = k \/ j > k
    OBVIOUS
  <2>3. CASE list[k] = leader
    <3>1. m = d
      BY <1>20, <2>3
    <3> QED
      BY <1>20, <2>2, <2>3, <3>1
  <2>4. CASE list[k] # leader
    <3>1. d \in HeapType /\ PoolBooks(d) /\ Loose(d, list[k]) /\ d.PTreasurePool[leader] = lp
      BY <1>20, <2>2, <2>4
    <3>2. m = JoinPool(d, list[k], lp)
      BY <1>20, <2>4, <3>1
    <3>3. /\ m \in HeapType /\ PoolBooks(m) /\ PoolsOnly(d, m) /\ m.broken = d.broken
          /\ m.PTreasurePool[list[k]] = lp /\ OthersKeep(d, m, list[k])
          /\ ZonePools(m) \subseteq ZonePools(d) \cup (IF d.pool[lp].ofZone THEN {lp} ELSE {})
      BY <1>2, <2>1, <3>1, <3>2, JoinPoolFacts
    <3>4. ~d.pool[lp].ofZone
      BY <1>2, <1>20, <3>1, PointersDiffer DEF InZonePool
    <3>5. m.PTreasurePool[leader] = lp /\ ~InZonePool(m, leader)
      BY <1>20, <2>4, <3>1, <3>3 DEF OthersKeep
    <3>6. ASSUME NEW j \in 1 .. n, j > k, list[j] # leader PROVE Loose(m, list[j])
      <4>1. list[j] \in Chars /\ list[j] # list[k]
        BY <1>1, <3>6
      <4>2. Loose(d, list[j])
        BY <1>20, <2>2, <3>6
      <4> QED
        BY <3>3, <4>1, <4>2 DEF OthersKeep, Loose
    <3>7. ASSUME NEW j \in 1 .. n, j <= k PROVE m.PTreasurePool[list[j]] = lp
      <4>1. CASE list[j] = list[k]
        BY <3>3, <4>1
      <4>2. CASE list[j] # list[k]
        <5>1. list[j] \in Chars /\ j <= k - 1
          BY <1>1, <3>7, <4>2
        <5> QED
          BY <1>20, <3>3, <4>2, <5>1 DEF OthersKeep
      <4> QED
        BY <4>1, <4>2
    <3>8. \A x \in Chars : x \notin ToSet(list) => m.PTreasurePool[x] = h.PTreasurePool[x]
      BY <1>20, <2>1, <3>3 DEF OthersKeep
    <3>9. PoolsOnly(h, m) /\ ZonePools(m) \subseteq ZonePools(h) /\ m.broken = h.broken
      BY <1>20, <3>3, <3>4 DEF PoolsOnly
    <3> QED
      BY <3>3, <3>5, <3>6, <3>7, <3>8, <3>9
  <2> QED
    BY <2>3, <2>4
<1> DEFINE Done == {k \in 0 .. n : Right(k, a[k])}
<1>21. n \in Done
  <2>1. PICK id : id = [k \in 0 .. n |-> k]
    OBVIOUS
  <2> HIDE DEF Right, Follow
  <2>2. id[0] \in Done
    BY <1>18, <1>19, <2>1
  <2>3. ASSUME NEW k \in 1 .. n, id[k-1] \in Done PROVE id[k] \in Done
    <3>1. k \in 0 .. n /\ k - 1 \in 0 .. n
      OBVIOUS
    <3>2. Right(k - 1, a[k-1])
      BY <2>1, <2>3, <3>1
    <3>3. Right(k, a[k])
      BY <1>18, <1>20, <3>2
    <3> QED
      BY <2>1, <3>1, <3>3
  <2>4. \A k \in 0 .. n : id[k] \in Done
    <3> HIDE DEF Done
    <3> QED
      BY <2>2, <2>3, KeptByRounds
  <2> QED
    BY <2>1, <2>4
<1>22. Right(n, g)
  BY <1>17, <1>21
<1> HIDE DEF Right
<1> QED
  BY <1>1, <1>19, <1>22

\* removeParty: the leader gets a pool, the members who are in no zone's are
\* put into it.
InOnePool(g, list, leader) ==
    /\ ~InZonePool(g, leader)
    /\ \A x \in Chars : x \in ToSet(list) => g.PTreasurePool[x] = g.PTreasurePool[leader]

LEMMA FollowLeaderFacts ==
    ASSUME NEW h, Ready(h), NEW p \in PartyPtrs,
           h.party[p].leader \in ToSet(h.party[p].members),
           \A x \in Chars : x \in ToSet(h.party[p].members) => Single(h.party[p].members, x),
           NEW g, g = FollowLeader(h, p)
    PROVE  /\ Housed(h, g) /\ PoolsOnly(h, g) /\ g.broken = h.broken
           /\ InOnePool(g, h.party[p].members, h.party[p].leader)
           /\ \A x \in Chars : x \notin ToSet(h.party[p].members)
                 => g.PTreasurePool[x] = h.PTreasurePool[x]
<1>1. PICK list : list = h.party[p].members
  OBVIOUS
<1>2. PICK leader : leader = h.party[p].leader
  OBVIOUS
<1>3. h \in HeapType /\ list \in Seq(Chars) /\ leader \in Chars /\ leader \in ToSet(list)
  <2>1. h \in HeapType
    BY DEF Ready
  <2>2. list \in Seq(Chars)
    BY <1>1, <2>1 DEF HeapType
  <2>3. leader \in ToSet(list)
    BY <1>1, <1>2
  <2> QED
    BY <2>1, <2>2, <2>3 DEF ToSet
<1>4. PICK n \in Nat : n = Len(list) /\ DOMAIN list = 1 .. n
  BY <1>3
<1>5. \A i, j \in 1 .. n : list[i] = list[j] => i = j
  <2>1. \A i \in 1 .. n : list[i] \in Chars /\ list[i] \in ToSet(list)
    BY <1>3, <1>4 DEF ToSet
  <2> QED
    BY <1>1, <1>4, <2>1 DEF Single
<1>6. PICK h0 : h0 = InTurn(QuitPool, h, list)
  OBVIOUS
<1>7. /\ Ready(h0) /\ PoolsOnly(h, h0) /\ ZonePools(h0) \subseteq ZonePools(h)
      /\ \A x \in Chars : x \in ToSet(list) => Loose(h0, x)
      /\ \A x \in Chars : x \notin ToSet(list) => h0.PTreasurePool[x] = h.PTreasurePool[x]
      /\ h0.broken = h.broken
  BY <1>3, <1>6, QuitPoolsFacts
<1>8. PICK h1 : h1 = NewPool(h0, leader, FALSE)
  OBVIOUS
<1>9. /\ h1 \in HeapType /\ PoolBooks(h1) /\ PoolsOnly(h0, h1)
      /\ h1.PTreasurePool[leader] \in PoolPtrs /\ ~InZonePool(h1, leader)
      /\ OthersKeep(h0, h1, leader) /\ ZonePools(h1) \subseteq ZonePools(h0)
      /\ h1.broken = h0.broken
  <2>1. h0 \in HeapType /\ PoolBooks(h0) /\ Loose(h0, leader) /\ FreePoolPtrs(h0) # {}
    BY <1>3, <1>7, PoolsSuffice DEF Ready
  <2>2. /\ h1 \in HeapType /\ PoolBooks(h1) /\ PoolsOnly(h0, h1)
        /\ h1.PTreasurePool[leader] \in PoolPtrs /\ (InZonePool(h1, leader) <=> FALSE)
        /\ OthersKeep(h0, h1, leader) /\ h1.broken = h0.broken
    BY <1>3, <1>8, <2>1, NewPoolFacts
  <2>3. \E q \in PoolPtrs : ZonePools(h1) \subseteq ZonePools(h0) \cup (IF FALSE THEN {q} ELSE {})
    BY <1>3, <1>8, <2>1, NewPoolFacts
  <2> QED
    BY <2>2, <2>3
<1>10. PICK lp \in PoolPtrs : lp = h1.PTreasurePool[leader]
  BY <1>9
<1>11. InLeadersPool(h1, leader, list, 0, h1)
  <2>1. ASSUME NEW j \in DOMAIN list, list[j] # leader PROVE Loose(h1, list[j])
    <3>1. list[j] \in Chars /\ list[j] \in ToSet(list)
      BY <1>3 DEF ToSet
    <3> QED
      BY <1>7, <1>9, <2>1, <3>1 DEF OthersKeep, Loose
  <2>2. \A j \in DOMAIN list : ~(j <= 0)
    BY <1>4
  <2> QED
    BY <1>9, <2>1, <2>2 DEF InLeadersPool, PoolsOnly
<1>12. g = JoinLeader(h1, leader, list)
  BY <1>1, <1>2, <1>6, <1>8 DEF FollowLeader
<1>13. InLeadersPool(h1, leader, list, n, g)
  BY <1>3, <1>4, <1>5, <1>9, <1>11, <1>12, JoinLeaderFacts
<1>14. /\ \A x \in Chars : x \in ToSet(list) => g.PTreasurePool[x] = lp
       /\ \A x \in Chars : x \notin ToSet(list) => g.PTreasurePool[x] = h.PTreasurePool[x]
       /\ ~InZonePool(g, leader) /\ g.PTreasurePool[leader] = lp
  <2>1. ASSUME NEW x \in Chars, x \in ToSet(list) PROVE g.PTreasurePool[x] = lp
    <3>1. PICK j \in 1 .. n : x = list[j]
      BY <1>4, <2>1 DEF ToSet
    <3>2. g.PTreasurePool[list[j]] = lp
      BY <1>4, <1>10, <1>13 DEF InLeadersPool
    <3> QED
      BY <3>1, <3>2
  <2>2. ASSUME NEW x \in Chars, x \notin ToSet(list)
        PROVE  g.PTreasurePool[x] = h.PTreasurePool[x]
    <3>1. x # leader
      BY <1>3, <2>2
    <3> QED
      BY <1>7, <1>9, <1>13, <2>2, <3>1 DEF InLeadersPool, OthersKeep
  <2>3. ~InZonePool(g, leader) /\ g.PTreasurePool[leader] = lp
    BY <1>10, <1>13 DEF InLeadersPool
  <2> QED
    BY <2>1, <2>2, <2>3
<1>15. ZonePools(g) \subseteq ZonePools(h) /\ PoolsOnly(h, g) /\ g.broken = h.broken
  BY <1>7, <1>9, <1>13 DEF InLeadersPool, PoolsOnly
<1>16. g \in HeapType /\ PoolBooks(g)
  BY <1>13 DEF InLeadersPool
<1>17. \A x \in Chars : h.PTreasurePool[x] # Null => g.PTreasurePool[x] # Null
  BY <1>10, <1>14, PointersDiffer
<1>18. InOnePool(g, list, leader)
  BY <1>14 DEF InOnePool
<1> QED
  BY <1>1, <1>2, <1>14, <1>15, <1>16, <1>17, <1>18 DEF Housed

-----------------------------------------------------------------------------
(* Parties.                                                                *)

PartyRec == [members : Seq(Chars), leader : Chars \cup {Nobody},
             alliance : AlliancePtrs \cup {Null}]

\* A character is in the list of its own party, once, and in no other.
Listed(h) == \A c \in Chars, p \in PartyPtrs :
    IF h.PParty[c] = p THEN Single(h.party[p].members, c)
    ELSE c \notin ToSet(h.party[p].members)

Led(h, p) == /\ h.party[p].leader \in ToSet(h.party[p].members)
             /\ Len(h.party[p].members) <= PartySize

LivesLed(h) == \A p \in PartyPtrs : h.party[p] # NoParty => Led(h, p)

\* The column is the leader's id.
Sessions(h) == \A c \in Chars :
    h.partyid[c] = IF h.PParty[c] = Null THEN Nobody ELSE PartyOf(h, c).leader

\* The lead party of an alliance is in its list: a list that is dissolved is
\* not empty.
MainListed(h) == \A a \in AlliancePtrs :
    h.alliance[a].main # Null => h.alliance[a].main \in ToSet(h.alliance[a].list)

Orderly(h) == Ready(h) /\ Listed(h) /\ LivesLed(h) /\ Sessions(h) /\ MainListed(h)

\* The pools of g are those of h.
SamePools(h, g) == g.pool = h.pool /\ g.PTreasurePool = h.PTreasurePool

\* A method that leaves the alliances alone.
SameAlliances(h, g) ==
    /\ g.alliance = h.alliance
    /\ \A p \in PartyPtrs : g.party[p].alliance = h.party[p].alliance

\* The party at p is rec, the others are those of h.
PartyIs(h, g, p, rec) == /\ g.party[p] = rec
                         /\ \A q \in PartyPtrs : q # p => g.party[q] = h.party[q]

LEMMA OrderlyType ==
    ASSUME NEW h, Orderly(h)
    PROVE  h \in HeapType /\ PoolBooks(h) /\ Ready(h)
BY DEF Orderly, Ready

LEMMA PoolsKeepOrder ==
    ASSUME NEW h, Orderly(h), NEW g, Housed(h, g), PoolsOnly(h, g)
    PROVE  Orderly(g)
<1>1. Ready(g)
  BY ReadyAgain DEF Orderly
<1> QED
  BY <1>1 DEF Orderly, PoolsOnly, Listed, LivesLed, Led, Sessions, MainListed, PartyOf

LEMMA SameIsHoused ==
    ASSUME NEW h, Ready(h), NEW g \in HeapType, SamePools(h, g)
    PROVE  Housed(h, g) /\ Ready(g)
<1>1. Housed(h, g)
  BY PoolsLeftAlone DEF Ready, SamePools
<1> QED
  BY <1>1, ReadyAgain

LEMMA ReloadPartyFacts ==
    ASSUME NEW h \in HeapType, NEW p, NEW g, g = ReloadParty(h, p)
    PROVE  g \in HeapType /\ SamePools(h, g) /\ PoolsOnly(h, g) /\ (h.broken => g.broken)
<1>1. CASE g = h
  BY <1>1 DEF SamePools, PoolsOnly
<1>2. CASE g = [h EXCEPT !.broken = TRUE]
  BY <1>2 DEF HeapType, SamePools, PoolsOnly
<1> QED
  BY <1>1, <1>2 DEF ReloadParty

\* A member's party has members, so it has not been freed.
LEMMA MembersParty ==
    ASSUME NEW h, Orderly(h), NEW c \in Chars, NEW p \in PartyPtrs, h.PParty[c] = p
    PROVE  /\ h.party[p] # NoParty /\ Led(h, p) /\ Single(h.party[p].members, c)
           /\ h.party[p] \in PartyRec
           /\ \A x \in Chars : x \in ToSet(h.party[p].members) <=> h.PParty[x] = p
<1>1. /\ Single(h.party[p].members, c)
      /\ \A x \in Chars : x \in ToSet(h.party[p].members) <=> h.PParty[x] = p
  BY DEF Orderly, Listed, Single
<1>2. h.party[p] # NoParty
  BY <1>1 DEF NoParty, Single, ToSet
<1>3. h.party[p] \in PartyRec
  BY OrderlyType DEF HeapType, PartyRec
<1> QED
  BY <1>1, <1>2, <1>3 DEF Orderly, LivesLed

\* The rows that hold the leader's id are those of the members.
LEMMA RowsOfParty ==
    ASSUME NEW h, Orderly(h), NEW p \in PartyPtrs, h.party[p] # NoParty
    PROVE  /\ h.party[p].leader \in Chars /\ h.PParty[h.party[p].leader] = p
           /\ \A x \in Chars : h.partyid[x] = h.party[p].leader <=> h.PParty[x] = p
<1>1. PICK boss : boss = h.party[p].leader
  OBVIOUS
<1>2. h \in HeapType
  BY OrderlyType
<1>3. boss \in Chars /\ boss \in ToSet(h.party[p].members)
  <2>1. boss \in ToSet(h.party[p].members) /\ h.party[p].members \in Seq(Chars)
    BY <1>1, <1>2 DEF Orderly, LivesLed, Led, HeapType
  <2> QED
    BY <2>1 DEF ToSet
<1>4. h.PParty[boss] = p
  BY <1>3 DEF Orderly, Listed
<1>5. ASSUME NEW x \in Chars, h.PParty[x] = p PROVE h.partyid[x] = boss
  BY <1>1, <1>5, PointersDiffer DEF Orderly, Sessions, PartyOf
<1>6. ASSUME NEW x \in Chars, h.partyid[x] = boss PROVE h.PParty[x] = p
  <2>1. h.PParty[x] # Null /\ PartyOf(h, x).leader = boss
    BY <1>3, <1>6, PartiesAssumption DEF Orderly, Sessions
  <2>2. PICK q \in PartyPtrs : q = h.PParty[x]
    BY <1>2, <2>1 DEF HeapType
  <2>3. h.party[q].leader = boss
    BY <2>1, <2>2 DEF PartyOf
  <2>4. Led(h, q)
    BY <2>2, MembersParty
  <2>5. h.PParty[boss] = q
    BY <1>3, <2>3, <2>4 DEF Led, Orderly, Listed
  <2> QED
    BY <1>4, <2>2, <2>5
<1> QED
  BY <1>1, <1>3, <1>4, <1>5, <1>6

LEMMA SetLeaderFacts ==
    ASSUME NEW h, Orderly(h), NEW c \in Chars, NEW p \in PartyPtrs, h.PParty[c] = p,
           NEW g, g = SetLeader(h, p, c)
    PROVE  /\ Orderly(g) /\ Housed(h, g) /\ g.PParty = h.PParty
           /\ g.party[p].leader = c /\ g.party[p].members = h.party[p].members
           /\ SamePools(h, g) /\ SameAlliances(h, g) /\ g.broken = h.broken
<1>1. h \in HeapType /\ Ready(h)
  BY OrderlyType
<1>2. PICK old : old = h.party[p]
  OBVIOUS
<1>3. /\ old # NoParty /\ Led(h, p) /\ Single(old.members, c) /\ old \in PartyRec
      /\ \A x \in Chars : x \in ToSet(old.members) <=> h.PParty[x] = p
  BY <1>2, MembersParty
<1>4. PICK rec : rec = [old EXCEPT !.leader = c]
  OBVIOUS
<1>5. /\ rec \in PartyRec /\ rec.members = old.members /\ rec.leader = c
      /\ rec.alliance = old.alliance
  BY <1>3, <1>4 DEF PartyRec
<1>6. PICK ids : ids = [x \in Chars |-> IF h.partyid[x] = old.leader THEN c ELSE h.partyid[x]]
  OBVIOUS
<1>7. ids \in [Chars -> Chars \cup {Nobody}]
  BY <1>1, <1>6 DEF HeapType
<1>8. g = [h EXCEPT !.party[p] = rec, !.partyid = ids]
  BY <1>2, <1>4, <1>6 DEF SetLeader
<1>9. /\ g \in HeapType /\ SamePools(h, g) /\ g.PParty = h.PParty
      /\ g.alliance = h.alliance /\ g.partyid = ids /\ PartyIs(h, g, p, rec)
      /\ g.broken = h.broken
  <2>1. g.party = [h.party EXCEPT ![p] = rec] /\ h.party \in [PartyPtrs -> PartyRec]
    BY <1>1, <1>8 DEF HeapType, PartyRec
  <2>2. g.party \in [PartyPtrs -> PartyRec] /\ PartyIs(h, g, p, rec)
    BY <1>5, <2>1 DEF PartyIs
  <2>3. /\ SamePools(h, g) /\ g.PParty = h.PParty /\ g.alliance = h.alliance /\ g.partyid = ids
        /\ g.broken = h.broken
    BY <1>1, <1>8 DEF HeapType, SamePools
  <2>4. g \in HeapType
    BY <1>1, <1>7, <1>8, <2>2 DEF HeapType, PartyRec
  <2> QED
    BY <2>2, <2>3, <2>4
<1>10. Ready(g) /\ Housed(h, g)
  BY <1>1, <1>9, SameIsHoused
<1>11. \A q \in PartyPtrs : g.party[q].members = h.party[q].members
  BY <1>2, <1>5, <1>9 DEF PartyIs
<1>12. Listed(g)
  BY <1>9, <1>11 DEF Orderly, Listed
<1>13. LivesLed(g)
  <2>1. Led(g, p)
    BY <1>2, <1>3, <1>5, <1>9, <1>11 DEF Led, PartyIs, Single
  <2> QED
    BY <1>9, <2>1 DEF Orderly, LivesLed, Led, PartyIs
<1>14. Sessions(g)
  <2>1. \A x \in Chars : h.partyid[x] = old.leader <=> h.PParty[x] = p
    BY <1>2, <1>3, RowsOfParty
  <2> SUFFICES ASSUME NEW x \in Chars
               PROVE  g.partyid[x] = IF g.PParty[x] = Null THEN Nobody ELSE PartyOf(g, x).leader
    BY DEF Sessions
  <2>2. CASE h.PParty[x] = p
    BY <1>5, <1>6, <1>9, <2>1, <2>2, PointersDiffer DEF PartyOf, PartyIs
  <2>3. CASE h.PParty[x] # p
    <3>1. h.PParty[x] \in PartyPtrs \cup {Null}
      BY <1>1 DEF HeapType
    <3> QED
      BY <1>6, <1>9, <2>1, <2>3, <3>1 DEF PartyOf, PartyIs, Orderly, Sessions
  <2> QED
    BY <2>2, <2>3
<1>15. MainListed(g)
  BY <1>9 DEF Orderly, MainListed
<1>16. SameAlliances(h, g)
  BY <1>2, <1>5, <1>9 DEF SameAlliances, PartyIs
<1> QED
  BY <1>2, <1>5, <1>9, <1>10, <1>12, <1>13, <1>14, <1>15, <1>16 DEF Orderly, PartyIs

\* c is in no party and there is room for it in p, which is somebody else's or
\* has just been made for c.
Joinable(h, p, c) ==
    /\ Ready(h) /\ Listed(h) /\ Sessions(h) /\ MainListed(h)
    /\ h.PParty[c] = Null
    /\ \A q \in PartyPtrs : q # p /\ h.party[q] # NoParty => Led(h, q)
    /\ h.party[p].leader \in ToSet(h.party[p].members) \cup {c}
    /\ Len(h.party[p].members) < PartySize

\* Nobody but c changes its party.
OthersStay(h, g, c) == \A x \in Chars : x # c => g.PParty[x] = h.PParty[x]

\* g is k when c has reloaded its pool.
Reloaded(k, g, c) ==
    /\ g.party = k.party /\ g.alliance = k.alliance /\ g.PParty = k.PParty
    /\ \E m : m = ReloadTreasurePool(k, c) /\ SamePools(m, g) /\ m.broken = g.broken

LEMMA AddMemberFacts ==
    ASSUME NEW h, NEW c \in Chars, NEW p \in PartyPtrs, Joinable(h, p, c),
           NEW g, g = AddMember(h, p, c)
    PROVE  /\ Orderly(g) /\ Housed(h, g)
           /\ g.PParty[c] = p /\ OthersStay(h, g, c) /\ (h.broken => g.broken)
           /\ \E k : /\ Ready(k) /\ SamePools(h, k) /\ SameAlliances(h, k)
                     /\ Reloaded(k, g, c)
<1>1. h \in HeapType /\ Ready(h) /\ h.PParty[c] = Null
  BY DEF Joinable, Ready
<1>2. PICK old : old = h.party[p]
  OBVIOUS
<1>3. old \in PartyRec
  BY <1>1, <1>2 DEF HeapType, PartyRec
<1>4. old.members \in Seq(Chars) /\ Len(old.members) \in Nat /\ Len(old.members) < PartySize
  BY <1>2, <1>3 DEF PartyRec, Joinable
<1>5. c \notin ToSet(old.members)
  BY <1>1, <1>2, PointersDiffer DEF Joinable, Listed
<1>6. old.leader \in Chars /\ old.leader \in ToSet(old.members) \cup {c}
  <2>1. old.leader \in ToSet(old.members) \cup {c}
    BY <1>2 DEF Joinable
  <2> QED
    BY <1>4, <2>1 DEF ToSet
<1>7. PICK all : all = Append(old.members, c)
  OBVIOUS
<1>8. /\ all \in Seq(Chars) /\ Len(all) = Len(old.members) + 1
      /\ ToSet(all) = ToSet(old.members) \cup {c} /\ Single(all, c)
      /\ \A x : x # c /\ Single(old.members, x) => Single(all, x)
  BY <1>4, <1>5, <1>7, AppendFacts
<1>9. PICK rec : rec = [old EXCEPT !.members = all]
  OBVIOUS
<1>10. /\ rec \in PartyRec /\ rec.members = all /\ rec.leader = old.leader
       /\ rec.alliance = old.alliance
  BY <1>3, <1>8, <1>9 DEF PartyRec
<1>11. PICK h1 : h1 = [h EXCEPT !.PParty[c] = p, !.party[p] = rec]
  OBVIOUS
<1>12. h1 = [h EXCEPT !.PParty[c] = p, !.party[p].members = Append(@, c)]
  BY <1>2, <1>7, <1>9, <1>11
<1>13. /\ h1 \in HeapType /\ SamePools(h, h1) /\ PartyIs(h, h1, p, rec)
       /\ h1.PParty[c] = p /\ OthersStay(h, h1, c)
       /\ h1.alliance = h.alliance /\ h1.partyid = h.partyid /\ h1.broken = h.broken
  <2>1. h1.party = [h.party EXCEPT ![p] = rec] /\ h.party \in [PartyPtrs -> PartyRec]
    BY <1>1, <1>11 DEF HeapType, PartyRec
  <2>2. h1.party \in [PartyPtrs -> PartyRec] /\ PartyIs(h, h1, p, rec)
    BY <1>10, <2>1 DEF PartyIs
  <2>3. /\ h1.PParty = [h.PParty EXCEPT ![c] = p]
        /\ h.PParty \in [Chars -> PartyPtrs \cup {Null}]
    BY <1>1, <1>11 DEF HeapType
  <2>4. h1.PParty \in [Chars -> PartyPtrs \cup {Null}] /\ h1.PParty[c] = p /\ OthersStay(h, h1, c)
    BY <2>3 DEF OthersStay
  <2>5. /\ SamePools(h, h1) /\ h1.alliance = h.alliance /\ h1.partyid = h.partyid
        /\ h1.broken = h.broken
    BY <1>1, <1>11 DEF HeapType, SamePools
  <2>6. h1 \in HeapType
    BY <1>1, <1>11, <2>2, <2>4 DEF HeapType, PartyRec
  <2> QED
    BY <2>2, <2>4, <2>5, <2>6
<1>14. Housed(h, h1) /\ Ready(h1)
  BY <1>1, <1>13, SameIsHoused
<1>15. PICK k : k = ReloadParty(h1, p)
  OBVIOUS
<1>16. k \in HeapType /\ SamePools(h1, k) /\ PoolsOnly(h1, k) /\ (h1.broken => k.broken)
  BY <1>13, <1>15, ReloadPartyFacts
<1>17. Housed(h1, k) /\ Ready(k)
  BY <1>14, <1>16, SameIsHoused
<1>18. PICK m : m = ReloadTreasurePool(k, c)
  OBVIOUS
<1>19. Housed(k, m) /\ PoolsOnly(k, m) /\ (k.broken => m.broken)
  <2>1. k.PParty[c] # Null
    BY <1>13, <1>16, PointersDiffer DEF PoolsOnly
  <2> QED
    BY <1>17, <1>18, <2>1, ReloadPoolFacts
<1>20. g = [m EXCEPT !.partyid[c] = old.leader]
  BY <1>2, <1>12, <1>15, <1>18 DEF AddMember
<1>21. /\ m \in HeapType /\ m.PParty = h1.PParty /\ m.party = h1.party
       /\ m.alliance = h.alliance /\ m.partyid = h.partyid
  BY <1>13, <1>16, <1>19 DEF PoolsOnly, Housed
<1>22. /\ g \in HeapType /\ SamePools(m, g) /\ g.PParty = h1.PParty /\ g.party = h1.party
       /\ g.alliance = h.alliance /\ g.partyid = [h.partyid EXCEPT ![c] = old.leader]
       /\ g.broken = m.broken
  <2>1. /\ SamePools(m, g) /\ g.PParty = h1.PParty /\ g.party = h1.party
        /\ g.alliance = h.alliance /\ g.broken = m.broken
    BY <1>20, <1>21 DEF HeapType, SamePools
  <2>2. g.partyid = [h.partyid EXCEPT ![c] = old.leader]
    BY <1>20, <1>21 DEF HeapType
  <2>3. g.partyid \in [Chars -> Chars \cup {Nobody}]
    BY <1>1, <1>6, <2>2 DEF HeapType
  <2>4. g \in HeapType
    BY <1>20, <1>21, <2>3 DEF HeapType
  <2> QED
    BY <2>1, <2>2, <2>4
<1>23. Housed(h, g) /\ Ready(g)
  <2>1. Housed(h, k)
    BY <1>14, <1>17, HousedTwice
  <2>2. Housed(h, m)
    BY <1>19, <2>1, HousedTwice
  <2>3. Ready(m)
    BY <1>1, <2>2, ReadyAgain
  <2>4. Housed(m, g) /\ Ready(g)
    BY <1>22, <2>3, SameIsHoused
  <2> QED
    BY <2>2, <2>4, HousedTwice
<1>24. g.PParty[c] = p /\ OthersStay(h, g, c) /\ PartyIs(h, g, p, rec)
  BY <1>13, <1>22 DEF OthersStay, PartyIs
<1>25. Listed(g)
  <2> SUFFICES ASSUME NEW x \in Chars, NEW q \in PartyPtrs
               PROVE  IF g.PParty[x] = q THEN Single(g.party[q].members, x)
                      ELSE x \notin ToSet(g.party[q].members)
    BY DEF Listed
  <2>0. IF h.PParty[x] = q THEN Single(h.party[q].members, x)
        ELSE x \notin ToSet(h.party[q].members)
    BY DEF Joinable, Listed
  <2>1. CASE x = c /\ q = p
    BY <1>8, <1>10, <1>24, <2>1 DEF PartyIs
  <2>2. CASE x = c /\ q # p
    BY <1>1, <1>24, <2>0, <2>2, PointersDiffer DEF PartyIs
  <2>3. CASE x # c /\ q = p
    BY <1>2, <1>8, <1>10, <1>24, <2>0, <2>3 DEF PartyIs, OthersStay
  <2>4. CASE x # c /\ q # p
    BY <1>24, <2>0, <2>4 DEF PartyIs, OthersStay
  <2> QED
    BY <2>1, <2>2, <2>3, <2>4
<1>26. LivesLed(g)
  <2>1. Led(g, p)
    BY <1>4, <1>6, <1>8, <1>10, <1>24, PartiesAssumption DEF Led, PartyIs
  <2> QED
    BY <1>24, <2>1 DEF LivesLed, Led, PartyIs, Joinable
<1>27. Sessions(g)
  <2> SUFFICES ASSUME NEW x \in Chars
               PROVE  g.partyid[x] = IF g.PParty[x] = Null THEN Nobody ELSE PartyOf(g, x).leader
    BY DEF Sessions
  <2>1. \A q \in PartyPtrs : g.party[q].leader = h.party[q].leader
    BY <1>2, <1>10, <1>24 DEF PartyIs
  <2>2. h.partyid \in [Chars -> Chars \cup {Nobody}] /\ h.PParty \in [Chars -> PartyPtrs \cup {Null}]
    BY <1>1 DEF HeapType
  <2>3. CASE x = c
    BY <1>2, <1>22, <1>24, <2>1, <2>2, <2>3, PointersDiffer DEF PartyOf
  <2>4. CASE x # c
    <3>1. g.partyid[x] = h.partyid[x] /\ g.PParty[x] = h.PParty[x]
      BY <1>22, <1>24, <2>2, <2>4 DEF OthersStay
    <3> QED
      BY <2>1, <2>2, <3>1 DEF PartyOf, Joinable, Sessions
  <2> QED
    BY <2>3, <2>4
<1>28. MainListed(g)
  BY <1>22 DEF Joinable, MainListed
<1>29. SamePools(h, k) /\ SameAlliances(h, k)
  BY <1>2, <1>10, <1>13, <1>16 DEF SamePools, SameAlliances, PoolsOnly, PartyIs
<1>30. Reloaded(k, g, c)
  BY <1>13, <1>16, <1>18, <1>22 DEF Reloaded, PoolsOnly
<1>31. h.broken => g.broken
  BY <1>13, <1>16, <1>19, <1>22
<1> QED
  BY <1>17, <1>31, <1>23, <1>24, <1>25, <1>26, <1>27, <1>28, <1>29, <1>30 DEF Orderly

LEMMA NewPartyFacts ==
    ASSUME NEW h, Orderly(h), NEW c \in Chars, h.PParty[c] = Null, FreePartyPtrs(h) # {},
           NEW g, g = NewParty(h, c)
    PROVE  /\ Orderly(g) /\ Housed(h, g)
           /\ g.PParty[c] # Null /\ OthersStay(h, g, c) /\ (h.broken => g.broken)
           /\ \E k : /\ Ready(k) /\ SamePools(h, k) /\ SameAlliances(h, k)
                     /\ Reloaded(k, g, c)
<1>1. h \in HeapType /\ Ready(h)
  BY OrderlyType
<1>2. PICK p : p = Min(FreePartyPtrs(h))
  OBVIOUS
<1>3. p \in PartyPtrs /\ h.party[p] = NoParty
  <2>1. FreePartyPtrs(h) \in SUBSET Nat
    BY DEF FreePartyPtrs, PartyPtrs
  <2>2. p \in FreePartyPtrs(h)
    BY <1>2, <2>1, MinOfNaturals
  <2> QED
    BY <2>2 DEF FreePartyPtrs
<1>4. PICK rec : rec = [NoParty EXCEPT !.leader = c]
  OBVIOUS
<1>5. rec \in PartyRec /\ rec.members = <<>> /\ rec.leader = c /\ rec.alliance = Null
  <2>1. rec = [members |-> <<>>, leader |-> c, alliance |-> Null]
    BY <1>4 DEF NoParty
  <2> QED
    BY <2>1, EmptySeq DEF PartyRec
<1>6. PICK k : k = [h EXCEPT !.party[p] = rec]
  OBVIOUS
<1>7. g = AddMember(k, p, c)
  BY <1>2, <1>4, <1>6 DEF NewParty
<1>8. /\ k \in HeapType /\ SamePools(h, k) /\ PartyIs(h, k, p, rec) /\ k.PParty = h.PParty
      /\ k.alliance = h.alliance /\ k.partyid = h.partyid /\ k.broken = h.broken
  <2>1. k.party = [h.party EXCEPT ![p] = rec] /\ h.party \in [PartyPtrs -> PartyRec]
    BY <1>1, <1>6 DEF HeapType, PartyRec
  <2>2. k.party \in [PartyPtrs -> PartyRec] /\ PartyIs(h, k, p, rec)
    BY <1>3, <1>5, <2>1 DEF PartyIs
  <2>3. /\ SamePools(h, k) /\ k.PParty = h.PParty
        /\ k.alliance = h.alliance /\ k.partyid = h.partyid /\ k.broken = h.broken
    BY <1>1, <1>6 DEF HeapType, SamePools
  <2>4. k \in HeapType
    BY <1>1, <1>6, <2>2 DEF HeapType, PartyRec
  <2> QED
    BY <2>2, <2>3, <2>4
<1>9. Housed(h, k) /\ Ready(k)
  BY <1>1, <1>8, SameIsHoused
<1>10. NoParty.members = <<>>
  BY DEF NoParty
<1>11. \A q \in PartyPtrs : k.party[q].members = h.party[q].members
  BY <1>3, <1>5, <1>8, <1>10 DEF PartyIs
<1>12. Listed(k)
  BY <1>8, <1>11 DEF Orderly, Listed
<1>13. \A x \in Chars : h.PParty[x] # p
  BY <1>3, MembersParty
<1>14. Sessions(k)
  <2>1. h.PParty \in [Chars -> PartyPtrs \cup {Null}]
    BY <1>1 DEF HeapType
  <2> QED
    BY <1>8, <1>13, <2>1 DEF Orderly, Sessions, PartyOf, PartyIs
<1>15. MainListed(k)
  BY <1>8 DEF Orderly, MainListed
<1>16. \A q \in PartyPtrs : q # p /\ k.party[q] # NoParty => Led(k, q)
  BY <1>8, <1>11 DEF Orderly, LivesLed, Led, PartyIs
<1>17. k.party[p].leader = c /\ Len(k.party[p].members) < PartySize
  BY <1>5, <1>8, PartiesAssumption DEF PartyIs
<1>18. Joinable(k, p, c)
  BY <1>8, <1>9, <1>12, <1>14, <1>15, <1>16, <1>17 DEF Joinable
<1>19. /\ Orderly(g) /\ Housed(k, g) /\ g.PParty[c] = p /\ OthersStay(k, g, c)
       /\ k.broken => g.broken
       /\ \E l : /\ Ready(l) /\ SamePools(k, l) /\ SameAlliances(k, l)
                 /\ Reloaded(l, g, c)
  BY <1>3, <1>7, <1>18, AddMemberFacts
<1>20. Housed(h, g)
  BY <1>9, <1>19, HousedTwice
<1>21. SamePools(h, k) /\ SameAlliances(h, k)
  <2>1. NoParty.alliance = Null
    BY DEF NoParty
  <2> QED
    BY <1>3, <1>5, <1>8, <2>1 DEF SameAlliances, PartyIs
<1>22. PICK l : Ready(l) /\ SamePools(k, l) /\ SameAlliances(k, l) /\ Reloaded(l, g, c)
  BY <1>19
<1>23. SamePools(h, l) /\ SameAlliances(h, l)
  BY <1>21, <1>22 DEF SamePools, SameAlliances
<1> QED
  BY <1>3, <1>8, <1>19, <1>20, <1>22, <1>23, PointersDiffer DEF OthersStay

LEMMA DismissedFacts ==
    ASSUME NEW h, Orderly(h), NEW c \in Chars, NEW p \in PartyPtrs, h.PParty[c] = p,
           h.party[p].leader # c, NEW g, g = Dismissed(h, p, c)
    PROVE  /\ Orderly(g) /\ Housed(h, g)
           /\ g.PParty[c] = Null /\ OthersStay(h, g, c)
           /\ SameAlliances(h, g) /\ OthersPoint(h, g, c) /\ NoneEnters(h, g)
<1>1. h \in HeapType /\ Ready(h)
  BY OrderlyType
<1>2. PICK old : old = h.party[p]
  OBVIOUS
<1>3. /\ old \in PartyRec /\ Led(h, p) /\ Single(old.members, c) /\ old # NoParty
      /\ \A x \in Chars : x \in ToSet(old.members) <=> h.PParty[x] = p
  BY <1>2, MembersParty
<1>4. old.members \in Seq(Chars) /\ c \in ToSet(old.members)
  BY <1>3 DEF PartyRec, Single
<1>5. PICK rest : rest = RemoveFirst(old.members, c)
  OBVIOUS
<1>6. /\ rest \in Seq(Chars) /\ Len(rest) = Len(old.members) - 1
      /\ \A x : x # c => (x \in ToSet(rest) <=> x \in ToSet(old.members))
      /\ Single(old.members, c) => c \notin ToSet(rest)
      /\ \A x : x # c /\ Single(old.members, x) => Single(rest, x)
  BY <1>4, <1>5, RemoveFirstFacts
<1>7. PICK rec : rec = [old EXCEPT !.members = rest]
  OBVIOUS
<1>8. /\ rec \in PartyRec /\ rec.members = rest /\ rec.leader = old.leader
      /\ rec.alliance = old.alliance
  BY <1>3, <1>6, <1>7 DEF PartyRec
<1>9. PICK h1 : h1 = [h EXCEPT !.party[p] = rec, !.PParty[c] = Null]
  OBVIOUS
<1>10. h1 = [h EXCEPT !.party[p].members = RemoveFirst(@, c), !.PParty[c] = Null]
  BY <1>2, <1>5, <1>7, <1>9
<1>11. /\ h1 \in HeapType /\ SamePools(h, h1) /\ PartyIs(h, h1, p, rec)
       /\ h1.PParty[c] = Null /\ OthersStay(h, h1, c)
       /\ h1.alliance = h.alliance /\ h1.partyid = h.partyid
  <2>1. h1.party = [h.party EXCEPT ![p] = rec] /\ h.party \in [PartyPtrs -> PartyRec]
    BY <1>1, <1>9 DEF HeapType, PartyRec
  <2>2. h1.party \in [PartyPtrs -> PartyRec] /\ PartyIs(h, h1, p, rec)
    BY <1>8, <2>1 DEF PartyIs
  <2>3. /\ h1.PParty = [h.PParty EXCEPT ![c] = Null]
        /\ h.PParty \in [Chars -> PartyPtrs \cup {Null}]
    BY <1>1, <1>9 DEF HeapType
  <2>4. h1.PParty \in [Chars -> PartyPtrs \cup {Null}] /\ h1.PParty[c] = Null /\ OthersStay(h, h1, c)
    BY <2>3 DEF OthersStay
  <2>5. SamePools(h, h1) /\ h1.alliance = h.alliance /\ h1.partyid = h.partyid
    BY <1>1, <1>9 DEF HeapType, SamePools
  <2>6. h1 \in HeapType
    BY <1>1, <1>9, <2>2, <2>4 DEF HeapType, PartyRec
  <2> QED
    BY <2>2, <2>4, <2>5, <2>6
<1>12. Housed(h, h1) /\ Ready(h1)
  BY <1>1, <1>11, SameIsHoused
<1>13. PICK k : k = ReloadParty(h1, p)
  OBVIOUS
<1>14. k \in HeapType /\ SamePools(h1, k) /\ PoolsOnly(h1, k)
  BY <1>11, <1>13, ReloadPartyFacts
<1>15. Housed(h1, k) /\ Ready(k)
  BY <1>12, <1>14, SameIsHoused
<1>16. PICK m : m = SoloPool(k, c)
  OBVIOUS
<1>17. Housed(k, m) /\ PoolsOnly(k, m) /\ OthersPoint(k, m, c) /\ NoneEnters(k, m)
  BY <1>15, <1>16, SoloPoolFacts
<1>18. g = [m EXCEPT !.partyid[c] = Nobody]
  BY <1>10, <1>13, <1>16 DEF Dismissed
<1>19. /\ m \in HeapType /\ m.PParty = h1.PParty /\ m.party = h1.party
       /\ m.alliance = h.alliance /\ m.partyid = h.partyid
  BY <1>11, <1>14, <1>17 DEF PoolsOnly, Housed
<1>20. /\ g \in HeapType /\ SamePools(m, g) /\ g.PParty = h1.PParty /\ g.party = h1.party
       /\ g.alliance = h.alliance /\ g.partyid = [h.partyid EXCEPT ![c] = Nobody]
  <2>1. SamePools(m, g) /\ g.PParty = h1.PParty /\ g.party = h1.party /\ g.alliance = h.alliance
    BY <1>18, <1>19 DEF HeapType, SamePools
  <2>2. g.partyid = [h.partyid EXCEPT ![c] = Nobody]
    BY <1>18, <1>19 DEF HeapType
  <2>3. g.partyid \in [Chars -> Chars \cup {Nobody}]
    BY <1>1, <2>2 DEF HeapType
  <2>4. g \in HeapType
    BY <1>18, <1>19, <2>3 DEF HeapType
  <2> QED
    BY <2>1, <2>2, <2>4
<1>21. Housed(h, g) /\ Ready(g)
  <2>1. Housed(h, k)
    BY <1>12, <1>15, HousedTwice
  <2>2. Housed(h, m)
    BY <1>17, <2>1, HousedTwice
  <2>3. Ready(m)
    BY <1>1, <2>2, ReadyAgain
  <2>4. Housed(m, g) /\ Ready(g)
    BY <1>20, <2>3, SameIsHoused
  <2> QED
    BY <2>2, <2>4, HousedTwice
<1>22. g.PParty[c] = Null /\ OthersStay(h, g, c) /\ PartyIs(h, g, p, rec)
  BY <1>11, <1>20 DEF OthersStay, PartyIs
<1>23. Listed(g)
  <2> SUFFICES ASSUME NEW x \in Chars, NEW q \in PartyPtrs
               PROVE  IF g.PParty[x] = q THEN Single(g.party[q].members, x)
                      ELSE x \notin ToSet(g.party[q].members)
    BY DEF Listed
  <2>0. IF h.PParty[x] = q THEN Single(h.party[q].members, x)
        ELSE x \notin ToSet(h.party[q].members)
    BY DEF Orderly, Listed
  <2>1. CASE x = c /\ q = p
    BY <1>3, <1>6, <1>8, <1>22, <2>1, PointersDiffer DEF PartyIs
  <2>2. CASE x = c /\ q # p
    BY <1>22, <2>0, <2>2, PointersDiffer DEF PartyIs
  <2>3. CASE x # c /\ q = p
    BY <1>2, <1>6, <1>8, <1>22, <2>0, <2>3 DEF PartyIs, OthersStay
  <2>4. CASE x # c /\ q # p
    BY <1>22, <2>0, <2>4 DEF PartyIs, OthersStay
  <2> QED
    BY <2>1, <2>2, <2>3, <2>4
<1>24. LivesLed(g)
  <2>1. Led(g, p)
    <3>1. Len(old.members) \in Nat /\ Len(old.members) <= PartySize /\ PartySize \in Nat
      BY <1>2, <1>3, <1>4, PartiesAssumption DEF Led
    <3> QED
      BY <1>2, <1>3, <1>6, <1>8, <1>22, <3>1 DEF Led, PartyIs
  <2> QED
    BY <1>22, <2>1 DEF LivesLed, Led, PartyIs, Orderly
<1>25. Sessions(g)
  <2> SUFFICES ASSUME NEW x \in Chars
               PROVE  g.partyid[x] = IF g.PParty[x] = Null THEN Nobody ELSE PartyOf(g, x).leader
    BY DEF Sessions
  <2>1. \A q \in PartyPtrs : g.party[q].leader = h.party[q].leader
    BY <1>2, <1>8, <1>22 DEF PartyIs
  <2>2. h.partyid \in [Chars -> Chars \cup {Nobody}] /\ h.PParty \in [Chars -> PartyPtrs \cup {Null}]
    BY <1>1 DEF HeapType
  <2>3. CASE x = c
    BY <1>20, <1>22, <2>2, <2>3
  <2>4. CASE x # c
    <3>1. g.partyid[x] = h.partyid[x] /\ g.PParty[x] = h.PParty[x]
      BY <1>20, <1>22, <2>2, <2>4 DEF OthersStay
    <3> QED
      BY <2>1, <2>2, <3>1 DEF PartyOf, Orderly, Sessions
  <2> QED
    BY <2>3, <2>4
<1>26. MainListed(g)
  BY <1>20 DEF Orderly, MainListed
<1>27. SameAlliances(h, g)
  BY <1>2, <1>8, <1>20, <1>22 DEF SameAlliances, PartyIs
<1>28. OthersPoint(h, g, c) /\ NoneEnters(h, g)
  BY <1>11, <1>14, <1>17, <1>20 DEF SamePools, OthersPoint, NoneEnters, InZonePool
<1> QED
  BY <1>21, <1>22, <1>23, <1>24, <1>25, <1>26, <1>27, <1>28 DEF Orderly

LEMMA DisbandPartyFacts ==
    ASSUME NEW h, Orderly(h), NEW p \in PartyPtrs, h.party[p] # NoParty,
           NEW g, g = DisbandParty(h, p)
    PROVE  /\ Orderly(g) /\ Housed(h, g)
           /\ g.alliance = h.alliance /\ PartyIs(h, g, p, NoParty) /\ NoneEnters(h, g)
           /\ \A x \in Chars : IF h.PParty[x] = p THEN g.PParty[x] = Null
                 ELSE g.PParty[x] = h.PParty[x] /\ g.PTreasurePool[x] = h.PTreasurePool[x]
<1>1. h \in HeapType /\ Ready(h)
  BY OrderlyType
<1>2. PICK old : old = h.party[p]
  OBVIOUS
<1>3. /\ old.leader \in Chars
      /\ \A x \in Chars : h.partyid[x] = old.leader <=> h.PParty[x] = p
  BY <1>2, RowsOfParty
<1>4. PICK all : all = old.members
  OBVIOUS
<1>5. all \in Seq(Chars)
  BY <1>1, <1>2, <1>4 DEF HeapType
<1>6. \A x \in Chars : x \in ToSet(all) <=> h.PParty[x] = p
  BY <1>2, <1>4 DEF Orderly, Listed, Single
<1>7. PICK PP : PP = [x \in Chars |-> IF x \in ToSet(all) THEN Null ELSE h.PParty[x]]
  OBVIOUS
<1>8. PICK ids : ids = [x \in Chars |-> IF h.partyid[x] = old.leader THEN Nobody ELSE h.partyid[x]]
  OBVIOUS
<1>9. PP \in [Chars -> PartyPtrs \cup {Null}] /\ ids \in [Chars -> Chars \cup {Nobody}]
  BY <1>1, <1>7, <1>8 DEF HeapType
<1>10. PICK h1 : h1 = [h EXCEPT !.PParty = PP, !.partyid = ids]
  OBVIOUS
<1>11. PICK m : m = InTurn(SoloPool, h1, all)
  OBVIOUS
<1>12. g = [m EXCEPT !.party[p] = NoParty]
  BY <1>2, <1>4, <1>7, <1>8, <1>10, <1>11 DEF DisbandParty
<1>13. /\ h1 \in HeapType /\ SamePools(h, h1) /\ h1.party = h.party /\ h1.alliance = h.alliance
       /\ h1.PParty = PP /\ h1.partyid = ids
  BY <1>1, <1>9, <1>10 DEF HeapType, SamePools
<1>14. Housed(h, h1) /\ Ready(h1)
  BY <1>1, <1>13, SameIsHoused
<1>15. /\ Housed(h1, m) /\ PoolsOnly(h1, m) /\ NoneEnters(h1, m)
       /\ \A x \in Chars : x \notin ToSet(all) => m.PTreasurePool[x] = h1.PTreasurePool[x]
  BY <1>5, <1>11, <1>14, SoloPoolsFacts
<1>16. /\ m \in HeapType /\ m.party = h.party /\ m.alliance = h.alliance
       /\ m.PParty = PP /\ m.partyid = ids
  BY <1>13, <1>15 DEF PoolsOnly, Housed
<1>17. /\ g \in HeapType /\ SamePools(m, g) /\ g.PParty = PP /\ g.partyid = ids
       /\ g.alliance = h.alliance /\ PartyIs(h, g, p, NoParty)
  <2>1. g.party = [h.party EXCEPT ![p] = NoParty] /\ h.party \in [PartyPtrs -> PartyRec]
    BY <1>1, <1>12, <1>16 DEF HeapType, PartyRec
  <2>2. NoParty \in PartyRec
    BY EmptySeq DEF NoParty, PartyRec
  <2>3. g.party \in [PartyPtrs -> PartyRec] /\ PartyIs(h, g, p, NoParty)
    BY <2>1, <2>2 DEF PartyIs
  <2>4. SamePools(m, g) /\ g.PParty = PP /\ g.partyid = ids /\ g.alliance = h.alliance
    BY <1>12, <1>16 DEF HeapType, SamePools
  <2>5. g \in HeapType
    BY <1>12, <1>16, <2>3 DEF HeapType, PartyRec
  <2> QED
    BY <2>3, <2>4, <2>5
<1>18. Housed(h, g) /\ Ready(g)
  <2>1. Housed(h, m)
    BY <1>14, <1>15, HousedTwice
  <2>2. Ready(m)
    BY <1>1, <2>1, ReadyAgain
  <2>3. Housed(m, g) /\ Ready(g)
    BY <1>17, <2>2, SameIsHoused
  <2> QED
    BY <2>1, <2>3, HousedTwice
<1>19. NoParty.members = <<>> /\ ToSet(<<>>) = {}
  BY DEF NoParty, ToSet
<1>20. Listed(g)
  <2> SUFFICES ASSUME NEW x \in Chars, NEW q \in PartyPtrs
               PROVE  IF g.PParty[x] = q THEN Single(g.party[q].members, x)
                      ELSE x \notin ToSet(g.party[q].members)
    BY DEF Listed
  <2>0. IF h.PParty[x] = q THEN Single(h.party[q].members, x)
        ELSE x \notin ToSet(h.party[q].members)
    BY DEF Orderly, Listed
  <2>1. g.PParty[x] = IF h.PParty[x] = p THEN Null ELSE h.PParty[x]
    BY <1>6, <1>7, <1>17
  <2>2. CASE q = p
    BY <1>17, <1>19, <2>1, <2>2, PointersDiffer DEF PartyIs
  <2>3. CASE q # p
    BY <1>17, <2>0, <2>1, <2>3, PointersDiffer DEF PartyIs
  <2> QED
    BY <2>2, <2>3
<1>21. LivesLed(g)
  BY <1>17 DEF LivesLed, Led, PartyIs, Orderly
<1>22. Sessions(g)
  <2> SUFFICES ASSUME NEW x \in Chars
               PROVE  g.partyid[x] = IF g.PParty[x] = Null THEN Nobody ELSE PartyOf(g, x).leader
    BY DEF Sessions
  <2>1. /\ g.PParty[x] = IF h.PParty[x] = p THEN Null ELSE h.PParty[x]
        /\ g.partyid[x] = IF h.PParty[x] = p THEN Nobody ELSE h.partyid[x]
    BY <1>3, <1>6, <1>7, <1>8, <1>17
  <2>2. h.PParty[x] \in PartyPtrs \cup {Null}
    BY <1>1 DEF HeapType
  <2> QED
    BY <1>17, <2>1, <2>2 DEF PartyOf, PartyIs, Orderly, Sessions
<1>23. MainListed(g)
  BY <1>17 DEF Orderly, MainListed
<1>24. NoneEnters(h, g)
  BY <1>13, <1>15, <1>17 DEF SamePools, NoneEnters, InZonePool
<1>25. \A x \in Chars : IF h.PParty[x] = p THEN g.PParty[x] = Null
          ELSE g.PParty[x] = h.PParty[x] /\ g.PTreasurePool[x] = h.PTreasurePool[x]
  BY <1>6, <1>7, <1>13, <1>15, <1>17 DEF SamePools
<1> QED
  BY <1>17, <1>18, <1>20, <1>21, <1>22, <1>23, <1>24, <1>25 DEF Orderly

LEMMA RemoveMemberFacts ==
    ASSUME NEW h, Orderly(h), NEW c \in Chars, h.PParty[c] # Null,
           NEW g, g = RemoveMember(h, c)
    PROVE  /\ Orderly(g) /\ Housed(h, g)
           /\ LET p == h.PParty[c]
              IN  \/ h.party[p].leader # c /\ g = Dismissed(h, p, c)
                  \/ g = DisbandParty(h, p)
                  \/ \E heir \in Chars : /\ heir # c /\ h.PParty[heir] = p
                                         /\ g = Dismissed(SetLeader(h, p, heir), p, c)
<1>1. h \in HeapType
  BY OrderlyType
<1>2. PICK p \in PartyPtrs : p = h.PParty[c]
  BY <1>1 DEF HeapType
<1>3. PICK all : all = h.party[p].members
  OBVIOUS
<1>4. /\ h.party[p] # NoParty /\ Single(all, c) /\ h.party[p] \in PartyRec
      /\ \A x \in Chars : x \in ToSet(all) <=> h.PParty[x] = p
  BY <1>2, <1>3, MembersParty
<1>5. CASE h.party[p].leader # c
  <2>1. g = Dismissed(h, p, c)
    BY <1>2, <1>5 DEF RemoveMember
  <2>2. Orderly(g) /\ Housed(h, g)
    BY <1>2, <1>5, <2>1, DismissedFacts
  <2> QED
    BY <1>2, <1>5, <2>1, <2>2
<1>6. CASE h.party[p].leader = c /\ Len(all) = 1
  <2>1. g = DisbandParty(h, p)
    BY <1>2, <1>3, <1>6 DEF RemoveMember
  <2>2. Orderly(g) /\ Housed(h, g)
    BY <1>4, <2>1, DisbandPartyFacts
  <2> QED
    BY <1>2, <2>1, <2>2
<1>7. CASE h.party[p].leader = c /\ Len(all) # 1
  <2>1. PICK others : others = {i \in DOMAIN all : all[i] # c}
    OBVIOUS
  <2>2. PICK m : m = Min(others)
    OBVIOUS
  <2>3. PICK heir : heir = all[m]
    OBVIOUS
  <2>4. all \in Seq(Chars)
    BY <1>3, <1>4 DEF PartyRec
  <2>5. others # {}
    <3>1. Len(all) \in Nat /\ DOMAIN all = 1 .. Len(all) /\ DOMAIN all # {}
      BY <1>4, <2>4 DEF Single, ToSet
    <3>2. 1 \in DOMAIN all /\ 2 \in DOMAIN all
      BY <1>7, <3>1
    <3>3. all[1] # c \/ all[2] # c
      BY <1>4, <3>2 DEF Single
    <3> QED
      BY <2>1, <3>2, <3>3
  <2>6. m \in others
    <3>1. others \in SUBSET Nat
      BY <2>1, <2>4
    <3> QED
      BY <2>2, <2>5, <3>1, MinOfNaturals
  <2>7. heir \in Chars /\ heir # c /\ h.PParty[heir] = p
    <3>1. heir \in Chars /\ heir \in ToSet(all) /\ heir # c
      BY <2>1, <2>3, <2>4, <2>6 DEF ToSet
    <3> QED
      BY <1>4, <3>1
  <2>8. PICK k : k = SetLeader(h, p, heir)
    OBVIOUS
  <2>9. g = Dismissed(k, p, c)
    BY <1>2, <1>3, <1>7, <2>1, <2>2, <2>3, <2>8 DEF RemoveMember
  <2>10. Orderly(k) /\ Housed(h, k) /\ k.PParty = h.PParty /\ k.party[p].leader = heir
    BY <2>7, <2>8, SetLeaderFacts
  <2>11. Orderly(g) /\ Housed(k, g)
    BY <1>2, <2>7, <2>9, <2>10, DismissedFacts
  <2>12. Housed(h, g)
    BY <2>10, <2>11, HousedTwice
  <2> QED
    BY <1>2, <2>7, <2>8, <2>9, <2>11, <2>12
<1> QED
  BY <1>5, <1>6, <1>7

-----------------------------------------------------------------------------
(* Alliances.                                                              *)

AllianceRec == [list : Seq(PartyPtrs), main : PartyPtrs \cup {Null}]

AllianceIs(h, g, a, rec) == /\ g.alliance[a] = rec
                            /\ \A b \in AlliancePtrs : b # a => g.alliance[b] = h.alliance[b]

\* p points at the alliance a, or at none.
AllianceSet(h, g, p, a) ==
    /\ g.PParty = h.PParty
    /\ \A q \in PartyPtrs :
          /\ g.party[q].alliance = IF q = p THEN a ELSE h.party[q].alliance
          /\ g.party[q].members = h.party[q].members

\* The parties of g are those of h, but for their alliances.
SameParties(h, g) ==
    /\ g.PParty = h.PParty /\ g.partyid = h.partyid
    /\ \A q \in PartyPtrs : /\ g.party[q].members = h.party[q].members
                            /\ g.party[q].leader = h.party[q].leader
                            /\ h.party[q] = NoParty => g.party[q] = NoParty

LEMMA AlliancesKeepOrder ==
    ASSUME NEW h, Orderly(h), NEW g \in HeapType, SamePools(h, g), SameParties(h, g),
           MainListed(g)
    PROVE  Orderly(g) /\ Housed(h, g)
<1>1. h \in HeapType /\ Ready(h)
  BY OrderlyType
<1>2. Housed(h, g) /\ Ready(g)
  BY <1>1, SameIsHoused
<1>3. Listed(g) /\ LivesLed(g)
  BY DEF Orderly, Listed, LivesLed, Led, SameParties
<1>4. Sessions(g)
  BY <1>1 DEF Orderly, Sessions, SameParties, PartyOf, HeapType
<1> QED
  BY <1>2, <1>3, <1>4 DEF Orderly

\* The heap when p has been put into the list of a.
Entered(h, k, a, p) ==
    /\ Ready(k) /\ Listed(k) /\ SamePools(h, k) /\ AllianceSet(h, k, p, a)
    /\ \A b \in AlliancePtrs : b # a => k.alliance[b] = h.alliance[b]
    /\ k.alliance[a].list = Append(h.alliance[a].list, p)
    /\ k.alliance[a].main = h.alliance[a].main
    /\ h.broken => k.broken

LEMMA AddPartyFacts ==
    ASSUME NEW h, Orderly(h), NEW a \in AlliancePtrs, NEW p \in PartyPtrs,
           h.party[p] # NoParty, NEW g, g = AddParty(h, a, p)
    PROVE  /\ Orderly(g) /\ Housed(h, g) /\ g.PParty = h.PParty
           /\ g.party[p].alliance = a /\ p \in ToSet(g.alliance[a].list)
           /\ h.broken => g.broken
           /\ \E k : /\ Entered(h, k, a, p) /\ PoolsOnly(k, g)
                     /\ g = InTurn(ReloadTreasurePool, k, h.party[p].members)
<1>1. h \in HeapType /\ Ready(h)
  BY OrderlyType
<1>2. PICK old : old = h.party[p]
  OBVIOUS
<1>3. PICK rec : rec = [old EXCEPT !.alliance = a]
  OBVIOUS
<1>4. /\ rec \in PartyRec /\ rec.members = old.members /\ rec.leader = old.leader
      /\ rec.alliance = a
  <2>1. old \in PartyRec
    BY <1>1, <1>2 DEF HeapType, PartyRec
  <2> QED
    BY <1>3, <2>1 DEF PartyRec
<1>5. PICK olda : olda = h.alliance[a]
  OBVIOUS
<1>6. olda \in AllianceRec
  BY <1>1, <1>5 DEF HeapType, AllianceRec
<1>7. PICK list : list = Append(olda.list, p)
  OBVIOUS
<1>8. list \in Seq(PartyPtrs) /\ ToSet(list) = ToSet(olda.list) \cup {p}
  <2>1. olda.list \in Seq(PartyPtrs)
    BY <1>6 DEF AllianceRec
  <2> QED
    BY <1>7, <2>1, AppendFacts
<1>9. PICK reca : reca = [olda EXCEPT !.list = list]
  OBVIOUS
<1>10. reca \in AllianceRec /\ reca.list = list /\ reca.main = olda.main
  BY <1>6, <1>8, <1>9 DEF AllianceRec
<1>11. PICK h1 : h1 = [h EXCEPT !.party[p] = rec, !.alliance[a] = reca]
  OBVIOUS
<1>12. h1 = [h EXCEPT !.party[p].alliance = a, !.alliance[a].list = Append(@, p)]
  BY <1>2, <1>3, <1>5, <1>7, <1>9, <1>11
<1>13. PICK wrong \in BOOLEAN : wrong = (h1.broken \/ Dangling(h1, h1.alliance[a].list))
  OBVIOUS
<1>14. PICK h2 : h2 = [h1 EXCEPT !.broken = wrong]
  OBVIOUS
<1>15. h2 = [h1 EXCEPT !.broken = @ \/ Dangling(h1, h1.alliance[a].list)]
  BY <1>13, <1>14
<1>16. g = InTurn(ReloadTreasurePool, h2, old.members)
  BY <1>2, <1>12, <1>15 DEF AddParty
<1>17. /\ h1 \in HeapType /\ SamePools(h, h1) /\ PartyIs(h, h1, p, rec)
       /\ AllianceIs(h, h1, a, reca) /\ h1.PParty = h.PParty /\ h1.partyid = h.partyid
       /\ h1.broken = h.broken
  <2>1. h1.party = [h.party EXCEPT ![p] = rec] /\ h.party \in [PartyPtrs -> PartyRec]
    BY <1>1, <1>11 DEF HeapType, PartyRec
  <2>2. h1.party \in [PartyPtrs -> PartyRec] /\ PartyIs(h, h1, p, rec)
    BY <1>4, <2>1 DEF PartyIs
  <2>3. /\ h1.alliance = [h.alliance EXCEPT ![a] = reca]
        /\ h.alliance \in [AlliancePtrs -> AllianceRec]
    BY <1>1, <1>11 DEF HeapType, AllianceRec
  <2>4. h1.alliance \in [AlliancePtrs -> AllianceRec] /\ AllianceIs(h, h1, a, reca)
    BY <1>10, <2>3 DEF AllianceIs
  <2>5. /\ SamePools(h, h1) /\ h1.PParty = h.PParty /\ h1.partyid = h.partyid
        /\ h1.broken = h.broken
    BY <1>1, <1>11 DEF HeapType, SamePools
  <2>6. h1 \in HeapType
    BY <1>1, <1>11, <2>2, <2>4 DEF HeapType, PartyRec, AllianceRec
  <2> QED
    BY <2>2, <2>4, <2>5, <2>6
<1>18. /\ h2 \in HeapType /\ SamePools(h, h2) /\ h2.party = h1.party
       /\ h2.alliance = h1.alliance /\ h2.PParty = h.PParty /\ h2.partyid = h.partyid
  BY <1>14, <1>17 DEF HeapType, SamePools
<1>19. SameParties(h, h2)
  BY <1>2, <1>4, <1>17, <1>18 DEF SameParties, PartyIs
<1>20. MainListed(h2)
  BY <1>5, <1>8, <1>10, <1>17, <1>18 DEF Orderly, MainListed, AllianceIs
<1>21. Orderly(h2) /\ Housed(h, h2)
  BY <1>18, <1>19, <1>20, AlliancesKeepOrder
<1>22. \A x \in Chars : x \in ToSet(old.members) => h2.PParty[x] = p
  BY <1>2, <1>18 DEF Orderly, Listed
<1>23. old.members \in Seq(Chars) /\ \A i \in DOMAIN old.members : h2.PParty[old.members[i]] # Null
  <2>1. old.members \in Seq(Chars)
    BY <1>1, <1>2 DEF HeapType
  <2>2. \A i \in DOMAIN old.members : old.members[i] \in Chars /\ old.members[i] \in ToSet(old.members)
    BY <2>1 DEF ToSet
  <2> QED
    BY <1>22, <2>1, <2>2, PointersDiffer
<1>24. Housed(h2, g) /\ PoolsOnly(h2, g) /\ (h2.broken => g.broken)
  <2>1. Ready(h2)
    BY <1>21 DEF Orderly
  <2> QED
    BY <1>16, <1>23, <2>1, ReloadPoolsFacts
<1>25. Orderly(g) /\ Housed(h, g)
  BY <1>21, <1>24, PoolsKeepOrder, HousedTwice
<1>26. h.broken => h2.broken
  BY <1>13, <1>14, <1>17 DEF HeapType
<1>27. AllianceSet(h, h2, p, a)
  BY <1>2, <1>4, <1>17, <1>18 DEF AllianceSet, PartyIs
<1>28. /\ \A b \in AlliancePtrs : b # a => h2.alliance[b] = h.alliance[b]
       /\ h2.alliance[a].list = Append(h.alliance[a].list, p)
       /\ h2.alliance[a].main = h.alliance[a].main
  BY <1>5, <1>7, <1>10, <1>17, <1>18 DEF AllianceIs
<1>29. Entered(h, h2, a, p)
  BY <1>18, <1>21, <1>26, <1>27, <1>28 DEF Entered, Orderly
<1>30. g = InTurn(ReloadTreasurePool, h2, h.party[p].members)
  BY <1>2, <1>16
<1>31. /\ g.party[p].alliance = a /\ p \in ToSet(g.alliance[a].list)
       /\ g.PParty = h.PParty
  BY <1>4, <1>8, <1>10, <1>17, <1>18, <1>24 DEF PoolsOnly, PartyIs, AllianceIs
<1> QED
  BY <1>24, <1>25, <1>26, <1>29, <1>30, <1>31

LEMMA NewAllianceFacts ==
    ASSUME NEW h, Orderly(h), NEW p \in PartyPtrs, h.party[p] # NoParty,
           FreeAlliancePtrs(h) # {}, NEW g, g = NewAlliance(h, p)
    PROVE  /\ Orderly(g) /\ Housed(h, g) /\ g.PParty = h.PParty
           /\ g.party[p].alliance \in AlliancePtrs
           /\ h.broken => g.broken
           /\ \E a \in AlliancePtrs : \E k :
                 /\ h.alliance[a] = NoAlliance /\ k = AddParty(h, a, p)
                 /\ SamePools(k, g) /\ AllianceSet(k, g, p, a) /\ g.broken = k.broken
                 /\ \A b \in AlliancePtrs : b # a => g.alliance[b] = k.alliance[b]
                 /\ g.alliance[a].list = k.alliance[a].list
                 /\ g.alliance[a].main = p
<1>1. PICK a : a = Min(FreeAlliancePtrs(h))
  OBVIOUS
<1>2. a \in AlliancePtrs /\ h.alliance[a] = NoAlliance
  <2>1. FreeAlliancePtrs(h) \in SUBSET Nat
    BY DEF FreeAlliancePtrs, AlliancePtrs
  <2>2. a \in FreeAlliancePtrs(h)
    BY <1>1, <2>1, MinOfNaturals
  <2> QED
    BY <2>2 DEF FreeAlliancePtrs
<1>3. PICK k : k = AddParty(h, a, p)
  OBVIOUS
<1>4. /\ Orderly(k) /\ Housed(h, k) /\ k.PParty = h.PParty
      /\ k.party[p].alliance = a /\ p \in ToSet(k.alliance[a].list)
      /\ h.broken => k.broken
  BY <1>2, <1>3, AddPartyFacts
<1>5. k \in HeapType /\ Ready(k)
  BY <1>4, OrderlyType
<1>6. PICK rec : rec = [k.alliance[a] EXCEPT !.main = p]
  OBVIOUS
<1>7. rec \in AllianceRec /\ rec.main = p /\ rec.list = k.alliance[a].list
  <2>1. PICK old : old = k.alliance[a]
    OBVIOUS
  <2>2. old \in AllianceRec
    BY <1>2, <1>5, <2>1 DEF HeapType, AllianceRec
  <2> QED
    BY <1>6, <2>1, <2>2 DEF AllianceRec
<1>8. g = [k EXCEPT !.alliance[a] = rec]
  BY <1>1, <1>3, <1>6 DEF NewAlliance
<1>9. /\ g \in HeapType /\ SamePools(k, g) /\ AllianceIs(k, g, a, rec)
      /\ g.party = k.party /\ g.PParty = k.PParty /\ g.partyid = k.partyid
      /\ g.broken = k.broken
  <2>1. /\ g.alliance = [k.alliance EXCEPT ![a] = rec]
        /\ k.alliance \in [AlliancePtrs -> AllianceRec]
    BY <1>5, <1>8 DEF HeapType, AllianceRec
  <2>2. g.alliance \in [AlliancePtrs -> AllianceRec] /\ AllianceIs(k, g, a, rec)
    BY <1>2, <1>7, <2>1 DEF AllianceIs
  <2>3. /\ SamePools(k, g) /\ g.party = k.party /\ g.PParty = k.PParty /\ g.partyid = k.partyid
        /\ g.broken = k.broken
    BY <1>5, <1>8 DEF HeapType, SamePools
  <2>4. g \in HeapType
    BY <1>5, <1>8, <2>2 DEF HeapType, AllianceRec
  <2> QED
    BY <2>2, <2>3, <2>4
<1>10. MainListed(g)
  BY <1>4, <1>7, <1>9 DEF Orderly, MainListed, AllianceIs
<1>11. SameParties(k, g)
  BY <1>9 DEF SameParties
<1>12. Orderly(g) /\ Housed(k, g)
  BY <1>4, <1>9, <1>10, <1>11, AlliancesKeepOrder
<1>13. AllianceSet(k, g, p, a)
  BY <1>4, <1>9 DEF AllianceSet
<1>14. /\ \A b \in AlliancePtrs : b # a => g.alliance[b] = k.alliance[b]
       /\ g.alliance[a].list = k.alliance[a].list /\ g.alliance[a].main = p
  BY <1>7, <1>9 DEF AllianceIs
<1>15. Orderly(g) /\ Housed(h, g) /\ g.PParty = h.PParty /\ g.party[p].alliance \in AlliancePtrs
  BY <1>2, <1>4, <1>9, <1>12, HousedTwice
<1> QED
  BY <1>2, <1>3, <1>4, <1>9, <1>13, <1>14, <1>15

\* Striking a party from a list leaves the others on it.
LEMMA StruckFacts ==
    ASSUME NEW S, NEW list \in Seq(S), NEW p
    PROVE  /\ Struck(list, p) \in Seq(S)
           /\ \A x \in ToSet(list) : x # p => x \in ToSet(Struck(list, p))
<1>1. PICK E : E = {i \in DOMAIN list : list[i] = p}
  OBVIOUS
<1>2. PICK keep : keep = DOMAIN list \ Skipping(E)
  OBVIOUS
<1>3. Struck(list, p) = Restricted(list, keep)
  BY <1>1, <1>2 DEF Struck
<1>4. keep \in SUBSET DOMAIN list
  BY <1>2
<1>5. \A i \in DOMAIN list : list[i] # p => i \in keep
  BY <1>1, <1>2 DEF Skipping
<1>6. Restricted(list, keep) \in Seq(S)
  BY <1>4, RestrictedType
<1>7. /\ DOMAIN Restricted(list, keep) = 1 .. Cardinality(keep)
      /\ \A k \in keep : /\ Rank(keep, k) \in 1 .. Cardinality(keep)
                         /\ Restricted(list, keep)[Rank(keep, k)] = list[k]
  BY <1>4, RestrictedElements
<1>8. ASSUME NEW x \in ToSet(list), x # p PROVE x \in ToSet(Restricted(list, keep))
  <2>1. PICK i \in DOMAIN list : list[i] = x
    BY DEF ToSet
  <2>2. i \in keep
    BY <1>5, <1>8, <2>1
  <2> QED
    BY <1>7, <2>1, <2>2 DEF ToSet
<1> QED
  BY <1>3, <1>6, <1>8

LEMMA BrokenKeepsOrder ==
    ASSUME NEW h, Orderly(h), NEW g, g = [h EXCEPT !.broken = TRUE]
    PROVE  /\ Orderly(g) /\ Housed(h, g) /\ PoolsOnly(h, g) /\ g.PParty = h.PParty
           /\ g.PTreasurePool = h.PTreasurePool /\ g.broken
<1>1. h \in HeapType /\ Ready(h)
  BY OrderlyType
<1>2. g \in HeapType /\ SamePools(h, g) /\ PoolsOnly(h, g) /\ g.broken
  BY <1>1 DEF HeapType, SamePools, PoolsOnly
<1>3. Housed(h, g)
  BY <1>1, <1>2, SameIsHoused
<1>4. Orderly(g)
  BY <1>2, <1>3, PoolsKeepOrder
<1> QED
  BY <1>2, <1>3, <1>4 DEF PoolsOnly, SamePools

\* p is not in the list of a any more and its members share a pool.
Withdrawn(h, g, a, p) ==
    /\ ~h.broken /\ h.party[p].alliance = a /\ AllianceSet(h, g, p, Null)
    /\ \A b \in AlliancePtrs : b # a => g.alliance[b] = h.alliance[b]
    /\ g.alliance[a].list = Struck(h.alliance[a].list, p)
    /\ IF h.alliance[a].main = p
       THEN g.alliance[a].list # <<>> /\ g.alliance[a].main = Head(g.alliance[a].list)
       ELSE g.alliance[a].main = h.alliance[a].main
    /\ InOnePool(g, h.party[p].members, h.party[p].leader)
    /\ \A x \in Chars : x \notin ToSet(h.party[p].members)
          => g.PTreasurePool[x] = h.PTreasurePool[x]

LEMMA RemovePartyFacts ==
    ASSUME NEW h, Orderly(h), NEW a \in AlliancePtrs, NEW p \in PartyPtrs,
           NEW g, g = RemoveParty(h, a, p)
    PROVE  /\ Orderly(g) /\ Housed(h, g) /\ g.PParty = h.PParty
           /\ g.broken \/ Withdrawn(h, g, a, p)
<1>1. h \in HeapType /\ Ready(h)
  BY OrderlyType
<1>2. PICK old : old = h.party[p]
  OBVIOUS
<1>3. PICK olda : olda = h.alliance[a]
  OBVIOUS
<1>4. old \in PartyRec /\ olda \in AllianceRec
  BY <1>1, <1>2, <1>3 DEF HeapType, PartyRec, AllianceRec
<1>5. PICK rest : rest = Struck(olda.list, p)
  OBVIOUS
<1>6. /\ rest \in Seq(PartyPtrs)
      /\ \A x \in ToSet(olda.list) : x # p => x \in ToSet(rest)
  <2>1. olda.list \in Seq(PartyPtrs)
    BY <1>4 DEF AllianceRec
  <2> QED
    BY <1>5, <2>1, StruckFacts
<1>7. PICK reca : reca = [list |-> rest, main |-> IF olda.main = p /\ rest # <<>> THEN Head(rest)
                                                 ELSE olda.main]
  OBVIOUS
<1>8. PICK rec : rec = [old EXCEPT !.alliance = Null]
  OBVIOUS
<1>9. PICK h1 : h1 = [h EXCEPT !.alliance[a] = reca, !.party[p] = rec]
  OBVIOUS
<1>10. h1 = [h EXCEPT !.alliance[a] =
                 [list |-> rest,
                  main |-> IF @.main = p /\ rest # <<>> THEN Head(rest) ELSE @.main],
                      !.party[p].alliance = Null]
  BY <1>2, <1>3, <1>7, <1>8, <1>9
<1>11. PICK wrong \in BOOLEAN : wrong = (\/ h.party[p].alliance # a
                                         \/ h.alliance[a].main = p /\ rest = <<>>
                                         \/ Dangling(h1, rest))
  OBVIOUS
<1>12. g = IF wrong THEN [h EXCEPT !.broken = TRUE] ELSE FollowLeader(h1, p)
  BY <1>3, <1>5, <1>10, <1>11 DEF RemoveParty
<1>13. CASE wrong
  BY <1>12, <1>13, BrokenKeepsOrder
<1>14. CASE ~wrong
  <2>1. old.alliance = a /\ ~(olda.main = p /\ rest = <<>>)
    BY <1>2, <1>3, <1>11, <1>14
  <2>2. old # NoParty
    BY <2>1, PointersDiffer DEF NoParty
  <2>3. /\ rec \in PartyRec /\ rec.members = old.members /\ rec.leader = old.leader
    BY <1>4, <1>8 DEF PartyRec
  <2>4. rest # <<>> => Head(rest) \in PartyPtrs /\ Head(rest) \in ToSet(rest)
    BY <1>6 DEF ToSet
  <2>5. /\ reca \in AllianceRec /\ reca.list = rest
        /\ olda.main # p => reca.main = olda.main
        /\ olda.main = p => reca.main \in ToSet(rest) /\ rest # <<>> /\ reca.main = Head(rest)
    BY <1>4, <1>6, <1>7, <2>1, <2>4 DEF AllianceRec
  <2>6. /\ h1 \in HeapType /\ SamePools(h, h1) /\ PartyIs(h, h1, p, rec)
        /\ AllianceIs(h, h1, a, reca) /\ h1.PParty = h.PParty /\ h1.partyid = h.partyid
        /\ h1.broken = h.broken
    <3>1. h1.party = [h.party EXCEPT ![p] = rec] /\ h.party \in [PartyPtrs -> PartyRec]
      BY <1>1, <1>9 DEF HeapType, PartyRec
    <3>2. h1.party \in [PartyPtrs -> PartyRec] /\ PartyIs(h, h1, p, rec)
      BY <2>3, <3>1 DEF PartyIs
    <3>3. /\ h1.alliance = [h.alliance EXCEPT ![a] = reca]
          /\ h.alliance \in [AlliancePtrs -> AllianceRec]
      BY <1>1, <1>9 DEF HeapType, AllianceRec
    <3>4. h1.alliance \in [AlliancePtrs -> AllianceRec] /\ AllianceIs(h, h1, a, reca)
      BY <2>5, <3>3 DEF AllianceIs
    <3>5. /\ SamePools(h, h1) /\ h1.PParty = h.PParty /\ h1.partyid = h.partyid
          /\ h1.broken = h.broken
      BY <1>1, <1>9 DEF HeapType, SamePools
    <3>6. h1 \in HeapType
      BY <1>1, <1>9, <3>2, <3>4 DEF HeapType, PartyRec, AllianceRec
    <3> QED
      BY <3>2, <3>4, <3>5, <3>6
  <2>7. SameParties(h, h1)
    BY <1>2, <2>2, <2>3, <2>6 DEF SameParties, PartyIs
  <2>8. MainListed(h1)
    <3>1. h.alliance[a].main # Null => h.alliance[a].main \in ToSet(h.alliance[a].list)
      BY DEF Orderly, MainListed
    <3>2. reca.main # Null => reca.main \in ToSet(reca.list)
      BY <1>3, <1>6, <2>5, <3>1
    <3> QED
      BY <2>6, <3>2 DEF Orderly, MainListed, AllianceIs
  <2>9. Orderly(h1) /\ Housed(h, h1)
    BY <2>6, <2>7, <2>8, AlliancesKeepOrder
  <2>10. h1.party[p].members = old.members /\ h1.party[p].leader = old.leader
    BY <2>3, <2>6 DEF PartyIs
  <2>11. old.leader \in ToSet(old.members)
    BY <1>2, <2>2 DEF Orderly, LivesLed, Led
  <2>12. \A x \in Chars : x \in ToSet(old.members) => Single(old.members, x)
    BY <1>2 DEF Orderly, Listed
  <2>13. /\ Housed(h1, g) /\ PoolsOnly(h1, g) /\ g.broken = h1.broken
         /\ InOnePool(g, old.members, old.leader)
         /\ \A x \in Chars : x \notin ToSet(old.members)
               => g.PTreasurePool[x] = h1.PTreasurePool[x]
    <3>1. g = FollowLeader(h1, p) /\ Ready(h1)
      BY <1>12, <1>14, <2>9 DEF Orderly
    <3> QED
      BY <2>10, <2>11, <2>12, <3>1, FollowLeaderFacts
  <2>14. Orderly(g)
    BY <2>9, <2>13, PoolsKeepOrder
  <2>15. Housed(h, g)
    BY <2>9, <2>13, HousedTwice
  <2>16. AllianceSet(h, g, p, Null)
    <3>1. rec.alliance = Null
      BY <1>4, <1>8 DEF PartyRec
    <3> QED
      BY <1>2, <2>3, <2>6, <2>13, <3>1 DEF AllianceSet, PartyIs, PoolsOnly
  <2>17. /\ \A b \in AlliancePtrs : b # a => g.alliance[b] = h.alliance[b]
         /\ g.alliance[a].list = rest
         /\ IF olda.main = p THEN rest # <<>> /\ g.alliance[a].main = Head(rest)
            ELSE g.alliance[a].main = olda.main
    BY <2>5, <2>6, <2>13 DEF AllianceIs, PoolsOnly
  <2>18. \A x \in Chars : x \notin ToSet(old.members) => g.PTreasurePool[x] = h.PTreasurePool[x]
    BY <2>6, <2>13 DEF SamePools
  <2>19. g.broken \/ ~h.broken
    BY <2>6, <2>13
  <2>20. g.broken \/ Withdrawn(h, g, a, p)
    BY <1>2, <1>3, <1>5, <2>1, <2>13, <2>16, <2>17, <2>18, <2>19 DEF Withdrawn
  <2> QED
    BY <2>6, <2>13, <2>14, <2>15, <2>20 DEF PoolsOnly
<1> QED
  BY <1>13, <1>14

\* The parties behind the first have been removed, the last one first, and the
\* first is told that there is no alliance any more.
Dissolved(h, g, a, n) ==
    LET list == h.alliance[a].list
    IN  \E h1, h2 :
           /\ n # 1 /\ Orderly(h1) /\ Orderly(h2)
           /\ IF n = 3 THEN list[3] \in PartyPtrs /\ Withdrawn(h, h1, a, list[3]) ELSE h1 = h
           /\ list[2] \in PartyPtrs /\ Withdrawn(h1, h2, a, list[2])
           /\ Housed(h, h1) /\ Housed(h1, h2)
           /\ SamePools(h2, g) /\ AllianceSet(h2, g, list[1], Null)
           /\ \A b \in AlliancePtrs : b # a => g.alliance[b] = h2.alliance[b]
           /\ g.alliance[a] = NoAlliance

LEMMA DissolveAllianceFacts ==
    ASSUME NEW h, Orderly(h), NEW a \in AlliancePtrs, Len(h.alliance[a].list) # 0,
           NEW g, g = DissolveAlliance(h, a)
    PROVE  /\ Orderly(g) /\ Housed(h, g) /\ g.PParty = h.PParty
           /\ g.broken \/ Dissolved(h, g, a, Len(h.alliance[a].list))
<1>1. h \in HeapType /\ Ready(h)
  BY OrderlyType
<1>2. PICK list : list = h.alliance[a].list
  OBVIOUS
<1>3. list \in Seq(PartyPtrs)
  BY <1>1, <1>2 DEF HeapType
<1>4. PICK n \in Nat : n = Len(list) /\ DOMAIN list = 1 .. n /\ n # 0
  BY <1>2, <1>3
<1>5. PICK wrong \in BOOLEAN : wrong = (n = 1 \/ \E q \in ToSet(list) : h.party[q] = NoParty)
  OBVIOUS
<1>6. PICK h1 : h1 = IF n = 3 THEN RemoveParty(h, a, list[3]) ELSE h
  OBVIOUS
<1>7. PICK h2 : h2 = RemoveParty(h1, a, list[2])
  OBVIOUS
<1>8. g = IF wrong THEN [h EXCEPT !.broken = TRUE]
          ELSE IF h2.broken THEN h2
          ELSE [h2 EXCEPT !.party[list[1]].alliance = Null, !.alliance[a] = NoAlliance]
  BY <1>2, <1>4, <1>5, <1>6, <1>7 DEF DissolveAlliance
<1>9. CASE wrong
  BY <1>8, <1>9, BrokenKeepsOrder
<1>10. CASE ~wrong
  <2>1. list[1] \in PartyPtrs /\ list[2] \in PartyPtrs /\ (n = 3 => list[3] \in PartyPtrs)
    <3>1. n \in Nat /\ n # 0 /\ n # 1
      BY <1>4, <1>5, <1>10
    <3>2. 1 \in 1 .. n /\ 2 \in 1 .. n /\ (n = 3 => 3 \in 1 .. n)
      BY <3>1
    <3> QED
      BY <1>3, <1>4, <3>2
  <2>2. /\ Orderly(h1) /\ Housed(h, h1) /\ h1.PParty = h.PParty
        /\ IF n = 3 THEN h1.broken \/ Withdrawn(h, h1, a, list[3]) ELSE h1 = h
    <3>1. CASE n = 3
      BY <1>6, <2>1, <3>1, RemovePartyFacts
    <3>2. CASE n # 3
      BY <1>1, <1>6, <3>2 DEF Housed, Ready
    <3> QED
      BY <3>1, <3>2
  <2>3. /\ Orderly(h2) /\ Housed(h1, h2) /\ h2.PParty = h1.PParty
        /\ h2.broken \/ Withdrawn(h1, h2, a, list[2])
    BY <1>7, <2>1, <2>2, RemovePartyFacts
  <2>4. Housed(h, h2) /\ h2.PParty = h.PParty /\ h2 \in HeapType
    BY <2>2, <2>3, HousedTwice, OrderlyType
  <2>5. CASE h2.broken
    BY <1>8, <1>10, <2>3, <2>4, <2>5
  <2>6. CASE ~h2.broken
    <3>1. PICK p \in PartyPtrs : p = list[1]
      BY <2>1
    <3>2. PICK old : old = h2.party[p]
      OBVIOUS
    <3>3. PICK rec : rec = [old EXCEPT !.alliance = Null]
      OBVIOUS
    <3>4. /\ rec \in PartyRec /\ rec.members = old.members /\ rec.leader = old.leader
          /\ old = NoParty => rec = NoParty
      <4>1. old \in PartyRec
        BY <2>4, <3>2 DEF HeapType, PartyRec
      <4>2. rec \in PartyRec /\ rec.members = old.members /\ rec.leader = old.leader
        BY <3>3, <4>1 DEF PartyRec
      <4>3. ASSUME old = NoParty PROVE rec = NoParty
        BY <3>3, <4>3 DEF NoParty
      <4> QED
        BY <4>2, <4>3
    <3>5. g = [h2 EXCEPT !.party[p] = rec, !.alliance[a] = NoAlliance]
      BY <1>8, <1>10, <2>6, <3>1, <3>2, <3>3
    <3>6. /\ g \in HeapType /\ SamePools(h2, g) /\ PartyIs(h2, g, p, rec)
          /\ AllianceIs(h2, g, a, NoAlliance) /\ g.PParty = h2.PParty /\ g.partyid = h2.partyid
      <4>1. g.party = [h2.party EXCEPT ![p] = rec] /\ h2.party \in [PartyPtrs -> PartyRec]
        BY <2>4, <3>5 DEF HeapType, PartyRec
      <4>2. g.party \in [PartyPtrs -> PartyRec] /\ PartyIs(h2, g, p, rec)
        BY <3>1, <3>4, <4>1 DEF PartyIs
      <4>3. /\ g.alliance = [h2.alliance EXCEPT ![a] = NoAlliance]
            /\ h2.alliance \in [AlliancePtrs -> AllianceRec]
        BY <2>4, <3>5 DEF HeapType, AllianceRec
      <4>4. NoAlliance \in AllianceRec
        BY EmptySeq DEF NoAlliance, AllianceRec
      <4>5. g.alliance \in [AlliancePtrs -> AllianceRec] /\ AllianceIs(h2, g, a, NoAlliance)
        BY <4>3, <4>4 DEF AllianceIs
      <4>6. SamePools(h2, g) /\ g.PParty = h2.PParty /\ g.partyid = h2.partyid
        BY <2>4, <3>5 DEF HeapType, SamePools
      <4>7. g \in HeapType
        BY <2>4, <3>5, <4>2, <4>5 DEF HeapType, PartyRec, AllianceRec
      <4> QED
        BY <4>2, <4>5, <4>6, <4>7
    <3>7. SameParties(h2, g)
      BY <3>2, <3>4, <3>6 DEF SameParties, PartyIs
    <3>8. MainListed(g)
      BY <2>3, <3>6 DEF Orderly, MainListed, AllianceIs, NoAlliance
    <3>9. Orderly(g) /\ Housed(h2, g)
      BY <2>3, <3>6, <3>7, <3>8, AlliancesKeepOrder
    <3>10. Withdrawn(h1, h2, a, list[2]) /\ ~h1.broken
      BY <2>3, <2>6 DEF Withdrawn
    <3>11. IF n = 3 THEN list[3] \in PartyPtrs /\ Withdrawn(h, h1, a, list[3]) ELSE h1 = h
      BY <2>1, <2>2, <3>10
    <3>12. AllianceSet(h2, g, list[1], Null)
      <4>1. rec.alliance = Null
        <5>1. old \in PartyRec
          BY <2>4, <3>2 DEF HeapType, PartyRec
        <5> QED
          BY <3>3, <5>1 DEF PartyRec
      <4> QED
        BY <3>1, <3>2, <3>4, <3>6, <4>1 DEF AllianceSet, PartyIs
    <3>13. /\ \A b \in AlliancePtrs : b # a => g.alliance[b] = h2.alliance[b]
           /\ g.alliance[a] = NoAlliance
      BY <3>6 DEF AllianceIs
    <3>14. SamePools(h2, g) /\ list[2] \in PartyPtrs /\ n # 1
      BY <1>5, <1>10, <2>1, <3>6
    <3>15. Dissolved(h, g, a, n)
      BY <1>2, <2>2, <2>3, <3>10, <3>11, <3>12, <3>13, <3>14 DEF Dissolved
    <3> QED
      BY <1>2, <1>4, <2>4, <3>6, <3>9, <3>15, HousedTwice
  <2> QED
    BY <2>5, <2>6
<1> QED
  BY <1>9, <1>10

-----------------------------------------------------------------------------
(* The inductive invariant and the theorems.                               *)

\* Whoever has arrived has a pool, but for the mog houses.
Pooled(there, z, h) ==
    \A c \in Chars : there[c] /\ z[c] \notin Houses => h.PTreasurePool[c] # Null

\* What the methods keep, that every pool of a treasure zone has been paid for by
\* an arrival, and that a character in the world has a pool.
PartiesInv ==
    /\ TypeOK
    /\ Orderly(heap)
    /\ Cardinality(ZonePools(heap)) <= visits
    /\ \A c \in Chars : InvitePending[c] # c
    /\ ~heap.broken => Pooled(arrived, zone, heap)

\* Every list is empty.
LEMMA FreshHolds ==
    ASSUME NEW where \in [Chars -> Zones], Fresh(where, 0, 0)
    PROVE  PartiesInv
<1>1. /\ zone = where /\ arrived = [c \in Chars |-> FALSE]
      /\ InvitePending = [c \in Chars |-> Nobody] /\ invites = 0 /\ visits = 0
      /\ heap = [party |-> [p \in PartyPtrs |-> NoParty],
                 alliance |-> [a \in AlliancePtrs |-> NoAlliance],
                 pool |-> [p \in PoolPtrs |-> NoPool],
                 PParty |-> [c \in Chars |-> Null],
                 PTreasurePool |-> [c \in Chars |-> Null],
                 partyid |-> [c \in Chars |-> Nobody],
                 broken |-> FALSE]
  BY DEF Fresh
<1>2. /\ heap.party = [p \in PartyPtrs |-> NoParty]
      /\ heap.alliance = [a \in AlliancePtrs |-> NoAlliance]
      /\ heap.pool = [p \in PoolPtrs |-> NoPool]
      /\ heap.PParty = [c \in Chars |-> Null]
      /\ heap.PTreasurePool = [c \in Chars |-> Null]
      /\ heap.partyid = [c \in Chars |-> Nobody]
      /\ heap.broken = FALSE
  BY <1>1
<1>3. \A x : x \notin ToSet(<<>>)
  BY DEF ToSet
<1>4. heap \in HeapType
  <2>1. heap.party \in [PartyPtrs -> PartyRec]
    BY <1>2, EmptySeq DEF NoParty, PartyRec
  <2>2. heap.alliance \in [AlliancePtrs -> AllianceRec]
    BY <1>2, EmptySeq DEF NoAlliance, AllianceRec
  <2>3. heap.pool \in [PoolPtrs -> PoolRec]
    BY <1>2, EmptySeq DEF NoPool, PoolRec
  <2>4. /\ heap.PParty \in [Chars -> PartyPtrs \cup {Null}]
        /\ heap.PTreasurePool \in [Chars -> PoolPtrs \cup {Null}]
        /\ heap.partyid \in [Chars -> Chars \cup {Nobody}] /\ heap.broken \in BOOLEAN
    BY <1>2
  <2> QED
    BY <1>1, <2>1, <2>2, <2>3, <2>4 DEF HeapType, PartyRec, AllianceRec, PoolRec
<1>5. TypeOK
  BY <1>1, <1>4, PartiesAssumption DEF TypeOK
<1>6. PoolBooks(heap) /\ ZonePools(heap) = {}
  BY <1>2, <1>3 DEF PoolBooks, ZonePools, NoPool
<1>7. Cardinality(ZonePools(heap)) = 0 /\ 0 \in Nat
  BY <1>6, FS_EmptySet
<1>8. Ready(heap)
  BY <1>4, <1>6, <1>7, PartiesAssumption DEF Ready
<1>9. Listed(heap)
  BY <1>2, <1>3, PointersDiffer DEF Listed, NoParty
<1>10. LivesLed(heap) /\ Sessions(heap) /\ MainListed(heap)
  BY <1>2 DEF LivesLed, Sessions, MainListed, NoAlliance
<1>11. \A c \in Chars : InvitePending[c] # c
  BY <1>1, PartiesAssumption
<1>12. Pooled(arrived, zone, heap)
  BY <1>1 DEF Pooled
<1> QED
  BY <1>1, <1>2, <1>5, <1>8, <1>9, <1>10, <1>7, <1>11, <1>12 DEF PartiesInv, Orderly

\* A character that takes or leaves a pool.
LEMMA PoolMoveKeepsOrder ==
    ASSUME NEW h, Orderly(h), NEW g \in HeapType, PoolBooks(g), PoolsOnly(h, g),
           Cardinality(ZonePools(g)) <= MaxVisits
    PROVE  Orderly(g)
BY DEF Orderly, Ready, PoolsOnly, Listed, LivesLed, Led, Sessions, MainListed, PartyOf

LEMMA FewerZonePools ==
    ASSUME NEW h, NEW g, ZonePools(g) \subseteq ZonePools(h),
           NEW n \in Nat, Cardinality(ZonePools(h)) <= n
    PROVE  Cardinality(ZonePools(g)) <= n
BY ZonePoolsFinite, FS_Subset

\* The packets that move nobody between zones: it is enough that the method they
\* call keeps the lists in order and takes nobody's pool away.
LEMMA MethodKeeps ==
    ASSUME PartiesInv, ~heap.broken, Orderly(heap'), Housed(heap, heap'),
           UNCHANGED <<zone, arrived, visits>>, invites' \in 0 .. MaxInvites,
           InvitePending' \in [Chars -> Chars \cup {Nobody}],
           \A x \in Chars : InvitePending'[x] # x
    PROVE  PartiesInv'
<1>1. TypeOK'
  BY DEF PartiesInv, TypeOK, Housed
<1>2. Cardinality(ZonePools(heap')) <= visits'
  <2>1. visits \in Nat /\ Cardinality(ZonePools(heap)) <= visits
    BY PartiesAssumption DEF PartiesInv, TypeOK
  <2> QED
    BY <2>1, FewerZonePools DEF Housed
<1>3. Pooled(arrived', zone', heap')
  BY DEF PartiesInv, Pooled, Housed
<1> QED
  BY <1>1, <1>2, <1>3 DEF PartiesInv

\* An answer to an invitation forgets it.
LEMMA Answered ==
    ASSUME PartiesInv, NEW c \in Chars,
           InvitePending' = [InvitePending EXCEPT ![c] = Nobody] \/ InvitePending' = InvitePending
    PROVE  /\ InvitePending' \in [Chars -> Chars \cup {Nobody}]
           /\ \A x \in Chars : InvitePending'[x] # x
BY PartiesAssumption DEF PartiesInv, TypeOK

LEMMA InviteKeeps ==
    ASSUME PartiesInv, NEW a \in Chars, NEW b \in Chars, Invite(a, b)
    PROVE  PartiesInv'
<1>1. /\ ~heap.broken /\ heap' = heap /\ UNCHANGED <<zone, arrived, visits>>
      /\ invites < MaxInvites /\ invites' = invites + 1 /\ a # b
      /\ InvitePending' = [InvitePending EXCEPT ![b] = a]
  BY DEF Invite, InWorld
<1>2. invites' \in 0 .. MaxInvites
  BY <1>1, PartiesAssumption DEF PartiesInv, TypeOK
<1>3. /\ InvitePending' \in [Chars -> Chars \cup {Nobody}]
      /\ \A x \in Chars : InvitePending'[x] # x
  BY <1>1 DEF PartiesInv, TypeOK
<1>4. Orderly(heap') /\ Housed(heap, heap')
  BY <1>1 DEF PartiesInv, Orderly, Ready, Housed
<1> QED
  BY <1>1, <1>2, <1>3, <1>4, MethodKeeps

LEMMA DeclineKeeps ==
    ASSUME PartiesInv, NEW c \in Chars, Decline(c)
    PROVE  PartiesInv'
<1>1. /\ ~heap.broken /\ heap' = heap /\ UNCHANGED <<zone, arrived, visits, invites>>
      /\ InvitePending' = [InvitePending EXCEPT ![c] = Nobody]
  BY DEF Decline, InWorld
<1>2. invites' \in 0 .. MaxInvites
  BY <1>1 DEF PartiesInv, TypeOK
<1>3. Orderly(heap') /\ Housed(heap, heap')
  BY <1>1 DEF PartiesInv, Orderly, Ready, Housed
<1> QED
  BY <1>1, <1>2, <1>3, Answered, MethodKeeps

\* A leader's party exists, and so does every character's.
LEMMA LeadersParty ==
    ASSUME NEW h, Orderly(h), NEW c \in Chars, Leads(h, c)
    PROVE  h.PParty[c] \in PartyPtrs /\ h.party[h.PParty[c]] # NoParty
BY OrderlyType, MembersParty DEF Leads, HeapType

LEMMA AllyFacts ==
    ASSUME NEW h, Orderly(h), NEW a \in AlliancePtrs \cup {Null}, NEW q \in PartyPtrs,
           NEW p \in PartyPtrs, h.party[p] # NoParty, h.party[q] # NoParty
    PROVE  /\ a # Null => Orderly(AddParty(h, a, p)) /\ Housed(h, AddParty(h, a, p))
           /\ FreeAlliancePtrs(h) # {} =>
                \A h1 : h1 = NewAlliance(h, q) =>
                    \A b : b = h1.party[q].alliance =>
                        Orderly(AddParty(h1, b, p)) /\ Housed(h, AddParty(h1, b, p))
<1>1. ASSUME a # Null PROVE Orderly(AddParty(h, a, p)) /\ Housed(h, AddParty(h, a, p))
  BY <1>1, AddPartyFacts
<1>2. ASSUME FreeAlliancePtrs(h) # {}, NEW h1, h1 = NewAlliance(h, q),
             NEW b, b = h1.party[q].alliance
      PROVE  Orderly(AddParty(h1, b, p)) /\ Housed(h, AddParty(h1, b, p))
  <2>1. Orderly(h1) /\ Housed(h, h1) /\ h1.PParty = h.PParty /\ b \in AlliancePtrs
    BY <1>2, NewAllianceFacts
  <2>2. h1.party[p] # NoParty
    <3>1. PICK c \in Chars : h.PParty[c] = p
      BY RowsOfParty
    <3> QED
      BY <2>1, <3>1, MembersParty
  <2> QED
    BY <2>1, <2>2, AddPartyFacts, HousedTwice
<1> QED
  BY <1>1, <1>2

LEMMA AllyKeeps ==
    ASSUME PartiesInv, ~heap.broken, NEW c \in Chars, NEW inviter \in Chars,
           Leads(heap, c), Leads(heap, inviter), Ally(c, inviter)
    PROVE  /\ Orderly(heap') /\ Housed(heap, heap')
           /\ \/ InvitePending' = [InvitePending EXCEPT ![c] = Nobody]
              \/ InvitePending' = InvitePending
<1>1. Orderly(heap) /\ heap \in HeapType
  BY OrderlyType DEF PartiesInv
<1>2. PICK p \in PartyPtrs : p = heap.PParty[c] /\ heap.party[p] # NoParty
  BY <1>1, LeadersParty
<1>3. PICK q \in PartyPtrs : q = heap.PParty[inviter] /\ heap.party[q] # NoParty
  BY <1>1, LeadersParty
<1>4. PICK a \in AlliancePtrs \cup {Null} : a = heap.party[q].alliance
  BY <1>1 DEF HeapType
<1>5. CASE heap' = [heap EXCEPT !.broken = TRUE] /\ UNCHANGED InvitePending
  BY <1>1, <1>5, BrokenKeepsOrder
<1>6. CASE UNCHANGED <<heap, InvitePending>>
  BY <1>1, <1>6 DEF Orderly, Ready, Housed
<1>7. CASE /\ InvitePending' = [InvitePending EXCEPT ![c] = Nobody]
           /\ a # Null /\ heap' = AddParty(heap, a, p)
  BY <1>1, <1>2, <1>3, <1>7, AllyFacts
<1>8. CASE /\ InvitePending' = [InvitePending EXCEPT ![c] = Nobody]
           /\ FreeAlliancePtrs(heap) # {}
           /\ heap' = LET h == NewAlliance(heap, q)
                      IN  AddParty(h, PartyOf(h, inviter).alliance, h.PParty[c])
  <2>1. PICK h1 : h1 = NewAlliance(heap, q)
    OBVIOUS
  <2>2. h1.PParty = heap.PParty
    BY <1>1, <1>3, <1>8, <2>1, NewAllianceFacts
  <2>3. PICK b : b = h1.party[q].alliance
    OBVIOUS
  <2>4. heap' = AddParty(h1, b, p)
    BY <1>2, <1>3, <1>8, <2>1, <2>2, <2>3 DEF PartyOf
  <2>5. Orderly(AddParty(h1, b, p)) /\ Housed(heap, AddParty(h1, b, p))
    BY <1>1, <1>2, <1>3, <1>4, <1>8, <2>1, <2>3, AllyFacts
  <2> QED
    BY <1>8, <2>4, <2>5
<1> QED
  BY <1>2, <1>3, <1>4, <1>5, <1>6, <1>7, <1>8 DEF Ally, PartyOf

\* The inviter founds a party if it has none; it is not the character itself.
LEMMA JoinPartyKeeps ==
    ASSUME PartiesInv, ~heap.broken, NEW c \in Chars, NEW inviter \in Chars, c # inviter,
           heap.PParty[c] = Null, JoinParty(c, inviter)
    PROVE  /\ Orderly(heap') /\ Housed(heap, heap')
           /\ InvitePending' = [InvitePending EXCEPT ![c] = Nobody]
<1>1. Orderly(heap) /\ heap \in HeapType /\ Ready(heap)
  BY OrderlyType DEF PartiesInv
<1>2. PICK h : h = IF heap.PParty[inviter] = Null THEN NewParty(heap, inviter) ELSE heap
  OBVIOUS
<1>3. PICK p : p = h.PParty[inviter]
  OBVIOUS
<1>4. /\ heap.PParty[inviter] = Null => FreePartyPtrs(heap) # {}
      /\ heap' = IF h.party[p].leader = inviter /\ Len(h.party[p].members) < PartySize
                 THEN AddMember(h, p, c) ELSE h
      /\ InvitePending' = [InvitePending EXCEPT ![c] = Nobody]
  BY <1>2, <1>3 DEF JoinParty
<1>5. Orderly(h) /\ Housed(heap, h) /\ h.PParty[inviter] # Null /\ h.PParty[c] = Null
  <2>1. CASE heap.PParty[inviter] = Null
    <3>1. /\ Orderly(h) /\ Housed(heap, h) /\ h.PParty[inviter] # Null
          /\ OthersStay(heap, h, inviter)
      BY <1>1, <1>2, <1>4, <2>1, NewPartyFacts
    <3> QED
      BY <3>1 DEF OthersStay
  <2>2. CASE heap.PParty[inviter] # Null
    BY <1>1, <1>2, <2>2 DEF Housed, Ready
  <2> QED
    BY <2>1, <2>2
<1>6. CASE ~(h.party[p].leader = inviter /\ Len(h.party[p].members) < PartySize)
  BY <1>4, <1>5, <1>6
<1>7. CASE h.party[p].leader = inviter /\ Len(h.party[p].members) < PartySize
  <2>1. h \in HeapType /\ p \in PartyPtrs
    BY <1>3, <1>5, OrderlyType DEF HeapType
  <2>2. h.party[p].leader \in ToSet(h.party[p].members)
    BY <1>3, <1>5, <2>1, MembersParty DEF Led
  <2>3. Joinable(h, p, c)
    BY <1>5, <1>7, <2>2 DEF Joinable, Orderly, LivesLed
  <2>4. Orderly(heap') /\ Housed(h, heap')
    BY <1>4, <1>7, <2>1, <2>3, AddMemberFacts
  <2> QED
    BY <1>4, <1>5, <2>4, HousedTwice
<1> QED
  BY <1>6, <1>7

LEMMA AcceptKeeps ==
    ASSUME PartiesInv, NEW c \in Chars, Accept(c)
    PROVE  PartiesInv'
<1>1. PICK inviter : inviter = InvitePending[c]
  OBVIOUS
<1>2. inviter \in Chars /\ c # inviter
  BY <1>1 DEF Accept, PartiesInv, TypeOK
<1>3. ~heap.broken /\ UNCHANGED <<zone, arrived, visits, invites>>
  BY DEF Accept, InWorld
<1>4. invites' \in 0 .. MaxInvites
  BY <1>3 DEF PartiesInv, TypeOK
<1>5. /\ Orderly(heap') /\ Housed(heap, heap')
      /\ \/ InvitePending' = [InvitePending EXCEPT ![c] = Nobody]
         \/ InvitePending' = InvitePending
  <2>1. CASE Leads(heap, c) /\ Leads(heap, inviter)
    <3>1. Ally(c, inviter)
      BY <1>1, <2>1 DEF Accept
    <3> QED
      BY <1>2, <1>3, <2>1, <3>1, AllyKeeps
  <2>2. CASE ~(Leads(heap, c) /\ Leads(heap, inviter)) /\ heap.PParty[c] = Null
    <3>1. JoinParty(c, inviter)
      BY <1>1, <2>2 DEF Accept
    <3> QED
      BY <1>2, <1>3, <2>2, <3>1, JoinPartyKeeps
  <2>3. CASE ~(Leads(heap, c) /\ Leads(heap, inviter)) /\ heap.PParty[c] # Null
    <3>1. InvitePending' = [InvitePending EXCEPT ![c] = Nobody] /\ heap' = heap
      BY <1>1, <2>3 DEF Accept
    <3> QED
      BY <3>1 DEF PartiesInv, Orderly, Ready, Housed
  <2> QED
    BY <2>1, <2>2, <2>3
<1> QED
  BY <1>3, <1>4, <1>5, Answered, MethodKeeps

\* The other packets leave the invitations alone.
LEMMA QuietlyKeeps ==
    ASSUME PartiesInv, ~heap.broken, Orderly(heap'), Housed(heap, heap'),
           UNCHANGED <<zone, arrived, InvitePending, invites, visits>>
    PROVE  PartiesInv'
<1>1. invites' \in 0 .. MaxInvites /\ InvitePending' \in [Chars -> Chars \cup {Nobody}]
      /\ \A x \in Chars : InvitePending'[x] # x
  BY DEF PartiesInv, TypeOK
<1> QED
  BY <1>1, MethodKeeps

LEMMA LeaveKeeps ==
    ASSUME PartiesInv, NEW c \in Chars, Leave(c)
    PROVE  PartiesInv'
<1>1. Orderly(heap) /\ heap \in HeapType
  BY OrderlyType DEF PartiesInv
<1>2. /\ ~heap.broken /\ UNCHANGED <<zone, arrived, InvitePending, invites, visits>>
      /\ heap.PParty[c] # Null
  BY DEF Leave, InWorld
<1>3. PICK p \in PartyPtrs : p = heap.PParty[c]
  BY <1>1, <1>2 DEF HeapType
<1>4. PICK a : a = heap.party[p].alliance
  OBVIOUS
<1>5. \/ heap' = RemoveMember(heap, c)
      \/ a # Null /\ Len(heap.alliance[a].list) = 2 /\ heap' = DissolveAlliance(heap, a)
      \/ a # Null /\ heap' = RemoveParty(heap, a, p)
  BY <1>2, <1>3, <1>4 DEF Leave, Allied, AllianceOf, PartyOf
<1>6. a # Null => a \in AlliancePtrs
  BY <1>1, <1>3, <1>4 DEF HeapType
<1>7. Orderly(heap') /\ Housed(heap, heap')
  <2>1. CASE heap' = RemoveMember(heap, c)
    BY <1>1, <1>2, <2>1, RemoveMemberFacts
  <2>2. CASE a # Null /\ Len(heap.alliance[a].list) = 2 /\ heap' = DissolveAlliance(heap, a)
    <3>1. a \in AlliancePtrs /\ Len(heap.alliance[a].list) # 0
      BY <1>6, <2>2
    <3> QED
      BY <1>1, <2>2, <3>1, DissolveAllianceFacts
  <2>3. CASE a # Null /\ heap' = RemoveParty(heap, a, p)
    BY <1>1, <1>3, <1>6, <2>3, RemovePartyFacts
  <2> QED
    BY <1>5, <2>1, <2>2, <2>3
<1> QED
  BY <1>2, <1>7, QuietlyKeeps

\* An alliance has a main party only as long as it has a list.
LEMMA DisbandKeeps ==
    ASSUME PartiesInv, NEW c \in Chars, Disband(c)
    PROVE  PartiesInv'
<1>1. Orderly(heap) /\ heap \in HeapType
  BY OrderlyType DEF PartiesInv
<1>2. /\ ~heap.broken /\ UNCHANGED <<zone, arrived, InvitePending, invites, visits>>
      /\ Leads(heap, c)
  BY DEF Disband, InWorld
<1>3. PICK p \in PartyPtrs : p = heap.PParty[c] /\ heap.party[p] # NoParty
  BY <1>1, <1>2, LeadersParty
<1>4. PICK a : a = heap.party[p].alliance
  OBVIOUS
<1>5. \/ heap' = DisbandParty(heap, p)
      \/ a # Null /\ heap.alliance[a].main = p /\ heap' = DissolveAlliance(heap, a)
  BY <1>2, <1>3, <1>4 DEF Disband, Allied, AllianceOf, PartyOf
<1>6. Orderly(heap') /\ Housed(heap, heap')
  <2>1. CASE heap' = DisbandParty(heap, p)
    BY <1>1, <1>3, <2>1, DisbandPartyFacts
  <2>2. CASE a # Null /\ heap.alliance[a].main = p /\ heap' = DissolveAlliance(heap, a)
    <3>1. a \in AlliancePtrs
      BY <1>1, <1>3, <1>4, <2>2 DEF HeapType
    <3>2. p \in ToSet(heap.alliance[a].list)
      BY <1>1, <1>3, <2>2, <3>1, PointersDiffer DEF Orderly, MainListed
    <3>3. heap.alliance[a].list \in Seq(PartyPtrs)
      BY <1>1, <3>1 DEF HeapType
    <3>4. Len(heap.alliance[a].list) # 0
      BY <3>2, <3>3 DEF ToSet
    <3> QED
      BY <1>1, <2>2, <3>1, <3>4, DissolveAllianceFacts
  <2> QED
    BY <1>5, <2>1, <2>2
<1> QED
  BY <1>2, <1>6, QuietlyKeeps

LEMMA KickKeeps ==
    ASSUME PartiesInv, NEW c \in Chars, NEW b \in Chars, Kick(c, b)
    PROVE  PartiesInv'
<1>1. Orderly(heap)
  BY DEF PartiesInv
<1>2. /\ ~heap.broken /\ UNCHANGED <<zone, arrived, InvitePending, invites, visits>>
      /\ heap.PParty[b] # Null /\ heap' = RemoveMember(heap, b)
  BY DEF Kick, InWorld, Leads
<1> QED
  BY <1>1, <1>2, RemoveMemberFacts, QuietlyKeeps

LEMMA PromoteKeeps ==
    ASSUME PartiesInv, NEW c \in Chars, NEW b \in Chars, Promote(c, b)
    PROVE  PartiesInv'
<1>1. Orderly(heap) /\ heap \in HeapType
  BY OrderlyType DEF PartiesInv
<1>2. /\ ~heap.broken /\ UNCHANGED <<zone, arrived, InvitePending, invites, visits>>
      /\ heap.PParty[b] # Null
      /\ heap' = ReloadParty(SetLeader(heap, heap.PParty[b], b), heap.PParty[b])
  BY DEF Promote, InWorld, Leads
<1>3. PICK p \in PartyPtrs : p = heap.PParty[b]
  BY <1>1, <1>2 DEF HeapType
<1>4. PICK h1 : h1 = SetLeader(heap, p, b)
  OBVIOUS
<1>5. Orderly(h1) /\ Housed(heap, h1)
  BY <1>1, <1>3, <1>4, SetLeaderFacts
<1>6. heap' \in HeapType /\ SamePools(h1, heap') /\ PoolsOnly(h1, heap')
  BY <1>2, <1>3, <1>4, <1>5, ReloadPartyFacts, OrderlyType
<1>7. Housed(h1, heap')
  BY <1>5, <1>6, SameIsHoused, OrderlyType
<1>8. Orderly(heap') /\ Housed(heap, heap')
  BY <1>5, <1>6, <1>7, PoolsKeepOrder, HousedTwice
<1> QED
  BY <1>2, <1>8, QuietlyKeeps

\* Zoning out: the pool is left, the parties and the alliances are not told.
LEMMA ZoneOutKeeps ==
    ASSUME PartiesInv, NEW c \in Chars, NEW z \in Zones, ZoneOut(c, z)
    PROVE  PartiesInv'
<1>1. Orderly(heap) /\ heap \in HeapType /\ PoolBooks(heap) /\ Ready(heap)
  BY OrderlyType DEF PartiesInv
<1>2. /\ zone' = [zone EXCEPT ![c] = z] /\ arrived' = [arrived EXCEPT ![c] = FALSE]
      /\ InvitePending' = [InvitePending EXCEPT ![c] = Nobody]
      /\ heap' = LeavePool(heap, c) /\ UNCHANGED <<invites, visits>> /\ ~heap.broken
  BY DEF ZoneOut, InWorld
<1>3. /\ heap' \in HeapType /\ PoolBooks(heap') /\ PoolsOnly(heap, heap')
      /\ ZonePools(heap') \subseteq ZonePools(heap) /\ OthersKeep(heap, heap', c)
  BY <1>1, <1>2, LeavePoolFacts
<1>4. visits \in Nat /\ visits <= MaxVisits /\ Cardinality(ZonePools(heap)) <= visits
  BY PartiesAssumption DEF PartiesInv, TypeOK
<1>5. Cardinality(ZonePools(heap')) <= visits
  BY <1>3, <1>4, FewerZonePools
<1>6. Orderly(heap')
  <2>1. Cardinality(ZonePools(heap')) <= MaxVisits
    BY <1>4, <1>5, ZonePoolsFinite, PartiesAssumption
  <2> QED
    BY <1>1, <1>3, <2>1, PoolMoveKeepsOrder
<1>7. TypeOK'
  BY <1>2, <1>3 DEF PartiesInv, TypeOK
<1>8. \A x \in Chars : InvitePending'[x] # x
  BY <1>2, Answered DEF PartiesInv, TypeOK
<1>9. Pooled(arrived', zone', heap')
  BY <1>2, <1>3 DEF PartiesInv, TypeOK, Pooled, OthersKeep
<1> QED
  BY <1>2, <1>5, <1>6, <1>7, <1>8, <1>9 DEF PartiesInv

\* What a character finds when it arrives: the wreck of its old pool, a new pool of
\* a treasure zone, its party's pool, or one of its own.
LEMMA ArrivalFacts ==
    ASSUME NEW h, Orderly(h), NEW c \in Chars, h.PTreasurePool[c] = Null,
           NEW treasure \in BOOLEAN,
           NEW g, g = IF treasure THEN NewPool(h, c, TRUE)
                      ELSE IF h.PParty[c] # Null THEN ReloadTreasurePool(h, c)
                      ELSE NewPool(h, c, FALSE)
    PROVE  /\ g \in HeapType /\ PoolBooks(g) /\ PoolsOnly(h, g)
           /\ \A x \in Chars : h.PTreasurePool[x] # Null => g.PTreasurePool[x] # Null
           /\ g.broken \/ g.PTreasurePool[c] # Null
           /\ Cardinality(ZonePools(g)) <= Cardinality(ZonePools(h)) + (IF treasure THEN 1 ELSE 0)
<1>1. h \in HeapType /\ PoolBooks(h) /\ Ready(h)
  BY OrderlyType
<1>2. Loose(h, c) /\ FreePoolPtrs(h) # {}
  BY <1>1, PoolsSuffice DEF Loose
<1>3. /\ IsFiniteSet(ZonePools(h)) /\ Cardinality(ZonePools(h)) \in Nat
      /\ IsFiniteSet(ZonePools(g)) /\ Cardinality(ZonePools(g)) \in Nat
  BY ZonePoolsFinite
<1>4. PICK n \in Nat, m \in Nat : n = Cardinality(ZonePools(h)) /\ m = Cardinality(ZonePools(g))
  BY <1>3
<1>5. CASE treasure
  <2>1. /\ g \in HeapType /\ PoolBooks(g) /\ PoolsOnly(h, g) /\ g.PTreasurePool[c] \in PoolPtrs
        /\ OthersKeep(h, g, c) /\ \E p \in PoolPtrs : ZonePools(g) \subseteq ZonePools(h) \cup {p}
    BY <1>1, <1>2, <1>5, NewPoolFacts
  <2>2. PICK p \in PoolPtrs : ZonePools(g) \subseteq ZonePools(h) \cup {p}
    BY <2>1
  <2>3. PICK larger : larger = ZonePools(h) \cup {p}
    OBVIOUS
  <2>4. IsFiniteSet(larger) /\ (Cardinality(larger) = n \/ Cardinality(larger) = n + 1)
    BY <1>3, <1>4, <2>3, FS_AddElement
  <2>5. m <= Cardinality(larger)
    <3>1. ZonePools(g) \subseteq larger
      BY <2>2, <2>3
    <3> QED
      BY <1>4, <2>4, <3>1, FS_Subset
  <2>6. m <= n + 1
    BY <2>4, <2>5
  <2>7. Cardinality(ZonePools(g)) <= Cardinality(ZonePools(h)) + (IF treasure THEN 1 ELSE 0)
    BY <1>4, <1>5, <2>6
  <2> QED
    BY <2>1, <2>7, PointersDiffer DEF OthersKeep
<1>6. CASE ~treasure
  <2>1. /\ g \in HeapType /\ PoolBooks(g) /\ PoolsOnly(h, g)
        /\ ZonePools(g) \subseteq ZonePools(h)
        /\ \A x \in Chars : h.PTreasurePool[x] # Null => g.PTreasurePool[x] # Null
        /\ g.broken \/ g.PTreasurePool[c] # Null
    <3>1. CASE h.PParty[c] # Null
      <4>1. g = ReloadTreasurePool(h, c)
        BY <1>6, <3>1
      <4> QED
        BY <1>1, <3>1, <4>1, ReloadPoolFacts DEF Housed
    <3>2. CASE h.PParty[c] = Null
      <4>1. g = NewPool(h, c, FALSE)
        BY <1>6, <3>2
      <4>2. /\ g \in HeapType /\ PoolBooks(g) /\ PoolsOnly(h, g) /\ g.PTreasurePool[c] \in PoolPtrs
            /\ OthersKeep(h, g, c)
            /\ \E p \in PoolPtrs : ZonePools(g) \subseteq ZonePools(h) \cup (IF FALSE THEN {p} ELSE {})
        BY <1>1, <1>2, <4>1, NewPoolFacts
      <4>3. ZonePools(g) \subseteq ZonePools(h)
        BY <4>2
      <4> QED
        BY <4>2, <4>3, PointersDiffer DEF OthersKeep
    <3> QED
      BY <3>1, <3>2
  <2>2. m <= n
    BY <1>3, <1>4, <2>1, FS_Subset
  <2>3. Cardinality(ZonePools(g)) <= Cardinality(ZonePools(h)) + (IF treasure THEN 1 ELSE 0)
    <3>1. m <= n + (IF treasure THEN 1 ELSE 0)
      BY <1>6, <2>2
    <3> QED
      BY <1>4, <3>1
  <2> QED
    BY <2>1, <2>3
<1> QED
  BY <1>5, <1>6

LEMMA ZoneInKeeps ==
    ASSUME PartiesInv, NEW c \in Chars, ZoneIn(c)
    PROVE  PartiesInv'
<1>1. Orderly(heap) /\ heap \in HeapType /\ PoolBooks(heap) /\ Ready(heap)
  BY OrderlyType DEF PartiesInv
<1>2. PICK treasure \in BOOLEAN : treasure <=> zone[c] \in TreasureZones
  <2>1. CASE zone[c] \in TreasureZones
    <3>1. TRUE <=> zone[c] \in TreasureZones
      BY <2>1
    <3> QED
      BY <3>1
  <2>2. CASE zone[c] \notin TreasureZones
    <3>1. FALSE <=> zone[c] \in TreasureZones
      BY <2>2
    <3> QED
      BY <3>1
  <2> QED
    BY <2>1, <2>2
<1>3. /\ visits' = IF treasure THEN visits + 1 ELSE visits
      /\ visits' <= MaxVisits /\ arrived' = [arrived EXCEPT ![c] = TRUE] /\ ~heap.broken
      /\ UNCHANGED <<zone, InvitePending, invites>>
  BY <1>2 DEF ZoneIn, Away
<1>4. visits \in Nat /\ visits <= MaxVisits /\ Cardinality(ZonePools(heap)) <= visits
  BY PartiesAssumption DEF PartiesInv, TypeOK
<1>5. Cardinality(ZonePools(heap)) \in Nat /\ Cardinality(ZonePools(heap')) \in Nat
  BY ZonePoolsFinite
<1>6. /\ heap' \in HeapType /\ Orderly(heap') /\ Cardinality(ZonePools(heap')) <= visits'
      /\ ~heap'.broken => Pooled(arrived', zone', heap')
  <2>0. CASE zone[c] \in Houses
    <3>1. heap' = heap
      BY <2>0 DEF ZoneIn, IncreaseZoneCounter
    <3>2. Cardinality(ZonePools(heap')) <= visits'
      BY <1>3, <1>4, <1>5, <3>1
    <3>3. Pooled(arrived', zone', heap')
      BY <1>3, <2>0, <3>1 DEF PartiesInv, TypeOK, Pooled
    <3> QED
      BY <1>1, <3>1, <3>2, <3>3
  <2>1. CASE zone[c] \notin Houses /\ heap.PTreasurePool[c] # Null
    <3>1. heap' = [heap EXCEPT !.broken = TRUE]
      BY <2>1 DEF ZoneIn, IncreaseZoneCounter
    <3>2. Orderly(heap') /\ Housed(heap, heap') /\ heap'.broken
      BY <1>1, <3>1, BrokenKeepsOrder
    <3>3. Cardinality(ZonePools(heap')) <= visits
      BY <1>4, <3>2, FewerZonePools DEF Housed
    <3> QED
      BY <1>3, <1>4, <1>5, <3>2, <3>3 DEF Housed
  <2>2. CASE zone[c] \notin Houses /\ heap.PTreasurePool[c] = Null
    <3>1. heap' = IF treasure THEN NewPool(heap, c, TRUE)
                  ELSE IF heap.PParty[c] # Null THEN ReloadTreasurePool(heap, c)
                  ELSE NewPool(heap, c, FALSE)
      BY <1>2, <2>2 DEF ZoneIn, IncreaseZoneCounter
    <3>2. /\ heap' \in HeapType /\ PoolBooks(heap') /\ PoolsOnly(heap, heap')
          /\ \A x \in Chars : heap.PTreasurePool[x] # Null => heap'.PTreasurePool[x] # Null
          /\ heap'.broken \/ heap'.PTreasurePool[c] # Null
          /\ Cardinality(ZonePools(heap'))
                <= Cardinality(ZonePools(heap)) + (IF treasure THEN 1 ELSE 0)
      <4>1. PICK h, g : h = heap /\ g = heap'
        OBVIOUS
      <4>2. g = IF treasure THEN NewPool(h, c, TRUE)
                ELSE IF h.PParty[c] # Null THEN ReloadTreasurePool(h, c)
                ELSE NewPool(h, c, FALSE)
        BY <3>1, <4>1
      <4>3. Orderly(h) /\ h.PTreasurePool[c] = Null
        BY <1>1, <2>2, <4>1
      <4>4. /\ g \in HeapType /\ PoolBooks(g) /\ PoolsOnly(h, g)
            /\ \A x \in Chars : h.PTreasurePool[x] # Null => g.PTreasurePool[x] # Null
            /\ g.broken \/ g.PTreasurePool[c] # Null
            /\ Cardinality(ZonePools(g)) <= Cardinality(ZonePools(h)) + (IF treasure THEN 1 ELSE 0)
        BY <4>2, <4>3, ArrivalFacts
      <4> QED
        BY <4>1, <4>4
    <3>3. Cardinality(ZonePools(heap')) <= visits' /\ visits' \in Nat
      BY <1>3, <1>4, <1>5, <3>2
    <3>4. Cardinality(ZonePools(heap')) <= MaxVisits
      BY <1>3, <1>5, <3>3, PartiesAssumption
    <3>5. Orderly(heap')
      BY <1>1, <3>2, <3>4, PoolMoveKeepsOrder
    <3>6. ~heap'.broken => Pooled(arrived', zone', heap')
      BY <1>3, <3>2 DEF PartiesInv, TypeOK, Pooled
    <3> QED
      BY <3>2, <3>3, <3>5, <3>6
  <2> QED
    BY <2>0, <2>1, <2>2
<1>7. visits' \in 0 .. MaxVisits
  BY <1>3, <1>4, PartiesAssumption
<1>8. TypeOK'
  BY <1>3, <1>6, <1>7 DEF PartiesInv, TypeOK
<1> QED
  BY <1>3, <1>6, <1>8 DEF PartiesInv

LEMMA LogoutKeeps ==
    ASSUME PartiesInv, NEW c \in Chars, Logout(c)
    PROVE  PartiesInv'
<1>1. Orderly(heap) /\ heap \in HeapType
  BY OrderlyType DEF PartiesInv
<1>2. /\ ~heap.broken /\ ~arrived[c] /\ UNCHANGED <<zone, arrived, InvitePending, invites, visits>>
      /\ heap.PParty[c] # Null
  BY DEF Logout, Away
<1>3. PICK p \in PartyPtrs : p = heap.PParty[c]
  BY <1>1, <1>2 DEF HeapType
<1>4. PICK a : a = heap.party[p].alliance
  OBVIOUS
<1>5. PICK h1 : /\ \/ h1 = heap
                   \/ a # Null /\ Len(heap.alliance[a].list) = 2 /\ h1 = DissolveAlliance(heap, a)
                   \/ a # Null /\ h1 = RemoveParty(heap, a, p)
                /\ heap' = LeavePool(IF h1.broken THEN h1 ELSE RemoveMember(h1, c), c)
  <2>1. PICK h1 : h1 = IF Allied(heap, c) /\ Leads(heap, c) /\ Len(PartyOf(heap, c).members) = 1
                       THEN CASE Len(AllianceOf(heap, c).list) = 2 -> DissolveAlliance(heap, a)
                              [] Len(AllianceOf(heap, c).list) = 3 -> RemoveParty(heap, a, p)
                              [] OTHER -> heap
                       ELSE heap
    OBVIOUS
  <2>2. heap' = LeavePool(IF h1.broken THEN h1 ELSE RemoveMember(h1, c), c)
    <3>1. PartyOf(heap, c).alliance = a
      BY <1>3, <1>4 DEF PartyOf
    <3> QED
      BY <1>3, <2>1, <3>1 DEF Logout
  <2>3. \/ h1 = heap
        \/ a # Null /\ Len(heap.alliance[a].list) = 2 /\ h1 = DissolveAlliance(heap, a)
        \/ a # Null /\ h1 = RemoveParty(heap, a, p)
    <3>1. CASE ~Allied(heap, c) \/ Len(AllianceOf(heap, c).list) \notin {2, 3}
      BY <2>1, <3>1
    <3>2. CASE Allied(heap, c) /\ Len(AllianceOf(heap, c).list) = 2
      <4>1. h1 = heap \/ h1 = DissolveAlliance(heap, a)
        BY <2>1, <3>2
      <4> QED
        BY <1>3, <1>4, <3>2, <4>1 DEF Allied, AllianceOf, PartyOf
    <3>3. CASE Allied(heap, c) /\ Len(AllianceOf(heap, c).list) = 3
      <4>1. h1 = heap \/ h1 = RemoveParty(heap, a, p)
        BY <2>1, <3>3
      <4> QED
        BY <1>3, <1>4, <3>3, <4>1 DEF Allied, AllianceOf, PartyOf
    <3> QED
      BY <3>1, <3>2, <3>3
  <2> QED
    BY <2>2, <2>3
<1>6. PICK h2 : h2 = IF h1.broken THEN h1 ELSE RemoveMember(h1, c)
  OBVIOUS
<1>7. Orderly(h1) /\ Housed(heap, h1) /\ h1.PParty = heap.PParty
  <2>1. a # Null => a \in AlliancePtrs
    BY <1>1, <1>3, <1>4 DEF HeapType
  <2>2. CASE h1 = heap
    BY <1>1, <2>2 DEF Orderly, Ready, Housed
  <2>3. CASE a # Null /\ Len(heap.alliance[a].list) = 2 /\ h1 = DissolveAlliance(heap, a)
    <3>1. a \in AlliancePtrs /\ Len(heap.alliance[a].list) # 0
      BY <2>1, <2>3
    <3> QED
      BY <1>1, <2>3, <3>1, DissolveAllianceFacts
  <2>4. CASE a # Null /\ h1 = RemoveParty(heap, a, p)
    BY <1>1, <1>3, <2>1, <2>4, RemovePartyFacts
  <2> QED
    BY <1>5, <2>2, <2>3, <2>4
<1>8. Orderly(h2) /\ Housed(heap, h2)
  <2>1. CASE h1.broken
    BY <1>6, <1>7, <2>1
  <2>2. CASE ~h1.broken
    <3>1. Orderly(h2) /\ Housed(h1, h2)
      BY <1>2, <1>6, <1>7, <2>2, RemoveMemberFacts
    <3> QED
      BY <1>7, <3>1, HousedTwice
  <2> QED
    BY <2>1, <2>2
<1>9. /\ heap' \in HeapType /\ PoolBooks(heap') /\ PoolsOnly(h2, heap')
      /\ ZonePools(heap') \subseteq ZonePools(h2) /\ OthersKeep(h2, heap', c)
  BY <1>5, <1>6, <1>8, LeavePoolFacts, OrderlyType
<1>10. visits \in Nat /\ visits <= MaxVisits /\ Cardinality(ZonePools(heap)) <= visits
  BY PartiesAssumption DEF PartiesInv, TypeOK
<1>11. Cardinality(ZonePools(heap')) <= visits'
  <2>1. ZonePools(heap') \subseteq ZonePools(heap)
    BY <1>8, <1>9 DEF Housed
  <2> QED
    BY <1>2, <1>10, <2>1, FewerZonePools
<1>12. Orderly(heap')
  <2>1. Cardinality(ZonePools(heap')) <= MaxVisits
    BY <1>2, <1>10, <1>11, ZonePoolsFinite, PartiesAssumption
  <2> QED
    BY <1>8, <1>9, <2>1, PoolMoveKeepsOrder
<1>13. TypeOK'
  BY <1>2, <1>9 DEF PartiesInv, TypeOK
<1>14. Pooled(arrived', zone', heap')
  BY <1>2, <1>8, <1>9 DEF PartiesInv, Pooled, Housed, OthersKeep
<1> QED
  BY <1>2, <1>11, <1>12, <1>13, <1>14 DEF PartiesInv

LEMMA StepKeeps ==
    ASSUME PartiesInv, [Next]_vars
    PROVE  PartiesInv'
<1>1. ASSUME NEW c \in Chars, NEW b \in Chars, Invite(c, b) \/ Kick(c, b) \/ Promote(c, b)
      PROVE  PartiesInv'
  BY <1>1, InviteKeeps, KickKeeps, PromoteKeeps
<1>2. ASSUME NEW c \in Chars, Accept(c) \/ Decline(c) \/ Leave(c) \/ Disband(c)
      PROVE  PartiesInv'
  BY <1>2, AcceptKeeps, DeclineKeeps, LeaveKeeps, DisbandKeeps
<1>3. ASSUME NEW c \in Chars, NEW z \in Zones, ZoneOut(c, z)
      PROVE  PartiesInv'
  BY <1>3, ZoneOutKeeps
<1>4. ASSUME NEW c \in Chars, ZoneIn(c) \/ Logout(c)
      PROVE  PartiesInv'
  BY <1>4, ZoneInKeeps, LogoutKeeps
<1>5. CASE UNCHANGED vars
  BY <1>5 DEF vars, PartiesInv, TypeOK
<1> QED
  BY <1>1, <1>2, <1>3, <1>4, <1>5 DEF Next

\* Every state the program reaches satisfies the inductive invariant.
THEOREM PartiesInvariant == Spec => []PartiesInv
<1>1. Init => PartiesInv
  BY FreshHolds DEF Init
<1>2. PartiesInv /\ [Next]_vars => PartiesInv'
  BY StepKeeps
<1> QED
  BY <1>1, <1>2, PTL DEF Spec

\* No sequence of packets, zone changes and log-outs makes a pointer, a list or a
\* counter of the heap leave its type.
THEOREM PartiesTypeCorrect == Spec => []TypeOK
<1>1. PartiesInv => TypeOK
  BY DEF PartiesInv
<1> QED
  BY <1>1, PartiesInvariant, PTL

\* PParty and the lists of the parties agree, every party is led by one of its
\* members and none is overfull, even after memory that was freed has been used.
THEOREM PartiesStayAgreed == Spec => []PartiesAgree
<1>1. ASSUME PartiesInv PROVE PartiesAgree
  <2>1. Orderly(heap) /\ heap \in HeapType
    BY <1>1, OrderlyType DEF PartiesInv
  <2>2. \A p \in PartyPtrs : heap.party[p].members \in Seq(Chars)
    BY <2>1 DEF HeapType
  <2>3. ASSUME NEW c \in Chars, NEW p \in PartyPtrs, heap.PParty[c] = p
        PROVE  Once(heap.party[p].members, c)
    <3>1. Single(heap.party[p].members, c)
      BY <2>1, <2>3 DEF Orderly, Listed
    <3> QED
      BY <2>2, <3>1, OnceIsSingle
  <2>4. ASSUME NEW c \in Chars, NEW p \in PartyPtrs, heap.PParty[c] # p
        PROVE  c \notin ToSet(heap.party[p].members)
    BY <2>1, <2>4 DEF Orderly, Listed
  <2>5. ASSUME NEW p \in PartyPtrs, heap.party[p] # NoParty
        PROVE  /\ heap.party[p].leader \in ToSet(heap.party[p].members)
               /\ Len(heap.party[p].members) <= PartySize
    BY <2>1, <2>5 DEF Orderly, LivesLed, Led
  <2> QED
    BY <2>3, <2>4, <2>5 DEF PartiesAgree
<1> QED
  BY <1>1, PartiesInvariant, PTL

\* The rows of accounts_sessions name the leader of every member of a party and
\* nobody for everybody else.
THEOREM SessionsStayAgreed == Spec => []SessionsAgree
<1>1. PartiesInv => SessionsAgree
  BY DEF PartiesInv, Orderly, Sessions, SessionsAgree
<1> QED
  BY <1>1, PartiesInvariant, PTL

\* Every character in the world is in one pool that is not a zone's, or in a
\* zone's, and PTreasurePool says in which; but in a mog house, which 0x00A enters
\* without IncreaseZoneCounter, a character may have none.
THEOREM PoolsStayAgreed == Spec => []PoolsAgree
<1>1. ASSUME PartiesInv PROVE PoolsAgree
  <2>1. heap \in HeapType /\ PoolBooks(heap)
    BY <1>1, OrderlyType DEF PartiesInv
  <2>2. \A p \in PoolPtrs : heap.pool[p].members \in Seq(Chars)
    BY <2>1 DEF HeapType
  <2>3. ASSUME ~heap.broken, NEW c \in Chars, arrived[c], zone[c] \notin Houses
        PROVE  heap.PTreasurePool[c] # Null
    BY <1>1, <2>3 DEF PartiesInv, Pooled
  <2>4. ASSUME NEW c \in Chars, NEW p \in PoolPtrs, heap.PTreasurePool[c] = p
        PROVE  IF heap.pool[p].ofZone THEN c \in ToSet(heap.pool[p].members)
               ELSE Once(heap.pool[p].members, c)
    <3>1. /\ c \in ToSet(heap.pool[p].members)
          /\ ~heap.pool[p].ofZone => Single(heap.pool[p].members, c)
      BY <2>1, <2>4, PointersDiffer DEF PoolBooks
    <3> QED
      BY <2>2, <3>1, OnceIsSingle
  <2>5. ASSUME NEW c \in Chars, NEW p \in PoolPtrs \ {heap.PTreasurePool[c]},
               c \in ToSet(heap.pool[p].members)
        PROVE  heap.pool[p].ofZone
    <3>1. heap.pool[p].ofZone \in BOOLEAN
      BY <2>1 DEF HeapType
    <3> QED
      BY <2>1, <2>5, <3>1 DEF PoolBooks
  <2>6. \A c \in Chars : heap.PTreasurePool[c] # Null => heap.PTreasurePool[c] \in PoolPtrs
    BY <2>1 DEF HeapType
  <2> QED
    BY <2>3, <2>4, <2>5, <2>6 DEF PoolsAgree
<1> QED
  BY <1>1, PartiesInvariant, PTL

-----------------------------------------------------------------------------
(* The members of a party share a pool.  z is where the characters are and P *)
(* the pools they have: a method is asked what it does to those who have    *)
(* not just been put somewhere else.                                        *)

\* x and y are in one zone, where they ought to share a pool, and have two.
Apart(z, P, x, y) == /\ P[x] # Null /\ P[y] # Null /\ P[x] # P[y]
                     /\ z[x] = z[y] /\ z[x] \notin TreasureZones

Together(z, P, h, p, q) ==
    \A x, y \in Chars : h.PParty[x] = p /\ h.PParty[y] = q => ~Apart(z, P, x, y)

\* The party at position i of an alliance that does not know of it: it has been
\* disbanded or is in another one.
Stray(h, a, i) == h.party[h.alliance[a].list[i]].alliance # a

\* An alliance with two of them cannot lose them without using freed memory or
\* failing an assertion, and can take no party.
HopelessAt(h, a) == \E i, j \in DOMAIN h.alliance[a].list :
                       i < j /\ Stray(h, a, i) /\ Stray(h, a, j)
Hopeless(h) == \E a \in AlliancePtrs : HopelessAt(h, a)

Solo(z, P, h) ==
    \A p \in PartyPtrs : h.party[p].alliance = Null => Together(z, P, h, p, p)

\* ReloadTreasurePool looks at the parties in the order of the list, so those
\* before the first stray share their pools.
GroupAt(z, P, h, a) ==
    \A i, j \in DOMAIN h.alliance[a].list :
        i <= j /\ (\A k \in 1 .. j : ~Stray(h, a, k))
            => Together(z, P, h, h.alliance[a].list[i], h.alliance[a].list[j])
Groups(z, P, h) == \A a \in AlliancePtrs : GroupAt(z, P, h, a)

Gathered(z, P, h) == Hopeless(h) \/ (Solo(z, P, h) /\ Groups(z, P, h))

\* Pools of zones are for those in that zone.
Zoned(z, h) == \A x \in Chars : InZonePool(h, x) => z[x] \in TreasureZones

\* A party is in the list of the alliance it points at, the lead party is the
\* first, and no alliance is overfull.
Known(h) == \A p \in PartyPtrs :
    h.party[p].alliance # Null => p \in ToSet(h.alliance[h.party[p].alliance].list)
Headed(h) == \A a \in AlliancePtrs :
    h.alliance[a].list # <<>> => h.alliance[a].main = h.alliance[a].list[1]
Sized(h) == \A a \in AlliancePtrs : Len(h.alliance[a].list) <= AllianceSize

Registered(h) == Known(h) /\ Headed(h) /\ Sized(h)

Shared(z, h) == Registered(h) /\ Zoned(z, h) /\ Gathered(z, h.PTreasurePool, h)

LEMMA AllianceLists ==
    ASSUME NEW h \in HeapType, NEW a \in AlliancePtrs
    PROVE  /\ h.alliance[a].list \in Seq(PartyPtrs)
           /\ DOMAIN h.alliance[a].list = 1 .. Len(h.alliance[a].list)
           /\ Len(h.alliance[a].list) \in Nat
           /\ \A i \in DOMAIN h.alliance[a].list : /\ h.alliance[a].list[i] \in PartyPtrs
                                                   /\ h.alliance[a].list[i] # Null
<1>1. h.alliance[a].list \in Seq(PartyPtrs)
  BY DEF HeapType
<1> QED
  BY <1>1, PointersDiffer

\* A method that leaves the lists alone and brings nobody apart; w is where the
\* characters are after it.
SameLists(h, g) ==
    /\ \A a \in AlliancePtrs : g.alliance[a].list = h.alliance[a].list
    /\ \A p \in PartyPtrs : g.party[p].alliance = h.party[p].alliance

LEMMA ListsGathered ==
    ASSUME NEW h \in HeapType, NEW g, SameLists(h, g), NEW z, NEW w, NEW P, NEW Q,
           \A x, y \in Chars :
              g.PParty[x] # Null /\ g.PParty[y] # Null /\ Apart(w, Q, x, y)
                 => /\ h.PParty[x] = g.PParty[x] /\ h.PParty[y] = g.PParty[y]
                    /\ Apart(z, P, x, y),
           Gathered(z, P, h)
    PROVE  Gathered(w, Q, g)
<1>1. \A p, q \in PartyPtrs : Together(z, P, h, p, q) => Together(w, Q, g, p, q)
  BY PointersDiffer DEF Together
<1>2. \A a \in AlliancePtrs : \A i \in DOMAIN h.alliance[a].list :
         Stray(g, a, i) <=> Stray(h, a, i)
  BY AllianceLists DEF SameLists, Stray
<1>3. ASSUME Hopeless(h) PROVE Hopeless(g)
  BY <1>2, <1>3 DEF Hopeless, HopelessAt, SameLists
<1>4. ASSUME Solo(z, P, h) PROVE Solo(w, Q, g)
  BY <1>1, <1>4 DEF Solo, SameLists
<1>5. ASSUME Groups(z, P, h) PROVE Groups(w, Q, g)
  <2> SUFFICES ASSUME NEW a \in AlliancePtrs, NEW i \in DOMAIN g.alliance[a].list,
                      NEW j \in DOMAIN g.alliance[a].list, i <= j,
                      \A k \in 1 .. j : ~Stray(g, a, k)
               PROVE  Together(w, Q, g, g.alliance[a].list[i], g.alliance[a].list[j])
    BY DEF Groups, GroupAt
  <2>1. PICK list : list = h.alliance[a].list /\ list = g.alliance[a].list
    BY DEF SameLists
  <2>2. PICK n \in Nat : DOMAIN list = 1 .. n
    BY <2>1, AllianceLists
  <2>3. \A k \in 1 .. j : k \in DOMAIN list
    BY <2>1, <2>2
  <2>4. \A k \in 1 .. j : ~Stray(h, a, k)
    BY <1>2, <2>1, <2>3
  <2>5. list[i] \in PartyPtrs /\ list[j] \in PartyPtrs
    BY <2>1, AllianceLists
  <2>6. Together(z, P, h, list[i], list[j])
    BY <1>5, <2>1, <2>4 DEF Groups, GroupAt
  <2> QED
    BY <1>1, <2>1, <2>5, <2>6
<1> QED
  BY <1>3, <1>4, <1>5 DEF Gathered

LEMMA StillGathered ==
    ASSUME NEW h \in HeapType, NEW g, SameAlliances(h, g), NEW z, NEW w, NEW P, NEW Q,
           \A x, y \in Chars :
              g.PParty[x] # Null /\ g.PParty[y] # Null /\ Apart(w, Q, x, y)
                 => /\ h.PParty[x] = g.PParty[x] /\ h.PParty[y] = g.PParty[y]
                    /\ Apart(z, P, x, y),
           Gathered(z, P, h)
    PROVE  Gathered(w, Q, g)
<1>1. SameLists(h, g)
  BY DEF SameAlliances, SameLists
<1> QED
  BY <1>1, ListsGathered

LEMMA StillRegistered ==
    ASSUME NEW h, NEW g, SameAlliances(h, g), Registered(h)
    PROVE  Registered(g)
BY DEF SameAlliances, Registered, Known, Headed, Sized

\* Who has the pool it had is in a zone's pool only if it was.
LEMMA SamePointer ==
    ASSUME NEW h, NEW g, Housed(h, g), NEW x \in Chars,
           g.PTreasurePool[x] = h.PTreasurePool[x], InZonePool(g, x)
    PROVE  InZonePool(h, x)
<1>1. PICK p : p = g.PTreasurePool[x]
  OBVIOUS
<1>2. p \in PoolPtrs /\ g.pool[p].ofZone
  BY <1>1 DEF InZonePool, Housed, HeapType
<1>3. x \in ToSet(g.pool[p].members)
  BY <1>1, <1>2, PointersDiffer DEF Housed, PoolBooks
<1>4. g.pool[p].members # <<>>
  BY <1>3 DEF ToSet
<1>5. p \in ZonePools(h)
  BY <1>2, <1>4 DEF Housed, ZonePools
<1> QED
  BY <1>1, <1>2, <1>5, PointersDiffer DEF InZonePool, ZonePools

\* The members of the first m parties of the list.
Among(h, list, m) ==
    {x \in Chars : \E i \in 1 .. m : x \in ToSet(h.party[list[i]].members)}

\* ReloadTreasurePool: what c does when nobody of the first m parties is near,
\* and that everybody near there is in the pool that it joins otherwise.
LEMMA ReloadShares ==
    ASSUME NEW h, Ready(h), Zoned(zone, h), NEW c \in Chars, h.PParty[c] # Null,
           NEW g, g = ReloadTreasurePool(h, c), ~g.broken
    PROVE  /\ ~h.broken /\ Zoned(zone, g) /\ OthersPoint(h, g, c)
           /\ \A m \in 0 .. Len(Fellows(h, c)) :
                 (\A x, y \in Among(h, Fellows(h, c), m) \ {c} :
                     zone[x] = zone[c] => ~Apart(zone, h.PTreasurePool, x, y))
                 => \A x \in Among(h, Fellows(h, c), m) : ~Apart(zone, g.PTreasurePool, x, c)
<1>1. h \in HeapType /\ PoolBooks(h)
  BY DEF Ready
<1>2. PICK all : all = Fellows(h, c)
  OBVIOUS
<1>3. PICK stop : stop = {i \in DOMAIN all : h.party[all[i]] = NoParty \/ Near(h, c, all[i]) # {}}
  OBVIOUS
<1>4. PICK party : party = all[Min(stop)]
  OBVIOUS
<1>5. PICK first : first = h.party[party].members[Min(Near(h, c, party))]
  OBVIOUS
<1>6. g = IF InZonePool(h, c) THEN h
          ELSE IF stop # {} /\ h.party[party] = NoParty THEN [h EXCEPT !.broken = TRUE]
          ELSE IF stop # {}
               THEN JoinPool(LeavePool(h, c), c, h.PTreasurePool[first])
          ELSE IF h.PTreasurePool[c] = Null THEN NewPool(h, c, FALSE)
          ELSE h
  BY <1>2, <1>3, <1>4, <1>5 DEF ReloadTreasurePool
<1>7. Housed(h, g)
  BY ReloadPoolFacts
<1>8. all \in Seq(PartyPtrs)
  <2>1. h.PParty[c] \in PartyPtrs
    BY <1>1 DEF HeapType
  <2>2. CASE Allied(h, c)
    <3>1. PartyOf(h, c).alliance \in AlliancePtrs
      BY <1>1, <2>1, <2>2 DEF HeapType, PartyOf, Allied
    <3> QED
      BY <1>1, <1>2, <2>2, <3>1, AllianceLists DEF Fellows, AllianceOf
  <2>3. CASE ~Allied(h, c)
    BY <1>2, <2>1, <2>3 DEF Fellows
  <2> QED
    BY <2>2, <2>3
<1>9. PICK n \in Nat : n = Len(all) /\ DOMAIN all = 1 .. n
  BY <1>8
<1>10. ~([h EXCEPT !.broken = TRUE] = g)
  BY <1>1 DEF HeapType
<1> DEFINE Beside(x) == x # c /\ h.PTreasurePool[x] # Null /\ zone[x] = zone[c]
<1>11. ASSUME NEW m \in 0 .. n, NEW x \in Among(h, all, m), Beside(x)
       PROVE  \E i \in stop : i <= m
  <2>1. PICK i \in 1 .. m : x \in ToSet(h.party[all[i]].members)
    BY DEF Among
  <2>2. i \in DOMAIN all
    BY <1>9
  <2>3. PICK l \in DOMAIN h.party[all[i]].members : h.party[all[i]].members[l] = x
    BY <2>1 DEF ToSet
  <2>4. l \in Near(h, c, all[i])
    BY <1>11, <2>3 DEF Near
  <2>5. i \in stop
    BY <1>3, <2>2, <2>4
  <2> QED
    BY <2>1, <2>5
<1>12. CASE InZonePool(h, c)
  <2>1. g = h /\ zone[c] \in TreasureZones
    BY <1>6, <1>12 DEF Zoned
  <2> QED
    BY <2>1 DEF Apart, OthersPoint
<1>13. CASE ~InZonePool(h, c) /\ stop # {}
  <2>1. g = JoinPool(LeavePool(h, c), c, h.PTreasurePool[first]) /\ h.party[party] # NoParty
    BY <1>6, <1>10, <1>13
  <2>2. stop \in SUBSET Nat
    BY <1>3, <1>9
  <2>3. PICK o : o = Min(stop) /\ o \in stop /\ \A i \in stop : o <= i
    BY <1>13, <2>2, MinOfNaturals
  <2>4. o \in 1 .. n /\ party = all[o] /\ party \in PartyPtrs /\ Near(h, c, party) # {}
    <3>1. o \in DOMAIN all /\ (h.party[all[o]] = NoParty \/ Near(h, c, all[o]) # {})
      BY <1>3, <2>3
    <3>2. party = all[o]
      BY <1>4, <2>3
    <3>3. all[o] \in PartyPtrs
      BY <1>8, <3>1
    <3> QED
      BY <1>9, <2>1, <3>1, <3>2, <3>3
  <2>5. h.party[party].members \in Seq(Chars)
    BY <1>1, <2>4 DEF HeapType
  <2>6. PICK l : l = Min(Near(h, c, party)) /\ l \in Near(h, c, party)
    <3>1. Near(h, c, party) \in SUBSET Nat
      BY <2>5 DEF Near
    <3> QED
      BY <2>4, <3>1, MinOfNaturals
  <2>7. first \in Chars /\ first \in ToSet(h.party[party].members) /\ Beside(first)
    <3>1. l \in DOMAIN h.party[party].members /\ first = h.party[party].members[l]
      BY <1>5, <2>6 DEF Near
    <3>2. Beside(h.party[party].members[l])
      BY <2>6 DEF Near
    <3> QED
      BY <2>5, <3>1, <3>2 DEF ToSet
  <2>8. PICK q \in PoolPtrs : q = h.PTreasurePool[first]
    BY <1>1, <2>7 DEF HeapType
  <2>9. PICK k : k = LeavePool(h, c)
    OBVIOUS
  <2>10. /\ k \in HeapType /\ PoolBooks(k) /\ k.broken = h.broken
         /\ k.PTreasurePool[c] = Null /\ OthersKeep(h, k, c)
    BY <1>1, <2>9, LeavePoolFacts
  <2>11. Loose(k, c) /\ g = JoinPool(k, c, q)
    BY <2>1, <2>8, <2>9, <2>10 DEF Loose
  <2>12. /\ g.broken = k.broken /\ g.PTreasurePool[c] = q /\ OthersKeep(k, g, c)
         /\ InZonePool(g, c) <=> k.pool[q].ofZone
    BY <2>10, <2>11, JoinPoolFacts
  <2>13. OthersPoint(h, g, c) /\ \A x \in Chars : x # c => (InZonePool(g, x) <=> InZonePool(h, x))
    BY <2>10, <2>12 DEF OthersPoint, OthersKeep
  <2>14. InZonePool(g, c) => zone[c] \in TreasureZones
    <3>1. k.PTreasurePool[first] = q
      BY <2>7, <2>8, <2>10 DEF OthersKeep
    <3>2. InZonePool(g, c) => InZonePool(k, first)
      BY <2>12, <3>1, PointersDiffer DEF InZonePool
    <3>3. InZonePool(k, first) => InZonePool(h, first)
      BY <2>7, <2>10 DEF OthersKeep
    <3> QED
      BY <2>7, <3>2, <3>3 DEF Zoned
  <2>15. Zoned(zone, g)
    BY <2>13, <2>14 DEF Zoned
  <2>16. ASSUME NEW m \in 0 .. n,
                \A x, y \in Among(h, all, m) \ {c} :
                   zone[x] = zone[c] => ~Apart(zone, h.PTreasurePool, x, y),
                NEW x \in Among(h, all, m), Apart(zone, g.PTreasurePool, x, c)
         PROVE  FALSE
    <3>1. x \in Chars /\ Beside(x)
      BY <2>13, <2>16 DEF Apart, Among, OthersPoint
    <3>2. PICK i \in stop : i <= m
      BY <1>11, <3>1
    <3>3. o \in 1 .. m
      <4>1. i \in DOMAIN all /\ o <= i
        BY <1>3, <2>3, <3>2
      <4> QED
        BY <1>9, <2>4, <3>2, <4>1
    <3>4. first \in Among(h, all, m) \ {c}
      BY <2>4, <2>7, <3>3 DEF Among
    <3>5. ~Apart(zone, h.PTreasurePool, x, first)
      BY <2>16, <3>1, <3>4
    <3> QED
      BY <2>7, <2>8, <2>12, <2>13, <2>16, <3>1, <3>5 DEF Apart, OthersPoint
  <2> QED
    BY <1>2, <1>9, <2>10, <2>12, <2>13, <2>15, <2>16
<1>14. CASE ~InZonePool(h, c) /\ stop = {}
  <2>1. ~g.broken => ~h.broken /\ OthersPoint(h, g, c) /\ ~InZonePool(g, c)
    <3>1. CASE h.PTreasurePool[c] = Null
      <4>1. g = NewPool(h, c, FALSE)
        BY <1>6, <1>14, <3>1
      <4>2. Loose(h, c)
        BY <3>1 DEF Loose
      <4>3. FreePoolPtrs(h) # {}
        BY <4>2, PoolsSuffice
      <4>4. h \in HeapType /\ PoolBooks(h)
        BY <1>1
      <4>5. /\ g.broken = h.broken /\ g.PTreasurePool[c] \in PoolPtrs
            /\ (InZonePool(g, c) <=> FALSE) /\ OthersKeep(h, g, c)
        BY <4>1, <4>2, <4>3, <4>4, NewPoolFacts
      <4> QED
        BY <4>5 DEF OthersKeep, OthersPoint
    <3>2. CASE h.PTreasurePool[c] # Null
      BY <1>6, <1>14, <3>2 DEF OthersPoint
    <3> QED
      BY <3>1, <3>2
  <2>2. Zoned(zone, g)
    <3>1. ASSUME NEW x \in Chars, InZonePool(g, x) PROVE zone[x] \in TreasureZones
      <4>1. x # c /\ g.PTreasurePool[x] = h.PTreasurePool[x]
        BY <2>1, <3>1 DEF OthersPoint
      <4>2. InZonePool(h, x)
        BY <1>7, <3>1, <4>1, SamePointer
      <4> QED
        BY <4>2 DEF Zoned
    <3> QED
      BY <3>1 DEF Zoned
  <2>3. ASSUME NEW m \in 0 .. n, NEW x \in Among(h, all, m), Apart(zone, g.PTreasurePool, x, c)
        PROVE  FALSE
    <3>1. Beside(x)
      BY <2>1, <2>3 DEF Apart, Among, OthersPoint
    <3> QED
      BY <1>11, <1>14, <3>1
  <2> QED
    BY <1>2, <1>9, <2>1, <2>2, <2>3
<1> QED
  BY <1>12, <1>13, <1>14

\* Kept positions have their ranks in order.
LEMMA RankInOrder ==
    ASSUME NEW n \in Nat, NEW keep \in SUBSET (1 .. n)
    PROVE  \A k, l \in keep : k <= l <=> Rank(keep, k) <= Rank(keep, l)
<1> DEFINE Below(k) == {j \in keep : j <= k}
<1>1. IsFiniteSet(keep)
  <2>1. IsFiniteSet(1 .. n)
    BY FS_Interval
  <2> QED
    BY <2>1, FS_Subset
<1>2. ASSUME NEW k \in keep, NEW l \in keep, k <= l
      PROVE  Rank(keep, k) <= Rank(keep, l)
  <2>1. \A j \in keep : j <= k => j <= l
    <3>1. \A j \in keep : j \in Int
      OBVIOUS
    <3> QED
      BY <1>2, <3>1
  <2>2. Below(k) \in SUBSET Below(l) /\ Below(l) \in SUBSET keep
    BY <2>1
  <2>3. Rank(keep, k) = Cardinality(Below(k)) /\ Rank(keep, l) = Cardinality(Below(l))
    BY DEF Rank
  <2> HIDE DEF Below
  <2> QED
    BY <1>1, <2>2, <2>3, FS_Subset
<1>3. \A k, l \in keep : Rank(keep, k) = Rank(keep, l) => k = l
  BY RankInto
<1>4. \A k \in keep : k \in Int /\ Rank(keep, k) \in Int
  <2>1. \A k \in keep : Rank(keep, k) \in 1 .. Cardinality(keep)
    BY RankInto
  <2>2. \A m : m \in 1 .. Cardinality(keep) => m \in Int
    OBVIOUS
  <2> QED
    BY <2>1, <2>2
<1>5. ASSUME NEW k \in keep, NEW l \in keep, Rank(keep, k) <= Rank(keep, l)
      PROVE  k <= l
  <2>1. CASE l <= k
    <3>1. Rank(keep, l) <= Rank(keep, k)
      BY <1>2, <2>1
    <3>2. Rank(keep, l) = Rank(keep, k)
      BY <1>4, <1>5, <3>1
    <3> QED
      BY <1>3, <1>4, <3>2
  <2> QED
    BY <1>4, <2>1
<1> QED
  BY <1>2, <1>5

\* What is struck from a list is the party at least once, if it is there; the
\* others stay in their order.
LEMMA StruckOrder ==
    ASSUME NEW S, NEW list \in Seq(S), NEW p, NEW rest, rest = Struck(list, p)
    PROVE  /\ Len(rest) <= Len(list) /\ (p \in ToSet(list) => Len(rest) < Len(list))
           /\ ToSet(rest) \subseteq ToSet(list)
           /\ \A i, j \in DOMAIN rest : i <= j =>
                 \E k, l \in DOMAIN list :
                    /\ k <= l /\ list[k] = rest[i] /\ list[l] = rest[j]
                    /\ \A m \in 1 .. l : list[m] = p \/ \E o \in 1 .. j : rest[o] = list[m]
           /\ \A k, l \in DOMAIN list : k < l /\ list[k] # p /\ list[l] # p =>
                 \E i, j \in DOMAIN rest : i < j /\ rest[i] = list[k] /\ rest[j] = list[l]
           /\ list # <<>> /\ list[1] # p => rest # <<>> /\ rest[1] = list[1]
<1>1. PICK n \in Nat : n = Len(list) /\ DOMAIN list = 1 .. n
  OBVIOUS
<1>2. PICK E : E = {i \in DOMAIN list : list[i] = p}
  OBVIOUS
<1>3. PICK keep : keep = DOMAIN list \ Skipping(E)
  OBVIOUS
<1>4. rest = Restricted(list, keep) /\ keep \in SUBSET DOMAIN list /\ keep \in SUBSET (1 .. n)
  BY <1>1, <1>2, <1>3 DEF Struck
<1>5. \A i \in 1 .. n : i \in keep \/ list[i] = p
  BY <1>1, <1>2, <1>3 DEF Skipping
<1>6. rest \in Seq(S)
  BY <1>4, RestrictedType
<1>7. PICK s \in Nat : s = Cardinality(keep) /\ s <= n /\ (s = n => keep = 1 .. n)
  <2>1. IsFiniteSet(1 .. n) /\ Cardinality(1 .. n) = n
    BY FS_Interval
  <2>2. IsFiniteSet(keep) /\ Cardinality(keep) <= n /\ (Cardinality(keep) = n => keep = 1 .. n)
    BY <1>4, <2>1, FS_Subset
  <2> QED
    BY <2>2, FS_CardinalityType
<1>8. /\ DOMAIN rest = 1 .. s /\ Len(rest) = s
      /\ \A i \in 1 .. s : \E k \in keep : Rank(keep, k) = i /\ rest[i] = list[k]
      /\ \A k \in keep : Rank(keep, k) \in 1 .. s /\ rest[Rank(keep, k)] = list[k]
  <2>1. /\ DOMAIN rest = 1 .. s
        /\ \A i \in 1 .. s : \E k \in keep : Rank(keep, k) = i /\ rest[i] = list[k]
        /\ \A k \in keep : Rank(keep, k) \in 1 .. s /\ rest[Rank(keep, k)] = list[k]
    BY <1>4, <1>7, RestrictedElements
  <2>2. Len(rest) = s
    BY <1>6, <1>7, <2>1
  <2> QED
    BY <2>1, <2>2
<1>9. \A k, l \in keep : k <= l <=> Rank(keep, k) <= Rank(keep, l)
  BY <1>4, RankInOrder
<1>10. \A k \in keep : k \in 1 .. n /\ k \in DOMAIN list
  BY <1>1, <1>4
<1>11. ASSUME p \in ToSet(list) PROVE Len(rest) < Len(list)
  <2>1. E # {} /\ E \in SUBSET Nat
    BY <1>1, <1>2, <1>11 DEF ToSet
  <2>2. PICK m \in E : \A x \in E : m <= x
    BY <2>1, LeastNumber
  <2>3. m \in 1 .. n /\ m - 1 \notin E
    BY <1>1, <1>2, <2>2
  <2>4. m \in Skipping(E)
    <3>1. m .. m \subseteq E
      BY <2>2, <2>3
    <3>2. (m - m) % 2 = 0 /\ m \in 1 .. m
      BY <2>3
    <3> QED
      BY <2>2, <2>3, <3>1, <3>2 DEF Skipping
  <2>5. keep # 1 .. n
    BY <1>3, <2>3, <2>4
  <2> QED
    BY <1>1, <1>7, <1>8, <2>5
<1>12. ToSet(rest) \subseteq ToSet(list)
  BY <1>8, <1>10 DEF ToSet
<1>13. ASSUME NEW i \in DOMAIN rest, NEW j \in DOMAIN rest, i <= j
       PROVE  \E k, l \in DOMAIN list :
                 /\ k <= l /\ list[k] = rest[i] /\ list[l] = rest[j]
                 /\ \A m \in 1 .. l : list[m] = p \/ \E o \in 1 .. j : rest[o] = list[m]
  <2>1. PICK k \in keep : Rank(keep, k) = i /\ rest[i] = list[k]
    BY <1>8
  <2>2. PICK l \in keep : Rank(keep, l) = j /\ rest[j] = list[l]
    BY <1>8
  <2>3. k <= l
    BY <1>9, <1>13, <2>1, <2>2
  <2>4. ASSUME NEW m \in 1 .. l, list[m] # p PROVE \E o \in 1 .. j : rest[o] = list[m]
    <3>1. m \in 1 .. n /\ m <= l
      BY <1>10
    <3>2. m \in keep
      BY <1>5, <2>4, <3>1
    <3>3. Rank(keep, m) \in 1 .. s /\ Rank(keep, m) <= j /\ rest[Rank(keep, m)] = list[m]
      BY <1>8, <1>9, <2>2, <3>1, <3>2
    <3> QED
      BY <1>8, <3>3
  <2> QED
    BY <1>10, <2>1, <2>2, <2>3, <2>4
<1>14. ASSUME NEW k \in DOMAIN list, NEW l \in DOMAIN list, k < l, list[k] # p, list[l] # p
       PROVE  \E i, j \in DOMAIN rest : i < j /\ rest[i] = list[k] /\ rest[j] = list[l]
  <2>1. k \in keep /\ l \in keep
    BY <1>1, <1>5, <1>14
  <2>2. PICK i \in 1 .. s : i = Rank(keep, k) /\ rest[i] = list[k]
    BY <1>8, <2>1
  <2>3. PICK j \in 1 .. s : j = Rank(keep, l) /\ rest[j] = list[l]
    BY <1>8, <2>1
  <2>4. ~(l <= k)
    BY <1>1, <1>14
  <2>5. ~(j <= i)
    BY <1>9, <2>1, <2>2, <2>3, <2>4
  <2> QED
    BY <1>8, <2>2, <2>3, <2>5
<1>15. ASSUME list # <<>>, list[1] # p PROVE rest # <<>> /\ rest[1] = list[1]
  <2>1. 1 \in 1 .. n
    BY <1>1, <1>15
  <2>2. 1 \in keep
    BY <1>5, <1>15, <2>1
  <2>3. PICK r \in 1 .. s : r = Rank(keep, 1) /\ rest[r] = list[1]
    BY <1>8, <2>2
  <2>4. 1 \in 1 .. s
    BY <1>7, <2>3
  <2>5. PICK k \in keep : Rank(keep, k) = 1 /\ rest[1] = list[k]
    BY <1>8, <2>4
  <2>6. 1 <= k
    BY <1>10, <2>5
  <2>7. r <= 1
    BY <1>9, <2>2, <2>3, <2>5, <2>6
  <2>8. r = 1
    BY <2>3, <2>7
  <2> QED
    BY <1>8, <2>3, <2>4, <2>8
<1> QED
  BY <1>1, <1>7, <1>8, <1>11, <1>12, <1>13, <1>14, <1>15

-----------------------------------------------------------------------------
(* What the methods of parties do to shared pools.                           *)

LEMMA ApartBothWays ==
    ASSUME NEW z, NEW P, NEW x, NEW y
    PROVE  Apart(z, P, x, y) <=> Apart(z, P, y, x)
BY DEF Apart

LEMMA AmongMembers ==
    ASSUME NEW h \in HeapType, Listed(h), NEW list \in Seq(PartyPtrs), NEW m \in 0 .. Len(list),
           NEW x \in Chars
    PROVE  x \in Among(h, list, m) <=> \E i \in 1 .. m : h.PParty[x] = list[i]
<1>1. \A i \in 1 .. m : list[i] \in PartyPtrs
  OBVIOUS
<1>2. \A p \in PartyPtrs : x \in ToSet(h.party[p].members) <=> h.PParty[x] = p
  BY DEF Listed, Single
<1> QED
  BY <1>1, <1>2 DEF Among

\* A character who has just come into the party, or into the zone, reloads its
\* pool: P leaves out the one it has.
LEMMA ReloadGathers ==
    ASSUME NEW h, Ready(h), Listed(h), Zoned(zone, h), NEW c \in Chars, h.PParty[c] # Null,
           NEW P, P[c] = Null, \A x \in Chars : x # c => P[x] = h.PTreasurePool[x],
           Gathered(zone, P, h), NEW g, g = ReloadTreasurePool(h, c), ~g.broken
    PROVE  ~h.broken /\ Zoned(zone, g) /\ Gathered(zone, g.PTreasurePool, g)
<1>1. h \in HeapType
  BY DEF Ready
<1>2. PoolsOnly(h, g)
  BY ReloadPoolFacts
<1>3. PICK Q : Q = g.PTreasurePool
  OBVIOUS
<1>4. PICK all : all = Fellows(h, c)
  OBVIOUS
<1>5. /\ ~h.broken /\ Zoned(zone, g) /\ OthersPoint(h, g, c)
      /\ \A m \in 0 .. Len(all) :
            (\A x, y \in Among(h, all, m) \ {c} :
                zone[x] = zone[c] => ~Apart(zone, h.PTreasurePool, x, y))
            => \A x \in Among(h, all, m) : ~Apart(zone, Q, x, c)
  BY <1>3, <1>4, ReloadShares
<1>6. \A x, y \in Chars : x # c /\ y # c =>
         /\ Apart(zone, Q, x, y) <=> Apart(zone, P, x, y)
         /\ Apart(zone, h.PTreasurePool, x, y) <=> Apart(zone, P, x, y)
  BY <1>3, <1>5 DEF Apart, OthersPoint
<1>7. PICK home \in PartyPtrs : home = h.PParty[c]
  BY <1>1 DEF HeapType
<1>8. SameAlliances(h, g) /\ g.PParty = h.PParty
  BY <1>2 DEF SameAlliances, PoolsOnly
<1>9. ASSUME Solo(zone, P, h) PROVE Solo(zone, Q, h)
  <2> SUFFICES ASSUME NEW p \in PartyPtrs, h.party[p].alliance = Null
               PROVE  Together(zone, Q, h, p, p)
    BY DEF Solo
  <2>1. Together(zone, P, h, p, p)
    BY <1>9 DEF Solo
  <2>2. CASE home # p
    <3>1. \A x \in Chars : h.PParty[x] = p => x # c
      BY <1>7, <2>2
    <3> QED
      BY <1>6, <2>1, <3>1 DEF Together
  <2>3. CASE home = p
    <3>1. all = <<p>>
      BY <1>4, <1>7, <2>3 DEF Fellows, Allied, PartyOf
    <3>2. all \in Seq(PartyPtrs) /\ Len(all) = 1 /\ all[1] = p
      BY <3>1
    <3>3. \A x \in Chars : x \in Among(h, all, 1) <=> h.PParty[x] = p
      <4> SUFFICES ASSUME NEW x \in Chars PROVE x \in Among(h, all, 1) <=> h.PParty[x] = p
        OBVIOUS
      <4>1. x \in Among(h, all, 1) <=> \E i \in 1 .. 1 : h.PParty[x] = all[i]
        BY <1>1, <3>2, AmongMembers
      <4> QED
        BY <3>2, <4>1
    <3>4. Among(h, all, 1) \subseteq Chars
      BY DEF Among
    <3>5. \A x, y \in Among(h, all, 1) \ {c} : ~Apart(zone, h.PTreasurePool, x, y)
      BY <1>6, <2>1, <3>3, <3>4 DEF Together
    <3>6. \A x \in Among(h, all, 1) : ~Apart(zone, Q, x, c)
      BY <1>5, <3>2, <3>5
    <3>7. ASSUME NEW x \in Chars, NEW y \in Chars, h.PParty[x] = p, h.PParty[y] = p
          PROVE  ~Apart(zone, Q, x, y)
      <4>1. CASE x # c /\ y # c
        BY <1>6, <2>1, <3>7, <4>1 DEF Together
      <4>2. CASE y = c
        BY <3>3, <3>6, <3>7, <4>2
      <4>3. CASE x = c
        BY <3>3, <3>6, <3>7, <4>3, ApartBothWays
      <4> QED
        BY <4>1, <4>2, <4>3
    <3> QED
      BY <3>7 DEF Together
  <2> QED
    BY <2>2, <2>3
<1>10. ASSUME Groups(zone, P, h) PROVE Groups(zone, Q, h)
  <2> SUFFICES ASSUME NEW a \in AlliancePtrs, NEW i \in DOMAIN h.alliance[a].list,
                      NEW j \in DOMAIN h.alliance[a].list, i <= j,
                      \A k \in 1 .. j : ~Stray(h, a, k)
               PROVE  Together(zone, Q, h, h.alliance[a].list[i], h.alliance[a].list[j])
    BY DEF Groups, GroupAt
  <2>1. PICK list : list = h.alliance[a].list
    OBVIOUS
  <2>2. list \in Seq(PartyPtrs)
    BY <1>1, <2>1, AllianceLists
  <2>3. PICK n \in Nat : n = Len(list) /\ DOMAIN list = 1 .. n
    BY <2>2
  <2>4. i \in 1 .. j /\ j \in 1 .. n /\ i \in 1 .. n
    BY <2>1, <2>3
  <2>5. \A k, l \in 1 .. j : Together(zone, P, h, list[k], list[l])
    <3> SUFFICES ASSUME NEW k \in 1 .. j, NEW l \in 1 .. j
                 PROVE  Together(zone, P, h, list[k], list[l])
      OBVIOUS
    <3>1. k \in DOMAIN h.alliance[a].list /\ l \in DOMAIN h.alliance[a].list
      BY <2>1, <2>3, <2>4
    <3>2. \A d \in 1 .. k : d \in 1 .. j
      BY <2>4
    <3>3. \A d \in 1 .. l : d \in 1 .. j
      BY <2>4
    <3>4. CASE k <= l
      BY <1>10, <2>1, <3>1, <3>3, <3>4 DEF Groups, GroupAt
    <3>5. CASE l <= k
      <4>1. Together(zone, P, h, list[l], list[k])
        BY <1>10, <2>1, <3>1, <3>2, <3>5 DEF Groups, GroupAt
      <4> QED
        BY <4>1, ApartBothWays DEF Together
    <3> QED
      BY <3>4, <3>5
  <2>6. CASE \A k \in 1 .. j : list[k] # home
    <3>1. \A x \in Chars : (\E k \in 1 .. j : h.PParty[x] = list[k]) => x # c
      BY <1>7, <2>6
    <3>2. j \in 1 .. j
      BY <2>4
    <3>3. Together(zone, P, h, list[i], list[j])
      BY <2>4, <2>5, <3>2
    <3>4. ASSUME NEW x \in Chars, NEW y \in Chars, h.PParty[x] = list[i], h.PParty[y] = list[j]
          PROVE  ~Apart(zone, Q, x, y)
      <4>1. x # c /\ y # c
        BY <2>4, <3>1, <3>2, <3>4
      <4> QED
        BY <1>6, <3>3, <3>4, <4>1 DEF Together
    <3> QED
      BY <2>1, <3>4 DEF Together
  <2>7. CASE \E k \in 1 .. j : list[k] = home
    <3>1. h.party[home].alliance = a
      <4>1. PICK k \in 1 .. j : list[k] = home
        BY <2>7
      <4> QED
        BY <2>1, <4>1 DEF Stray
    <3>2. all = list
      BY <1>4, <1>7, <2>1, <3>1, PointersDiffer DEF Fellows, Allied, AllianceOf, PartyOf
    <3>3. j \in 0 .. Len(all)
      BY <2>3, <2>4, <3>2
    <3>4. \A x \in Chars : x \in Among(h, all, j) <=> \E k \in 1 .. j : h.PParty[x] = list[k]
      BY <1>1, <2>2, <3>2, <3>3, AmongMembers
    <3>5. Among(h, all, j) \subseteq Chars
      BY DEF Among
    <3>6. \A x, y \in Among(h, all, j) \ {c} : ~Apart(zone, h.PTreasurePool, x, y)
      <4> SUFFICES ASSUME NEW x \in Among(h, all, j) \ {c}, NEW y \in Among(h, all, j) \ {c}
                   PROVE  ~Apart(zone, h.PTreasurePool, x, y)
        OBVIOUS
      <4>1. PICK k \in 1 .. j : h.PParty[x] = list[k]
        BY <3>4, <3>5
      <4>2. PICK l \in 1 .. j : h.PParty[y] = list[l]
        BY <3>4, <3>5
      <4>3. Together(zone, P, h, list[k], list[l])
        BY <2>5
      <4>4. x \in Chars /\ y \in Chars /\ x # c /\ y # c
        BY <3>5
      <4> QED
        BY <1>6, <4>1, <4>2, <4>3, <4>4 DEF Together
    <3>7. \A x \in Among(h, all, j) : ~Apart(zone, Q, x, c)
      BY <1>5, <3>3, <3>6
    <3>8. ASSUME NEW x \in Chars, NEW y \in Chars, h.PParty[x] = list[i], h.PParty[y] = list[j]
          PROVE  ~Apart(zone, Q, x, y)
      <4>1. j \in 1 .. j
        BY <2>4
      <4>2. x \in Among(h, all, j) /\ y \in Among(h, all, j)
        BY <2>4, <3>4, <3>8, <4>1
      <4>3. CASE x # c /\ y # c
        <5>1. Together(zone, P, h, list[i], list[j])
          BY <2>4, <2>5, <4>1
        <5> QED
          BY <1>6, <3>8, <4>3, <5>1 DEF Together
      <4>4. CASE y = c
        BY <3>7, <4>2, <4>4
      <4>5. CASE x = c
        BY <3>7, <4>2, <4>5, ApartBothWays
      <4> QED
        BY <4>3, <4>4, <4>5
    <3> QED
      BY <2>1, <3>8 DEF Together
  <2> QED
    BY <2>6, <2>7
<1>11. Gathered(zone, Q, h)
  BY <1>9, <1>10 DEF Gathered
<1>12. \A x, y \in Chars : g.PParty[x] = h.PParty[x] /\ g.PParty[y] = h.PParty[y]
  BY <1>8
<1>13. Gathered(zone, Q, g)
  BY <1>1, <1>8, <1>11, <1>12, StillGathered
<1> QED
  BY <1>3, <1>5, <1>13

\* AddMember: c comes from outside and reloads its pool.
LEMMA MemberShares ==
    ASSUME NEW h \in HeapType, Shared(zone, h), NEW c \in Chars, h.PParty[c] = Null,
           NEW g, Listed(g), OthersStay(h, g, c), g.PParty[c] # Null,
           NEW k, Ready(k), SamePools(h, k), SameAlliances(h, k), Reloaded(k, g, c), ~g.broken
    PROVE  Shared(zone, g)
<1>1. k \in HeapType /\ h.PTreasurePool \in [Chars -> PoolPtrs \cup {Null}]
  BY DEF Ready, HeapType
<1>2. PICK m : m = ReloadTreasurePool(k, c) /\ SamePools(m, g) /\ m.broken = g.broken
  BY DEF Reloaded
<1>3. Listed(k) /\ k.PParty = g.PParty /\ k.party = g.party /\ k.alliance = g.alliance
  BY DEF Reloaded, Listed
<1>4. Zoned(zone, k)
  BY DEF SamePools, Zoned, InZonePool, Shared
<1>5. PICK P : P = [h.PTreasurePool EXCEPT ![c] = Null]
  OBVIOUS
<1>6. P[c] = Null /\ \A x \in Chars : x # c => P[x] = h.PTreasurePool[x]
  BY <1>1, <1>5
<1>7. Gathered(zone, P, k)
  <2>1. Gathered(zone, h.PTreasurePool, h)
    BY DEF Shared
  <2>2. ASSUME NEW x \in Chars, NEW y \in Chars, Apart(zone, P, x, y)
        PROVE  /\ h.PParty[x] = k.PParty[x] /\ h.PParty[y] = k.PParty[y]
               /\ Apart(zone, h.PTreasurePool, x, y)
    <3>1. x # c /\ y # c
      BY <1>6, <2>2 DEF Apart
    <3> QED
      BY <1>3, <1>6, <2>2, <3>1 DEF Apart, OthersStay
  <2> QED
    BY <2>1, <2>2, StillGathered
<1>8. \A x \in Chars : x # c => P[x] = k.PTreasurePool[x]
  BY <1>6 DEF SamePools
<1>9. Zoned(zone, m) /\ Gathered(zone, m.PTreasurePool, m)
  BY <1>2, <1>3, <1>4, <1>6, <1>7, <1>8, ReloadGathers
<1>10. PoolsOnly(k, m) /\ m \in HeapType
  <2>1. Housed(k, m) /\ PoolsOnly(k, m)
    BY <1>2, <1>3, ReloadPoolFacts
  <2> QED
    BY <2>1 DEF Housed
<1>11. SameAlliances(m, g) /\ m.PParty = g.PParty /\ g.PTreasurePool = m.PTreasurePool
  BY <1>2, <1>3, <1>10 DEF SameAlliances, PoolsOnly, SamePools
<1>12. Gathered(zone, g.PTreasurePool, g)
  <2>1. \A x, y \in Chars : Apart(zone, g.PTreasurePool, x, y)
           => /\ m.PParty[x] = g.PParty[x] /\ m.PParty[y] = g.PParty[y]
              /\ Apart(zone, m.PTreasurePool, x, y)
    BY <1>11
  <2> QED
    BY <1>9, <1>10, <1>11, <2>1, StillGathered
<1>13. Zoned(zone, g)
  BY <1>2, <1>9 DEF SamePools, Zoned, InZonePool
<1>14. Registered(g)
  <2>1. SameAlliances(h, g)
    BY <1>3 DEF SameAlliances
  <2> QED
    BY <2>1, StillRegistered DEF Shared
<1> QED
  BY <1>12, <1>13, <1>14 DEF Shared

\* One character leaves its party or its pool, and its zone perhaps.
LEMMA LeaverShares ==
    ASSUME NEW h \in HeapType, NEW z, NEW w, Shared(z, h), NEW c \in Chars, NEW g,
           SameAlliances(h, g), OthersPoint(h, g, c), OthersStay(h, g, c), NoneEnters(h, g),
           \A x \in Chars : x # c => w[x] = z[x],
           g.PTreasurePool[c] = Null \/ (g.PParty[c] = Null /\ w[c] = z[c])
    PROVE  Shared(w, g)
<1>1. ASSUME NEW x \in Chars, InZonePool(g, x) PROVE w[x] \in TreasureZones
  <2>1. InZonePool(h, x) /\ g.PTreasurePool[x] # Null
    BY <1>1 DEF NoneEnters, InZonePool
  <2>2. w[x] = z[x]
    BY <2>1
  <2> QED
    BY <2>1, <2>2 DEF Shared, Zoned
<1>2. ASSUME NEW x \in Chars, NEW y \in Chars, g.PParty[x] # Null, g.PParty[y] # Null,
             Apart(w, g.PTreasurePool, x, y)
      PROVE  /\ h.PParty[x] = g.PParty[x] /\ h.PParty[y] = g.PParty[y]
             /\ Apart(z, h.PTreasurePool, x, y)
  <2>1. x # c /\ y # c
    BY <1>2 DEF Apart
  <2> QED
    BY <1>2, <2>1 DEF Apart, OthersPoint, OthersStay
<1>3. Gathered(z, h.PTreasurePool, h)
  BY DEF Shared
<1>4. Gathered(w, g.PTreasurePool, g)
  BY <1>2, <1>3, StillGathered
<1> QED
  BY <1>1, <1>4, StillRegistered DEF Shared, Zoned

\* Nothing moves.
LEMMA NothingMoves ==
    ASSUME NEW h \in HeapType, NEW z, Shared(z, h), NEW g,
           SameAlliances(h, g), SamePools(h, g), g.PParty = h.PParty
    PROVE  Shared(z, g)
<1>1. Gathered(z, h.PTreasurePool, h)
  BY DEF Shared
<1>2. \A x, y \in Chars : Apart(z, g.PTreasurePool, x, y)
         => /\ h.PParty[x] = g.PParty[x] /\ h.PParty[y] = g.PParty[y]
            /\ Apart(z, h.PTreasurePool, x, y)
  BY DEF SamePools
<1>3. Gathered(z, g.PTreasurePool, g)
  BY <1>1, <1>2, StillGathered
<1>4. Zoned(z, g)
  BY DEF SamePools, Zoned, InZonePool, Shared
<1> QED
  BY <1>3, <1>4, StillRegistered DEF Shared

\* The party p points at the alliance v, and nobody but its members is touched.
Rerouted(h, g, p, v) ==
    /\ \A q \in PartyPtrs : g.party[q].alliance = IF q = p THEN v ELSE h.party[q].alliance
    /\ \A x \in Chars :
          IF h.PParty[x] = p THEN g.PParty[x] \in {p, Null}
          ELSE g.PParty[x] = h.PParty[x] /\ g.PTreasurePool[x] = h.PTreasurePool[x]

\* What it means for the alliances it is not added to.
LEMMA Elsewhere ==
    ASSUME NEW h \in HeapType, NEW g, NEW p \in PartyPtrs, NEW v, Rerouted(h, g, p, v), NEW z
    PROVE  /\ \A q, r \in PartyPtrs : q # p /\ r # p /\ Together(z, h.PTreasurePool, h, q, r)
                 => Together(z, g.PTreasurePool, g, q, r)
           /\ Solo(z, h.PTreasurePool, h) =>
                 \A q \in PartyPtrs : q # p /\ g.party[q].alliance = Null
                                         => Together(z, g.PTreasurePool, g, q, q)
           /\ \A a \in AlliancePtrs : a # v /\ g.alliance[a].list = h.alliance[a].list
                 => /\ \A i \in DOMAIN h.alliance[a].list :
                          Stray(h, a, i) \/ h.alliance[a].list[i] = p => Stray(g, a, i)
                    /\ HopelessAt(h, a) => HopelessAt(g, a)
                    /\ GroupAt(z, h.PTreasurePool, h, a) => GroupAt(z, g.PTreasurePool, g, a)
<1>1. ASSUME NEW q \in PartyPtrs, NEW r \in PartyPtrs, q # p, r # p,
             Together(z, h.PTreasurePool, h, q, r)
      PROVE  Together(z, g.PTreasurePool, g, q, r)
  <2> SUFFICES ASSUME NEW x \in Chars, NEW y \in Chars, g.PParty[x] = q, g.PParty[y] = r
               PROVE  ~Apart(z, g.PTreasurePool, x, y)
    BY DEF Together
  <2>1. h.PParty[x] # p /\ h.PParty[y] # p
    BY <1>1, PointersDiffer DEF Rerouted
  <2>2. /\ h.PParty[x] = q /\ h.PParty[y] = r
        /\ g.PTreasurePool[x] = h.PTreasurePool[x] /\ g.PTreasurePool[y] = h.PTreasurePool[y]
    BY <2>1 DEF Rerouted
  <2> QED
    BY <1>1, <2>2 DEF Together, Apart
<1>2. ASSUME Solo(z, h.PTreasurePool, h), NEW q \in PartyPtrs, q # p, g.party[q].alliance = Null
      PROVE  Together(z, g.PTreasurePool, g, q, q)
  BY <1>1, <1>2 DEF Solo, Rerouted
<1>3. ASSUME NEW a \in AlliancePtrs, a # v, g.alliance[a].list = h.alliance[a].list
      PROVE  /\ \A i \in DOMAIN h.alliance[a].list :
                    Stray(h, a, i) \/ h.alliance[a].list[i] = p => Stray(g, a, i)
             /\ HopelessAt(h, a) => HopelessAt(g, a)
             /\ GroupAt(z, h.PTreasurePool, h, a) => GroupAt(z, g.PTreasurePool, g, a)
  <2>1. PICK list : list = h.alliance[a].list /\ list = g.alliance[a].list
    BY <1>3
  <2>2. list \in Seq(PartyPtrs)
    BY <2>1, AllianceLists
  <2>3. PICK n \in Nat : n = Len(list) /\ DOMAIN list = 1 .. n
    BY <2>2
  <2>4. \A i \in DOMAIN list : Stray(h, a, i) \/ list[i] = p => Stray(g, a, i)
    BY <1>3, <2>1, <2>2 DEF Stray, Rerouted
  <2>5. HopelessAt(h, a) => HopelessAt(g, a)
    BY <2>1, <2>4 DEF HopelessAt
  <2>6. ASSUME GroupAt(z, h.PTreasurePool, h, a), NEW i \in DOMAIN list, NEW j \in DOMAIN list,
               i <= j, \A k \in 1 .. j : ~Stray(g, a, k)
        PROVE  Together(z, g.PTreasurePool, g, list[i], list[j])
    <3>1. \A k \in 1 .. j : ~Stray(h, a, k) /\ list[k] # p
      BY <2>3, <2>4, <2>6
    <3>2. i \in 1 .. j /\ j \in 1 .. j
      BY <2>3, <2>6
    <3>3. Together(z, h.PTreasurePool, h, list[i], list[j])
      BY <2>1, <2>6, <3>1 DEF GroupAt
    <3> QED
      BY <1>1, <2>2, <3>1, <3>2, <3>3
  <2> QED
    BY <2>1, <2>4, <2>5, <2>6 DEF GroupAt
<1> QED
  BY <1>1, <1>2, <1>3

\* The position of p in the list of its alliance has a stray before it.
Behind(h, p, a) == \E k, i \in DOMAIN h.alliance[a].list :
                      k < i /\ h.alliance[a].list[i] = p /\ Stray(h, a, k)

\* The members of a party that is not behind a stray share a pool.
LEMMA OwnTogether ==
    ASSUME NEW h \in HeapType, NEW z, NEW P, Known(h), Solo(z, P, h), Groups(z, P, h),
           NEW p \in PartyPtrs, NEW b, b = h.party[p].alliance
    PROVE  Together(z, P, h, p, p) \/ (b \in AlliancePtrs /\ Behind(h, p, b))
<1>1. CASE b = Null
  BY <1>1 DEF Solo
<1>2. CASE b # Null
  <2>1. b \in AlliancePtrs
    BY <1>2 DEF HeapType
  <2>2. PICK list : list = h.alliance[b].list
    OBVIOUS
  <2>3. PICK i \in DOMAIN list : list[i] = p
    BY <1>2, <2>2 DEF Known, ToSet
  <2>4. DOMAIN list = 1 .. Len(list) /\ Len(list) \in Nat
    BY <2>1, <2>2, AllianceLists
  <2>5. CASE \E k \in 1 .. i : Stray(h, b, k)
    <3>1. PICK k \in 1 .. i : Stray(h, b, k)
      BY <2>5
    <3>2. k # i
      BY <2>2, <2>3, <3>1 DEF Stray
    <3>3. k \in DOMAIN list /\ k < i
      BY <2>4, <3>1, <3>2
    <3> QED
      BY <2>1, <2>2, <2>3, <3>1, <3>3 DEF Behind
  <2>6. CASE \A k \in 1 .. i : ~Stray(h, b, k)
    <3>1. i <= i
      BY <2>4
    <3> QED
      BY <2>1, <2>2, <2>3, <2>6, <3>1 DEF Groups, GroupAt
  <2> QED
    BY <2>5, <2>6
<1> QED
  BY <1>1, <1>2

\* It has two strays when such a party leaves as well.
LEMMA TwoStrays ==
    ASSUME NEW h \in HeapType, NEW g, NEW p \in PartyPtrs, NEW v, Rerouted(h, g, p, v),
           NEW a \in AlliancePtrs, a # v, g.alliance[a].list = h.alliance[a].list,
           Behind(h, p, a)
    PROVE  Hopeless(g)
<1>1. PICK z : z = zone
  OBVIOUS
<1>2. \A i \in DOMAIN h.alliance[a].list :
         Stray(h, a, i) \/ h.alliance[a].list[i] = p => Stray(g, a, i)
  BY <1>1, Elsewhere
<1> QED
  BY <1>2 DEF Behind, Hopeless, HopelessAt

LEMMA DisbandShares ==
    ASSUME NEW h, Orderly(h), NEW z, Shared(z, h), NEW p \in PartyPtrs, h.party[p] # NoParty,
           NEW g, g = DisbandParty(h, p)
    PROVE  Shared(z, g)
<1>1. h \in HeapType
  BY OrderlyType
<1>2. /\ g.alliance = h.alliance /\ PartyIs(h, g, p, NoParty) /\ NoneEnters(h, g)
      /\ \A x \in Chars : IF h.PParty[x] = p THEN g.PParty[x] = Null
            ELSE g.PParty[x] = h.PParty[x] /\ g.PTreasurePool[x] = h.PTreasurePool[x]
  BY DisbandPartyFacts
<1>3. Rerouted(h, g, p, Null)
  BY <1>2 DEF Rerouted, PartyIs, NoParty
<1>4. \A x \in Chars : g.PParty[x] # p
  BY <1>2, PointersDiffer
<1>5. Together(z, g.PTreasurePool, g, p, p)
  BY <1>4 DEF Together
<1>6. \A a \in AlliancePtrs : a # Null /\ g.alliance[a].list = h.alliance[a].list
  BY <1>2, PointersDiffer
<1>7. Hopeless(h) => Hopeless(g)
  BY <1>1, <1>3, <1>6, Elsewhere DEF Hopeless
<1>8. ASSUME Solo(z, h.PTreasurePool, h) PROVE Solo(z, g.PTreasurePool, g)
  <2>1. \A q \in PartyPtrs : q # p /\ g.party[q].alliance = Null
           => Together(z, g.PTreasurePool, g, q, q)
    BY <1>1, <1>3, <1>8, Elsewhere
  <2> QED
    BY <1>5, <2>1 DEF Solo
<1>9. ASSUME Groups(z, h.PTreasurePool, h) PROVE Groups(z, g.PTreasurePool, g)
  BY <1>1, <1>3, <1>6, <1>9, Elsewhere DEF Groups
<1>10. Registered(g)
  <2>1. \A q \in PartyPtrs : g.party[q].alliance = h.party[q].alliance \/ g.party[q].alliance = Null
    BY <1>3 DEF Rerouted
  <2> QED
    BY <1>2, <2>1 DEF Shared, Registered, Known, Headed, Sized
<1>11. Zoned(z, g)
  BY <1>2 DEF Shared, Zoned, NoneEnters
<1> QED
  BY <1>7, <1>8, <1>9, <1>10, <1>11 DEF Shared, Gathered

-----------------------------------------------------------------------------
(* What the methods of alliances do to them.                                 *)

\* removeParty: the order of the list is kept and the party gets one pool.
LEMMA RemovePartyShares ==
    ASSUME NEW h, Orderly(h), NEW z, Shared(z, h), NEW a \in AlliancePtrs, NEW p \in PartyPtrs,
           NEW g, Housed(h, g), Withdrawn(h, g, a, p)
    PROVE  Shared(z, g)
<1>1. h \in HeapType
  BY OrderlyType
<1>2. PICK all : all = h.party[p].members
  OBVIOUS
<1>3. \A x \in Chars : x \in ToSet(all) <=> h.PParty[x] = p
  BY <1>2 DEF Orderly, Listed, Single
<1>4. /\ h.party[p].alliance = a /\ AllianceSet(h, g, p, Null)
      /\ \A b \in AlliancePtrs : b # a => g.alliance[b] = h.alliance[b]
      /\ InOnePool(g, all, h.party[p].leader)
      /\ \A x \in Chars : x \notin ToSet(all) => g.PTreasurePool[x] = h.PTreasurePool[x]
  BY <1>2 DEF Withdrawn
<1>5. Rerouted(h, g, p, Null)
  BY <1>3, <1>4 DEF Rerouted, AllianceSet
<1>6. Together(z, g.PTreasurePool, g, p, p)
  <2>1. \A x \in Chars : g.PParty[x] = p => x \in ToSet(all)
    BY <1>3, <1>4 DEF AllianceSet
  <2> QED
    BY <1>4, <2>1 DEF Together, Apart, InOnePool
<1>7. Zoned(z, g)
  <2> SUFFICES ASSUME NEW x \in Chars, InZonePool(g, x) PROVE z[x] \in TreasureZones
    BY DEF Zoned
  <2>1. x \notin ToSet(all)
    BY <1>4 DEF InOnePool, InZonePool
  <2>2. g.PTreasurePool[x] = h.PTreasurePool[x]
    BY <1>4, <2>1
  <2>3. InZonePool(h, x)
    BY <2>2, SamePointer
  <2> QED
    BY <2>3 DEF Shared, Zoned
<1>8. PICK list : list = h.alliance[a].list
  OBVIOUS
<1>9. PICK rest : rest = Struck(list, p)
  OBVIOUS
<1>10. list \in Seq(PartyPtrs)
  BY <1>1, <1>8, AllianceLists
<1>11. g.alliance[a].list = rest
  BY <1>8, <1>9 DEF Withdrawn
<1>12. /\ Len(rest) <= Len(list) /\ ToSet(rest) \subseteq ToSet(list)
       /\ \A i, j \in DOMAIN rest : i <= j =>
             \E k, l \in DOMAIN list :
                /\ k <= l /\ list[k] = rest[i] /\ list[l] = rest[j]
                /\ \A m \in 1 .. l : list[m] = p \/ \E o \in 1 .. j : rest[o] = list[m]
       /\ \A k, l \in DOMAIN list : k < l /\ list[k] # p /\ list[l] # p =>
             \E i, j \in DOMAIN rest : i < j /\ rest[i] = list[k] /\ rest[j] = list[l]
       /\ list # <<>> /\ list[1] # p => rest # <<>> /\ rest[1] = list[1]
  BY <1>9, <1>10, StruckOrder
<1>13. rest \in Seq(PartyPtrs) /\ \A x \in ToSet(list) : x # p => x \in ToSet(rest)
  BY <1>9, <1>10, StruckFacts
<1>14. \A q \in PartyPtrs : q # p => g.party[q].alliance = h.party[q].alliance
  BY <1>4 DEF AllianceSet
<1>15. g.party[p].alliance # a
  BY <1>4, PointersDiffer DEF AllianceSet
<1>e. \A b \in AlliancePtrs : b # Null /\ g.alliance[b].list = h.alliance[b].list
         => (GroupAt(z, h.PTreasurePool, h, b) => GroupAt(z, g.PTreasurePool, g, b))
  BY <1>1, <1>5, Elsewhere
<1>16. ASSUME Hopeless(h) PROVE Hopeless(g)
  <2>1. PICK b \in AlliancePtrs : HopelessAt(h, b)
    BY <1>16 DEF Hopeless
  <2>2. CASE b # a
    <3>1. b # Null /\ g.alliance[b].list = h.alliance[b].list
      BY <1>4, <2>2, PointersDiffer
    <3>2. HopelessAt(g, b)
      BY <1>1, <1>5, <2>1, <3>1, Elsewhere
    <3> QED
      BY <3>2 DEF Hopeless
  <2>3. CASE b = a
    <3>1. PICK k, l \in DOMAIN list : /\ k < l
                                      /\ h.party[list[k]].alliance # a
                                      /\ h.party[list[l]].alliance # a
      BY <1>8, <2>1, <2>3 DEF HopelessAt, Stray
    <3>2. list[k] # p /\ list[l] # p /\ list[k] \in PartyPtrs /\ list[l] \in PartyPtrs
      BY <1>4, <1>10, <3>1
    <3>3. PICK i, j \in DOMAIN rest : i < j /\ rest[i] = list[k] /\ rest[j] = list[l]
      BY <1>12, <3>1, <3>2
    <3>4. g.party[rest[i]].alliance # a /\ g.party[rest[j]].alliance # a
      BY <1>14, <3>1, <3>2, <3>3
    <3> QED
      BY <1>11, <3>3, <3>4 DEF Hopeless, HopelessAt, Stray
  <2> QED
    BY <2>2, <2>3
<1>17. ASSUME Solo(z, h.PTreasurePool, h) PROVE Solo(z, g.PTreasurePool, g)
  <2>1. \A q \in PartyPtrs : q # p /\ g.party[q].alliance = Null
           => Together(z, g.PTreasurePool, g, q, q)
    BY <1>1, <1>5, <1>17, Elsewhere
  <2> QED
    BY <1>6, <2>1 DEF Solo
<1>18. ASSUME Groups(z, h.PTreasurePool, h) PROVE Groups(z, g.PTreasurePool, g)
  <2> SUFFICES ASSUME NEW b \in AlliancePtrs PROVE GroupAt(z, g.PTreasurePool, g, b)
    BY DEF Groups
  <2>1. GroupAt(z, h.PTreasurePool, h, b)
    BY <1>18 DEF Groups
  <2>2. CASE b # a
    <3>1. b # Null /\ g.alliance[b].list = h.alliance[b].list
      BY <1>4, <2>2, PointersDiffer
    <3> QED
      BY <1>e, <2>1, <3>1
  <2>3. CASE b = a
    <3>a. PICK P : P = g.PTreasurePool
      OBVIOUS
    <3>b. ASSUME NEW i \in DOMAIN rest, NEW j \in DOMAIN rest, i <= j,
                 \A m \in 1 .. j : ~Stray(g, a, m)
          PROVE  Together(z, P, g, rest[i], rest[j])
      <4>0. \A m \in 1 .. j : g.party[rest[m]].alliance = a
        BY <1>11, <3>b DEF Stray
      <4>1. PICK k, l \in DOMAIN list :
                  /\ k <= l /\ list[k] = rest[i] /\ list[l] = rest[j]
                  /\ \A m \in 1 .. l : list[m] = p \/ \E o \in 1 .. j : rest[o] = list[m]
        BY <1>12, <3>b
      <4>2. \A m \in 1 .. j : rest[m] # p
        BY <1>15, <4>0
      <4>3. \A m \in 1 .. l : list[m] \in PartyPtrs
        BY <1>10
      <4>4. ASSUME NEW m \in 1 .. l PROVE h.party[list[m]].alliance = a
        <5>1. CASE list[m] = p
          BY <1>4, <5>1
        <5>2. CASE list[m] # p
          <6>1. PICK o \in 1 .. j : rest[o] = list[m]
            BY <4>1, <5>2
          <6>2. g.party[list[m]].alliance = a
            BY <4>0, <6>1
          <6> QED
            BY <1>14, <4>3, <5>2, <6>2
        <5> QED
          BY <5>1, <5>2
      <4>5. Together(z, h.PTreasurePool, h, list[k], list[l])
        BY <1>8, <2>1, <2>3, <4>1, <4>4 DEF GroupAt, Stray
      <4>6. i \in 1 .. j /\ j \in 1 .. j /\ rest[i] \in PartyPtrs /\ rest[j] \in PartyPtrs
        BY <1>13, <3>b
      <4>7. rest[i] # p /\ rest[j] # p
        BY <4>2, <4>6
      <4>8. Together(z, h.PTreasurePool, h, rest[i], rest[j])
        BY <4>1, <4>5
      <4> QED
        BY <1>1, <1>5, <3>a, <4>6, <4>7, <4>8, Elsewhere
    <3> QED
      BY <1>11, <2>3, <3>a, <3>b DEF GroupAt
  <2> QED
    BY <2>2, <2>3
<1>19. Known(g)
  <2> SUFFICES ASSUME NEW q \in PartyPtrs, g.party[q].alliance # Null
               PROVE  q \in ToSet(g.alliance[g.party[q].alliance].list)
    BY DEF Known
  <2>1. q # p
    BY <1>4 DEF AllianceSet
  <2>2. PICK b : b = g.party[q].alliance /\ b = h.party[q].alliance
    BY <1>14, <2>1
  <2>3. b \in AlliancePtrs /\ q \in ToSet(h.alliance[b].list)
    BY <1>1, <2>2 DEF Shared, Registered, Known, HeapType
  <2> QED
    BY <1>4, <1>8, <1>11, <1>13, <2>1, <2>2, <2>3
<1>20. Headed(g)
  <2> SUFFICES ASSUME NEW b \in AlliancePtrs, g.alliance[b].list # <<>>
               PROVE  g.alliance[b].main = g.alliance[b].list[1]
    BY DEF Headed
  <2>1. CASE b # a
    BY <1>4, <2>1 DEF Shared, Registered, Headed
  <2>2. CASE b = a
    <3>1. CASE h.alliance[a].main = p
      <4>1. g.alliance[a].main = Head(g.alliance[a].list)
        BY <3>1 DEF Withdrawn
      <4> QED
        BY <1>11, <1>13, <2>2, <4>1
    <3>2. CASE h.alliance[a].main # p
      <4>1. list # <<>>
        BY <1>10, <1>11, <1>12, <1>13, <2>2 DEF ToSet
      <4>2. h.alliance[a].main = list[1] /\ list[1] # p
        BY <1>8, <3>2, <4>1 DEF Shared, Registered, Headed
      <4>3. rest[1] = list[1] /\ g.alliance[a].main = h.alliance[a].main
        BY <1>12, <3>2, <4>1, <4>2 DEF Withdrawn
      <4> QED
        BY <1>11, <2>2, <4>2, <4>3
    <3> QED
      BY <3>1, <3>2
  <2> QED
    BY <2>1, <2>2
<1>21. Sized(g)
  <2> SUFFICES ASSUME NEW b \in AlliancePtrs PROVE Len(g.alliance[b].list) <= AllianceSize
    BY DEF Sized
  <2>1. Len(h.alliance[b].list) <= AllianceSize
    BY DEF Shared, Registered, Sized
  <2>2. Len(list) \in Nat /\ Len(rest) \in Nat /\ AllianceSize \in Nat
    BY <1>10, <1>13, PartiesAssumption
  <2> QED
    BY <1>4, <1>8, <1>11, <1>12, <2>1, <2>2
<1> QED
  BY <1>7, <1>16, <1>17, <1>18, <1>19, <1>20, <1>21 DEF Shared, Gathered, Registered

\* dissolveAlliance: the party that is left in the list, if any, is the first,
\* which keeps its pools.
LEMMA LastPartyShares ==
    ASSUME NEW h, Orderly(h), NEW z, Shared(z, h), NEW a \in AlliancePtrs, NEW p \in PartyPtrs,
           \A q \in PartyPtrs : h.party[q].alliance = a => q = p, Len(h.alliance[a].list) <= 1,
           NEW g \in HeapType, SamePools(h, g), AllianceSet(h, g, p, Null),
           \A b \in AlliancePtrs : b # a => g.alliance[b] = h.alliance[b],
           g.alliance[a] = NoAlliance
    PROVE  Shared(z, g)
<1>1. h \in HeapType
  BY OrderlyType
<1>2. PICK list : list = h.alliance[a].list
  OBVIOUS
<1>3. PICK n \in Nat : n = Len(list) /\ DOMAIN list = 1 .. n /\ n <= 1
  BY <1>1, <1>2, AllianceLists
<1>4. Rerouted(h, g, p, Null)
  BY DEF AllianceSet, Rerouted, SamePools
<1>5. g.alliance[a].list = <<>> /\ g.alliance[a].main = Null
  BY DEF NoAlliance
<1>6. \A b \in AlliancePtrs : b # a => b # Null /\ g.alliance[b].list = h.alliance[b].list
  BY PointersDiffer
<1>7. /\ \A b \in AlliancePtrs : b # a /\ HopelessAt(h, b) => HopelessAt(g, b)
      /\ \A b \in AlliancePtrs : b # a /\ GroupAt(z, h.PTreasurePool, h, b)
            => GroupAt(z, g.PTreasurePool, g, b)
      /\ Solo(z, h.PTreasurePool, h) =>
            \A q \in PartyPtrs : q # p /\ g.party[q].alliance = Null
                                    => Together(z, g.PTreasurePool, g, q, q)
  BY <1>1, <1>4, <1>6, Elsewhere
<1>8. ~HopelessAt(h, a) /\ ~Behind(h, p, a)
  BY <1>2, <1>3 DEF HopelessAt, Behind
<1>9. Hopeless(h) => Hopeless(g)
  BY <1>7, <1>8 DEF Hopeless
<1>10. ASSUME Solo(z, h.PTreasurePool, h), Groups(z, h.PTreasurePool, h), ~Hopeless(g)
       PROVE  Solo(z, g.PTreasurePool, g) /\ Groups(z, g.PTreasurePool, g)
  <2>1. Known(h)
    BY DEF Shared, Registered
  <2>2. PICK b : b = h.party[p].alliance
    OBVIOUS
  <2>3. Together(z, h.PTreasurePool, h, p, p) \/ (b \in AlliancePtrs /\ Behind(h, p, b))
    BY <1>1, <1>10, <2>1, <2>2, OwnTogether
  <2>4. Together(z, h.PTreasurePool, h, p, p)
    <3>1. SUFFICES ASSUME b \in AlliancePtrs, Behind(h, p, b) PROVE FALSE
      BY <2>3
    <3>2. b # a
      BY <1>8, <3>1
    <3>3. b # Null /\ g.alliance[b].list = h.alliance[b].list
      BY <1>6, <3>1, <3>2
    <3> QED
      BY <1>1, <1>4, <1>10, <3>1, <3>3, TwoStrays
  <2>5. Together(z, g.PTreasurePool, g, p, p)
    BY <2>4 DEF Together, SamePools, AllianceSet
  <2>6. Solo(z, g.PTreasurePool, g)
    BY <1>7, <1>10, <2>5 DEF Solo
  <2>7. GroupAt(z, g.PTreasurePool, g, a)
    BY <1>5 DEF GroupAt
  <2> QED
    BY <1>7, <1>10, <2>6, <2>7 DEF Groups
<1>11. Known(g)
  <2> SUFFICES ASSUME NEW q \in PartyPtrs, g.party[q].alliance # Null
               PROVE  q \in ToSet(g.alliance[g.party[q].alliance].list)
    BY DEF Known
  <2>1. q # p /\ g.party[q].alliance = h.party[q].alliance
    BY DEF AllianceSet
  <2>2. PICK b : b = g.party[q].alliance /\ b = h.party[q].alliance
    BY <2>1
  <2>3. b \in AlliancePtrs /\ q \in ToSet(h.alliance[b].list)
    BY <1>1, <2>2 DEF Shared, Registered, Known, HeapType
  <2>4. b # a
    BY <2>1, <2>2
  <2> QED
    BY <1>6, <2>2, <2>3, <2>4
<1>12. Headed(g) /\ Sized(g)
  <2>1. \A b \in AlliancePtrs : b # a =>
           /\ g.alliance[b].list # <<>> => g.alliance[b].main = g.alliance[b].list[1]
           /\ Len(g.alliance[b].list) <= AllianceSize
    BY DEF Shared, Registered, Headed, Sized
  <2>2. Len(<<>>) <= AllianceSize
    BY PartiesAssumption
  <2> QED
    BY <1>5, <2>1, <2>2 DEF Headed, Sized
<1>13. Zoned(z, g)
  BY DEF SamePools, Shared, Zoned, InZonePool
<1> QED
  BY <1>9, <1>10, <1>11, <1>12, <1>13 DEF Shared, Gathered, Registered

LEMMA DissolveShares ==
    ASSUME AllianceSize <= 3, NEW h, Orderly(h), NEW z, Shared(z, h), NEW a \in AlliancePtrs,
           Len(h.alliance[a].list) # 0,
           NEW g, g = DissolveAlliance(h, a), ~g.broken
    PROVE  Shared(z, g)
<1>1. h \in HeapType
  BY OrderlyType
<1>2. PICK list : list = h.alliance[a].list
  OBVIOUS
<1>3. list \in Seq(PartyPtrs)
  BY <1>1, <1>2, AllianceLists
<1>4. PICK n \in Nat : n = Len(list) /\ DOMAIN list = 1 .. n /\ n # 0 /\ n <= 3
  <2>1. Len(list) <= AllianceSize
    BY <1>2 DEF Shared, Registered, Sized
  <2>2. AllianceSize \in Nat
    BY PartiesAssumption
  <2> QED
    BY <1>2, <1>3, <2>1, <2>2
<1>5. Orderly(g) /\ Dissolved(h, g, a, n)
  BY <1>2, <1>4, DissolveAllianceFacts
<1>6. PICK h1, h2 :
         /\ n # 1 /\ Orderly(h1) /\ Orderly(h2)
         /\ IF n = 3 THEN list[3] \in PartyPtrs /\ Withdrawn(h, h1, a, list[3]) ELSE h1 = h
         /\ list[2] \in PartyPtrs /\ Withdrawn(h1, h2, a, list[2])
         /\ Housed(h, h1) /\ Housed(h1, h2)
         /\ SamePools(h2, g) /\ AllianceSet(h2, g, list[1], Null)
         /\ \A b \in AlliancePtrs : b # a => g.alliance[b] = h2.alliance[b]
         /\ g.alliance[a] = NoAlliance
  BY <1>2, <1>5 DEF Dissolved
<1>7. n = 2 \/ n = 3
  BY <1>4, <1>6
<1>8. PICK p, q \in PartyPtrs : p = list[1] /\ q = list[2]
  <2>1. 1 \in DOMAIN list /\ 2 \in DOMAIN list
    BY <1>4, <1>7
  <2> QED
    BY <1>3, <2>1
<1>9. PICK mid : mid = h1.alliance[a].list
  OBVIOUS
<1>10. /\ Shared(z, h1) /\ mid \in Seq(PartyPtrs) /\ Len(mid) <= 2 /\ q \in ToSet(mid)
       /\ ToSet(mid) \subseteq ToSet(list)
       /\ n = 3 => h1.party[list[3]].alliance = Null
  <2>1. CASE n = 2
    <3>1. h1 = h /\ mid = list
      BY <1>2, <1>6, <1>9, <2>1
    <3>2. \A i \in 1 .. 2 : i = 1 \/ i = 2
      OBVIOUS
    <3>3. q \in ToSet(list)
      BY <1>4, <1>8, <2>1, <3>2 DEF ToSet
    <3>4. Shared(z, h1)
      BY <3>1
    <3>5. Len(list) = 2
      BY <1>4, <2>1
    <3>6. ~(n = 3)
      BY <2>1
    <3> QED
      BY <1>3, <3>1, <3>3, <3>4, <3>5, <3>6
  <2>2. CASE n = 3
    <3>1. PICK r \in PartyPtrs : r = list[3] /\ Withdrawn(h, h1, a, r)
      BY <1>6, <2>2
    <3>2. Shared(z, h1)
      BY <1>6, <3>1, RemovePartyShares
    <3>3. mid = Struck(list, r) /\ h1.party[r].alliance = Null
      BY <1>2, <1>9, <3>1 DEF Withdrawn, AllianceSet
    <3>4. h1.party[q].alliance = a
      BY <1>6, <1>8 DEF Withdrawn
    <3>5. q # r
      BY <3>3, <3>4, PointersDiffer
    <3>6. 1 \in DOMAIN list /\ 2 \in DOMAIN list /\ 3 \in DOMAIN list
      BY <1>4, <2>2
    <3>7. q \in ToSet(list) /\ r \in ToSet(list)
      BY <1>8, <3>1, <3>6 DEF ToSet
    <3>8. mid \in Seq(PartyPtrs) /\ q \in ToSet(mid)
      BY <1>3, <3>3, <3>5, <3>7, StruckFacts
    <3>9. Len(mid) < Len(list) /\ ToSet(mid) \subseteq ToSet(list)
      BY <1>3, <3>3, <3>7, StruckOrder
    <3>10. Len(mid) <= 2
      BY <1>4, <2>2, <3>8, <3>9
    <3>11. \A t \in PartyPtrs : t = r => h1.party[t].alliance = Null
      BY <3>3
    <3> QED
      BY <2>2, <3>1, <3>2, <3>8, <3>9, <3>10, <3>11
  <2> QED
    BY <1>7, <2>1, <2>2
<1>11. Shared(z, h2)
  BY <1>6, <1>8, <1>10, RemovePartyShares
<1>12. PICK last : last = h2.alliance[a].list
  OBVIOUS
<1>13. last = Struck(mid, q) /\ h2.party[q].alliance = Null
  BY <1>6, <1>8, <1>9, <1>12 DEF Withdrawn, AllianceSet
<1>14. Len(last) < Len(mid) /\ ToSet(last) \subseteq ToSet(mid)
  BY <1>10, <1>13, StruckOrder
<1>15. last \in Seq(PartyPtrs)
  BY <1>10, <1>13, StruckFacts
<1>16. Len(last) <= 1
  BY <1>10, <1>14, <1>15
<1>17. ASSUME NEW t \in PartyPtrs, h2.party[t].alliance = a PROVE t = p
  <2>1. t \in ToSet(list)
    <3>1. t \in ToSet(last)
      BY <1>11, <1>12, <1>17, PointersDiffer DEF Shared, Registered, Known
    <3> QED
      BY <1>10, <1>14, <3>1
  <2>2. PICK i \in DOMAIN list : list[i] = t
    BY <2>1 DEF ToSet
  <2>3. i = 1 \/ i = 2 \/ (n = 3 /\ i = 3)
    BY <1>4, <1>7
  <2>4. t # q
    BY <1>13, <1>17, PointersDiffer
  <2>5. CASE n = 3 /\ i = 3
    <3>1. h1.party[t].alliance = Null
      BY <1>10, <2>2, <2>5
    <3>2. h2.party[t].alliance = h1.party[t].alliance
      BY <1>6, <1>8, <2>4 DEF Withdrawn, AllianceSet
    <3> QED
      BY <1>17, <3>1, <3>2, PointersDiffer
  <2> QED
    BY <1>8, <2>2, <2>3, <2>4, <2>5
<1>18. g \in HeapType
  BY <1>5, OrderlyType
<1> QED
  BY <1>6, <1>8, <1>11, <1>12, <1>16, <1>17, <1>18, LastPartyShares

\* One of the characters of every zone where somebody of X has a pool.
Claimed(P, X, x) == \E u \in X : P[u] # Null /\ zone[u] = zone[x]

\* The parties X in front share their pools and those of S, members of the party
\* M that have reloaded theirs, share with them; where nobody of X has one, the
\* members share among themselves.
Gathering(P, X, M, S) ==
    /\ \A u, v \in X : ~Apart(zone, P, u, v)
    /\ \A u \in X, x \in S : ~Apart(zone, P, u, x)
    /\ \A x, y \in M : ~Claimed(P, X, x) => ~Apart(zone, P, x, y)

LEMMA OneReloads ==
    ASSUME NEW P, NEW Q, NEW X, NEW M, X \cap M = {}, NEW S \in SUBSET M, NEW c \in M,
           \A x \in X \cup M : x # c => Q[x] = P[x],
           Gathering(P, X, M, S),
           (\A x, y \in X \ {c} : zone[x] = zone[c] => ~Apart(zone, P, x, y))
               => \A x \in X : ~Apart(zone, Q, x, c),
           (\A x, y \in (X \cup M) \ {c} : zone[x] = zone[c] => ~Apart(zone, P, x, y))
               => \A x \in X \cup M : ~Apart(zone, Q, x, c)
    PROVE  Gathering(Q, X, M, S \cup {c})
<1>1. \A u \in X : u # c /\ Q[u] = P[u]
  OBVIOUS
<1>2. \A u, v \in X : ~Apart(zone, Q, u, v)
  BY <1>1 DEF Gathering, Apart
<1>3. \A x \in X : ~Apart(zone, Q, x, c)
  BY DEF Gathering
<1>4. \A u \in X, x \in S \cup {c} : ~Apart(zone, Q, u, x)
  <2> SUFFICES ASSUME NEW u \in X, NEW x \in S \cup {c} PROVE ~Apart(zone, Q, u, x)
    OBVIOUS
  <2>1. CASE x = c
    BY <1>3, <2>1
  <2>2. CASE x # c
    BY <1>1, <2>2 DEF Gathering, Apart
  <2> QED
    BY <2>1, <2>2
<1>5. \A x \in M : Claimed(Q, X, x) <=> Claimed(P, X, x)
  BY <1>1 DEF Claimed
<1>6. ASSUME ~Claimed(P, X, c) PROVE \A x \in X \cup M : ~Apart(zone, Q, x, c)
  <2>1. ASSUME NEW x \in (X \cup M) \ {c}, NEW y \in (X \cup M) \ {c}, zone[x] = zone[c],
               Apart(zone, P, x, y)
        PROVE  FALSE
    <3>1. x \notin X /\ y \notin X
      BY <1>6, <2>1 DEF Claimed, Apart
    <3>2. ~Claimed(P, X, x)
      BY <1>6, <2>1 DEF Claimed
    <3> QED
      BY <2>1, <3>1, <3>2 DEF Gathering
  <2> QED
    BY <2>1
<1>7. ASSUME NEW x \in M, NEW y \in M, ~Claimed(Q, X, x), Apart(zone, Q, x, y) PROVE FALSE
  <2>1. zone[x] = zone[y] /\ ~Claimed(P, X, x)
    BY <1>5, <1>7 DEF Apart
  <2>2. CASE x # c /\ y # c
    BY <1>7, <2>1, <2>2 DEF Gathering, Apart
  <2>3. CASE x = c \/ y = c
    <3>1. ~Claimed(P, X, c)
      BY <2>1, <2>3 DEF Claimed
    <3> QED
      BY <1>6, <1>7, <2>3, <3>1, ApartBothWays
  <2> QED
    BY <2>2, <2>3
<1> QED
  BY <1>2, <1>4, <1>7 DEF Gathering

LEMMA AllReloaded ==
    ASSUME NEW P, NEW X, NEW M, Gathering(P, X, M, M)
    PROVE  \A x, y \in M : ~Apart(zone, P, x, y)
<1> SUFFICES ASSUME NEW x \in M, NEW y \in M, Apart(zone, P, x, y) PROVE FALSE
  OBVIOUS
<1>1. PICK u \in X : P[u] # Null /\ zone[u] = zone[x]
  BY DEF Gathering, Claimed
<1>2. ~Apart(zone, P, u, x) /\ ~Apart(zone, P, u, y)
  BY DEF Gathering
<1> QED
  BY <1>1, <1>2 DEF Apart

\* The loop of AddParty over the members of the party, whose first place in the
\* list is i.
LEMMA PartyGathers ==
    ASSUME NEW h, Ready(h), Listed(h), Zoned(zone, h), NEW a \in AlliancePtrs,
           NEW p \in PartyPtrs, h.party[p].alliance = a,
           NEW list, list = h.alliance[a].list,
           NEW i \in 1 .. Len(list), list[i] = p, \A j \in 1 .. i - 1 : list[j] # p,
           NEW g, g = InTurn(ReloadTreasurePool, h, h.party[p].members), ~g.broken
    PROVE  /\ ~h.broken /\ Zoned(zone, g)
           /\ \A x \in Chars : h.PParty[x] # p => g.PTreasurePool[x] = h.PTreasurePool[x]
           /\ Together(zone, h.PTreasurePool, h, p, p)
                 /\ (\A j, k \in 1 .. i - 1 : Together(zone, h.PTreasurePool, h, list[j], list[k]))
              => /\ Together(zone, g.PTreasurePool, g, p, p)
                 /\ \A j \in 1 .. i - 1 : Together(zone, g.PTreasurePool, g, list[j], p)
<1>1. h \in HeapType
  BY DEF Ready
<1>2. PICK all : all = h.party[p].members
  OBVIOUS
<1>3. PICK M : M = {x \in Chars : h.PParty[x] = p}
  OBVIOUS
<1>4. all \in Seq(Chars) /\ \A x \in Chars : x \in ToSet(all) <=> x \in M
  BY <1>1, <1>2, <1>3 DEF HeapType, Listed, Single
<1>5. PICK n \in Nat : n = Len(all) /\ DOMAIN all = 1 .. n
  BY <1>4
<1>6. \A k \in 1 .. n : all[k] \in M /\ all[k] \in Chars
  BY <1>3, <1>4, <1>5 DEF ToSet
<1>7. \A k \in DOMAIN all : h.PParty[all[k]] # Null
  BY <1>3, <1>5, <1>6, PointersDiffer
<1>8. PoolsOnly(h, g) /\ \E f : Reloads(h, g, all, f)
  BY <1>2, <1>4, <1>7, ReloadPoolsFacts
<1>9. PICK f : Reloads(h, g, all, f)
  BY <1>8
<1>10. /\ f[0] = h /\ f[n] = g
       /\ \A k \in 0 .. n : Ready(f[k]) /\ PoolsOnly(h, f[k])
       /\ \A k \in 1 .. n : f[k] = ReloadTreasurePool(f[k-1], all[k]) /\ (f[k-1].broken => f[k].broken)
  BY <1>5, <1>9 DEF Reloads
<1>11. list \in Seq(PartyPtrs) /\ i - 1 \in 0 .. Len(list) /\ i \in 0 .. Len(list)
  <2>1. list \in Seq(PartyPtrs)
    BY <1>1, AllianceLists
  <2> QED
    BY <2>1
<1>12. PICK X : X = {x \in Chars : \E j \in 1 .. i - 1 : h.PParty[x] = list[j]}
  OBVIOUS
<1>13. X \cap M = {} /\ X \subseteq Chars /\ M \subseteq Chars
  BY <1>3, <1>12
<1>14. ASSUME NEW d, Ready(d), PoolsOnly(h, d), Zoned(zone, d), NEW c \in M,
              NEW e, e = ReloadTreasurePool(d, c), ~e.broken
       PROVE  /\ Zoned(zone, e) /\ OthersPoint(d, e, c)
              /\ (\A x, y \in X \ {c} : zone[x] = zone[c] => ~Apart(zone, d.PTreasurePool, x, y))
                     => \A x \in X : ~Apart(zone, e.PTreasurePool, x, c)
              /\ (\A x, y \in (X \cup M) \ {c} :
                     zone[x] = zone[c] => ~Apart(zone, d.PTreasurePool, x, y))
                     => \A x \in X \cup M : ~Apart(zone, e.PTreasurePool, x, c)
  <2>1. c \in Chars /\ d.PParty[c] = p /\ d.PParty[c] # Null
    BY <1>3, <1>14, PointersDiffer DEF PoolsOnly
  <2>2. d.party[p].alliance = a /\ d.alliance[a].list = list
    BY <1>14 DEF PoolsOnly
  <2>3. Fellows(d, c) = list
    BY <2>1, <2>2, PointersDiffer DEF Fellows, Allied, AllianceOf, PartyOf
  <2>4. /\ Zoned(zone, e) /\ OthersPoint(d, e, c)
        /\ \A m \in 0 .. Len(list) :
              (\A x, y \in Among(d, list, m) \ {c} :
                  zone[x] = zone[c] => ~Apart(zone, d.PTreasurePool, x, y))
              => \A x \in Among(d, list, m) : ~Apart(zone, e.PTreasurePool, x, c)
    BY <1>14, <2>1, <2>3, ReloadShares
  <2>5. d \in HeapType /\ Listed(d) /\ d.PParty = h.PParty
    BY <1>14 DEF PoolsOnly, Listed, Ready
  <2>6. Among(d, list, i - 1) = X
    <3>1. \A x \in Chars : x \in Among(d, list, i - 1) <=> \E j \in 1 .. i - 1 : d.PParty[x] = list[j]
      BY <1>11, <2>5, AmongMembers
    <3>2. Among(d, list, i - 1) \subseteq Chars
      BY DEF Among
    <3> QED
      BY <1>12, <2>5, <3>1, <3>2
  <2>7. Among(d, list, i) = X \cup M
    <3>1. \A x \in Chars : x \in Among(d, list, i) <=> \E j \in 1 .. i : d.PParty[x] = list[j]
      BY <1>11, <2>5, AmongMembers
    <3>2. Among(d, list, i) \subseteq Chars
      BY DEF Among
    <3>3. \A j : j \in 1 .. i <=> j \in 1 .. i - 1 \/ j = i
      BY <1>11
    <3>4. \A x \in Chars : x \in Among(d, list, i) <=> x \in X \/ x \in M
      BY <1>3, <1>12, <2>5, <3>1, <3>3
    <3> QED
      BY <1>13, <3>2, <3>4
  <2> QED
    BY <1>11, <2>4, <2>6, <2>7
<1>15. PICK Fine : Fine = {k \in 0 .. n : f[k].broken \/
            (Zoned(zone, f[k])
             /\ \A x \in Chars : x \notin M => f[k].PTreasurePool[x] = h.PTreasurePool[x])}
  OBVIOUS
<1>16. \A k \in 0 .. n : k \in Fine
  <2>1. PICK id : id = [k \in 0 .. n |-> k]
    OBVIOUS
  <2>2. id[0] \in Fine
    BY <1>10, <1>15, <2>1
  <2>3. ASSUME NEW k \in 1 .. n, id[k-1] \in Fine PROVE id[k] \in Fine
    <3>1. k \in 0 .. n /\ k - 1 \in 0 .. n /\ id[k] = k /\ id[k-1] = k - 1
      BY <2>1
    <3>2. SUFFICES ASSUME ~f[k].broken
                   PROVE  /\ Zoned(zone, f[k])
                          /\ \A x \in Chars : x \notin M => f[k].PTreasurePool[x] = h.PTreasurePool[x]
      BY <1>15, <3>1
    <3>3. ~f[k-1].broken
      BY <1>10, <3>2
    <3>4. Zoned(zone, f[k-1])
          /\ \A x \in Chars : x \notin M => f[k-1].PTreasurePool[x] = h.PTreasurePool[x]
      BY <1>15, <2>3, <3>1, <3>3
    <3>5. Zoned(zone, f[k]) /\ OthersPoint(f[k-1], f[k], all[k])
      BY <1>6, <1>10, <1>14, <3>1, <3>2, <3>4
    <3> QED
      BY <1>6, <3>4, <3>5 DEF OthersPoint
  <2>4. \A k \in 0 .. n : id[k] \in Fine
    BY <2>2, <2>3, KeptByRounds
  <2> QED
    BY <2>1, <2>4
<1>17. /\ ~h.broken /\ Zoned(zone, g)
       /\ \A x \in Chars : x \notin M => g.PTreasurePool[x] = h.PTreasurePool[x]
  <2>1. ~h.broken
    BY <1>2, <1>4, <1>7, ReloadPoolsFacts
  <2>2. n \in Fine
    BY <1>16
  <2> QED
    BY <1>10, <1>15, <2>1, <2>2
<1>18. ASSUME Together(zone, h.PTreasurePool, h, p, p),
              \A j, k \in 1 .. i - 1 : Together(zone, h.PTreasurePool, h, list[j], list[k])
       PROVE  /\ Together(zone, g.PTreasurePool, g, p, p)
              /\ \A j \in 1 .. i - 1 : Together(zone, g.PTreasurePool, g, list[j], p)
  <2>1. Gathering(h.PTreasurePool, X, M, {})
    <3>1. ASSUME NEW u \in X, NEW v \in X PROVE ~Apart(zone, h.PTreasurePool, u, v)
      <4>1. PICK j \in 1 .. i - 1 : h.PParty[u] = list[j]
        BY <1>12
      <4>2. PICK k \in 1 .. i - 1 : h.PParty[v] = list[k]
        BY <1>12
      <4>3. Together(zone, h.PTreasurePool, h, list[j], list[k])
        BY <1>18
      <4> QED
        BY <1>13, <4>1, <4>2, <4>3 DEF Together
    <3>2. \A x, y \in M : ~Apart(zone, h.PTreasurePool, x, y)
      BY <1>3, <1>18 DEF Together
    <3> QED
      BY <3>1, <3>2 DEF Gathering
  <2>2. PICK So : So = [k \in 0 .. n |-> {all[j] : j \in 1 .. k}]
    OBVIOUS
  <2>3. \A k \in 0 .. n : So[k] \in SUBSET M
    BY <1>6, <2>2
  <2>4. PICK Done : Done = {k \in 0 .. n : f[k].broken \/ Gathering(f[k].PTreasurePool, X, M, So[k])}
    OBVIOUS
  <2>5. PICK id : id = [k \in 0 .. n |-> k]
    OBVIOUS
  <2>6. id[0] \in Done
    <3>1. id[0] = 0 /\ 0 \in 0 .. n
      BY <2>5
    <3>2. So[0] = {}
      BY <2>2, <3>1
    <3>3. Gathering(f[0].PTreasurePool, X, M, So[0])
      BY <1>10, <2>1, <3>2
    <3> QED
      BY <2>4, <3>1, <3>3
  <2>7. ASSUME NEW k \in 1 .. n, id[k-1] \in Done PROVE id[k] \in Done
    <3>1. k \in 0 .. n /\ k - 1 \in 0 .. n /\ id[k] = k /\ id[k-1] = k - 1
      BY <2>5
    <3>2. SUFFICES ASSUME ~f[k].broken PROVE Gathering(f[k].PTreasurePool, X, M, So[k])
      BY <2>4, <3>1
    <3>3. ~f[k-1].broken /\ f[k] = ReloadTreasurePool(f[k-1], all[k])
      BY <1>10, <3>2
    <3>4. Gathering(f[k-1].PTreasurePool, X, M, So[k-1])
      BY <2>4, <2>7, <3>1, <3>3
    <3>5. Zoned(zone, f[k-1])
      BY <1>15, <1>16, <3>1, <3>3
    <3>6. Ready(f[k-1]) /\ PoolsOnly(h, f[k-1])
      BY <1>10, <3>1
    <3>7. PICK c \in M : c = all[k]
      BY <1>6
    <3>8. PICK P, Q : P = f[k-1].PTreasurePool /\ Q = f[k].PTreasurePool
      OBVIOUS
    <3>9. PICK d, e : d = f[k-1] /\ e = f[k]
      OBVIOUS
    <3>10. /\ Ready(d) /\ PoolsOnly(h, d) /\ Zoned(zone, d) /\ e = ReloadTreasurePool(d, c)
           /\ ~e.broken /\ P = d.PTreasurePool /\ Q = e.PTreasurePool
      BY <3>2, <3>3, <3>5, <3>6, <3>7, <3>8, <3>9
    <3>11. /\ OthersPoint(d, e, c)
           /\ (\A x, y \in X \ {c} : zone[x] = zone[c] => ~Apart(zone, P, x, y))
                  => \A x \in X : ~Apart(zone, Q, x, c)
           /\ (\A x, y \in (X \cup M) \ {c} : zone[x] = zone[c] => ~Apart(zone, P, x, y))
                  => \A x \in X \cup M : ~Apart(zone, Q, x, c)
      BY <1>14, <3>10
    <3>12. \A x \in X \cup M : x # c => Q[x] = P[x]
      BY <1>13, <3>10, <3>11 DEF OthersPoint
    <3>13. PICK S \in SUBSET M : S = So[k-1]
      BY <2>3, <3>1
    <3>14. Gathering(P, X, M, S)
      BY <3>4, <3>8, <3>13
    <3>15. Gathering(Q, X, M, S \cup {c})
      BY <1>13, <3>11, <3>12, <3>14, OneReloads
    <3>16. So[k] = S \cup {c}
      <4>1. \A j : j \in 1 .. k <=> j \in 1 .. k - 1 \/ j = k
        OBVIOUS
      <4> QED
        BY <2>2, <3>1, <3>7, <3>13, <4>1
    <3> QED
      BY <3>8, <3>15, <3>16
  <2>8. \A k \in 0 .. n : id[k] \in Done
    BY <2>6, <2>7, KeptByRounds
  <2>9. Gathering(g.PTreasurePool, X, M, So[n])
    <3>1. n \in 0 .. n /\ id[n] = n
      BY <2>5
    <3> QED
      BY <1>10, <2>4, <2>8, <3>1
  <2>10. So[n] = M
    <3>1. \A x \in M : \E j \in 1 .. n : all[j] = x
      BY <1>4, <1>5, <1>13 DEF ToSet
    <3>2. n \in 0 .. n
      OBVIOUS
    <3> QED
      BY <2>2, <2>3, <3>1, <3>2
  <2>11. Gathering(g.PTreasurePool, X, M, M)
    BY <2>9, <2>10
  <2>12. \A x, y \in M : ~Apart(zone, g.PTreasurePool, x, y)
    BY <2>11, AllReloaded
  <2>13. g.PParty = h.PParty
    BY <1>8 DEF PoolsOnly
  <2>14. Together(zone, g.PTreasurePool, g, p, p)
    BY <1>3, <2>12, <2>13 DEF Together
  <2>15. ASSUME NEW j \in 1 .. i - 1 PROVE Together(zone, g.PTreasurePool, g, list[j], p)
    <3>1. \A x \in Chars : g.PParty[x] = list[j] => x \in X
      BY <1>12, <2>13
    <3>2. \A y \in Chars : g.PParty[y] = p => y \in M
      BY <1>3, <2>13
    <3> QED
      BY <2>11, <3>1, <3>2 DEF Together, Gathering
  <2> QED
    BY <2>14, <2>15
<1> QED
  BY <1>3, <1>17, <1>18

\* Where a party may be put: the lead party of the alliance is another one, and it
\* knows that it is in it.
Welcomes(h, a, p) == LET list == h.alliance[a].list
                     IN  /\ Len(list) < AllianceSize
                         /\ list # <<>> => list[1] # p /\ h.party[list[1]].alliance = a

LEMMA AddPartyShares ==
    ASSUME AllianceSize <= 3, NEW h, Orderly(h), Shared(zone, h),
           NEW a \in AlliancePtrs, NEW p \in PartyPtrs, h.party[p] # NoParty, Welcomes(h, a, p),
           NEW g, g = AddParty(h, a, p), ~g.broken
    PROVE  /\ Known(g) /\ Sized(g) /\ Zoned(zone, g) /\ Gathered(zone, g.PTreasurePool, g)
           /\ g.alliance[a].list = Append(h.alliance[a].list, p)
           /\ \A b \in AlliancePtrs :
                 (b # a \/ h.alliance[b].list # <<>>) /\ g.alliance[b].list # <<>>
                     => g.alliance[b].main = g.alliance[b].list[1]
<1>1. h \in HeapType
  BY OrderlyType
<1>2. PICK k : /\ Entered(h, k, a, p) /\ PoolsOnly(k, g)
               /\ g = InTurn(ReloadTreasurePool, k, h.party[p].members)
  BY AddPartyFacts
<1>3. PICK old : old = h.alliance[a].list
  OBVIOUS
<1>4. PICK list : list = Append(old, p)
  OBVIOUS
<1>5. PICK n \in Nat : n = Len(old) /\ DOMAIN old = 1 .. n
  BY <1>1, <1>3, AllianceLists
<1>6. old \in Seq(PartyPtrs)
  BY <1>1, <1>3, AllianceLists
<1>7. /\ list \in Seq(PartyPtrs) /\ Len(list) = n + 1 /\ DOMAIN list = 1 .. n + 1
      /\ list[n + 1] = p /\ \A i \in 1 .. n : list[i] = old[i]
  BY <1>4, <1>5, <1>6
<1>8. n < 3 /\ n < AllianceSize /\ (n # 0 => list[1] # p /\ h.party[list[1]].alliance = a)
  <2>1. AllianceSize \in Nat
    BY PartiesAssumption
  <2>2. Len(old) < AllianceSize /\ (old # <<>> => old[1] # p /\ h.party[old[1]].alliance = a)
    BY <1>3 DEF Welcomes
  <2>3. n # 0 => old # <<>> /\ list[1] = old[1]
    <3>1. n # 0 => 1 \in 1 .. n
      OBVIOUS
    <3> QED
      BY <1>5, <1>6, <1>7, <3>1
  <2> QED
    BY <1>5, <2>1, <2>2, <2>3
<1>9. /\ Ready(k) /\ Listed(k) /\ SamePools(h, k) /\ AllianceSet(h, k, p, a)
      /\ \A b \in AlliancePtrs : b # a => k.alliance[b] = h.alliance[b]
      /\ k.alliance[a].list = list /\ k.alliance[a].main = h.alliance[a].main
  BY <1>2, <1>3, <1>4 DEF Entered
<1>10. g.party = k.party /\ g.alliance = k.alliance /\ g.PParty = h.PParty
  BY <1>2, <1>9 DEF PoolsOnly, AllianceSet
<1>11. PICK i \in 1 .. n + 1 : list[i] = p /\ \A j \in 1 .. i - 1 : list[j] # p
  <2>1. PICK S : S = {j \in 1 .. n + 1 : list[j] = p}
    OBVIOUS
  <2>2. S # {} /\ S \in SUBSET Nat
    BY <1>7, <2>1
  <2>3. PICK i \in S : \A j \in S : i <= j
    BY <2>2, LeastNumber
  <2>4. i \in 1 .. n + 1 /\ list[i] = p
    BY <2>1, <2>3
  <2>5. \A j \in 1 .. i - 1 : j \in 1 .. n + 1 /\ ~(i <= j)
    BY <2>4
  <2> QED
    BY <2>1, <2>3, <2>4, <2>5
<1>12. Zoned(zone, k)
  BY <1>9 DEF SamePools, Zoned, InZonePool, Shared
<1>13. k.party[p].alliance = a /\ k.party[p].members = h.party[p].members
  BY <1>9 DEF AllianceSet
<1>14. /\ Zoned(zone, g)
       /\ \A x \in Chars : k.PParty[x] # p => g.PTreasurePool[x] = k.PTreasurePool[x]
       /\ Together(zone, k.PTreasurePool, k, p, p)
             /\ (\A j, l \in 1 .. i - 1 : Together(zone, k.PTreasurePool, k, list[j], list[l]))
          => /\ Together(zone, g.PTreasurePool, g, p, p)
             /\ \A j \in 1 .. i - 1 : Together(zone, g.PTreasurePool, g, list[j], p)
  <2>1. i \in 1 .. Len(list) /\ list[i] = p /\ \A j \in 1 .. i - 1 : list[j] # p
    BY <1>7, <1>11
  <2>2. g = InTurn(ReloadTreasurePool, k, k.party[p].members)
    BY <1>2, <1>13
  <2> QED
    BY <1>9, <1>12, <1>13, <2>1, <2>2, PartyGathers
<1>15. k.PParty = h.PParty /\ k.PTreasurePool = h.PTreasurePool
  BY <1>9 DEF AllianceSet, SamePools
<1>16. Rerouted(h, g, p, a)
  BY <1>9, <1>10, <1>14, <1>15 DEF Rerouted, AllianceSet
<1>17. \A q, r : Together(zone, k.PTreasurePool, k, q, r) <=> Together(zone, h.PTreasurePool, h, q, r)
  BY <1>15 DEF Together
<1>18. \A b \in AlliancePtrs : b # a => g.alliance[b] = h.alliance[b]
  BY <1>9, <1>10
<1>19. /\ \A q, r \in PartyPtrs : q # p /\ r # p /\ Together(zone, h.PTreasurePool, h, q, r)
             => Together(zone, g.PTreasurePool, g, q, r)
       /\ Solo(zone, h.PTreasurePool, h) =>
             \A q \in PartyPtrs : q # p /\ g.party[q].alliance = Null
                                     => Together(zone, g.PTreasurePool, g, q, q)
       /\ \A b \in AlliancePtrs : b # a /\ HopelessAt(h, b) => HopelessAt(g, b)
       /\ \A b \in AlliancePtrs : b # a /\ GroupAt(zone, h.PTreasurePool, h, b)
             => GroupAt(zone, g.PTreasurePool, g, b)
  <2>1. \A b \in AlliancePtrs : b # a => b # a /\ g.alliance[b].list = h.alliance[b].list
    BY <1>18
  <2>2. /\ \A q, r \in PartyPtrs : q # p /\ r # p /\ Together(zone, h.PTreasurePool, h, q, r)
              => Together(zone, g.PTreasurePool, g, q, r)
        /\ Solo(zone, h.PTreasurePool, h) =>
              \A q \in PartyPtrs : q # p /\ g.party[q].alliance = Null
                                      => Together(zone, g.PTreasurePool, g, q, q)
    BY <1>1, <1>16, Elsewhere
  <2>3. \A b \in AlliancePtrs : b # a /\ HopelessAt(h, b) => HopelessAt(g, b)
    BY <1>1, <1>16, <2>1, Elsewhere
  <2>4. \A b \in AlliancePtrs : b # a /\ GroupAt(zone, h.PTreasurePool, h, b)
           => GroupAt(zone, g.PTreasurePool, g, b)
    BY <1>1, <1>16, <2>1, Elsewhere
  <2> QED
    BY <2>2, <2>3, <2>4
<1>20. ASSUME NEW j \in 1 .. n + 1, NEW m \in 1 .. n + 1, j < m, list[j] = p PROVE list[m] = p
  <2>1. j # 1
    BY <1>8, <1>20
  <2>2. m = n + 1
    BY <1>8, <1>20, <2>1
  <2> QED
    BY <1>7, <2>2
<1>21. \A b \in AlliancePtrs : ~(b = a /\ (HopelessAt(h, b) \/ Behind(h, p, b)))
  <2>1. ~HopelessAt(h, a) /\ ~Behind(h, p, a)
    <3>1. SUFFICES ASSUME NEW j \in 1 .. n, NEW m \in 1 .. n, j < m, Stray(h, a, j) PROVE FALSE
      BY <1>3, <1>5 DEF HopelessAt, Behind
    <3>2. j = 1 /\ n # 0
      BY <1>8, <3>1
    <3>3. list[1] = old[1]
      BY <1>7, <3>2
    <3> QED
      BY <1>3, <1>8, <3>1, <3>2, <3>3 DEF Stray
  <2> QED
    BY <2>1
<1>22. Hopeless(h) => Hopeless(g)
  BY <1>19, <1>21 DEF Hopeless
<1>23. ASSUME Solo(zone, h.PTreasurePool, h), Groups(zone, h.PTreasurePool, h), ~Hopeless(g)
       PROVE  Solo(zone, g.PTreasurePool, g) /\ Groups(zone, g.PTreasurePool, g)
  <2>1. Together(zone, h.PTreasurePool, h, p, p)
    <3>1. Known(h)
      BY DEF Shared, Registered
    <3>2. PICK b : b = h.party[p].alliance
      OBVIOUS
    <3>3. Together(zone, h.PTreasurePool, h, p, p) \/ (b \in AlliancePtrs /\ Behind(h, p, b))
      BY <1>1, <1>23, <3>1, <3>2, OwnTogether
    <3>4. SUFFICES ASSUME b \in AlliancePtrs, Behind(h, p, b) PROVE FALSE
      BY <3>3
    <3>5. b # a
      BY <1>21, <3>4
    <3>6. g.alliance[b].list = h.alliance[b].list
      BY <1>18, <3>4, <3>5
    <3> QED
      BY <1>1, <1>16, <1>23, <3>4, <3>5, <3>6, TwoStrays
  <2>2. \A j \in 1 .. n : list[j] \in PartyPtrs /\ (list[j] # p => (Stray(g, a, j) <=> Stray(h, a, j)))
    <3>1. \A j \in 1 .. n : list[j] \in PartyPtrs
      BY <1>7
    <3>2. \A j \in 1 .. n : g.alliance[a].list[j] = list[j] /\ h.alliance[a].list[j] = list[j]
      BY <1>3, <1>7, <1>9, <1>10
    <3> QED
      BY <1>16, <3>1, <3>2 DEF Stray, Rerouted
  <2>3. ASSUME NEW m \in 1 .. n, list[m] # p, \A j \in 1 .. m : ~Stray(g, a, j)
        PROVE  \A j \in 1 .. m : list[j] # p /\ Together(zone, h.PTreasurePool, h, list[j], list[m])
    <3>1. \A j \in 1 .. m : j \in 1 .. n /\ list[j] # p
      <4> SUFFICES ASSUME NEW j \in 1 .. m PROVE j \in 1 .. n /\ list[j] # p
        OBVIOUS
      <4>1. j \in 1 .. n /\ j \in 1 .. n + 1 /\ m \in 1 .. n + 1
        OBVIOUS
      <4>2. j = m \/ j < m
        OBVIOUS
      <4> QED
        BY <1>20, <2>3, <4>1, <4>2
    <3>2. \A j \in 1 .. m : ~Stray(h, a, j)
      BY <2>2, <2>3, <3>1
    <3>3. GroupAt(zone, h.PTreasurePool, h, a)
      BY <1>23 DEF Groups
    <3>4. ASSUME NEW j \in 1 .. m PROVE Together(zone, h.PTreasurePool, h, old[j], old[m])
      <4>1. j \in DOMAIN old /\ m \in DOMAIN old /\ j <= m
        BY <1>5, <3>1
      <4> QED
        BY <1>3, <3>2, <3>3, <4>1 DEF GroupAt
    <3> QED
      BY <1>7, <3>1, <3>4
  <2>4. ASSUME \A j \in 1 .. i : ~Stray(g, a, j)
        PROVE  /\ Together(zone, g.PTreasurePool, g, p, p)
               /\ \A j \in 1 .. i - 1 : Together(zone, g.PTreasurePool, g, list[j], p)
    <3>1. ASSUME NEW j \in 1 .. i - 1, NEW m \in 1 .. i - 1
          PROVE  Together(zone, h.PTreasurePool, h, list[j], list[m])
      <4>1. j \in 1 .. n /\ m \in 1 .. n /\ list[j] # p /\ list[m] # p
        BY <1>11
      <4>2. (\A l \in 1 .. j : ~Stray(g, a, l)) /\ (\A l \in 1 .. m : ~Stray(g, a, l))
        BY <2>4
      <4>3. CASE j <= m
        <5>1. j \in 1 .. m
          BY <4>3
        <5> QED
          BY <2>3, <4>1, <4>2, <5>1
      <4>4. CASE m <= j
        <5>1. m \in 1 .. j
          BY <4>4
        <5>2. Together(zone, h.PTreasurePool, h, list[m], list[j])
          BY <2>3, <4>1, <4>2, <5>1
        <5> QED
          BY <5>2, ApartBothWays DEF Together
      <4> QED
        BY <4>3, <4>4
    <3> QED
      BY <1>14, <1>17, <2>1, <3>1
  <2>5. ASSUME NEW j \in 1 .. n + 1, NEW m \in 1 .. n + 1, j <= m, \A l \in 1 .. m : ~Stray(g, a, l)
        PROVE  Together(zone, g.PTreasurePool, g, list[j], list[m])
    <3>1. CASE list[m] # p
      <4>1. m \in 1 .. n /\ j \in 1 .. m
        BY <1>7, <2>5, <3>1
      <4>2. list[j] # p /\ Together(zone, h.PTreasurePool, h, list[j], list[m])
        BY <2>3, <2>5, <3>1, <4>1
      <4>3. list[j] \in PartyPtrs /\ list[m] \in PartyPtrs
        BY <1>7
      <4> QED
        BY <1>19, <3>1, <4>2, <4>3
    <3>2. CASE list[m] = p
      <4>1. ~(m \in 1 .. i - 1)
        BY <1>11, <3>2
      <4>2. \A l \in 1 .. i : l \in 1 .. m
        BY <4>1
      <4>3. /\ Together(zone, g.PTreasurePool, g, p, p)
            /\ \A l \in 1 .. i - 1 : Together(zone, g.PTreasurePool, g, list[l], p)
        BY <2>4, <2>5, <4>2
      <4>4. CASE list[j] = p
        BY <3>2, <4>3, <4>4
      <4>5. CASE list[j] # p
        <5>1. ~(i < j) /\ i # j
          BY <1>11, <1>20, <4>5
        <5>2. j \in 1 .. i - 1
          BY <5>1
        <5> QED
          BY <3>2, <4>3, <5>2
      <4> QED
        BY <4>4, <4>5
    <3> QED
      BY <3>1, <3>2
  <2>6. GroupAt(zone, g.PTreasurePool, g, a)
    BY <1>7, <1>9, <1>10, <2>5 DEF GroupAt
  <2>7. g.party[p].alliance # Null
    BY <1>10, <1>13, PointersDiffer
  <2> QED
    BY <1>19, <1>23, <2>6, <2>7 DEF Solo, Groups
<1>24. Known(g)
  <2> SUFFICES ASSUME NEW q \in PartyPtrs, g.party[q].alliance # Null
               PROVE  q \in ToSet(g.alliance[g.party[q].alliance].list)
    BY DEF Known
  <2>1. ToSet(list) = ToSet(old) \cup {p}
    BY <1>4, <1>6, AppendFacts
  <2>2. CASE q = p
    BY <1>9, <1>10, <1>13, <2>1, <2>2
  <2>3. CASE q # p
    <3>1. PICK b : b = g.party[q].alliance /\ b = h.party[q].alliance
      BY <1>16, <2>3 DEF Rerouted
    <3>2. b \in AlliancePtrs /\ q \in ToSet(h.alliance[b].list)
      BY <1>1, <3>1 DEF Shared, Registered, Known, HeapType
    <3> QED
      BY <1>3, <1>9, <1>10, <1>18, <2>1, <3>1, <3>2
  <2> QED
    BY <2>2, <2>3
<1>25. Sized(g)
  <2>1. \A b \in AlliancePtrs : b # a => Len(g.alliance[b].list) <= AllianceSize
    BY <1>18 DEF Shared, Registered, Sized
  <2>2. Len(g.alliance[a].list) <= AllianceSize
    <3>1. AllianceSize \in Nat
      BY PartiesAssumption
    <3> QED
      BY <1>7, <1>8, <1>9, <1>10, <3>1
  <2> QED
    BY <2>1, <2>2 DEF Sized
<1>26. ASSUME NEW b \in AlliancePtrs, b # a \/ h.alliance[b].list # <<>>, g.alliance[b].list # <<>>
       PROVE  g.alliance[b].main = g.alliance[b].list[1]
  <2>1. CASE b # a
    BY <1>18, <1>26, <2>1 DEF Shared, Registered, Headed
  <2>2. CASE b = a
    <3>1. n # 0 /\ 1 \in 1 .. n
      BY <1>3, <1>5, <1>6, <1>26, <2>2
    <3>2. h.alliance[a].main = old[1]
      BY <1>3, <1>26, <2>2 DEF Shared, Registered, Headed
    <3> QED
      BY <1>7, <1>9, <1>10, <2>2, <3>1, <3>2
  <2> QED
    BY <2>1, <2>2
<1>27. Gathered(zone, g.PTreasurePool, g)
  BY <1>22, <1>23 DEF Shared, Gathered
<1>28. g.alliance[a].list = Append(h.alliance[a].list, p)
  BY <1>3, <1>4, <1>9, <1>10
<1> QED
  BY <1>14, <1>24, <1>25, <1>26, <1>27, <1>28

LEMMA NewAllianceShares ==
    ASSUME AllianceSize <= 3, NEW h, Orderly(h), Shared(zone, h),
           NEW p \in PartyPtrs, h.party[p] # NoParty, FreeAlliancePtrs(h) # {},
           NEW g, g = NewAlliance(h, p), ~g.broken
    PROVE  /\ Shared(zone, g)
           /\ g.party[p].alliance \in AlliancePtrs
           /\ g.alliance[g.party[p].alliance].list = <<p>>
<1>1. /\ Orderly(g)
      /\ \E a \in AlliancePtrs : \E k :
            /\ h.alliance[a] = NoAlliance /\ k = AddParty(h, a, p)
            /\ SamePools(k, g) /\ AllianceSet(k, g, p, a) /\ g.broken = k.broken
            /\ \A b \in AlliancePtrs : b # a => g.alliance[b] = k.alliance[b]
            /\ g.alliance[a].list = k.alliance[a].list
            /\ g.alliance[a].main = p
  BY NewAllianceFacts
<1>2. PICK a \in AlliancePtrs : \E k :
         /\ h.alliance[a] = NoAlliance /\ k = AddParty(h, a, p)
         /\ SamePools(k, g) /\ AllianceSet(k, g, p, a) /\ g.broken = k.broken
         /\ \A b \in AlliancePtrs : b # a => g.alliance[b] = k.alliance[b]
         /\ g.alliance[a].list = k.alliance[a].list
         /\ g.alliance[a].main = p
  BY <1>1
<1>20. PICK k :
         /\ h.alliance[a] = NoAlliance /\ k = AddParty(h, a, p)
         /\ SamePools(k, g) /\ AllianceSet(k, g, p, a) /\ g.broken = k.broken
         /\ \A b \in AlliancePtrs : b # a => g.alliance[b] = k.alliance[b]
         /\ g.alliance[a].list = k.alliance[a].list
         /\ g.alliance[a].main = p
  BY <1>2
<1>3. h.alliance[a].list = <<>>
  BY <1>20 DEF NoAlliance
<1>4. Welcomes(h, a, p)
  BY <1>3, PartiesAssumption DEF Welcomes
<1>5. Orderly(k) /\ k.party[p].alliance = a
  BY <1>20, AddPartyFacts
<1>6. k \in HeapType
  BY <1>5, OrderlyType
<1>7. k = AddParty(h, a, p) /\ ~k.broken
  BY <1>20
<1>8. /\ Known(k) /\ Sized(k) /\ Zoned(zone, k) /\ Gathered(zone, k.PTreasurePool, k)
      /\ k.alliance[a].list = Append(h.alliance[a].list, p)
      /\ \A b \in AlliancePtrs :
            (b # a \/ h.alliance[b].list # <<>>) /\ k.alliance[b].list # <<>>
                => k.alliance[b].main = k.alliance[b].list[1]
  BY <1>4, <1>7, AddPartyShares
<1>9. k.alliance[a].list = <<p>>
  BY <1>3, <1>8
<1>10. SameLists(k, g)
  BY <1>20, <1>5 DEF SameLists, AllianceSet
<1>11. Known(g) /\ Sized(g)
  BY <1>8, <1>10, <1>6 DEF Known, Sized, SameLists, HeapType
<1>12. Headed(g)
  <2>1. \A b \in AlliancePtrs : b # a /\ g.alliance[b].list # <<>>
           => g.alliance[b].main = g.alliance[b].list[1]
    BY <1>20, <1>8
  <2>2. g.alliance[a].main = g.alliance[a].list[1]
    BY <1>20, <1>9
  <2> QED
    BY <2>1, <2>2 DEF Headed
<1>13. Gathered(zone, g.PTreasurePool, g)
  <2>1. \A x, y \in Chars : Apart(zone, g.PTreasurePool, x, y)
           => /\ k.PParty[x] = g.PParty[x] /\ k.PParty[y] = g.PParty[y]
              /\ Apart(zone, k.PTreasurePool, x, y)
    BY <1>20 DEF SamePools, AllianceSet
  <2> QED
    BY <1>6, <1>8, <1>10, <2>1, ListsGathered
<1>14. Zoned(zone, g)
  BY <1>20, <1>8 DEF SamePools, Zoned, InZonePool
<1> QED
  BY <1>20, <1>5, <1>9, <1>10, <1>11, <1>12, <1>13, <1>14 DEF Shared, Registered, SameLists

LEMMA AllyShares ==
    ASSUME AllianceSize <= 3, Orderly(heap), Shared(zone, heap), NEW c \in Chars,
           NEW inviter \in Chars, c # inviter, Leads(heap, c), Leads(heap, inviter),
           Ally(c, inviter), ~heap'.broken
    PROVE  Shared(zone, heap')
<1>1. PICK h : h = heap
  OBVIOUS
<1>2. PICK g : g = heap'
  OBVIOUS
<1>3. Orderly(h) /\ h \in HeapType /\ Shared(zone, h) /\ ~g.broken
  BY <1>1, <1>2, OrderlyType
<1>4. PICK p \in PartyPtrs : p = h.PParty[c] /\ h.party[p] # NoParty /\ h.party[p].leader = c
  BY <1>1, <1>3, LeadersParty DEF Leads, PartyOf
<1>5. PICK q \in PartyPtrs : /\ q = h.PParty[inviter] /\ h.party[q] # NoParty
                             /\ h.party[q].leader = inviter
  BY <1>1, <1>3, LeadersParty DEF Leads, PartyOf
<1>6. p # q
  BY <1>4, <1>5
<1>7. PICK a \in AlliancePtrs \cup {Null} : a = h.party[q].alliance
  BY <1>3 DEF HeapType
<1>8. PICK main : main = h.alliance[a].main
  OBVIOUS
<1>9. PICK full : full = (Len(h.alliance[a].list) = AllianceSize)
  OBVIOUS
<1>10. IF a # Null /\ h.party[main] = NoParty THEN g = [h EXCEPT !.broken = TRUE]
       ELSE IF a # Null /\ h.party[main].leader = inviter /\ full THEN g = h
       ELSE IF a # Null /\ h.party[main].leader = inviter THEN g = AddParty(h, a, p)
       ELSE /\ FreeAlliancePtrs(h) # {}
            /\ g = LET k == NewAlliance(h, q) IN AddParty(k, PartyOf(k, inviter).alliance, k.PParty[c])
  BY <1>1, <1>2, <1>4, <1>5, <1>7, <1>8, <1>9 DEF Ally, PartyOf
<1>11. ~(g = [h EXCEPT !.broken = TRUE])
  BY <1>3, BrokenKeepsOrder
<1>12. CASE g = h
  BY <1>2, <1>3, <1>12
<1>13. CASE a # Null /\ h.party[main] # NoParty /\ h.party[main].leader = inviter /\ ~full
            /\ g = AddParty(h, a, p)
  <2>1. a \in AlliancePtrs
    BY <1>13
  <2>2. PICK list : list = h.alliance[a].list
    OBVIOUS
  <2>3. list \in Seq(PartyPtrs) /\ q \in ToSet(list)
    BY <1>3, <1>7, <1>13, <2>1, <2>2, AllianceLists DEF Shared, Registered, Known
  <2>4. list # <<>> /\ list[1] \in PartyPtrs
    <3>1. PICK i \in DOMAIN list : list[i] = q
      BY <2>3 DEF ToSet
    <3> QED
      BY <2>3, <3>1
  <2>5. main = list[1]
    BY <1>3, <1>8, <2>1, <2>2, <2>4 DEF Shared, Registered, Headed
  <2>6. main = q
    <3>1. h.party[main].leader \in ToSet(h.party[main].members)
      BY <1>3, <1>13, <2>4, <2>5 DEF Orderly, LivesLed, Led
    <3>2. h.PParty[inviter] = main
      BY <1>3, <1>13, <2>4, <2>5, <3>1 DEF Orderly, Listed
    <3> QED
      BY <1>5, <3>2
  <2>7. Len(list) < AllianceSize
    <3>1. Len(list) <= AllianceSize /\ Len(list) # AllianceSize
      BY <1>3, <1>9, <1>13, <2>1, <2>2 DEF Shared, Registered, Sized
    <3>2. Len(list) \in Nat /\ AllianceSize \in Nat
      BY <2>3, PartiesAssumption
    <3> QED
      BY <3>1, <3>2
  <2>8. Welcomes(h, a, p)
    BY <1>6, <1>7, <2>2, <2>5, <2>6, <2>7 DEF Welcomes
  <2>9. /\ Known(g) /\ Sized(g) /\ Zoned(zone, g) /\ Gathered(zone, g.PTreasurePool, g)
        /\ g.alliance[a].list = Append(h.alliance[a].list, p)
        /\ \A b \in AlliancePtrs :
              (b # a \/ h.alliance[b].list # <<>>) /\ g.alliance[b].list # <<>>
                  => g.alliance[b].main = g.alliance[b].list[1]
    BY <1>3, <1>4, <1>13, <2>1, <2>8, AddPartyShares
  <2>10. Headed(g)
    BY <2>2, <2>4, <2>9 DEF Headed
  <2> QED
    BY <1>2, <2>9, <2>10 DEF Shared, Registered
<1>14. CASE /\ FreeAlliancePtrs(h) # {}
            /\ g = LET k == NewAlliance(h, q) IN AddParty(k, PartyOf(k, inviter).alliance, k.PParty[c])
  <2>1. PICK k : k = NewAlliance(h, q)
    OBVIOUS
  <2>2. PICK a1 : a1 = k.party[q].alliance
    OBVIOUS
  <2>3. Orderly(k) /\ k.PParty = h.PParty /\ a1 \in AlliancePtrs
    BY <1>3, <1>5, <1>14, <2>1, <2>2, NewAllianceFacts
  <2>4. g = AddParty(k, a1, p)
    BY <1>4, <1>5, <1>14, <2>1, <2>2, <2>3 DEF PartyOf
  <2>5. k.party[p] # NoParty
    BY <1>4, <2>3, MembersParty
  <2>6. ~k.broken
    BY <1>3, <2>3, <2>4, <2>5, AddPartyFacts
  <2>7. Shared(zone, k) /\ k.alliance[a1].list = <<q>>
    BY <1>3, <1>5, <1>14, <2>1, <2>2, <2>6, NewAllianceShares
  <2>8. Welcomes(k, a1, p)
    BY <1>6, <2>2, <2>7, PartiesAssumption DEF Welcomes
  <2>9. /\ Known(g) /\ Sized(g) /\ Zoned(zone, g) /\ Gathered(zone, g.PTreasurePool, g)
        /\ g.alliance[a1].list = Append(k.alliance[a1].list, p)
        /\ \A b \in AlliancePtrs :
              (b # a1 \/ k.alliance[b].list # <<>>) /\ g.alliance[b].list # <<>>
                  => g.alliance[b].main = g.alliance[b].list[1]
    <3>1. Orderly(k) /\ Shared(zone, k) /\ a1 \in AlliancePtrs /\ ~g.broken
      BY <1>3, <2>3, <2>7
    <3> QED
      BY <2>4, <2>5, <2>8, <3>1, AddPartyShares
  <2>10. Headed(g)
    <3>1. k.alliance[a1].list # <<>>
      BY <2>7
    <3>2. \A b \in AlliancePtrs : b # a1 \/ b = a1
      OBVIOUS
    <3>3. \A b \in AlliancePtrs : g.alliance[b].list # <<>> => g.alliance[b].main = g.alliance[b].list[1]
      BY <2>9, <3>1, <3>2
    <3> QED
      BY <3>3 DEF Headed
  <2> QED
    BY <1>2, <2>9, <2>10 DEF Shared, Registered
<1> QED
  BY <1>10, <1>11, <1>12, <1>13, <1>14

\* Whoever is taken out of a party, its leader too.
LEMMA RemoveMemberShares ==
    ASSUME NEW h, Orderly(h), NEW z, Shared(z, h), NEW c \in Chars, h.PParty[c] # Null,
           NEW g, g = RemoveMember(h, c)
    PROVE  Shared(z, g)
<1>1. h \in HeapType
  BY OrderlyType
<1>2. PICK p \in PartyPtrs : p = h.PParty[c]
  BY <1>1 DEF HeapType
<1>3. \/ h.party[p].leader # c /\ g = Dismissed(h, p, c)
      \/ g = DisbandParty(h, p)
      \/ \E heir \in Chars : /\ heir # c /\ h.PParty[heir] = p
                             /\ g = Dismissed(SetLeader(h, p, heir), p, c)
  BY <1>2, RemoveMemberFacts
<1>4. ASSUME NEW k, Orderly(k), Shared(z, k), k.PParty[c] = p, k.party[p].leader # c,
             g = Dismissed(k, p, c)
      PROVE  Shared(z, g)
  <2>1. /\ g.PParty[c] = Null /\ OthersStay(k, g, c)
        /\ SameAlliances(k, g) /\ OthersPoint(k, g, c) /\ NoneEnters(k, g)
    BY <1>2, <1>4, DismissedFacts
  <2>2. k \in HeapType
    BY <1>4, OrderlyType
  <2>3. \A x \in Chars : x # c => z[x] = z[x]
    OBVIOUS
  <2>4. g.PTreasurePool[c] = Null \/ (g.PParty[c] = Null /\ z[c] = z[c])
    BY <2>1
  <2> QED
    BY <1>4, <2>1, <2>2, <2>3, <2>4, LeaverShares
<1>5. CASE h.party[p].leader # c /\ g = Dismissed(h, p, c)
  BY <1>2, <1>4, <1>5
<1>6. CASE g = DisbandParty(h, p)
  <2>1. h.party[p] # NoParty
    BY <1>2, MembersParty
  <2> QED
    BY <1>2, <1>6, <2>1, DisbandShares
<1>7. ASSUME NEW heir \in Chars, heir # c, h.PParty[heir] = p,
             g = Dismissed(SetLeader(h, p, heir), p, c)
      PROVE  Shared(z, g)
  <2>1. PICK k : k = SetLeader(h, p, heir)
    OBVIOUS
  <2>2. /\ Orderly(k) /\ k.PParty = h.PParty /\ k.party[p].leader = heir
        /\ SamePools(h, k) /\ SameAlliances(h, k)
    BY <1>2, <1>7, <2>1, SetLeaderFacts
  <2>3. Shared(z, k)
    BY <1>1, <2>2, NothingMoves
  <2> QED
    BY <1>2, <1>4, <1>7, <2>1, <2>2, <2>3
<1> QED
  BY <1>3, <1>5, <1>6, <1>7

LEMMA JoinPartyShares ==
    ASSUME Orderly(heap), Shared(zone, heap), NEW c \in Chars, NEW inviter \in Chars,
           c # inviter, heap.PParty[c] = Null, JoinParty(c, inviter), ~heap'.broken
    PROVE  Shared(zone, heap')
<1>1. heap \in HeapType
  BY OrderlyType
<1>2. PICK h : h = IF heap.PParty[inviter] = Null THEN NewParty(heap, inviter) ELSE heap
  OBVIOUS
<1>3. PICK p : p = h.PParty[inviter]
  OBVIOUS
<1>4. /\ heap.PParty[inviter] = Null => FreePartyPtrs(heap) # {}
      /\ heap' = IF h.party[p].leader = inviter /\ Len(h.party[p].members) < PartySize
                 THEN AddMember(h, p, c) ELSE h
  BY <1>2, <1>3 DEF JoinParty
<1>5. /\ Orderly(h) /\ h.PParty[inviter] # Null /\ h.PParty[c] = Null
      /\ ~h.broken => Shared(zone, h)
  <2>1. CASE heap.PParty[inviter] = Null
    <3>1. h = NewParty(heap, inviter) /\ FreePartyPtrs(heap) # {}
      BY <1>2, <1>4, <2>1
    <3>2. /\ Orderly(h) /\ h.PParty[inviter] # Null /\ OthersStay(heap, h, inviter)
          /\ \E k : /\ Ready(k) /\ SamePools(heap, k) /\ SameAlliances(heap, k)
                    /\ Reloaded(k, h, inviter)
      BY <2>1, <3>1, NewPartyFacts
    <3>3. PICK k : /\ Ready(k) /\ SamePools(heap, k) /\ SameAlliances(heap, k)
                   /\ Reloaded(k, h, inviter)
      BY <3>2
    <3>4. Listed(h)
      BY <3>2 DEF Orderly
    <3>5. ~h.broken => Shared(zone, h)
      BY <1>1, <2>1, <3>2, <3>3, <3>4, MemberShares
    <3> QED
      BY <3>2, <3>5 DEF OthersStay
  <2>2. CASE heap.PParty[inviter] # Null
    BY <1>2, <2>2
  <2> QED
    BY <2>1, <2>2
<1>6. CASE ~(h.party[p].leader = inviter /\ Len(h.party[p].members) < PartySize)
  BY <1>4, <1>5, <1>6
<1>7. CASE h.party[p].leader = inviter /\ Len(h.party[p].members) < PartySize
  <2>1. h \in HeapType /\ p \in PartyPtrs
    BY <1>3, <1>5, OrderlyType DEF HeapType
  <2>2. h.party[p].leader \in ToSet(h.party[p].members)
    BY <1>3, <1>5, <2>1, MembersParty DEF Led
  <2>3. Joinable(h, p, c)
    BY <1>5, <1>7, <2>2 DEF Joinable, Orderly, LivesLed
  <2>4. PICK g : g = heap'
    OBVIOUS
  <2>5. g = AddMember(h, p, c)
    BY <1>4, <1>7, <2>4
  <2>6. /\ Orderly(g) /\ g.PParty[c] = p /\ OthersStay(h, g, c) /\ (h.broken => g.broken)
        /\ \E k : /\ Ready(k) /\ SamePools(h, k) /\ SameAlliances(h, k)
                  /\ Reloaded(k, g, c)
    BY <2>1, <2>3, <2>5, AddMemberFacts
  <2>7. PICK k : /\ Ready(k) /\ SamePools(h, k) /\ SameAlliances(h, k)
                 /\ Reloaded(k, g, c)
    BY <2>6
  <2>8. Listed(g) /\ ~g.broken /\ ~h.broken /\ g.PParty[c] # Null
    BY <2>1, <2>4, <2>6, PointersDiffer DEF Orderly
  <2> QED
    BY <1>5, <2>1, <2>4, <2>6, <2>7, <2>8, MemberShares
<1> QED
  BY <1>6, <1>7

-----------------------------------------------------------------------------
(* What the packets, zone changes and log-outs do to them.                   *)

LEMMA AcceptShares ==
    ASSUME AllianceSize <= 3, PartiesInv, Shared(zone, heap), NEW c \in Chars, Accept(c),
           ~heap'.broken
    PROVE  Shared(zone', heap')
<1>1. PICK inviter : inviter = InvitePending[c]
  OBVIOUS
<1>2. inviter \in Chars /\ c # inviter /\ zone' = zone /\ Orderly(heap)
  BY <1>1 DEF Accept, PartiesInv, TypeOK
<1>3. CASE Leads(heap, c) /\ Leads(heap, inviter)
  <2>1. Ally(c, inviter)
    BY <1>1, <1>3 DEF Accept
  <2> QED
    BY <1>2, <1>3, <2>1, AllyShares
<1>4. CASE ~(Leads(heap, c) /\ Leads(heap, inviter)) /\ heap.PParty[c] = Null
  <2>1. JoinParty(c, inviter)
    BY <1>1, <1>4 DEF Accept
  <2> QED
    BY <1>2, <1>4, <2>1, JoinPartyShares
<1>5. CASE ~(Leads(heap, c) /\ Leads(heap, inviter)) /\ heap.PParty[c] # Null
  <2>1. heap' = heap
    BY <1>1, <1>5 DEF Accept
  <2> QED
    BY <1>2, <2>1
<1> QED
  BY <1>3, <1>4, <1>5

LEMMA LeaveShares ==
    ASSUME AllianceSize <= 3, PartiesInv, Shared(zone, heap), NEW c \in Chars, Leave(c),
           ~heap'.broken
    PROVE  Shared(zone', heap')
<1>1. Orderly(heap) /\ heap \in HeapType
  BY OrderlyType DEF PartiesInv
<1>2. zone' = zone /\ heap.PParty[c] # Null
  BY DEF Leave
<1>3. PICK p \in PartyPtrs : p = heap.PParty[c]
  BY <1>1, <1>2 DEF HeapType
<1>4. PICK a : a = heap.party[p].alliance
  OBVIOUS
<1>5. \/ heap' = RemoveMember(heap, c)
      \/ a # Null /\ Len(heap.alliance[a].list) = 2 /\ heap' = DissolveAlliance(heap, a)
      \/ a # Null /\ heap' = RemoveParty(heap, a, p)
  BY <1>3, <1>4 DEF Leave, Allied, AllianceOf, PartyOf
<1>6. a # Null => a \in AlliancePtrs
  BY <1>1, <1>3, <1>4 DEF HeapType
<1>7. CASE heap' = RemoveMember(heap, c)
  BY <1>1, <1>2, <1>7, RemoveMemberShares
<1>8. CASE a # Null /\ Len(heap.alliance[a].list) = 2 /\ heap' = DissolveAlliance(heap, a)
  <2>1. a \in AlliancePtrs /\ Len(heap.alliance[a].list) # 0
    BY <1>6, <1>8
  <2> QED
    BY <1>1, <1>2, <1>8, <2>1, DissolveShares
<1>9. CASE a # Null /\ heap' = RemoveParty(heap, a, p)
  <2>1. Housed(heap, heap') /\ Withdrawn(heap, heap', a, p)
    BY <1>1, <1>3, <1>6, <1>9, RemovePartyFacts
  <2> QED
    BY <1>1, <1>2, <1>3, <1>6, <1>9, <2>1, RemovePartyShares
<1> QED
  BY <1>5, <1>7, <1>8, <1>9

LEMMA DisbandPacketShares ==
    ASSUME AllianceSize <= 3, PartiesInv, Shared(zone, heap), NEW c \in Chars, Disband(c),
           ~heap'.broken
    PROVE  Shared(zone', heap')
<1>1. Orderly(heap) /\ heap \in HeapType
  BY OrderlyType DEF PartiesInv
<1>2. zone' = zone /\ Leads(heap, c)
  BY DEF Disband
<1>3. PICK p \in PartyPtrs : p = heap.PParty[c] /\ heap.party[p] # NoParty
  BY <1>1, <1>2, LeadersParty
<1>4. PICK a : a = heap.party[p].alliance
  OBVIOUS
<1>5. \/ heap' = DisbandParty(heap, p)
      \/ a # Null /\ heap' = DissolveAlliance(heap, a)
  BY <1>2, <1>3, <1>4 DEF Disband, Allied, AllianceOf, PartyOf
<1>6. CASE heap' = DisbandParty(heap, p)
  BY <1>1, <1>2, <1>3, <1>6, DisbandShares
<1>7. CASE a # Null /\ heap' = DissolveAlliance(heap, a)
  <2>1. a \in AlliancePtrs
    BY <1>1, <1>3, <1>4, <1>7 DEF HeapType
  <2>2. p \in ToSet(heap.alliance[a].list)
    BY <1>3, <1>4, <1>7 DEF Shared, Registered, Known
  <2>3. Len(heap.alliance[a].list) # 0
    BY <1>1, <2>1, <2>2, AllianceLists DEF ToSet
  <2> QED
    BY <1>1, <1>2, <1>7, <2>1, <2>3, DissolveShares
<1> QED
  BY <1>5, <1>6, <1>7

LEMMA KickShares ==
    ASSUME PartiesInv, Shared(zone, heap), NEW c \in Chars, NEW b \in Chars, Kick(c, b)
    PROVE  Shared(zone', heap')
<1>1. Orderly(heap) /\ zone' = zone /\ heap.PParty[b] # Null /\ heap' = RemoveMember(heap, b)
  BY DEF PartiesInv, Kick, Leads
<1> QED
  BY <1>1, RemoveMemberShares

LEMMA PromoteShares ==
    ASSUME PartiesInv, Shared(zone, heap), NEW c \in Chars, NEW b \in Chars, Promote(c, b)
    PROVE  Shared(zone', heap')
<1>1. Orderly(heap) /\ heap \in HeapType
  BY OrderlyType DEF PartiesInv
<1>2. /\ zone' = zone /\ heap.PParty[b] # Null
      /\ heap' = ReloadParty(SetLeader(heap, heap.PParty[b], b), heap.PParty[b])
  BY DEF Promote, Leads
<1>3. PICK p \in PartyPtrs : p = heap.PParty[b]
  BY <1>1, <1>2 DEF HeapType
<1>4. PICK k : k = SetLeader(heap, p, b)
  OBVIOUS
<1>5. /\ Orderly(k) /\ k.PParty = heap.PParty
      /\ SamePools(heap, k) /\ SameAlliances(heap, k)
  BY <1>1, <1>3, <1>4, SetLeaderFacts
<1>6. SamePools(k, heap') /\ PoolsOnly(k, heap')
  BY <1>2, <1>3, <1>4, <1>5, ReloadPartyFacts, OrderlyType
<1>7. SamePools(heap, heap') /\ SameAlliances(heap, heap') /\ heap'.PParty = heap.PParty
  BY <1>5, <1>6 DEF SamePools, SameAlliances, PoolsOnly
<1> QED
  BY <1>1, <1>2, <1>7, NothingMoves

\* Where a character without a pool is does not matter.
LEMMA LeavePoolShares ==
    ASSUME NEW h, Orderly(h), NEW z, Shared(z, h), NEW c \in Chars, NEW w,
           \A x \in Chars : x # c => w[x] = z[x], NEW g, g = LeavePool(h, c)
    PROVE  Shared(w, g)
<1>1. h \in HeapType /\ PoolBooks(h)
  BY OrderlyType
<1>2. PoolsOnly(h, g) /\ g.PTreasurePool[c] = Null /\ OthersKeep(h, g, c)
  BY <1>1, LeavePoolFacts
<1>3. /\ SameAlliances(h, g) /\ OthersPoint(h, g, c) /\ OthersStay(h, g, c)
  BY <1>2 DEF PoolsOnly, SameAlliances, OthersPoint, OthersStay, OthersKeep
<1>4. NoneEnters(h, g)
  BY <1>2 DEF NoneEnters, OthersKeep, InZonePool
<1>5. g.PTreasurePool[c] = Null \/ (g.PParty[c] = Null /\ w[c] = z[c])
  BY <1>2
<1> QED
  BY <1>1, <1>3, <1>4, <1>5, LeaverShares

LEMMA ZoneOutShares ==
    ASSUME PartiesInv, Shared(zone, heap), NEW c \in Chars, NEW z \in Zones, ZoneOut(c, z)
    PROVE  Shared(zone', heap')
<1>1. /\ Orderly(heap) /\ zone \in [Chars -> Zones]
      /\ zone' = [zone EXCEPT ![c] = z] /\ heap' = LeavePool(heap, c)
  BY DEF PartiesInv, TypeOK, ZoneOut
<1>2. \A x \in Chars : x # c => zone'[x] = zone[x]
  BY <1>1
<1> QED
  BY <1>1, <1>2, LeavePoolShares

LEMMA ArrivalShares ==
    ASSUME PartiesInv, Shared(zone, heap), NEW c \in Chars, ZoneIn(c), zone[c] \notin Houses,
           ~heap'.broken
    PROVE  Shared(zone', heap')
<1>1. PICK h : h = heap
  OBVIOUS
<1>2. PICK g : g = heap'
  OBVIOUS
<1>3. Orderly(h) /\ h \in HeapType /\ PoolBooks(h) /\ Ready(h) /\ Listed(h)
  BY <1>1, OrderlyType DEF PartiesInv, Orderly
<1>4. zone' = zone /\ ~g.broken /\ Shared(zone, h)
  BY <1>1, <1>2 DEF ZoneIn, IncreaseZoneCounter
<1>5. h.PTreasurePool[c] = Null
  <2>1. ASSUME h.PTreasurePool[c] # Null PROVE FALSE
    <3>1. g = [h EXCEPT !.broken = TRUE]
      BY <1>1, <1>2, <2>1 DEF ZoneIn, IncreaseZoneCounter
    <3> QED
      BY <1>3, <1>4, <3>1, BrokenKeepsOrder
  <2> QED
    BY <2>1
<1>6. Loose(h, c) /\ FreePoolPtrs(h) # {}
  BY <1>3, <1>5, PoolsSuffice DEF Loose
<1>7. ASSUME NEW b \in BOOLEAN, g = NewPool(h, c, b), b => zone[c] \in TreasureZones,
             b \/ h.PParty[c] = Null
      PROVE  PoolsOnly(h, g) /\ Zoned(zone, g) /\ Gathered(zone, g.PTreasurePool, g)
  <2>1. PoolsOnly(h, g) /\ (InZonePool(g, c) <=> b) /\ OthersKeep(h, g, c)
    BY <1>3, <1>6, <1>7, NewPoolFacts
  <2>2. Zoned(zone, g)
    BY <1>4, <1>7, <2>1 DEF Shared, Zoned, OthersKeep
  <2>3. SameAlliances(h, g) /\ g.PParty = h.PParty
    BY <2>1 DEF PoolsOnly, SameAlliances
  <2>4. PICK P : P = h.PTreasurePool
    OBVIOUS
  <2>5. PICK Q : Q = g.PTreasurePool
    OBVIOUS
  <2>6. ASSUME NEW x \in Chars, NEW y \in Chars, g.PParty[x] # Null, g.PParty[y] # Null,
               Apart(zone, Q, x, y)
        PROVE  /\ h.PParty[x] = g.PParty[x] /\ h.PParty[y] = g.PParty[y]
               /\ Apart(zone, P, x, y)
    <3>1. x # c /\ y # c
      BY <1>7, <2>3, <2>6 DEF Apart
    <3> QED
      BY <2>1, <2>3, <2>4, <2>5, <2>6, <3>1 DEF Apart, OthersKeep
  <2>7. Gathered(zone, P, h)
    BY <1>4, <2>4 DEF Shared
  <2>8. Gathered(zone, Q, g)
    BY <1>3, <2>3, <2>6, <2>7, StillGathered
  <2> QED
    BY <2>1, <2>2, <2>5, <2>8
<1>8. PoolsOnly(h, g) /\ Zoned(zone, g) /\ Gathered(zone, g.PTreasurePool, g)
  <2>1. CASE zone[c] \in TreasureZones
    <3>1. g = NewPool(h, c, TRUE)
      BY <1>1, <1>2, <1>5, <2>1 DEF ZoneIn, IncreaseZoneCounter
    <3> QED
      BY <1>7, <2>1, <3>1
  <2>2. CASE zone[c] \notin TreasureZones /\ h.PParty[c] = Null
    <3>1. g = NewPool(h, c, FALSE)
      BY <1>1, <1>2, <1>5, <2>2 DEF ZoneIn, IncreaseZoneCounter
    <3> QED
      BY <1>7, <2>2, <3>1
  <2>3. CASE zone[c] \notin TreasureZones /\ h.PParty[c] # Null
    <3>1. g = ReloadTreasurePool(h, c)
      BY <1>1, <1>2, <1>5, <2>3 DEF ZoneIn, IncreaseZoneCounter
    <3>2. PICK P : P = h.PTreasurePool
      OBVIOUS
    <3>3. /\ P[c] = Null /\ \A x \in Chars : x # c => P[x] = h.PTreasurePool[x]
          /\ Zoned(zone, h) /\ Gathered(zone, P, h)
      BY <1>4, <1>5, <3>2 DEF Shared
    <3>4. Zoned(zone, g) /\ Gathered(zone, g.PTreasurePool, g)
      BY <1>3, <1>4, <2>3, <3>1, <3>3, ReloadGathers
    <3> QED
      BY <1>3, <2>3, <3>1, <3>4, ReloadPoolFacts
  <2> QED
    BY <2>1, <2>2, <2>3
<1>9. Registered(g)
  <2>1. SameAlliances(h, g) /\ Registered(h)
    BY <1>4, <1>8 DEF PoolsOnly, SameAlliances, Shared
  <2> QED
    BY <2>1, StillRegistered
<1> QED
  BY <1>2, <1>4, <1>8, <1>9 DEF Shared

\* Into a mog house nobody is brought together, and nobody is parted.
LEMMA ZoneInShares ==
    ASSUME PartiesInv, Shared(zone, heap), NEW c \in Chars, ZoneIn(c), ~heap'.broken
    PROVE  Shared(zone', heap')
<1>1. CASE zone[c] \in Houses
  <2>1. zone' = zone /\ heap' = heap
    BY <1>1 DEF ZoneIn, IncreaseZoneCounter
  <2> QED
    BY <2>1
<1>2. CASE zone[c] \notin Houses
  BY <1>2, ArrivalShares
<1> QED
  BY <1>1, <1>2

LEMMA LogoutShares ==
    ASSUME AllianceSize <= 3, PartiesInv, Shared(zone, heap), NEW c \in Chars, Logout(c),
           ~heap'.broken
    PROVE  Shared(zone', heap')
<1>1. Orderly(heap) /\ heap \in HeapType
  BY OrderlyType DEF PartiesInv
<1>2. zone' = zone /\ heap.PParty[c] # Null
  BY DEF Logout
<1>3. PICK p \in PartyPtrs : p = heap.PParty[c]
  BY <1>1, <1>2 DEF HeapType
<1>4. PICK a : a = heap.party[p].alliance
  OBVIOUS
<1>5. PICK h1 : /\ \/ h1 = heap
                   \/ a # Null /\ Len(heap.alliance[a].list) = 2 /\ h1 = DissolveAlliance(heap, a)
                   \/ a # Null /\ h1 = RemoveParty(heap, a, p)
                /\ heap' = LeavePool(IF h1.broken THEN h1 ELSE RemoveMember(h1, c), c)
  <2>1. PICK h1 : h1 = IF Allied(heap, c) /\ Leads(heap, c) /\ Len(PartyOf(heap, c).members) = 1
                       THEN CASE Len(AllianceOf(heap, c).list) = 2 -> DissolveAlliance(heap, a)
                              [] Len(AllianceOf(heap, c).list) = 3 -> RemoveParty(heap, a, p)
                              [] OTHER -> heap
                       ELSE heap
    OBVIOUS
  <2>2. heap' = LeavePool(IF h1.broken THEN h1 ELSE RemoveMember(h1, c), c)
    <3>1. PartyOf(heap, c).alliance = a
      BY <1>3, <1>4 DEF PartyOf
    <3> QED
      BY <1>3, <2>1, <3>1 DEF Logout
  <2>3. \/ h1 = heap
        \/ a # Null /\ Len(heap.alliance[a].list) = 2 /\ h1 = DissolveAlliance(heap, a)
        \/ a # Null /\ h1 = RemoveParty(heap, a, p)
    <3>1. CASE ~Allied(heap, c) \/ Len(AllianceOf(heap, c).list) \notin {2, 3}
      BY <2>1, <3>1
    <3>2. CASE Allied(heap, c) /\ Len(AllianceOf(heap, c).list) = 2
      <4>1. h1 = heap \/ h1 = DissolveAlliance(heap, a)
        BY <2>1, <3>2
      <4> QED
        BY <1>3, <1>4, <3>2, <4>1 DEF Allied, AllianceOf, PartyOf
    <3>3. CASE Allied(heap, c) /\ Len(AllianceOf(heap, c).list) = 3
      <4>1. h1 = heap \/ h1 = RemoveParty(heap, a, p)
        BY <2>1, <3>3
      <4> QED
        BY <1>3, <1>4, <3>3, <4>1 DEF Allied, AllianceOf, PartyOf
    <3> QED
      BY <3>1, <3>2, <3>3
  <2> QED
    BY <2>2, <2>3
<1>6. a # Null => a \in AlliancePtrs
  BY <1>1, <1>3, <1>4 DEF HeapType
<1>7. Orderly(h1) /\ h1.PParty = heap.PParty /\ (~h1.broken => Shared(zone, h1))
  <2>1. CASE h1 = heap
    BY <1>1, <2>1
  <2>2. CASE a # Null /\ Len(heap.alliance[a].list) = 2 /\ h1 = DissolveAlliance(heap, a)
    <3>1. a \in AlliancePtrs /\ Len(heap.alliance[a].list) # 0
      BY <1>6, <2>2
    <3>2. Orderly(h1) /\ h1.PParty = heap.PParty
      BY <1>1, <2>2, <3>1, DissolveAllianceFacts
    <3> QED
      BY <1>1, <2>2, <3>1, <3>2, DissolveShares
  <2>3. CASE a # Null /\ h1 = RemoveParty(heap, a, p)
    <3>1. /\ Orderly(h1) /\ Housed(heap, h1) /\ h1.PParty = heap.PParty
          /\ h1.broken \/ Withdrawn(heap, h1, a, p)
      BY <1>1, <1>3, <1>6, <2>3, RemovePartyFacts
    <3> QED
      BY <1>1, <1>3, <1>6, <2>3, <3>1, RemovePartyShares
  <2> QED
    BY <1>5, <2>1, <2>2, <2>3
<1>8. ~h1.broken
  <2>1. ASSUME h1.broken PROVE FALSE
    <3>1. heap' = LeavePool(h1, c)
      BY <1>5, <2>1
    <3>2. h1 \in HeapType /\ PoolBooks(h1)
      BY <1>7, OrderlyType
    <3>3. heap'.broken = h1.broken
      BY <3>1, <3>2, LeavePoolFacts
    <3> QED
      BY <2>1, <3>3
  <2> QED
    BY <2>1
<1>9. PICK h2 : h2 = RemoveMember(h1, c)
  OBVIOUS
<1>10. h1.PParty[c] # Null /\ Shared(zone, h1) /\ Orderly(h1)
  BY <1>2, <1>7, <1>8
<1>11. Orderly(h2)
  BY <1>9, <1>10, RemoveMemberFacts
<1>12. Shared(zone, h2)
  BY <1>9, <1>10, RemoveMemberShares
<1>13. heap' = LeavePool(h2, c) /\ \A x \in Chars : x # c => zone'[x] = zone[x]
  BY <1>2, <1>5, <1>8, <1>9
<1> QED
  BY <1>11, <1>12, <1>13, LeavePoolShares

\* What PartySharesPool needs to be kept by every step: nothing of it asks who has
\* arrived, or whether there is a pool.
SharingInv == heap.broken \/ Shared(zone, heap)

LEMMA StepShares ==
    ASSUME AllianceSize <= 3, PartiesInv, SharingInv, [Next]_vars
    PROVE  SharingInv'
<1> SUFFICES ASSUME ~heap'.broken
             PROVE  Shared(zone', heap')
  BY DEF SharingInv
<1>1. CASE UNCHANGED vars
  BY <1>1 DEF vars, SharingInv
<1>2. CASE Next
  <2>1. ~heap.broken
    BY <1>2 DEF Next, Invite, Kick, Promote, Accept, Decline, Leave, Disband, ZoneOut, ZoneIn,
                Logout, InWorld, Away
  <2>2. Shared(zone, heap)
    BY <2>1 DEF SharingInv
  <2>3. ASSUME NEW c \in Chars, NEW b \in Chars, Invite(c, b)
        PROVE  Shared(zone', heap')
    BY <2>2, <2>3 DEF Invite
  <2>4. ASSUME NEW c \in Chars, NEW b \in Chars, Kick(c, b) \/ Promote(c, b)
        PROVE  Shared(zone', heap')
    BY <2>2, <2>4, KickShares, PromoteShares
  <2>5. ASSUME NEW c \in Chars, Decline(c)
        PROVE  Shared(zone', heap')
    BY <2>2, <2>5 DEF Decline
  <2>6. ASSUME NEW c \in Chars, Accept(c) \/ Leave(c) \/ Disband(c)
        PROVE  Shared(zone', heap')
    BY <2>2, <2>6, AcceptShares, LeaveShares, DisbandPacketShares
  <2>7. ASSUME NEW c \in Chars, NEW z \in Zones, ZoneOut(c, z)
        PROVE  Shared(zone', heap')
    BY <2>2, <2>7, ZoneOutShares
  <2>8. ASSUME NEW c \in Chars, ZoneIn(c) \/ Logout(c)
        PROVE  Shared(zone', heap')
    BY <2>2, <2>8, ZoneInShares, LogoutShares
  <2> QED
    BY <1>2, <2>3, <2>4, <2>5, <2>6, <2>7, <2>8 DEF Next
<1> QED
  BY <1>1, <1>2

LEMMA FreshShares ==
    ASSUME Init
    PROVE  SharingInv
<1>1. PICK where \in [Chars -> Zones] : Fresh(where, 0, 0)
  BY DEF Init
<1>2. /\ \A p \in PartyPtrs : heap.party[p] = NoParty
      /\ \A a \in AlliancePtrs : heap.alliance[a] = NoAlliance
      /\ \A c \in Chars : heap.PParty[c] = Null /\ heap.PTreasurePool[c] = Null
  BY <1>1 DEF Fresh
<1>3. Registered(heap)
  <2>1. Known(heap)
    BY <1>2 DEF Known, NoParty
  <2>2. Headed(heap)
    BY <1>2 DEF Headed, NoAlliance
  <2>3. Sized(heap)
    BY <1>2, PartiesAssumption DEF Sized, NoAlliance
  <2> QED
    BY <2>1, <2>2, <2>3 DEF Registered
<1>4. Zoned(zone, heap)
  BY <1>2 DEF Zoned, InZonePool
<1>5. \A p, q \in PartyPtrs : Together(zone, heap.PTreasurePool, heap, p, q)
  BY <1>2 DEF Together, Apart
<1>6. Groups(zone, heap.PTreasurePool, heap)
  BY <1>2 DEF Groups, GroupAt, NoAlliance
<1> QED
  BY <1>3, <1>4, <1>5, <1>6 DEF SharingInv, Shared, Gathered, Solo

\* No alliance has a stray, and the party is alone or in the list of its alliance.
LEMMA SharingSuffices ==
    ASSUME PartiesInv, SharingInv
    PROVE  PartySharesPool
<1> SUFFICES ASSUME ~heap.broken, ListsAgree, NEW c \in Chars, NEW d \in Chars,
                    heap.PParty[c] # Null, heap.PParty[c] = heap.PParty[d],
                    arrived[c], arrived[d], zone[c] = zone[d], zone[c] \notin TreasureZones
             PROVE  \/ heap.PTreasurePool[c] = heap.PTreasurePool[d]
                    \/ zone[c] \in Houses
                       /\ Null \in {heap.PTreasurePool[c], heap.PTreasurePool[d]}
  BY DEF PartySharesPool
<1>1. heap \in HeapType /\ Shared(zone, heap)
  BY OrderlyType DEF PartiesInv, SharingInv
<1>2. \/ zone[c] \in Houses /\ Null \in {heap.PTreasurePool[c], heap.PTreasurePool[d]}
      \/ heap.PTreasurePool[c] # Null /\ heap.PTreasurePool[d] # Null
  BY DEF PartiesInv, Pooled
<1>3. PICK p \in PartyPtrs : p = heap.PParty[c] /\ p = heap.PParty[d]
  BY <1>1 DEF HeapType
<1>4. \A a \in AlliancePtrs : \A i \in DOMAIN heap.alliance[a].list : ~Stray(heap, a, i)
  <2> SUFFICES ASSUME NEW a \in AlliancePtrs, NEW i \in DOMAIN heap.alliance[a].list
               PROVE  ~Stray(heap, a, i)
    OBVIOUS
  <2>1. heap.alliance[a].list[i] \in PartyPtrs
    BY <1>1, AllianceLists
  <2>2. heap.alliance[a].list[i] \in ToSet(heap.alliance[a].list)
    BY DEF ToSet
  <2> QED
    BY <2>1, <2>2 DEF ListsAgree, Stray
<1>5. ~Hopeless(heap)
  BY <1>4 DEF Hopeless, HopelessAt
<1>6. Solo(zone, heap.PTreasurePool, heap) /\ Groups(zone, heap.PTreasurePool, heap)
  BY <1>1, <1>5 DEF Shared, Gathered
<1>7. Together(zone, heap.PTreasurePool, heap, p, p)
  <2>1. CASE heap.party[p].alliance = Null
    BY <1>6, <2>1 DEF Solo
  <2>2. CASE heap.party[p].alliance # Null
    <3>1. PICK a \in AlliancePtrs : a = heap.party[p].alliance
      BY <1>1, <2>2 DEF HeapType
    <3>2. p \in ToSet(heap.alliance[a].list)
      BY <1>1, <2>2, <3>1 DEF Shared, Registered, Known
    <3>3. PICK i \in DOMAIN heap.alliance[a].list : heap.alliance[a].list[i] = p
      BY <3>2 DEF ToSet
    <3>4. /\ DOMAIN heap.alliance[a].list = 1 .. Len(heap.alliance[a].list)
          /\ Len(heap.alliance[a].list) \in Nat
      BY <1>1, AllianceLists
    <3>5. \A k \in 1 .. i : k \in DOMAIN heap.alliance[a].list
      BY <3>4
    <3>6. i <= i /\ \A k \in 1 .. i : ~Stray(heap, a, k)
      BY <1>4, <3>4, <3>5
    <3> QED
      BY <1>6, <3>3, <3>6 DEF Groups, GroupAt
  <2> QED
    BY <2>1, <2>2
<1>8. ~Apart(zone, heap.PTreasurePool, c, d)
  BY <1>3, <1>7 DEF Together
<1> QED
  BY <1>2, <1>8 DEF Apart

\* Whatever packets, zone changes and log-outs there have been: members of one party
\* who are in the same zone share a pool (in a mog house: if they have any), as long
\* as no alliance lists a party that does not know of it.  The alliances of the code have up to three parties.
THEOREM PartiesSharePools ==
    ASSUME AllianceSize <= 3
    PROVE  Spec => []PartySharesPool
<1>1. Init => SharingInv
  BY FreshShares
<1>2. PartiesInv /\ SharingInv /\ [Next]_vars => SharingInv'
  BY StepShares
<1>3. PartiesInv /\ SharingInv => PartySharesPool
  BY SharingSuffices
<1> QED
  BY <1>1, <1>2, <1>3, PartiesInvariant, PTL DEF Spec

=============================================================================
