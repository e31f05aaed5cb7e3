-------------------------- MODULE StatusEffectsProofs --------------------------
(***************************************************************************)
(* Theorems about StatusEffects: types, the owner's modifiers, the icons   *)
(* and the number of songs, for every table of effects.  Every method      *)
(* relates the container before to the container after by Kept.            *)
(***************************************************************************)
EXTENDS StatusEffects, IterationLemmas

-----------------------------------------------------------------------------
(* Lists of which one entry is removed.                                    *)

LEMMA RemoveAtFacts ==
    ASSUME NEW S, NEW s \in Seq(S), NEW p \in DOMAIN s, NEW r, r = RemoveAt(s, p)
    PROVE  /\ r \in Seq(S) /\ Len(r) = Len(s) - 1 /\ DOMAIN r = 1 .. Len(s) - 1
           /\ \A i \in DOMAIN r : r[i] = IF i < p THEN s[i] ELSE s[i + 1]
<1>1. PICK n \in Nat : n = Len(s) /\ DOMAIN s = 1 .. n /\ p \in 1 .. n
  OBVIOUS
<1>2. PICK a, b : a = SubSeq(s, 1, p - 1) /\ b = SubSeq(s, p + 1, n)
  OBVIOUS
<1>3. /\ a \in Seq(S) /\ Len(a) = p - 1 /\ \A i \in 1 .. p - 1 : a[i] = s[i]
      /\ b \in Seq(S) /\ Len(b) = n - p /\ \A i \in 1 .. n - p : b[i] = s[p + i]
  <2>1. /\ SubSeq(s, 1, p - 1) \in Seq(S) /\ Len(SubSeq(s, 1, p - 1)) = p - 1
        /\ \A i \in 1 .. p - 1 : SubSeq(s, 1, p - 1)[i] = s[i]
    BY <1>1
  <2>2. /\ SubSeq(s, p + 1, n) \in Seq(S) /\ Len(SubSeq(s, p + 1, n)) = n - p
        /\ \A i \in 1 .. n - p : SubSeq(s, p + 1, n)[i] = s[p + i]
    <3>1. p + 1 \in Int /\ n \in Int /\ \A i \in (p + 1) .. n : s[i] \in S
      BY <1>1
    <3>2. /\ n - (p + 1) + 1 = n - p /\ (IF p + 1 <= n THEN n - (p + 1) + 1 ELSE 0) = n - p
          /\ \A i \in 1 .. n - p : (p + 1) + i - 1 = p + i
      BY <1>1
    <3> QED
      BY <3>1, <3>2, SubSeqProperties
  <2> QED
    BY <1>2, <2>1, <2>2
<1>4. r = a \o b
  BY <1>1, <1>2 DEF RemoveAt
<1>5. /\ a \o b \in Seq(S) /\ Len(a \o b) = Len(a) + Len(b)
      /\ \A i \in 1 .. Len(a) + Len(b) :
            (a \o b)[i] = IF i <= Len(a) THEN a[i] ELSE b[i - Len(a)]
  BY <1>3, ConcatProperties
<1>6. r \in Seq(S) /\ Len(r) = n - 1 /\ DOMAIN r = 1 .. n - 1
  BY <1>1, <1>3, <1>4, <1>5
<1>7. ASSUME NEW i \in 1 .. n - 1 PROVE r[i] = IF i < p THEN s[i] ELSE s[i + 1]
  <2>1. r[i] = IF i <= p - 1 THEN a[i] ELSE b[i - (p - 1)]
    <3>1. Len(a) + Len(b) = n - 1
      <4>1. (p - 1) + (n - p) = n - 1
        BY <1>1
      <4> QED
        BY <1>3, <4>1
    <3>2. i \in 1 .. Len(a) + Len(b)
      BY <3>1
    <3>3. r[i] = IF i <= Len(a) THEN a[i] ELSE b[i - Len(a)]
      BY <1>4, <1>5, <3>2
    <3> QED
      BY <1>3, <3>3
  <2>2. CASE i < p
    BY <1>1, <1>3, <2>1, <2>2
  <2>3. CASE ~(i < p)
    <3>1. i - (p - 1) \in 1 .. n - p /\ p + (i - (p - 1)) = i + 1 /\ ~(i <= p - 1)
      BY <1>1, <2>3
    <3> QED
      BY <1>3, <2>1, <2>3, <3>1
  <2> QED
    BY <2>2, <2>3
<1> QED
  BY <1>1, <1>6, <1>7

-----------------------------------------------------------------------------
(* The power of all effects of an id.                                      *)

Part(e, id) == IF e.id = id THEN e.power ELSE 0

\* The sums over the first k effects.
SumsOf(list, id, a) ==
    /\ a \in [0 .. Len(list) -> Int] /\ a[0] = 0
    /\ \A k \in 1 .. Len(list) : a[k] = a[k - 1] + Part(list[k], id)

LEMMA PartType ==
    ASSUME NEW e \in Effect, NEW id
    PROVE  Part(e, id) \in Int
BY DEF Part, Effect

LEMMA PowerOfSums ==
    ASSUME NEW list \in Seq(Effect), NEW id
    PROVE  \E a : SumsOf(list, id, a) /\ PowerOf(list, id) = a[Len(list)]
<1>1. PICK n \in Nat : n = Len(list)
  OBVIOUS
<1>2. \A k \in 1 .. n : list[k] \in Effect /\ Part(list[k], id) \in Int
  BY <1>1, PartType
<1> DEFINE round == [x \in (1 .. n) \X Int |-> x[2] + Part(list[x[1]], id)]
           IsRun(f) == f = [k \in 0 .. Len(list) |->
                              IF k = 0 THEN 0
                              ELSE f[k - 1] + (IF list[k].id = id THEN list[k].power ELSE 0)]
<1>3. PICK f \in [0 .. n -> Int] :
         f[0] = 0 /\ \A k \in 1 .. n : f[k] = f[k-1] + Part(list[k], id)
  <2>1. PICK r : r = round
    OBVIOUS
  <2>2. PICK S : S = Int
    OBVIOUS
  <2>3. PICK f \in RunsOf(n, S, 0, r) : TRUE
    <3>1. r \in [(1 .. n) \X S -> S] /\ 0 \in S
      BY <1>2, <2>1, <2>2
    <3> QED
      BY <3>1, RunExists
  <2>4. \A k \in 1 .. n : k - 1 \in 0 .. n
    OBVIOUS
  <2> QED
    BY <2>1, <2>2, <2>3, <2>4 DEF RunsOf
<1>4. IsRun(f)
  <2>1. \A k \in 0 .. n : k = 0 \/ k \in 1 .. n
    OBVIOUS
  <2> QED
    BY <1>1, <1>3, <2>1 DEF Part
<1>5. PICK a : a = CHOOSE q : IsRun(q)
  OBVIOUS
<1>6. IsRun(a)
  <2> HIDE DEF IsRun
  <2> QED
    BY <1>4, <1>5
<1>7. PowerOf(list, id) = a[n]
  BY <1>1, <1>5 DEF PowerOf
<1>8. a[0] = 0 /\ \A k \in 1 .. n : a[k] = a[k-1] + Part(list[k], id)
  <2>1. 0 \in 0 .. n /\ \A k \in 1 .. n : k \in 0 .. n /\ k # 0
    OBVIOUS
  <2> QED
    BY <1>1, <1>6, <2>1 DEF Part
<1> HIDE DEF IsRun
<1>9. \A k \in 0 .. n : a[k] \in Int
  <2>1. PICK S : S = Int
    OBVIOUS
  <2>2. a[0] \in S /\ \A k \in 1 .. n : a[k-1] \in S => a[k] \in S
    BY <1>2, <1>8, <2>1
  <2>3. \A k \in 0 .. n : a[k] \in S
    BY <2>2, KeptByRounds
  <2> QED
    BY <2>1, <2>3
<1>10. DOMAIN a = 0 .. n /\ a = [k \in 0 .. n |-> a[k]]
  BY <1>1, <1>6 DEF IsRun
<1>11. SumsOf(list, id, a)
  BY <1>1, <1>8, <1>9, <1>10 DEF SumsOf
<1> QED
  BY <1>1, <1>7, <1>11

LEMMA PowerOfType ==
    ASSUME NEW list \in Seq(Effect), NEW id
    PROVE  PowerOf(list, id) \in Int
BY PowerOfSums DEF SumsOf

\* The sums of two lists with equal first parts are equal.
LEMMA SameSums ==
    ASSUME NEW l \in Seq(Effect), NEW m \in Seq(Effect), NEW id, NEW a, NEW b,
           SumsOf(l, id, a), SumsOf(m, id, b), NEW n \in Nat, n <= Len(l), n <= Len(m),
           \A k \in 1 .. n : Part(l[k], id) = Part(m[k], id)
    PROVE  a[n] = b[n]
<1>1. PICK nl \in Nat, nm \in Nat : nl = Len(l) /\ nm = Len(m) /\ n <= nl /\ n <= nm
  OBVIOUS
<1>2. /\ a[0] = 0 /\ \A k \in 1 .. nl : a[k] = a[k - 1] + Part(l[k], id)
      /\ b[0] = 0 /\ \A k \in 1 .. nm : b[k] = b[k - 1] + Part(m[k], id)
      /\ \A k \in 0 .. nl : a[k] \in Int
      /\ \A k \in 0 .. nm : b[k] \in Int
  BY <1>1 DEF SumsOf
<1> DEFINE f == [k \in 0 .. n |-> a[k] - b[k]]
<1>3. f[0] \in {0}
  BY <1>2
<1>4. ASSUME NEW k \in 1 .. n, f[k-1] \in {0} PROVE f[k] \in {0}
  <2>1. k \in 1 .. nl /\ k \in 1 .. nm /\ k - 1 \in 0 .. n /\ k \in 0 .. n
        /\ k - 1 \in 0 .. nl /\ k - 1 \in 0 .. nm /\ k \in 0 .. nl /\ k \in 0 .. nm
    BY <1>1
  <2>2. a[k-1] = b[k-1]
    BY <1>2, <1>4, <2>1
  <2>3. a[k] = b[k]
    BY <1>2, <2>1, <2>2
  <2> QED
    BY <1>2, <2>1, <2>3
<1> HIDE DEF f
<1>5. \A k \in 0 .. n : f[k] \in {0}
  <2>1. PICK S : S = {0}
    OBVIOUS
  <2>2. f[0] \in S /\ \A k \in 1 .. n : f[k-1] \in S => f[k] \in S
    BY <1>3, <1>4, <2>1
  <2>3. \A k \in 0 .. n : f[k] \in S
    BY <2>2, KeptByRounds
  <2> QED
    BY <2>1, <2>3
<1>6. n \in 0 .. n /\ n \in 0 .. nl /\ n \in 0 .. nm
  BY <1>1
<1>7. f[n] = 0
  BY <1>5, <1>6
<1> QED
  BY <1>2, <1>6, <1>7 DEF f

LEMMA PowerOfNone ==
    ASSUME NEW id
    PROVE  PowerOf(<<>>, id) = 0
<1>1. <<>> \in Seq(Effect) /\ Len(<<>>) = 0
  OBVIOUS
<1> QED
  BY <1>1, PowerOfSums DEF SumsOf

LEMMA PowerOfSame ==
    ASSUME NEW l \in Seq(Effect), NEW m \in Seq(Effect), Len(l) = Len(m), NEW id,
           \A k \in DOMAIN l : Part(l[k], id) = Part(m[k], id)
    PROVE  PowerOf(m, id) = PowerOf(l, id)
<1>1. PICK n \in Nat : n = Len(l) /\ n = Len(m) /\ DOMAIN l = 1 .. n
  OBVIOUS
<1>2. PICK a : SumsOf(l, id, a) /\ PowerOf(l, id) = a[Len(l)]
  BY PowerOfSums
<1>3. PICK b : SumsOf(m, id, b) /\ PowerOf(m, id) = b[Len(m)]
  BY PowerOfSums
<1>4. \A k \in 1 .. n : Part(l[k], id) = Part(m[k], id)
  BY <1>1
<1>5. n <= Len(l) /\ n <= Len(m)
  BY <1>1
<1>6. a[n] = b[n]
  BY <1>2, <1>3, <1>4, <1>5, SameSums
<1> QED
  BY <1>1, <1>2, <1>3, <1>6

LEMMA PowerOfAppend ==
    ASSUME NEW l \in Seq(Effect), NEW e \in Effect, NEW id
    PROVE  PowerOf(Append(l, e), id) = PowerOf(l, id) + Part(e, id)
<1>1. PICK n \in Nat : n = Len(l)
  OBVIOUS
<1>2. PICK m : m = Append(l, e)
  OBVIOUS
<1>3. /\ m \in Seq(Effect) /\ Len(m) = n + 1 /\ m[n + 1] = e
      /\ \A k \in 1 .. n : m[k] = l[k]
  BY <1>1, <1>2
<1>4. PICK a : SumsOf(l, id, a) /\ PowerOf(l, id) = a[n]
  BY <1>1, PowerOfSums
<1>5. PICK b : SumsOf(m, id, b) /\ PowerOf(m, id) = b[n + 1]
  BY <1>3, PowerOfSums
<1>6. a[n] = b[n]
  <2>1. \A k \in 1 .. n : Part(l[k], id) = Part(m[k], id)
    BY <1>3
  <2>2. n <= Len(l) /\ n <= Len(m)
    BY <1>1, <1>3
  <2> QED
    BY <1>3, <1>4, <1>5, <2>1, <2>2, SameSums
<1>7. n + 1 \in 1 .. n + 1 /\ (n + 1) - 1 = n
  OBVIOUS
<1>8. b[n + 1] = b[n] + Part(e, id)
  BY <1>3, <1>5, <1>7 DEF SumsOf
<1> QED
  BY <1>2, <1>4, <1>5, <1>6, <1>8

LEMMA PowerOfRemoved ==
    ASSUME NEW l \in Seq(Effect), NEW p \in DOMAIN l, NEW id
    PROVE  PowerOf(RemoveAt(l, p), id) = PowerOf(l, id) - Part(l[p], id)
<1>1. PICK n \in Nat : n = Len(l) /\ DOMAIN l = 1 .. n /\ p \in 1 .. n /\ n - 1 \in Nat
  OBVIOUS
<1>2. PICK m : m = RemoveAt(l, p)
  OBVIOUS
<1>3. /\ m \in Seq(Effect) /\ Len(m) = n - 1
      /\ \A i \in 1 .. n - 1 : m[i] = IF i < p THEN l[i] ELSE l[i + 1]
  <2>1. /\ m \in Seq(Effect) /\ Len(m) = Len(l) - 1 /\ DOMAIN m = 1 .. Len(l) - 1
        /\ \A i \in DOMAIN m : m[i] = IF i < p THEN l[i] ELSE l[i + 1]
    BY <1>2, RemoveAtFacts
  <2> QED
    BY <1>1, <2>1
<1>4. PICK a : SumsOf(l, id, a) /\ PowerOf(l, id) = a[n]
  BY <1>1, PowerOfSums
<1>5. PICK b : SumsOf(m, id, b) /\ PowerOf(m, id) = b[n - 1]
  BY <1>3, PowerOfSums
<1>6. /\ \A k \in 1 .. n : a[k] = a[k - 1] + Part(l[k], id)
      /\ \A k \in 1 .. n - 1 : b[k] = b[k - 1] + Part(m[k], id)
      /\ \A k \in 0 .. n : a[k] \in Int
      /\ \A k \in 0 .. n - 1 : b[k] \in Int
      /\ \A k \in 1 .. n : Part(l[k], id) \in Int
  <2>1. \A k \in 1 .. n : Part(l[k], id) \in Int
    BY <1>1, PartType
  <2>2. /\ \A k \in 1 .. n : a[k] = a[k - 1] + Part(l[k], id)
        /\ \A k \in 0 .. n : a[k] \in Int
    BY <1>1, <1>4 DEF SumsOf
  <2>3. /\ \A k \in 1 .. n - 1 : b[k] = b[k - 1] + Part(m[k], id)
        /\ \A k \in 0 .. n - 1 : b[k] \in Int
    BY <1>1, <1>3, <1>5 DEF SumsOf
  <2> QED
    BY <2>1, <2>2, <2>3
\* Up to p the sums are equal, after it they differ by the removed part.
<1>7. a[p - 1] = b[p - 1]
  <2>1. p - 1 \in Nat /\ p - 1 <= Len(l) /\ p - 1 <= Len(m)
    BY <1>1, <1>3
  <2>2. \A k \in 1 .. p - 1 : k \in 1 .. n - 1 /\ k < p
    BY <1>1
  <2>3. \A k \in 1 .. p - 1 : Part(l[k], id) = Part(m[k], id)
    BY <1>3, <2>2
  <2> QED
    BY <1>3, <1>4, <1>5, <2>1, <2>3, SameSums
<1> DEFINE f == [k \in 0 .. n - p |-> a[p + k] - b[p + k - 1]]
           part == Part(l[p], id)
<1>8. f[0] \in {part}
  <2>1. p \in 1 .. n /\ p - 1 \in 0 .. n /\ p - 1 \in 0 .. n - 1 /\ 0 \in 0 .. n - p
        /\ p + 0 = p
    BY <1>1
  <2>2. a[p] = a[p - 1] + part /\ a[p - 1] \in Int /\ part \in Int
    BY <1>6, <2>1
  <2>3. f[0] = a[p] - b[p - 1]
    BY <2>1
  <2> QED
    BY <1>7, <2>2, <2>3
<1>9. ASSUME NEW k \in 1 .. n - p, f[k-1] \in {part} PROVE f[k] \in {part}
  <2>1. PICK j : j = p + k
    OBVIOUS
  <2>2. /\ j \in 1 .. n /\ j - 1 \in 1 .. n - 1 /\ j - 1 \in 0 .. n /\ j - 2 \in 0 .. n - 1
        /\ ~(j - 1 < p) /\ (j - 1) + 1 = j /\ (j - 1) - 1 = j - 2
        /\ p + (k - 1) = j - 1 /\ p + (k - 1) - 1 = j - 2 /\ k - 1 \in 0 .. n - p /\ k \in 0 .. n - p
    <3>1. j \in 1 .. n /\ j - 1 \in 1 .. n - 1 /\ j - 1 \in 0 .. n
      BY <1>1, <2>1
    <3>2. j - 2 \in 0 .. n - 1 /\ ~(j - 1 < p) /\ (j - 1) + 1 = j /\ (j - 1) - 1 = j - 2
      BY <1>1, <2>1
    <3>3. /\ p + (k - 1) = j - 1 /\ p + (k - 1) - 1 = j - 2
          /\ k - 1 \in 0 .. n - p /\ k \in 0 .. n - p
      BY <1>1, <2>1
    <3> QED
      BY <3>1, <3>2, <3>3
  <2>3. m[j - 1] = l[j]
    BY <1>3, <2>2
  <2>4. a[j] = a[j - 1] + Part(l[j], id) /\ b[j - 1] = b[j - 2] + Part(l[j], id)
    BY <1>6, <2>2, <2>3
  <2>5. a[j - 1] - b[j - 2] = part
    BY <1>9, <2>2
  <2>6. a[j - 1] \in Int /\ b[j - 2] \in Int /\ Part(l[j], id) \in Int
    BY <1>6, <2>2
  <2>7. a[j] - b[j - 1] = part
    BY <2>4, <2>5, <2>6
  <2>8. f[k] = a[j] - b[j - 1]
    BY <2>1, <2>2
  <2> QED
    BY <2>7, <2>8
<1>10. n - p \in Nat
  BY <1>1
<1>11. f[n - p] = part
  <2> HIDE DEF f, part
  <2>1. PICK S : S = {part}
    OBVIOUS
  <2>2. PICK d \in Nat : d = n - p
    BY <1>10
  <2>3. f[0] \in S /\ \A k \in 1 .. d : f[k-1] \in S => f[k] \in S
    BY <1>8, <1>9, <2>1, <2>2
  <2>4. \A k \in 0 .. d : f[k] \in S
    BY <2>3, KeptByRounds
  <2>5. d \in 0 .. d
    OBVIOUS
  <2> QED
    BY <2>1, <2>2, <2>4, <2>5
<1>12. a[n] - b[n - 1] = part
  <2>1. n - p \in 0 .. n - p /\ p + (n - p) = n
    BY <1>1, <1>10
  <2> QED
    BY <1>11, <2>1
<1>13. a[n] \in Int /\ b[n - 1] \in Int /\ part \in Int
  BY <1>1, <1>6
<1> QED
  BY <1>2, <1>4, <1>5, <1>12, <1>13

-----------------------------------------------------------------------------
(* The icons.                                                              *)

HaveIcons(list) == {n \in DOMAIN list : list[n].icon # None}

LEMMA HaveIconsFinite ==
    ASSUME NEW l \in Seq(Effect)
    PROVE  IsFiniteSet(HaveIcons(l)) /\ HaveIcons(l) \subseteq Int
<1>1. PICK n \in Nat : DOMAIN l = 1 .. n
  OBVIOUS
<1>2. IsFiniteSet(1 .. n)
  BY FS_Interval
<1>3. HaveIcons(l) \subseteq 1 .. n
  BY <1>1 DEF HaveIcons
<1>4. HaveIcons(l) \subseteq Int
  BY <1>3
<1> QED
  BY <1>2, <1>3, <1>4, FS_Subset

\* g gives the numbers in keep those in kept, in their order.
Renumbers(g, keep, kept) ==
    /\ IsFiniteSet(keep) /\ keep \subseteq Int /\ kept \subseteq Int
    /\ g \in [keep -> kept]
    /\ \A j \in kept : \E i \in keep : g[i] = j
    /\ \A i, j \in keep : i < j => g[i] < g[j]

SameRanks(g, keep, kept) ==
    /\ Cardinality(kept) = Cardinality(keep)
    /\ \A i \in keep : Rank(kept, g[i]) = Rank(keep, i)

\* It keeps their ranks.
LEMMA RankMoved ==
    ASSUME NEW keep, NEW kept, NEW g, Renumbers(g, keep, kept)
    PROVE  SameRanks(g, keep, kept)
<1> USE DEF Renumbers, SameRanks
<1>1. IsFiniteSet(keep) /\ \A i \in keep : i \in Int /\ g[i] \in Int
  OBVIOUS
<1>2. \A i, j \in keep : g[i] = g[j] => i = j
  <2> SUFFICES ASSUME NEW i \in keep, NEW j \in keep, g[i] = g[j] PROVE i = j
    OBVIOUS
  <2>1. i < j \/ j < i \/ i = j
    BY <1>1
  <2>2. ~(g[i] < g[j]) /\ ~(g[j] < g[i])
    BY <1>1
  <2> QED
    BY <2>1, <2>2
<1>3. ASSUME NEW A \in SUBSET keep, NEW B \in SUBSET kept,
             \A i \in A : g[i] \in B, \A j \in B : \E i \in A : g[i] = j
      PROVE  Cardinality(B) = Cardinality(A)
  <2> DEFINE f == [i \in A |-> g[i]]
  <2>1. f \in Bijection(A, B)
    BY <1>2, <1>3 DEF Bijection, Injection, Surjection, IsInjective
  <2>2. ExistsBijection(A, B)
    BY <2>1 DEF ExistsBijection
  <2>3. IsFiniteSet(A)
    BY <1>1, FS_Subset
  <2> QED
    BY <2>2, <2>3, FS_Bijection
<1>4. Cardinality(kept) = Cardinality(keep)
  BY <1>3
<1>5. ASSUME NEW i \in keep PROVE Rank(kept, g[i]) = Rank(keep, i)
  <2>1. PICK A : A = {k \in keep : k <= i}
    OBVIOUS
  <2>2. PICK B : B = {k \in kept : k <= g[i]}
    OBVIOUS
  <2>3. A \in SUBSET keep /\ B \in SUBSET kept
    BY <2>1, <2>2
  <2>4. ASSUME NEW k \in A PROVE g[k] \in B
    <3>1. k \in keep /\ (k < i \/ k = i)
      BY <1>1, <2>1
    <3>2. g[k] \in kept /\ g[k] <= g[i]
      BY <1>1, <3>1
    <3> QED
      BY <2>2, <3>2
  <2>5. ASSUME NEW j \in B PROVE \E k \in A : g[k] = j
    <3>1. PICK k \in keep : g[k] = j
      BY <2>3
    <3>2. g[k] <= g[i]
      BY <2>2, <3>1
    <3>3. ~(i < k)
      BY <1>1, <3>2
    <3>4. k \in A
      BY <1>1, <2>1, <3>3
    <3> QED
      BY <3>1, <3>4
  <2>6. Cardinality(B) = Cardinality(A)
    BY <1>3, <2>3, <2>4, <2>5
  <2> QED
    BY <2>1, <2>2, <2>6 DEF Rank
<1> QED
  BY <1>4, <1>5

LEMMA IconsType ==
    ASSUME NEW list \in Seq(Effect)
    PROVE  Icons(list) \in Seq(Ids)
<1>1. PICK keep : keep = HaveIcons(list)
  OBVIOUS
<1>2. keep \in SUBSET (DOMAIN list)
  BY <1>1 DEF HaveIcons
<1>3. PICK seen : seen = Restricted(list, keep)
  OBVIOUS
<1>4. seen \in Seq(Effect)
  BY <1>2, <1>3, RestrictedType
<1>5. PICK k \in Nat : k = Min({Len(seen), MaxIcons}) /\ k <= Len(seen)
  <2>1. {Len(seen), MaxIcons} \in SUBSET Nat /\ {Len(seen), MaxIcons} # {}
    BY <1>4, EffectsAssumption
  <2> QED
    BY <2>1, MinOfNaturals
<1>6. ASSUME NEW i \in 1 .. k PROVE seen[i].icon \in Ids
  <2>1. i \in DOMAIN seen
    BY <1>4, <1>5
  <2>2. DOMAIN seen = 1 .. Cardinality(keep)
    BY <1>2, <1>3, RestrictedElements
  <2>3. \E j \in keep : seen[i] = list[j]
    BY <1>2, <1>3, <2>1, <2>2, RestrictedElements
  <2>4. PICK j \in keep : seen[i] = list[j]
    BY <2>3
  <2>5. list[j] \in Effect /\ list[j].icon # None
    BY <1>1, <1>2 DEF HaveIcons
  <2> QED
    BY <2>4, <2>5 DEF Effect
<1>7. Icons(list) = [i \in 1 .. k |-> seen[i].icon]
  BY <1>1, <1>3, <1>5 DEF Icons, HaveIcons
<1> QED
  BY <1>6, <1>7, IsASeq

\* Lists that show the same icons in the same order.
LEMMA IconsMoved ==
    ASSUME NEW l \in Seq(Effect), NEW m \in Seq(Effect),
           NEW g, Renumbers(g, HaveIcons(l), HaveIcons(m)),
           \A i \in HaveIcons(l) : m[g[i]].icon = l[i].icon
    PROVE  Icons(m) = Icons(l)
<1>1. PICK keep : keep = HaveIcons(l)
  OBVIOUS
<1>2. PICK kept : kept = HaveIcons(m)
  OBVIOUS
<1>3. PICK nl \in Nat, nm \in Nat : nl = Len(l) /\ nm = Len(m) /\ DOMAIN l = 1 .. nl /\ DOMAIN m = 1 .. nm
  OBVIOUS
<1>4. keep \in SUBSET (1 .. nl) /\ kept \in SUBSET (1 .. nm)
  BY <1>1, <1>2, <1>3 DEF HaveIcons
<1>5. SameRanks(g, keep, kept)
  BY <1>1, <1>2, RankMoved
<1>6. PICK sl : sl = Restricted(l, keep)
  OBVIOUS
<1>7. PICK sm : sm = Restricted(m, kept)
  OBVIOUS
<1>8. PICK c : c = Cardinality(keep)
  OBVIOUS
<1>9. /\ sl \in Seq(Effect) /\ DOMAIN sl = 1 .. c
      /\ \A r \in 1 .. c : \E i \in keep : Rank(keep, i) = r /\ sl[r] = l[i]
  <2>1. keep \in SUBSET (DOMAIN l)
    BY <1>3, <1>4
  <2>2. sl \in Seq(Effect)
    BY <1>6, <2>1, RestrictedType
  <2>3. /\ DOMAIN Restricted(l, keep) = 1 .. Cardinality(keep)
        /\ \A r \in 1 .. Cardinality(keep) :
              \E i \in keep : Rank(keep, i) = r /\ Restricted(l, keep)[r] = l[i]
    BY <2>1, RestrictedElements
  <2> QED
    BY <1>6, <1>8, <2>2, <2>3
<1>10. /\ sm \in Seq(Effect) /\ DOMAIN sm = 1 .. c
       /\ \A j \in kept : sm[Rank(kept, j)] = m[j]
  <2>1. kept \in SUBSET (DOMAIN m)
    BY <1>3, <1>4
  <2>2. sm \in Seq(Effect)
    BY <1>7, <2>1, RestrictedType
  <2>3. /\ DOMAIN Restricted(m, kept) = 1 .. Cardinality(kept)
        /\ \A j \in kept : Restricted(m, kept)[Rank(kept, j)] = m[j]
    BY <2>1, RestrictedElements
  <2> QED
    BY <1>5, <1>7, <1>8, <2>2, <2>3 DEF SameRanks
<1>11. c \in Nat /\ Len(sl) = c /\ Len(sm) = c
  <2>1. IsFiniteSet(1 .. nl)
    BY FS_Interval
  <2>2. IsFiniteSet(keep)
    BY <1>4, <2>1, FS_Subset
  <2>3. c \in Nat
    BY <1>8, <2>2, FS_CardinalityType
  <2> QED
    BY <1>9, <1>10, <2>3
<1>12. \A r \in 1 .. c : sm[r].icon = sl[r].icon
  <2> TAKE r \in 1 .. c
  <2>1. PICK i \in keep : Rank(keep, i) = r /\ sl[r] = l[i]
    BY <1>9
  <2>2. g[i] \in kept /\ Rank(kept, g[i]) = r
    BY <1>1, <1>2, <1>5, <2>1 DEF Renumbers, SameRanks
  <2>3. sm[r] = m[g[i]]
    BY <1>10, <2>2
  <2> QED
    BY <1>1, <2>1, <2>3
<1>13. PICK k \in Nat : k = Min({c, MaxIcons}) /\ k <= c
  <2>1. {c, MaxIcons} \in SUBSET Nat /\ {c, MaxIcons} # {}
    BY <1>11, EffectsAssumption
  <2> QED
    BY <2>1, MinOfNaturals
<1>14. Icons(l) = [r \in 1 .. k |-> sl[r].icon] /\ Icons(m) = [r \in 1 .. k |-> sm[r].icon]
  <2>1. Icons(l) = [r \in 1 .. Min({Len(sl), MaxIcons}) |-> sl[r].icon]
    BY <1>1, <1>6 DEF Icons, HaveIcons
  <2>2. Icons(m) = [r \in 1 .. Min({Len(sm), MaxIcons}) |-> sm[r].icon]
    BY <1>2, <1>7 DEF Icons, HaveIcons
  <2> QED
    BY <1>11, <1>13, <2>1, <2>2
<1>15. \A r \in 1 .. k : r \in 1 .. c
  BY <1>11, <1>13
<1> QED
  BY <1>12, <1>14, <1>15

\* An effect without an icon comes or goes.
LEMMA IconsOfRemoved ==
    ASSUME NEW l \in Seq(Effect), NEW p \in DOMAIN l, l[p].icon = None
    PROVE  Icons(RemoveAt(l, p)) = Icons(l)
<1>1. PICK n \in Nat : n = Len(l) /\ DOMAIN l = 1 .. n /\ p \in 1 .. n
  OBVIOUS
<1>2. PICK m : m = RemoveAt(l, p)
  OBVIOUS
<1>3. /\ m \in Seq(Effect) /\ Len(m) = n - 1 /\ DOMAIN m = 1 .. n - 1
      /\ \A i \in 1 .. n - 1 : m[i] = IF i < p THEN l[i] ELSE l[i + 1]
  <2>1. /\ m \in Seq(Effect) /\ Len(m) = Len(l) - 1 /\ DOMAIN m = 1 .. Len(l) - 1
        /\ \A i \in DOMAIN m : m[i] = IF i < p THEN l[i] ELSE l[i + 1]
    BY <1>2, RemoveAtFacts
  <2> QED
    BY <1>1, <2>1
<1> DEFINE to(i) == IF i < p THEN i ELSE i - 1
           g == [i \in HaveIcons(l) |-> to(i)]
<1>4. ASSUME NEW i \in HaveIcons(l) PROVE to(i) \in HaveIcons(m) /\ m[to(i)] = l[i]
  <2>1. i \in 1 .. n /\ i # p /\ l[i].icon # None
    BY <1>1 DEF HaveIcons
  <2>2. to(i) \in 1 .. n - 1 /\ (IF to(i) < p THEN to(i) ELSE to(i) + 1) = i
    BY <1>1, <2>1
  <2>3. m[to(i)] = l[i]
    <3>1. CASE i < p
      BY <1>3, <2>2, <3>1
    <3>2. CASE ~(i < p)
      <4>1. ~(to(i) < p) /\ to(i) + 1 = i
        BY <1>1, <2>1, <3>2
      <4> QED
        BY <1>3, <2>2, <4>1
    <3> QED
      BY <3>1, <3>2
  <2> HIDE DEF to
  <2> QED
    BY <1>3, <2>1, <2>2, <2>3 DEF HaveIcons
<1>5. ASSUME NEW j \in HaveIcons(m) PROVE \E i \in HaveIcons(l) : to(i) = j
  <2>1. j \in 1 .. n - 1 /\ m[j].icon # None
    BY <1>3 DEF HaveIcons
  <2>2. PICK i : i = IF j < p THEN j ELSE j + 1
    OBVIOUS
  <2>3. i \in 1 .. n /\ to(i) = j
    BY <1>1, <2>1, <2>2
  <2>4. m[j] = l[i]
    BY <1>3, <2>1, <2>2
  <2>5. i \in HaveIcons(l)
    BY <1>1, <2>1, <2>3, <2>4 DEF HaveIcons
  <2> QED
    BY <2>3, <2>5
<1>6. ASSUME NEW i \in HaveIcons(l), NEW j \in HaveIcons(l), i < j PROVE to(i) < to(j)
  <2>1. i \in 1 .. n /\ j \in 1 .. n /\ i # p /\ j # p
    BY <1>1 DEF HaveIcons
  <2> QED
    BY <1>1, <1>6, <2>1
<1>7. \A i \in HaveIcons(l) : g[i] = to(i)
  OBVIOUS
<1> HIDE DEF to
<1>8. g \in [HaveIcons(l) -> HaveIcons(m)]
  BY <1>4
<1> HIDE DEF g
<1>9. \A j \in HaveIcons(m) : \E i \in HaveIcons(l) : g[i] = j
  BY <1>5, <1>7
<1>10. \A i, j \in HaveIcons(l) : i < j => g[i] < g[j]
  BY <1>6, <1>7
<1>11. \A i \in HaveIcons(l) : m[g[i]].icon = l[i].icon
  BY <1>4, <1>7
<1>12. Renumbers(g, HaveIcons(l), HaveIcons(m))
  BY <1>3, <1>8, <1>9, <1>10, HaveIconsFinite DEF Renumbers
<1> QED
  BY <1>2, <1>3, <1>11, <1>12, IconsMoved

\* The positions with an icon, and the icons there, are the same in both lists.
LEMMA IconsSame ==
    ASSUME NEW l \in Seq(Effect), NEW m \in Seq(Effect), HaveIcons(m) = HaveIcons(l),
           \A i \in HaveIcons(l) : m[i].icon = l[i].icon
    PROVE  Icons(m) = Icons(l)
<1>1. PICK g : g = [i \in HaveIcons(l) |-> i]
  OBVIOUS
<1>2. g \in [HaveIcons(l) -> HaveIcons(m)] /\ \A i \in HaveIcons(l) : g[i] = i
  BY <1>1
<1>3. \A j \in HaveIcons(m) : \E i \in HaveIcons(l) : g[i] = j
  BY <1>2
<1>4. \A i, j \in HaveIcons(l) : i < j => g[i] < g[j]
  BY <1>2
<1>5. \A i \in HaveIcons(l) : m[g[i]].icon = l[i].icon
  BY <1>2
<1>6. Renumbers(g, HaveIcons(l), HaveIcons(m))
  BY <1>2, <1>3, <1>4, HaveIconsFinite DEF Renumbers
<1> QED
  BY <1>5, <1>6, IconsMoved

LEMMA IconsOfAppend ==
    ASSUME NEW l \in Seq(Effect), NEW e \in Effect, e.icon = None
    PROVE  Icons(Append(l, e)) = Icons(l)
<1>1. PICK n \in Nat : n = Len(l) /\ DOMAIN l = 1 .. n
  OBVIOUS
<1>2. PICK m : m = Append(l, e)
  OBVIOUS
<1>3. /\ m \in Seq(Effect) /\ DOMAIN m = 1 .. n + 1 /\ m[n + 1] = e
      /\ \A k \in 1 .. n : m[k] = l[k]
  BY <1>1, <1>2
<1>4. \A k \in 1 .. n + 1 : k = n + 1 \/ k \in 1 .. n
  OBVIOUS
<1>5. HaveIcons(m) = HaveIcons(l)
  BY <1>1, <1>3, <1>4 DEF HaveIcons
<1>6. \A i \in HaveIcons(l) : m[i].icon = l[i].icon
  BY <1>1, <1>3 DEF HaveIcons
<1> QED
  BY <1>2, <1>3, <1>5, <1>6, IconsSame

LEMMA IconsOfNone == Icons(<<>>) = <<>>
<1>1. PICK keep : keep = HaveIcons(<<>>)
  OBVIOUS
<1>2. keep = {}
  BY <1>1 DEF HaveIcons
<1>3. <<>> \in Seq(Effect) /\ keep \in SUBSET (DOMAIN <<>>) /\ Cardinality(keep) = 0
  BY <1>2, FS_EmptySet
<1>4. PICK seen : seen = Restricted(<<>>, keep)
  OBVIOUS
<1>5. seen \in Seq(Effect) /\ DOMAIN seen = 1 .. 0
  BY <1>3, <1>4, RestrictedType, RestrictedElements
<1>6. Len(seen) = 0
  BY <1>5
<1>7. PICK k \in Nat : k = Min({Len(seen), MaxIcons}) /\ k <= 0
  <2>1. {Len(seen), MaxIcons} \in SUBSET Nat /\ {Len(seen), MaxIcons} # {}
    BY <1>6, EffectsAssumption
  <2> QED
    BY <1>6, <2>1, MinOfNaturals
<1>8. Icons(<<>>) = [i \in 1 .. k |-> seen[i].icon]
  BY <1>1, <1>4, <1>7 DEF Icons, HaveIcons
<1>9. k = 0
  BY <1>7
<1>10. PICK none : none = Icons(<<>>)
  OBVIOUS
<1>11. none \in Seq(Ids) /\ DOMAIN none = 1 .. 0
  BY <1>3, <1>8, <1>9, <1>10, IconsType
<1>12. none = <<>>
  BY <1>11
<1> QED
  BY <1>10, <1>12

-----------------------------------------------------------------------------
(* Lists that lose effects.                                                *)

Like(e, f) == e.id = f.id /\ e.power = f.power /\ e.sub = f.sub

Embeds(g, l, m) ==
    /\ g \in [DOMAIN l -> DOMAIN m]
    /\ \A i, j \in DOMAIN l : g[i] = g[j] => i = j
    /\ \A i \in DOMAIN l : Like(l[i], m[g[i]])

\* Every effect of l has an effect of m of its own that is like it.
Fewer(l, m) == \E g : Embeds(g, l, m)

\* A list is like itself, and like one in which other fields have changed.
LEMMA FewerByLike ==
    ASSUME NEW l, NEW m, DOMAIN l = DOMAIN m, \A i \in DOMAIN l : Like(l[i], m[i])
    PROVE  Fewer(l, m)
<1>1. PICK g : g = [i \in DOMAIN l |-> i]
  OBVIOUS
<1>2. g \in [DOMAIN l -> DOMAIN m] /\ \A i \in DOMAIN l : g[i] = i
  BY <1>1
<1>3. Embeds(g, l, m)
  BY <1>2 DEF Embeds
<1> QED
  BY <1>3 DEF Fewer

LEMMA FewerSame ==
    ASSUME NEW l
    PROVE  Fewer(l, l)
BY FewerByLike DEF Like

LEMMA FewerTwice ==
    ASSUME NEW l, NEW m, NEW n, Fewer(l, m), Fewer(m, n)
    PROVE  Fewer(l, n)
<1>1. PICK g : Embeds(g, l, m)
  BY DEF Fewer
<1>2. PICK h : Embeds(h, m, n)
  BY DEF Fewer
<1>3. PICK f : f = [i \in DOMAIN l |-> h[g[i]]]
  OBVIOUS
<1>4. \A i \in DOMAIN l : g[i] \in DOMAIN m /\ f[i] = h[g[i]] /\ f[i] \in DOMAIN n
  BY <1>1, <1>2, <1>3 DEF Embeds
<1>5. f \in [DOMAIN l -> DOMAIN n]
  BY <1>3, <1>4
<1>6. \A i, j \in DOMAIN l : f[i] = f[j] => i = j
  BY <1>1, <1>2, <1>4 DEF Embeds
<1>7. \A i \in DOMAIN l : Like(l[i], n[f[i]])
  BY <1>1, <1>2, <1>4 DEF Embeds, Like
<1>8. Embeds(f, l, n)
  BY <1>5, <1>6, <1>7 DEF Embeds
<1> QED
  BY <1>8 DEF Fewer

LEMMA FewerRemoved ==
    ASSUME NEW l \in Seq(Effect), NEW p \in DOMAIN l
    PROVE  Fewer(RemoveAt(l, p), l)
<1>1. PICK n \in Nat : n = Len(l) /\ DOMAIN l = 1 .. n /\ p \in 1 .. n
  OBVIOUS
<1>2. PICK m : m = RemoveAt(l, p)
  OBVIOUS
<1>3. /\ DOMAIN m = 1 .. n - 1
      /\ \A i \in 1 .. n - 1 : m[i] = IF i < p THEN l[i] ELSE l[i + 1]
  <2>1. /\ DOMAIN m = 1 .. Len(l) - 1
        /\ \A i \in DOMAIN m : m[i] = IF i < p THEN l[i] ELSE l[i + 1]
    BY <1>2, RemoveAtFacts
  <2> QED
    BY <1>1, <2>1
<1>4. PICK g : g = [i \in 1 .. n - 1 |-> IF i < p THEN i ELSE i + 1]
  OBVIOUS
<1>5. \A i \in 1 .. n - 1 : g[i] = (IF i < p THEN i ELSE i + 1) /\ g[i] \in 1 .. n
  BY <1>1, <1>4
<1>6. g \in [1 .. n - 1 -> 1 .. n]
  BY <1>4, <1>5
<1>7. \A i, j \in 1 .. n - 1 : g[i] = g[j] => i = j
  BY <1>1, <1>5
<1>8. \A i \in 1 .. n - 1 : m[i] = l[g[i]]
  BY <1>3, <1>5
<1>9. Embeds(g, m, l)
  BY <1>1, <1>3, <1>6, <1>7, <1>8 DEF Embeds, Like
<1> QED
  BY <1>2, <1>9 DEF Fewer

LEMMA FewerAppend ==
    ASSUME NEW l \in Seq(Effect), NEW m \in Seq(Effect), Fewer(l, m),
           NEW e \in Effect, NEW f \in Effect, Like(e, f)
    PROVE  Fewer(Append(l, e), Append(m, f))
<1>1. PICK g : Embeds(g, l, m)
  BY DEF Fewer
<1>2. PICK nl \in Nat, nm \in Nat :
         nl = Len(l) /\ nm = Len(m) /\ DOMAIN l = 1 .. nl /\ DOMAIN m = 1 .. nm
  OBVIOUS
<1>3. PICK le, mf : le = Append(l, e) /\ mf = Append(m, f)
  OBVIOUS
<1>4. /\ DOMAIN le = 1 .. nl + 1 /\ le[nl + 1] = e /\ \A i \in 1 .. nl : le[i] = l[i]
      /\ DOMAIN mf = 1 .. nm + 1 /\ mf[nm + 1] = f /\ \A i \in 1 .. nm : mf[i] = m[i]
  BY <1>2, <1>3
<1>5. PICK h : h = [i \in 1 .. nl + 1 |-> IF i = nl + 1 THEN nm + 1 ELSE g[i]]
  OBVIOUS
<1>6. \A i \in 1 .. nl + 1 : i = nl + 1 \/ i \in 1 .. nl
  OBVIOUS
<1>7. h[nl + 1] = nm + 1 /\ \A i \in 1 .. nl : h[i] = g[i] /\ g[i] \in 1 .. nm
  <2>1. nl + 1 \in 1 .. nl + 1 /\ \A i \in 1 .. nl : i \in 1 .. nl + 1 /\ i # nl + 1
    OBVIOUS
  <2> QED
    BY <1>1, <1>2, <1>5, <2>1 DEF Embeds
<1>8. \A i \in 1 .. nl + 1 : h[i] \in 1 .. nm + 1
  <2>1. nm + 1 \in 1 .. nm + 1 /\ \A i \in 1 .. nm : i \in 1 .. nm + 1
    OBVIOUS
  <2> QED
    BY <1>6, <1>7, <2>1
<1>9. h \in [1 .. nl + 1 -> 1 .. nm + 1]
  BY <1>5, <1>8
<1>10. \A i, j \in 1 .. nl + 1 : h[i] = h[j] => i = j
  <2>1. \A i \in 1 .. nm : i # nm + 1
    OBVIOUS
  <2>2. \A i, j \in 1 .. nl : g[i] = g[j] => i = j
    BY <1>1, <1>2 DEF Embeds
  <2> QED
    BY <1>6, <1>7, <2>1, <2>2
<1>11. \A i \in 1 .. nl + 1 : Like(le[i], mf[h[i]])
  <2>1. \A i \in 1 .. nl : Like(l[i], m[g[i]])
    BY <1>1, <1>2 DEF Embeds
  <2> QED
    BY <1>4, <1>6, <1>7, <2>1
<1>12. Embeds(h, le, mf)
  BY <1>4, <1>9, <1>10, <1>11 DEF Embeds
<1> QED
  BY <1>3, <1>12 DEF Fewer

LEMMA FewerLonger ==
    ASSUME NEW l \in Seq(Effect), NEW e \in Effect
    PROVE  Fewer(l, Append(l, e))
<1>1. PICK n \in Nat : n = Len(l) /\ DOMAIN l = 1 .. n
  OBVIOUS
<1>2. PICK m : m = Append(l, e)
  OBVIOUS
<1>3. DOMAIN m = 1 .. n + 1 /\ \A i \in 1 .. n : m[i] = l[i] /\ i \in 1 .. n + 1
  BY <1>1, <1>2
<1>4. PICK g : g = [i \in 1 .. n |-> i]
  OBVIOUS
<1>5. g \in [1 .. n -> 1 .. n + 1] /\ \A i \in 1 .. n : g[i] = i
  BY <1>3, <1>4
<1>6. Embeds(g, l, m)
  BY <1>1, <1>3, <1>5 DEF Embeds, Like
<1> QED
  BY <1>2, <1>6 DEF Fewer

LEMMA FewerRestricted ==
    ASSUME NEW l \in Seq(Effect), NEW keep \in SUBSET (DOMAIN l)
    PROVE  Fewer(Restricted(l, keep), l)
<1>1. PICK r : r = Restricted(l, keep)
  OBVIOUS
<1>2. \A i \in DOMAIN r : \E k \in keep : Rank(keep, k) = i /\ r[i] = l[k]
  <2>1. /\ DOMAIN Restricted(l, keep) = 1 .. Cardinality(keep)
        /\ \A i \in 1 .. Cardinality(keep) :
              \E k \in keep : Rank(keep, k) = i /\ Restricted(l, keep)[i] = l[k]
    BY RestrictedElements
  <2> QED
    BY <1>1, <2>1
<1>3. PICK g : g = [i \in DOMAIN r |-> CHOOSE k \in keep : Rank(keep, k) = i /\ r[i] = l[k]]
  OBVIOUS
<1>4. \A i \in DOMAIN r : g[i] \in keep /\ Rank(keep, g[i]) = i /\ r[i] = l[g[i]]
  BY <1>2, <1>3
<1>5. g \in [DOMAIN r -> DOMAIN l]
  BY <1>3, <1>4
<1>6. Embeds(g, r, l)
  BY <1>4, <1>5 DEF Embeds, Like
<1> QED
  BY <1>1, <1>6 DEF Fewer

-----------------------------------------------------------------------------
(* Songs.                                                                  *)

Sung(l, bard) == {n \in DOMAIN l : l[n].id \in Songs /\ l[n].sub = bard}

LEMMA SungFinite ==
    ASSUME NEW l \in Seq(Effect), NEW bard
    PROVE  IsFiniteSet(Sung(l, bard)) /\ Cardinality(Sung(l, bard)) \in Nat
<1>1. PICK n \in Nat : DOMAIN l = 1 .. n
  OBVIOUS
<1>2. IsFiniteSet(1 .. n)
  BY FS_Interval
<1>3. Sung(l, bard) \in SUBSET (1 .. n)
  BY <1>1 DEF Sung
<1> QED
  BY <1>2, <1>3, FS_Subset, FS_CardinalityType

LEMMA SungFewer ==
    ASSUME NEW l \in Seq(Effect), NEW m \in Seq(Effect), Fewer(l, m), NEW bard
    PROVE  Cardinality(Sung(l, bard)) <= Cardinality(Sung(m, bard))
<1>1. PICK g : Embeds(g, l, m)
  BY DEF Fewer
<1>2. PICK f : f = [i \in Sung(l, bard) |-> g[i]]
  OBVIOUS
<1>3. \A i \in Sung(l, bard) : f[i] = g[i] /\ g[i] \in Sung(m, bard)
  BY <1>1, <1>2 DEF Embeds, Like, Sung
<1>4. f \in [Sung(l, bard) -> Sung(m, bard)]
  BY <1>2, <1>3
<1>5. \A i, j \in Sung(l, bard) : f[i] = f[j] => i = j
  BY <1>1, <1>3 DEF Embeds, Sung
<1>6. f \in Injection(Sung(l, bard), Sung(m, bard))
  BY <1>4, <1>5 DEF Injection, IsInjective
<1> QED
  BY <1>6, SungFinite, FS_Injection

LEMMA SungAppend ==
    ASSUME NEW l \in Seq(Effect), NEW e \in Effect, NEW bard
    PROVE  /\ Cardinality(Sung(Append(l, e), bard)) <= Cardinality(Sung(l, bard)) + 1
           /\ e.id \notin Songs \/ e.sub # bard =>
                 Cardinality(Sung(Append(l, e), bard)) = Cardinality(Sung(l, bard))
<1>1. PICK n \in Nat : n = Len(l) /\ DOMAIN l = 1 .. n
  OBVIOUS
<1>2. PICK m : m = Append(l, e)
  OBVIOUS
<1>3. /\ DOMAIN m = 1 .. n + 1 /\ m[n + 1] = e
      /\ \A i \in 1 .. n : m[i] = l[i] /\ i \in 1 .. n + 1 /\ i # n + 1
  BY <1>1, <1>2
<1>4. \A i \in 1 .. n + 1 : i = n + 1 \/ i \in 1 .. n
  OBVIOUS
<1>5. PICK S, T : S = Sung(l, bard) /\ T = Sung(m, bard)
  OBVIOUS
<1>6. IsFiniteSet(S) /\ Cardinality(S) \in Nat /\ n + 1 \notin S
  BY <1>1, <1>3, <1>5, SungFinite DEF Sung
<1>7. CASE e.id \in Songs /\ e.sub = bard
  <2>1. T = S \cup {n + 1}
    BY <1>1, <1>3, <1>4, <1>5, <1>7 DEF Sung
  <2>2. Cardinality(T) = Cardinality(S) + 1
    BY <1>6, <2>1, FS_AddElement
  <2> QED
    BY <1>2, <1>5, <1>6, <1>7, <2>2
<1>8. CASE ~(e.id \in Songs /\ e.sub = bard)
  <2>1. T = S
    BY <1>1, <1>3, <1>4, <1>5, <1>8 DEF Sung
  <2> QED
    BY <1>2, <1>5, <1>6, <1>8, <2>1
<1> QED
  BY <1>7, <1>8

\* One song of a bard the less.
LEMMA SungRemoved ==
    ASSUME NEW l \in Seq(Effect), NEW bard, NEW p \in Sung(l, bard)
    PROVE  Cardinality(Sung(RemoveAt(l, p), bard)) <= Cardinality(Sung(l, bard)) - 1
<1>1. PICK n \in Nat : n = Len(l) /\ DOMAIN l = 1 .. n /\ p \in 1 .. n
  BY DEF Sung
<1>2. PICK m : m = RemoveAt(l, p)
  OBVIOUS
<1>3. /\ m \in Seq(Effect) /\ DOMAIN m = 1 .. n - 1
      /\ \A i \in 1 .. n - 1 : m[i] = IF i < p THEN l[i] ELSE l[i + 1]
  <2>1. /\ m \in Seq(Effect) /\ DOMAIN m = 1 .. Len(l) - 1
        /\ \A i \in DOMAIN m : m[i] = IF i < p THEN l[i] ELSE l[i + 1]
    <3>1. p \in DOMAIN l
      BY <1>1
    <3> QED
      BY <1>2, <3>1, RemoveAtFacts
  <2> QED
    BY <1>1, <2>1
<1>4. PICK S, T : S = Sung(l, bard) \ {p} /\ T = Sung(m, bard)
  OBVIOUS
<1>5. PICK g : g = [i \in T |-> IF i < p THEN i ELSE i + 1]
  OBVIOUS
<1>6. \A i \in T : i \in 1 .. n - 1 /\ m[i].id \in Songs /\ m[i].sub = bard
  BY <1>3, <1>4 DEF Sung
<1>7. ASSUME NEW i \in T PROVE g[i] = (IF i < p THEN i ELSE i + 1) /\ g[i] \in S
  <2>1. PICK k : k = IF i < p THEN i ELSE i + 1
    OBVIOUS
  <2>2. i \in 1 .. n - 1 /\ m[i].id \in Songs /\ m[i].sub = bard
    BY <1>6
  <2>3. k \in 1 .. n /\ k # p
    BY <1>1, <2>1, <2>2
  <2>4. m[i] = l[k]
    BY <1>3, <2>1, <2>2
  <2>5. k \in S
    BY <1>1, <1>4, <2>2, <2>3, <2>4 DEF Sung
  <2> QED
    BY <1>5, <2>1, <2>5
<1>8. g \in [T -> S]
  BY <1>5, <1>7
<1>9. \A i, j \in T : g[i] = g[j] => i = j
  <2> SUFFICES ASSUME NEW i \in T, NEW j \in T, g[i] = g[j] PROVE i = j
    OBVIOUS
  <2>1. (IF i < p THEN i ELSE i + 1) = (IF j < p THEN j ELSE j + 1)
    BY <1>7
  <2>2. i \in 1 .. n - 1 /\ j \in 1 .. n - 1
    BY <1>6
  <2> QED
    BY <1>1, <2>1, <2>2
<1>10. g \in Injection(T, S)
  BY <1>8, <1>9 DEF Injection, IsInjective
<1>11. IsFiniteSet(S) /\ Cardinality(S) = Cardinality(Sung(l, bard)) - 1
  <2>1. IsFiniteSet(Sung(l, bard))
    BY SungFinite
  <2> QED
    BY <1>4, <2>1, FS_RemoveElement
<1>12. Cardinality(T) <= Cardinality(S)
  BY <1>10, <1>11, FS_Injection
<1> QED
  BY <1>2, <1>4, <1>11, <1>12

\* A song of a tier is there once, whoever sang it.
NoTwins(l) == \A i, j \in DOMAIN l :
    l[i].id \in Songs /\ l[i].id = l[j].id /\ l[i].power = l[j].power => i = j

LEMMA NoTwinsFewer ==
    ASSUME NEW l, NEW m, Fewer(l, m), NoTwins(m)
    PROVE  NoTwins(l)
<1>1. PICK g : Embeds(g, l, m)
  BY DEF Fewer
<1> SUFFICES ASSUME NEW i \in DOMAIN l, NEW j \in DOMAIN l, l[i].id \in Songs,
                    l[i].id = l[j].id, l[i].power = l[j].power
             PROVE  i = j
  BY DEF NoTwins
<1>2. g[i] \in DOMAIN m /\ g[j] \in DOMAIN m /\ Like(l[i], m[g[i]]) /\ Like(l[j], m[g[j]])
  BY <1>1 DEF Embeds
<1>3. g[i] = g[j]
  BY <1>2 DEF NoTwins, Like
<1> QED
  BY <1>1, <1>3 DEF Embeds

\* e is a song of a tier that is not in the list.
Lacks(l, e) == \A i \in DOMAIN l : ~(l[i].id = e.id /\ l[i].power = e.power)

LEMMA LacksFewer ==
    ASSUME NEW l, NEW m, Fewer(l, m), NEW e, Lacks(m, e)
    PROVE  Lacks(l, e)
<1>1. PICK g : Embeds(g, l, m)
  BY DEF Fewer
<1> QED
  BY <1>1 DEF Embeds, Like, Lacks

LEMMA LacksRemoved ==
    ASSUME NEW l \in Seq(Effect), NoTwins(l), NEW p \in DOMAIN l, NEW e,
           l[p].id \in Songs, l[p].id = e.id, l[p].power = e.power
    PROVE  Lacks(RemoveAt(l, p), e)
<1>1. PICK m : m = RemoveAt(l, p)
  OBVIOUS
<1>2. PICK n \in Nat : n = Len(l) /\ DOMAIN l = 1 .. n /\ p \in 1 .. n
  OBVIOUS
<1>3. /\ DOMAIN m = 1 .. n - 1
      /\ \A i \in 1 .. n - 1 : m[i] = IF i < p THEN l[i] ELSE l[i + 1]
  <2>1. /\ DOMAIN m = 1 .. Len(l) - 1
        /\ \A i \in DOMAIN m : m[i] = IF i < p THEN l[i] ELSE l[i + 1]
    BY <1>1, RemoveAtFacts
  <2> QED
    BY <1>2, <2>1
<1>4. ASSUME NEW i \in 1 .. n - 1 PROVE ~(m[i].id = e.id /\ m[i].power = e.power)
  <2>1. PICK k : k = IF i < p THEN i ELSE i + 1
    OBVIOUS
  <2>2. k \in 1 .. n /\ k # p /\ m[i] = l[k]
    BY <1>2, <1>3, <2>1
  <2> QED
    BY <1>2, <2>2 DEF NoTwins
<1> QED
  BY <1>1, <1>3, <1>4 DEF Lacks

LEMMA NoTwinsAppend ==
    ASSUME NEW l \in Seq(Effect), NEW e \in Effect, NoTwins(l),
           e.id \in Songs => Lacks(l, e)
    PROVE  NoTwins(Append(l, e))
<1>1. PICK n \in Nat : n = Len(l) /\ DOMAIN l = 1 .. n
  OBVIOUS
<1>2. PICK m : m = Append(l, e)
  OBVIOUS
<1>3. DOMAIN m = 1 .. n + 1 /\ m[n + 1] = e /\ \A i \in 1 .. n : m[i] = l[i]
  BY <1>1, <1>2
<1>4. \A i \in 1 .. n + 1 : i = n + 1 \/ i \in 1 .. n
  OBVIOUS
<1>5. NoTwins(m)
  <2> SUFFICES ASSUME NEW i \in 1 .. n + 1, NEW j \in 1 .. n + 1, m[i].id \in Songs,
                      m[i].id = m[j].id, m[i].power = m[j].power
               PROVE  i = j
    BY <1>3 DEF NoTwins
  <2>1. CASE i = n + 1 \/ j = n + 1
    BY <1>1, <1>3, <1>4, <2>1 DEF Lacks
  <2>2. CASE i \in 1 .. n /\ j \in 1 .. n
    BY <1>1, <1>3, <2>2 DEF NoTwins
  <2> QED
    BY <1>4, <2>1, <2>2
<1> QED
  BY <1>2, <1>5

-----------------------------------------------------------------------------
(* What the methods of the container keep.                                 *)

BoxRec == [list : Seq(Effect), icons : Seq(Ids), mods : [Ids -> Int]]

Current(s) == kind = "pc" => s.icons = Icons(s.list)
InSync(s) == \A id \in Ids : s.mods[id] = PowerOf(s.list, id)

\* t is a container whose icons and modifiers are as right as those of s.
AsRight(s, t) == /\ t \in BoxRec
                 /\ Current(s) => Current(t)
                 /\ InSync(s) => InSync(t)

\* What a method promises that takes effects away: those that stay do not change.
Kept(s, t) == AsRight(s, t) /\ Fewer(t.list, s.list) /\ ToSet(t.list) \subseteq ToSet(s.list)

LEMMA KeptSame ==
    ASSUME NEW s \in BoxRec
    PROVE  Kept(s, s)
BY FewerSame DEF Kept, AsRight

LEMMA KeptTwice ==
    ASSUME NEW s, NEW t, NEW u, Kept(s, t), Kept(t, u)
    PROVE  Kept(s, u)
BY FewerTwice DEF Kept, AsRight

LEMMA RemovedSet ==
    ASSUME NEW l \in Seq(Effect), NEW n \in DOMAIN l
    PROVE  ToSet(RemoveAt(l, n)) \subseteq ToSet(l)
<1>1. PICK r : r = RemoveAt(l, n)
  OBVIOUS
<1>2. PICK len \in Nat : len = Len(l) /\ DOMAIN l = 1 .. len
  OBVIOUS
<1>3. DOMAIN r = 1 .. len - 1 /\ \A i \in DOMAIN r : r[i] = IF i < n THEN l[i] ELSE l[i + 1]
  <2>1. DOMAIN r = 1 .. Len(l) - 1 /\ \A i \in DOMAIN r : r[i] = IF i < n THEN l[i] ELSE l[i + 1]
    BY <1>1, RemoveAtFacts
  <2> QED
    BY <1>2, <2>1
<1>4. \A i \in DOMAIN r : \E j \in DOMAIN l : r[i] = l[j]
  BY <1>2, <1>3
<1> QED
  BY <1>1, <1>4 DEF ToSet

\* The icons are updated if the list has changed in an effect that has one.
LEMMA UpdatedIcons ==
    ASSUME NEW s \in BoxRec, NEW t, t = UpdateStatusIcons(s)
    PROVE  t \in BoxRec /\ t.list = s.list /\ t.mods = s.mods /\ Current(t)
<1>1. Icons(s.list) \in Seq(Ids)
  BY IconsType DEF BoxRec
<1>2. CASE kind = "pc"
  <2>1. t = [s EXCEPT !.icons = Icons(s.list)]
    BY <1>2 DEF UpdateStatusIcons
  <2> QED
    BY <1>1, <2>1 DEF BoxRec, Current
<1>3. CASE kind # "pc"
  BY <1>3 DEF UpdateStatusIcons, Current
<1> QED
  BY <1>2, <1>3

LEMMA RemoveQuietlyKeeps ==
    ASSUME NEW s \in BoxRec, NEW n \in DOMAIN s.list, NEW t, t = RemoveQuietly(s, n)
    PROVE  Kept(s, t) /\ t.list = RemoveAt(s.list, n)
<1>1. PICK e : e = s.list[n]
  OBVIOUS
<1>2. /\ s.list \in Seq(Effect) /\ e \in Effect /\ s.icons \in Seq(Ids)
      /\ s.mods \in [Ids -> Int]
  BY <1>1 DEF BoxRec
<1>3. e.id \in Ids /\ e.power \in Int
  BY <1>2 DEF Effect
<1>4. PICK list : list = RemoveAt(s.list, n)
  OBVIOUS
<1>5. list \in Seq(Effect)
  BY <1>2, <1>4, RemoveAtFacts
<1>6. PICK u : u = AddMods(Erased(s, n), e.id, -e.power)
  OBVIOUS
<1>7. /\ u \in BoxRec /\ u.list = list /\ u.icons = s.icons
      /\ u.mods = [s.mods EXCEPT ![e.id] = @ + (-e.power)]
  <2>1. PICK v : v = Erased(s, n)
    OBVIOUS
  <2>2. v \in BoxRec /\ v.list = list /\ v.icons = s.icons /\ v.mods = s.mods
    BY <1>4, <1>5, <2>1 DEF BoxRec, Erased
  <2>3. u = [v EXCEPT !.mods[e.id] = @ + (-e.power)]
    BY <1>6, <2>1 DEF AddMods
  <2>4. PICK mods : mods = [s.mods EXCEPT ![e.id] = @ + (-e.power)]
    OBVIOUS
  <2>5. u = [v EXCEPT !.mods = mods]
    BY <2>2, <2>3, <2>4
  <2>6. mods \in [Ids -> Int]
    BY <1>2, <1>3, <2>4
  <2> QED
    BY <2>2, <2>4, <2>5, <2>6 DEF BoxRec
<1>8. ASSUME InSync(s), NEW id \in Ids PROVE u.mods[id] = PowerOf(list, id)
  <2>1. PowerOf(list, id) = PowerOf(s.list, id) - Part(e, id)
    BY <1>1, <1>2, <1>4, PowerOfRemoved
  <2>2. s.mods[id] = PowerOf(s.list, id) /\ s.mods[id] \in Int
    BY <1>2, <1>8 DEF InSync
  <2>3. u.mods[id] = IF id = e.id THEN s.mods[id] + (-e.power) ELSE s.mods[id]
    BY <1>2, <1>7
  <2>4. CASE id = e.id
    BY <1>3, <2>1, <2>2, <2>3, <2>4 DEF Part
  <2>5. CASE id # e.id
    BY <2>1, <2>2, <2>3, <2>5 DEF Part
  <2> QED
    BY <2>4, <2>5
<1>9. t = IF e.icon # None THEN UpdateStatusIcons(u) ELSE u
  BY <1>1, <1>6 DEF RemoveQuietly
<1>10. t \in BoxRec /\ t.list = list /\ t.mods = u.mods
  <2>1. CASE e.icon # None
    BY <1>7, <1>9, <2>1, UpdatedIcons
  <2>2. CASE e.icon = None
    BY <1>7, <1>9, <2>2
  <2> QED
    BY <2>1, <2>2
<1>11. InSync(s) => InSync(t)
  BY <1>8, <1>10 DEF InSync
<1>12. ASSUME Current(s) PROVE Current(t)
  <2>1. CASE e.icon # None
    BY <1>7, <1>9, <2>1, UpdatedIcons
  <2>2. CASE e.icon = None
    <3>1. Icons(list) = Icons(s.list)
      BY <1>1, <1>2, <1>4, <2>2, IconsOfRemoved
    <3> QED
      BY <1>7, <1>9, <1>12, <2>2, <3>1 DEF Current
  <2> QED
    BY <2>1, <2>2
<1>13. Fewer(list, s.list) /\ ToSet(list) \subseteq ToSet(s.list)
  BY <1>2, <1>4, FewerRemoved, RemovedSet
<1> QED
  BY <1>4, <1>10, <1>11, <1>12, <1>13 DEF Kept, AsRight

LEMMA FirstFound ==
    ASSUME NEW s \in BoxRec, NEW id, Has(s, id)
    PROVE  First(s, id) \in DOMAIN s.list
<1>1. PICK S : S = {n \in DOMAIN s.list : s.list[n].id = id}
  OBVIOUS
<1>2. s.list \in Seq(Effect)
  BY DEF BoxRec
<1>3. S \in SUBSET Nat /\ S # {}
  BY <1>1, <1>2 DEF Has
<1>4. Min(S) \in S
  BY <1>3, MinOfNaturals
<1> QED
  BY <1>1, <1>4 DEF First

\* Also what the script deletes goes as it should.
LEMMA RemoveStatusEffectKeeps ==
    ASSUME NEW s \in BoxRec, NEW n \in DOMAIN s.list, NEW t, t = RemoveStatusEffect(s, n)
    PROVE  /\ Kept(s, t) /\ Fewer(t.list, RemoveAt(s.list, n))
           /\ ToSet(t.list) \subseteq ToSet(RemoveAt(s.list, n))
<1>1. PICK u : u = RemoveQuietly(s, n)
  OBVIOUS
<1>2. PICK other : other = Hook[s.list[n].id]
  OBVIOUS
<1>3. Kept(s, u) /\ u.list = RemoveAt(s.list, n) /\ u \in BoxRec
  BY <1>1, RemoveQuietlyKeeps DEF Kept, AsRight
<1>4. t = IF Has(u, other) THEN RemoveQuietly(u, First(u, other)) ELSE u
  BY <1>1, <1>2 DEF RemoveStatusEffect
<1>5. Kept(u, t)
  <2>1. CASE Has(u, other)
    <3>1. First(u, other) \in DOMAIN u.list
      BY <1>3, <2>1, FirstFound
    <3> QED
      BY <1>3, <1>4, <2>1, <3>1, RemoveQuietlyKeeps
  <2>2. CASE ~Has(u, other)
    BY <1>3, <1>4, <2>2, KeptSame
  <2> QED
    BY <2>1, <2>2
<1> QED
  BY <1>3, <1>5, KeptTwice DEF Kept

LEMMA DelStatusEffectKeeps ==
    ASSUME NEW s \in BoxRec, NEW id, NEW t, t = DelStatusEffect(s, id)
    PROVE  Kept(s, t)
<1>1. CASE Has(s, id)
  <2>1. First(s, id) \in DOMAIN s.list
    BY <1>1, FirstFound
  <2> QED
    BY <1>1, <2>1, RemoveStatusEffectKeeps DEF DelStatusEffect
<1>2. CASE ~Has(s, id)
  BY <1>2, KeptSame DEF DelStatusEffect
<1> QED
  BY <1>1, <1>2

\* Several, one after the other: a[k] is the container after the first k.
LEMMA DeletionsRun ==
    ASSUME NEW s \in BoxRec, NEW V, NEW ids \in Seq(V)
    PROVE  \E a : /\ a[0] = s /\ a[Len(ids)] = InTurn(DelStatusEffect, s, ids)
                  /\ \A k \in 1 .. Len(ids) : a[k] = DelStatusEffect(a[k-1], ids[k])
                  /\ \A k \in 0 .. Len(ids) : a[k] \in BoxRec /\ Kept(s, a[k])
<1> DEFINE Sound == {u \in BoxRec : Kept(s, u)}
           round == [x \in (1 .. Len(ids)) \X Sound |-> DelStatusEffect(x[2], ids[x[1]])]
           IsRun(f) == f = [k \in 0 .. Len(ids) |->
                              IF k = 0 THEN s ELSE DelStatusEffect(f[k-1], ids[k])]
<1>1. PICK n \in Nat : n = Len(ids)
  OBVIOUS
<1>2. s \in Sound
  BY KeptSame
<1>3. ASSUME NEW i \in 1 .. n, NEW u \in Sound PROVE DelStatusEffect(u, ids[i]) \in Sound
  <2>1. PICK v : v = DelStatusEffect(u, ids[i])
    OBVIOUS
  <2>2. u \in BoxRec /\ Kept(s, u)
    OBVIOUS
  <2>3. Kept(u, v)
    BY <2>1, <2>2, DelStatusEffectKeeps
  <2>4. Kept(s, v) /\ v \in BoxRec
    BY <2>2, <2>3, KeptTwice DEF Kept, AsRight
  <2> QED
    BY <2>1, <2>4
<1>4. PICK f \in [0 .. n -> Sound] :
         f[0] = s /\ \A k \in 1 .. n : f[k] = DelStatusEffect(f[k-1], ids[k])
  <2>1. PICK S : S = Sound
    OBVIOUS
  <2>2. PICK r : r = round
    OBVIOUS
  <2> HIDE DEF Sound
  <2>3. r \in [(1 .. n) \X S -> S]
    BY <1>1, <1>3, <2>1, <2>2
  <2>4. PICK f \in RunsOf(n, S, s, r) : TRUE
    BY <1>2, <2>1, <2>3, RunExists
  <2>5. \A k \in 1 .. n : k - 1 \in 0 .. n
    OBVIOUS
  <2> QED
    BY <1>1, <2>1, <2>2, <2>4, <2>5 DEF RunsOf
<1>5. IsRun(f)
  <2>1. \A k \in 0 .. n : k = 0 \/ k \in 1 .. n
    OBVIOUS
  <2> HIDE DEF Sound, round
  <2> QED
    BY <1>1, <1>4, <2>1
<1>6. PICK a : a = CHOOSE q : IsRun(q)
  OBVIOUS
<1>7. IsRun(a)
  <2> HIDE DEF IsRun
  <2> QED
    BY <1>5, <1>6
<1>8. a[n] = InTurn(DelStatusEffect, s, ids)
  BY <1>1, <1>6 DEF InTurn
<1>9. a[0] = s /\ \A k \in 1 .. n : a[k] = DelStatusEffect(a[k-1], ids[k])
  <2>1. 0 \in 0 .. n /\ \A k \in 1 .. n : k \in 0 .. n /\ k # 0
    OBVIOUS
  <2> QED
    BY <1>1, <1>7, <2>1
<1> HIDE DEF Sound, round, IsRun
<1>10. \A k \in 0 .. n : a[k] \in Sound
  BY <1>2, <1>3, <1>9, KeptByRounds
<1> QED
  BY <1>1, <1>8, <1>9, <1>10 DEF Sound

LEMMA DeletionsKeep ==
    ASSUME NEW s \in BoxRec, NEW V, NEW ids \in Seq(V), NEW t, t = InTurn(DelStatusEffect, s, ids)
    PROVE  Kept(s, t)
<1>1. Len(ids) \in 0 .. Len(ids)
  OBVIOUS
<1> QED
  BY <1>1, DeletionsRun

\* A round of a loop that removes effects, from state w of the loop.
LEMMA RoundKeeps ==
    ASSUME NEW s \in BoxRec, NEW at \in Nat \ {0}, NEW doomed, NEW back \in BOOLEAN,
           NEW w, w = Round([s |-> s, at |-> at], doomed, back)
    PROVE  /\ w = [s |-> w.s, at |-> w.at] /\ w.at \in Nat \ {0}
           /\ Kept(s, w.s)
<1>1. PICK x : x = [s |-> s, at |-> at]
  OBVIOUS
<1>2. x.s = s /\ x.at = at
  BY <1>1
<1>3. PICK n \in Nat : n = Len(s.list) /\ DOMAIN s.list = 1 .. n
  BY DEF BoxRec
<1>4. Kept(s, s)
  BY KeptSame
<1>5. CASE at > n
  BY <1>1, <1>2, <1>3, <1>4, <1>5 DEF Round
<1>6. CASE ~(at > n) /\ s.list[at] \in doomed
  <2>1. w = [s |-> RemoveStatusEffect(s, at), at |-> NextPlace(at, back)]
    BY <1>1, <1>2, <1>3, <1>6 DEF Round
  <2>2. Kept(s, RemoveStatusEffect(s, at))
    <3>1. at \in DOMAIN s.list
      BY <1>3, <1>6
    <3> QED
      BY <3>1, RemoveStatusEffectKeeps
  <2>3. NextPlace(at, back) \in Nat \ {0}
    BY DEF NextPlace
  <2> QED
    BY <2>1, <2>2, <2>3
<1>7. CASE ~(at > n) /\ s.list[at] \notin doomed
  <2>1. w = [s |-> s, at |-> at + 1]
    BY <1>1, <1>2, <1>3, <1>7 DEF Round
  <2> QED
    BY <1>4, <2>1
<1> QED
  BY <1>5, <1>6, <1>7

\* The rounds of the loop: a[k] is its state after the first k.
LEMMA SweepRun ==
    ASSUME NEW s \in BoxRec, NEW doomed, NEW back \in BOOLEAN
    PROVE  \E a : /\ a[0] = [s |-> s, at |-> 1] /\ a[Len(s.list)].s = Sweep(s, doomed, back)
                  /\ \A k \in 1 .. Len(s.list) : a[k] = Round(a[k-1], doomed, back)
                  /\ \A k \in 0 .. Len(s.list) :
                        a[k] \in [s : BoxRec, at : Nat \ {0}] /\ Kept(s, a[k].s)
<1> DEFINE Sound == {w \in [s : BoxRec, at : Nat \ {0}] : Kept(s, w.s)}
           round == [x \in (1 .. Len(s.list)) \X Sound |-> Round(x[2], doomed, back)]
           IsRun(f) == f = [k \in 0 .. Len(s.list) |->
                              IF k = 0 THEN [s |-> s, at |-> 1] ELSE Round(f[k-1], doomed, back)]
<1>1. PICK n \in Nat : n = Len(s.list)
  BY DEF BoxRec
<1>2. PICK start : start = [s |-> s, at |-> 1]
  OBVIOUS
<1>3. start \in Sound
  BY <1>2, KeptSame
<1>4. ASSUME NEW u \in Sound PROVE Round(u, doomed, back) \in Sound
  <2>1. PICK v : v = Round(u, doomed, back)
    OBVIOUS
  <2>2. /\ u.s \in BoxRec /\ u.at \in Nat \ {0} /\ Kept(s, u.s)
        /\ u = [s |-> u.s, at |-> u.at]
    OBVIOUS
  <2>3. PICK us, ua : us = u.s /\ ua = u.at
    OBVIOUS
  <2>4. v = Round([s |-> us, at |-> ua], doomed, back)
    BY <2>1, <2>2, <2>3
  <2>5. v = [s |-> v.s, at |-> v.at] /\ v.at \in Nat \ {0} /\ Kept(us, v.s)
    BY <2>2, <2>3, <2>4, RoundKeeps
  <2>6. Kept(s, v.s) /\ v.s \in BoxRec
    BY <2>2, <2>3, <2>5, KeptTwice DEF Kept, AsRight
  <2>7. v \in [s : BoxRec, at : Nat \ {0}]
    BY <2>5, <2>6
  <2> QED
    BY <2>1, <2>6, <2>7
<1>5. PICK f \in [0 .. n -> Sound] :
         f[0] = start /\ \A k \in 1 .. n : f[k] = Round(f[k-1], doomed, back)
  <2>1. PICK S : S = Sound
    OBVIOUS
  <2>2. PICK r : r = round
    OBVIOUS
  <2> HIDE DEF Sound
  <2>3. r \in [(1 .. n) \X S -> S]
    BY <1>1, <1>4, <2>1, <2>2
  <2>4. PICK f \in RunsOf(n, S, start, r) : TRUE
    BY <1>3, <2>1, <2>3, RunExists
  <2>5. \A k \in 1 .. n : k - 1 \in 0 .. n
    OBVIOUS
  <2> QED
    BY <1>1, <2>1, <2>2, <2>4, <2>5 DEF RunsOf
<1>6. IsRun(f)
  <2>1. \A k \in 0 .. n : k = 0 \/ k \in 1 .. n
    OBVIOUS
  <2> HIDE DEF Sound, round
  <2> QED
    BY <1>1, <1>2, <1>5, <2>1
<1>7. PICK a : a = CHOOSE q : IsRun(q)
  OBVIOUS
<1>8. IsRun(a)
  <2> HIDE DEF IsRun
  <2> QED
    BY <1>6, <1>7
<1>9. a[n].s = Sweep(s, doomed, back)
  BY <1>1, <1>7 DEF Sweep
<1>10. a[0] = start /\ \A k \in 1 .. n : a[k] = Round(a[k-1], doomed, back)
  <2>1. 0 \in 0 .. n /\ \A k \in 1 .. n : k \in 0 .. n /\ k # 0
    OBVIOUS
  <2> QED
    BY <1>1, <1>2, <1>8, <2>1
<1> HIDE DEF Sound, round, IsRun
<1>11. \A k \in 0 .. n : a[k] \in Sound
  BY <1>3, <1>4, <1>10, KeptByRounds
<1> QED
  BY <1>1, <1>2, <1>9, <1>10, <1>11 DEF Sound

LEMMA SweepKeeps ==
    ASSUME NEW s \in BoxRec, NEW doomed, NEW back \in BOOLEAN,
           NEW t, t = Sweep(s, doomed, back)
    PROVE  Kept(s, t)
<1>1. PICK n \in Nat : n = Len(s.list) /\ n \in 0 .. n
  BY DEF BoxRec
<1>2. PICK a : /\ a[0] = [s |-> s, at |-> 1] /\ a[Len(s.list)].s = Sweep(s, doomed, back)
               /\ \A k \in 1 .. Len(s.list) : a[k] = Round(a[k-1], doomed, back)
               /\ \A k \in 0 .. Len(s.list) :
                     a[k] \in [s : BoxRec, at : Nat \ {0}] /\ Kept(s, a[k].s)
  BY SweepRun
<1> QED
  BY <1>1, <1>2

-----------------------------------------------------------------------------
(* Applying effects and songs.                                             *)

\* The rows of the table name ids, or none.
LEMMA RowFacts ==
    ASSUME NEW id \in Ids
    PROVE  Row[id].remove \in Ids \cup {None} /\ Row[id].negative \in Ids \cup {None}
BY EffectsAssumption DEF Rows

LEMMA OverwriteKeeps ==
    ASSUME NEW s \in BoxRec, NEW e \in Effect, NEW t, t = Overwrite(s, e)
    PROVE  Kept(s, t)
<1>1. PICK V : V = Ids \cup {None}
  OBVIOUS
<1>2. e.id \in V /\ e.id \in Ids /\ Row[e.id].remove \in V /\ Row[e.id].negative \in V
  BY <1>1, RowFacts DEF Effect
<1>3. PICK same : same = IF Row[e.id].overwrite = "ignore" THEN <<>> ELSE <<e.id>>
  OBVIOUS
<1>4. PICK rest : rest = <<Row[e.id].remove, Row[e.id].negative>>
  OBVIOUS
<1>5. same \in Seq(V) /\ rest \in Seq(V)
  <2>1. <<>> \in Seq(V) /\ <<e.id>> \in Seq(V)
    BY <1>2
  <2>2. rest \in Seq(V)
    BY <1>2, <1>4
  <2> QED
    BY <1>3, <2>1, <2>2
<1>6. PICK ids : ids = same \o rest
  OBVIOUS
<1>7. ids \in Seq(V)
  BY <1>5, <1>6, ConcatProperties
<1>8. t = InTurn(DelStatusEffect, s, ids)
  BY <1>3, <1>4, <1>6 DEF Overwrite
<1> QED
  BY <1>7, <1>8, DeletionsKeep

LEMMA DelByTypeKeeps ==
    ASSUME NEW s \in BoxRec, NEW type, NEW t, t = DelByType(s, type)
    PROVE  Kept(s, t)
BY SweepKeeps, KeptSame DEF DelByType

\* AddStatusEffect takes effects away, if anything, and adds the new one.
LEMMA AddStatusEffectKeeps ==
    ASSUME NEW s \in BoxRec, NEW e \in Effect, NEW t, t = AddStatusEffect(s, e)
    PROVE  AsRight(s, t) /\ Fewer(t.list, Append(s.list, e))
<1>1. PICK over : over = Overwrite(s, e)
  OBVIOUS
<1>2. PICK cleared : cleared = DelByType(over, Row[e.id].type)
  OBVIOUS
<1>3. Kept(s, cleared) /\ cleared \in BoxRec
  <2>1. Kept(s, over) /\ over \in BoxRec
    BY <1>1, OverwriteKeeps DEF Kept, AsRight
  <2>2. Kept(over, cleared)
    BY <1>2, <2>1, DelByTypeKeeps
  <2> QED
    BY <2>1, <2>2, KeptTwice DEF Kept, AsRight
<1>4. /\ cleared.list \in Seq(Effect) /\ cleared.icons \in Seq(Ids)
      /\ cleared.mods \in [Ids -> Int] /\ s.list \in Seq(Effect)
  BY <1>3 DEF BoxRec
<1>5. PICK left : left = IF 2 * e.dur > TickWidth THEN e.dur - TickWidth ELSE e.dur
  OBVIOUS
<1>6. PICK icon : icon = IF e.id = Lullaby /\ life = "alive" THEN Sleep ELSE e.icon
  OBVIOUS
<1>7. PICK new : new = [e EXCEPT !.left = left, !.icon = icon]
  OBVIOUS
<1>8. e.id \in Ids /\ e.power \in Int /\ e.dur \in Nat /\ TickWidth \in Nat
  BY EffectsAssumption DEF Effect
<1>9. new \in Effect /\ Like(new, e) /\ new.icon = icon
  <2>1. left \in Int
    BY <1>5, <1>8
  <2>2. icon \in Ids \cup {None}
    BY <1>6, EffectsAssumption DEF Effect
  <2> QED
    BY <1>7, <2>1, <2>2 DEF Effect, Like
<1>10. PICK list : list = Append(cleared.list, new)
  OBVIOUS
<1>11. list \in Seq(Effect)
  BY <1>4, <1>9, <1>10
<1>12. PICK u : u = AddMods([cleared EXCEPT !.list = Append(@, new)], e.id, e.power)
  OBVIOUS
<1>13. /\ u \in BoxRec /\ u.list = list /\ u.icons = cleared.icons
       /\ u.mods = [cleared.mods EXCEPT ![e.id] = @ + e.power]
  <2>1. PICK v : v = [cleared EXCEPT !.list = Append(@, new)]
    OBVIOUS
  <2>2. v \in BoxRec /\ v.list = list /\ v.icons = cleared.icons /\ v.mods = cleared.mods
    BY <1>3, <1>10, <1>11, <2>1 DEF BoxRec
  <2>3. u = [v EXCEPT !.mods[e.id] = @ + e.power]
    BY <1>12, <2>1 DEF AddMods
  <2>4. PICK mods : mods = [cleared.mods EXCEPT ![e.id] = @ + e.power]
    OBVIOUS
  <2>5. u = [v EXCEPT !.mods = mods]
    BY <2>2, <2>3, <2>4
  <2>6. mods \in [Ids -> Int]
    BY <1>4, <1>8, <2>4
  <2> QED
    BY <2>2, <2>4, <2>5, <2>6 DEF BoxRec
<1>14. t = IF ~CanGain(s, e) THEN s
           ELSE IF new.icon # None THEN UpdateStatusIcons(u) ELSE u
  BY <1>1, <1>2, <1>5, <1>6, <1>7, <1>12 DEF AddStatusEffect
<1>15. CASE ~CanGain(s, e)
  BY <1>4, <1>14, <1>15, FewerLonger DEF AsRight
<1>16. CASE CanGain(s, e)
  <2>1. t \in BoxRec /\ t.list = list /\ t.mods = u.mods
    <3>1. CASE new.icon # None
      BY <1>13, <1>14, <1>16, <3>1, UpdatedIcons
    <3>2. CASE new.icon = None
      BY <1>13, <1>14, <1>16, <3>2
    <3> QED
      BY <3>1, <3>2
  <2>2. ASSUME InSync(s), NEW id \in Ids PROVE t.mods[id] = PowerOf(t.list, id)
    <3>1. PowerOf(list, id) = PowerOf(cleared.list, id) + Part(new, id)
      BY <1>4, <1>9, <1>10, PowerOfAppend
    <3>2. cleared.mods[id] = PowerOf(cleared.list, id) /\ cleared.mods[id] \in Int
      BY <1>3, <1>4, <2>2 DEF Kept, AsRight, InSync
    <3>3. u.mods[id] = IF id = e.id THEN cleared.mods[id] + e.power ELSE cleared.mods[id]
      BY <1>4, <1>13
    <3>4. CASE id = e.id
      BY <1>8, <1>9, <2>1, <3>1, <3>2, <3>3, <3>4 DEF Part, Like
    <3>5. CASE id # e.id
      BY <1>8, <1>9, <2>1, <3>1, <3>2, <3>3, <3>5 DEF Part, Like
    <3> QED
      BY <3>4, <3>5
  <2>3. ASSUME Current(s) PROVE Current(t)
    <3>1. CASE new.icon # None
      BY <1>13, <1>14, <1>16, <3>1, UpdatedIcons
    <3>2. CASE new.icon = None
      <4>1. Icons(list) = Icons(cleared.list)
        BY <1>4, <1>9, <1>10, <3>2, IconsOfAppend
      <4>2. Current(cleared)
        BY <1>3, <2>3 DEF Kept, AsRight
      <4> QED
        BY <1>13, <1>14, <1>16, <3>2, <4>1, <4>2 DEF Current
    <3> QED
      BY <3>1, <3>2
  <2>4. Fewer(list, Append(s.list, e))
    BY <1>3, <1>4, <1>9, <1>10, FewerAppend DEF Kept
  <2> QED
    BY <2>1, <2>2, <2>3, <2>4 DEF AsRight, InSync
<1> QED
  BY <1>15, <1>16

LEMMA AsRightTwice ==
    ASSUME NEW s, NEW t, NEW u, AsRight(s, t), AsRight(t, u)
    PROVE  AsRight(s, u)
BY DEF AsRight

\* The song of the same tier, if there is one, is removed.
LEMMA DelSameKeeps ==
    ASSUME NEW s \in BoxRec, NEW e, NEW t, t = DelSame(s, e)
    PROVE  /\ Kept(s, t)
           /\ Same(s, e) # {} => \E n \in Same(s, e) : Fewer(t.list, RemoveAt(s.list, n))
<1>1. CASE Same(s, e) = {}
  BY <1>1, KeptSame DEF DelSame
<1>2. CASE Same(s, e) # {}
  <2>1. PICK n : n = Min(Same(s, e))
    OBVIOUS
  <2>2. Same(s, e) \in SUBSET Nat
    BY DEF Same, BoxRec
  <2>3. n \in Same(s, e) /\ n \in DOMAIN s.list
    BY <1>2, <2>1, <2>2, MinOfNaturals DEF Same
  <2>4. t = RemoveStatusEffect(s, n)
    BY <1>2, <2>1 DEF DelSame
  <2> QED
    BY <2>3, <2>4, RemoveStatusEffectKeeps
<1> QED
  BY <1>1, <1>2

\* Among some effects there is one that ends first.
LEMMA EndsFirst ==
    ASSUME NEW l \in Seq(Effect), NEW own \in SUBSET (DOMAIN l), own # {}
    PROVE  \E n \in own : \A m \in own : l[n].left <= l[m].left
<1>1. PICK size \in Nat : DOMAIN l = 1 .. size
  OBVIOUS
<1>2. \A i \in own : i \in 1 .. size /\ l[i].left \in Int
  <2>1. \A i \in 1 .. size : l[i] \in Effect
    BY <1>1
  <2>2. \A i \in own : i \in 1 .. size
    BY <1>1
  <2> QED
    BY <2>1, <2>2 DEF Effect
<1> DEFINE upto(k) == {i \in own : i <= k}
           good(k) == upto(k) = {} \/ \E n \in upto(k) : \A m \in upto(k) : l[n].left <= l[m].left
           f == [k \in 0 .. size |-> IF good(k) THEN 1 ELSE 0]
<1>3. good(0)
  <2>1. \A i \in own : ~(i <= 0)
    BY <1>2
  <2> QED
    BY <2>1
<1>4. ASSUME NEW k \in 1 .. size, good(k - 1) PROVE good(k)
  <2>1. \A i \in own : i <= k <=> i <= k - 1 \/ i = k
    BY <1>2
  <2>2. CASE k \notin own
    <3>1. upto(k) = upto(k - 1)
      BY <2>1, <2>2
    <3> HIDE DEF upto
    <3> QED
      BY <1>4, <3>1
  <2>3. CASE k \in own
    <3>1. upto(k) = upto(k - 1) \cup {k}
      BY <2>1, <2>3
    <3>2. upto(k - 1) \subseteq own
      OBVIOUS
    <3> HIDE DEF upto
    <3>3. CASE upto(k - 1) = {}
      BY <1>2, <2>3, <3>1, <3>3
    <3>4. CASE upto(k - 1) # {}
      <4>1. PICK n \in upto(k - 1) : \A m \in upto(k - 1) : l[n].left <= l[m].left
        BY <1>4, <3>4
      <4>2. n \in own /\ l[n].left \in Int /\ l[k].left \in Int
        BY <1>2, <2>3, <3>2, <4>1
      <4>3. CASE l[n].left <= l[k].left
        BY <3>1, <4>1, <4>3
      <4>4. CASE ~(l[n].left <= l[k].left)
        <5>1. ASSUME NEW m \in upto(k) PROVE l[k].left <= l[m].left
          <6>1. l[m].left \in Int /\ (m = k \/ m \in upto(k - 1))
            BY <1>2, <2>3, <3>1, <3>2
          <6> QED
            BY <4>1, <4>2, <4>4, <6>1
        <5> QED
          BY <3>1, <5>1
      <4> QED
        BY <4>3, <4>4
    <3> QED
      BY <3>3, <3>4
  <2> QED
    BY <2>2, <2>3
<1> HIDE DEF good
<1>5. good(size)
  <2>1. PICK S : S = {1}
    OBVIOUS
  <2>2. \A k \in 1 .. size : k - 1 \in 0 .. size /\ k \in 0 .. size
    OBVIOUS
  <2>3. f[0] \in S /\ \A k \in 1 .. size : f[k-1] \in S => f[k] \in S
    BY <1>3, <1>4, <2>1, <2>2
  <2> HIDE DEF f
  <2>4. \A k \in 0 .. size : f[k] \in S
    BY <2>3, KeptByRounds
  <2>5. size \in 0 .. size /\ f[size] = 1
    BY <2>1, <2>4
  <2> QED
    BY <2>5 DEF f
<1>6. upto(size) = own
  BY <1>2
<1> QED
  BY <1>5, <1>6 DEF good

\* A bard's song on a target: it takes the place of the same song, whoever sang
\* it, or of the bard's song that ends first, or comes to fewer than max.
LEMMA ApplyBardEffectKeeps ==
    ASSUME NEW s \in BoxRec, NoTwins(s.list), NEW e \in Effect, e.id \in Songs,
           NEW max \in 1 .. MaxSongs, NEW t, t = ApplyBardEffect(s, e, max)
    PROVE  /\ AsRight(s, t) /\ NoTwins(t.list)
           /\ \A bard : bard # e.sub =>
                 Cardinality(Sung(t.list, bard)) <= Cardinality(Sung(s.list, bard))
           /\ Cardinality(Sung(t.list, e.sub)) <= Cardinality(Sung(s.list, e.sub)) + 1
           /\ (\A n \in Same(s, e) : s.list[n].sub = e.sub) =>
                 \/ Cardinality(Sung(t.list, e.sub)) <= MaxSongs
                 \/ Cardinality(Sung(t.list, e.sub)) <= Cardinality(Sung(s.list, e.sub))
<1> DEFINE own == Own(s, e.sub)
           first == {n \in own : \A m \in own : s.list[n].left <= s.list[m].left}
           full == Same(s, e) = {} /\ Cardinality(own) >= max
<1>1. PICK u : u = IF full THEN DelSame(s, s.list[Min(first)]) ELSE DelSame(s, e)
  OBVIOUS
<1>2. t = AddStatusEffect(u, e)
  BY <1>1 DEF ApplyBardEffect
<1>3. s.list \in Seq(Effect) /\ own = Sung(s.list, e.sub)
  BY DEF BoxRec, Own, Sung
<1>4. Kept(s, u) /\ u \in BoxRec /\ u.list \in Seq(Effect)
  <2>1. Kept(s, u)
    BY <1>1, DelSameKeeps
  <2> QED
    BY <2>1 DEF Kept, AsRight, BoxRec
<1>5. MaxSongs \in Nat /\ max \in Nat /\ max <= MaxSongs /\ max # 0
  BY EffectsAssumption
<1>6. PICK o \in Nat : o = Cardinality(own)
  BY <1>3, SungFinite
\* Where the bard's songs are as many as may be, one of them goes.
<1>7. ASSUME full PROVE Cardinality(Sung(u.list, e.sub)) <= o - 1
  <2>1. own # {} /\ own \in SUBSET (DOMAIN s.list)
    <3>1. Cardinality(own) # 0
      BY <1>5, <1>6, <1>7
    <3>2. own # {}
      BY <3>1, FS_EmptySet
    <3>3. own \in SUBSET (DOMAIN s.list)
      BY DEF Own
    <3> HIDE DEF own
    <3> QED
      BY <3>2, <3>3
  <2>2. first # {} /\ first \in SUBSET Nat
    <3>1. \E n \in own : \A m \in own : s.list[n].left <= s.list[m].left
      BY <1>3, <2>1, EndsFirst
    <3>2. first # {}
      BY <3>1
    <3>3. own \in SUBSET Nat
      BY <1>3, <2>1
    <3>4. first \in SUBSET own
      OBVIOUS
    <3> HIDE DEF own, first
    <3> QED
      BY <3>2, <3>3, <3>4
  <2>3. PICK n : n = Min(first)
    OBVIOUS
  <2>4. n \in own /\ n \in DOMAIN s.list
    <3>1. Min(first) \in first
      BY <2>2, MinOfNaturals
    <3> QED
      BY <2>1, <2>3, <3>1
  <2>5. PICK f : f = s.list[n]
    OBVIOUS
  <2>6. f.id \in Songs /\ f.sub = e.sub /\ Same(s, f) = {n}
    <3>1. f.id \in Songs /\ f.sub = e.sub
      BY <2>4, <2>5 DEF Own
    <3>2. \A k \in DOMAIN s.list : s.list[k].id = f.id /\ s.list[k].power = f.power <=> k = n
      BY <2>4, <2>5, <3>1 DEF NoTwins
    <3> QED
      BY <2>4, <3>1, <3>2 DEF Same
  <2>7. u = DelSame(s, f)
    BY <1>1, <1>7, <2>3, <2>5
  <2>8. Fewer(u.list, RemoveAt(s.list, n))
    BY <2>6, <2>7, DelSameKeeps
  <2>9. PICK l : l = RemoveAt(s.list, n)
    OBVIOUS
  <2>10. l \in Seq(Effect)
    BY <1>3, <2>4, <2>9, RemoveAtFacts
  <2>11. Cardinality(Sung(u.list, e.sub)) <= Cardinality(Sung(l, e.sub))
    BY <1>4, <2>8, <2>9, <2>10, SungFewer
  <2>12. Cardinality(Sung(l, e.sub)) <= o - 1
    BY <1>3, <1>6, <2>4, <2>9, SungRemoved
  <2>13. PICK a \in Nat, b \in Nat :
            a = Cardinality(Sung(u.list, e.sub)) /\ b = Cardinality(Sung(l, e.sub))
    BY <1>4, <2>10, SungFinite
  <2> QED
    BY <2>11, <2>12, <2>13
<1>8. Lacks(u.list, e)
  <2>1. CASE Same(s, e) = {}
    <3>1. Lacks(s.list, e)
      BY <2>1 DEF Same, Lacks
    <3> QED
      BY <1>4, <3>1, LacksFewer DEF Kept
  <2>2. CASE Same(s, e) # {}
    <3>1. u = DelSame(s, e)
      BY <1>1, <2>2
    <3>2. PICK n \in Same(s, e) : Fewer(u.list, RemoveAt(s.list, n))
      BY <2>2, <3>1, DelSameKeeps
    <3>3. Lacks(RemoveAt(s.list, n), e)
      BY <1>3, LacksRemoved DEF Same
    <3> QED
      BY <3>2, <3>3, LacksFewer
  <2> QED
    BY <2>1, <2>2
\* Where the same song of the bard's own goes.
<1>9. ASSUME Same(s, e) # {}, \A n \in Same(s, e) : s.list[n].sub = e.sub
      PROVE  Cardinality(Sung(u.list, e.sub)) <= o - 1
  <2>1. u = DelSame(s, e)
    BY <1>1, <1>9
  <2>2. PICK n \in Same(s, e) : Fewer(u.list, RemoveAt(s.list, n))
    BY <1>9, <2>1, DelSameKeeps
  <2>3. n \in DOMAIN s.list /\ n \in Sung(s.list, e.sub)
    BY <1>9 DEF Same, Sung
  <2>4. PICK l : l = RemoveAt(s.list, n)
    OBVIOUS
  <2>5. l \in Seq(Effect)
    BY <1>3, <2>3, <2>4, RemoveAtFacts
  <2>6. Cardinality(Sung(u.list, e.sub)) <= Cardinality(Sung(l, e.sub))
    BY <1>4, <2>2, <2>4, <2>5, SungFewer
  <2>7. Cardinality(Sung(l, e.sub)) <= o - 1
    BY <1>3, <1>6, <2>3, <2>4, SungRemoved
  <2>8. PICK a \in Nat, b \in Nat :
            a = Cardinality(Sung(u.list, e.sub)) /\ b = Cardinality(Sung(l, e.sub))
    BY <1>4, <2>5, SungFinite
  <2> QED
    BY <2>6, <2>7, <2>8
<1> HIDE DEF own, first
<1>10. PICK list : list = Append(u.list, e)
  OBVIOUS
<1>11. list \in Seq(Effect) /\ AsRight(u, t) /\ Fewer(t.list, list) /\ t.list \in Seq(Effect)
  <2>1. AsRight(u, t) /\ Fewer(t.list, Append(u.list, e))
    BY <1>2, <1>4, AddStatusEffectKeeps
  <2> QED
    BY <1>4, <1>10, <2>1 DEF AsRight, BoxRec
<1>12. AsRight(s, t)
  BY <1>4, <1>11, AsRightTwice DEF Kept
<1>13. NoTwins(t.list)
  <2>1. NoTwins(u.list)
    BY <1>4, NoTwinsFewer DEF Kept
  <2>2. NoTwins(list)
    BY <1>4, <1>8, <1>10, <2>1, NoTwinsAppend
  <2> QED
    BY <1>11, <2>2, NoTwinsFewer
<1>14. ASSUME NEW bard
       PROVE  /\ Cardinality(Sung(u.list, bard)) <= Cardinality(Sung(s.list, bard))
              /\ Cardinality(Sung(t.list, bard)) <= Cardinality(Sung(u.list, bard)) + 1
              /\ bard # e.sub => Cardinality(Sung(t.list, bard)) <= Cardinality(Sung(u.list, bard))
              /\ Cardinality(Sung(s.list, bard)) \in Nat /\ Cardinality(Sung(t.list, bard)) \in Nat
              /\ Cardinality(Sung(u.list, bard)) \in Nat
  <2>1. Cardinality(Sung(u.list, bard)) <= Cardinality(Sung(s.list, bard))
    BY <1>3, <1>4, SungFewer DEF Kept
  <2>2. PICK a \in Nat, b \in Nat, c \in Nat, d \in Nat :
           /\ a = Cardinality(Sung(s.list, bard)) /\ b = Cardinality(Sung(u.list, bard))
           /\ c = Cardinality(Sung(list, bard)) /\ d = Cardinality(Sung(t.list, bard))
    BY <1>3, <1>4, <1>11, SungFinite
  <2>3. d <= c
    BY <1>11, <2>2, SungFewer
  <2>4. c <= b + 1 /\ (bard # e.sub => c = b)
    BY <1>4, <1>10, <2>2, SungAppend
  <2> QED
    BY <2>1, <2>2, <2>3, <2>4
<1>15. ASSUME NEW bard, bard # e.sub
       PROVE  Cardinality(Sung(t.list, bard)) <= Cardinality(Sung(s.list, bard))
  <2>1. PICK a \in Nat, b \in Nat, d \in Nat :
           /\ a = Cardinality(Sung(s.list, bard)) /\ b = Cardinality(Sung(u.list, bard))
           /\ d = Cardinality(Sung(t.list, bard)) /\ b <= a /\ d <= b
    BY <1>14, <1>15
  <2> QED
    BY <2>1
<1>16. PICK b \in Nat, d \in Nat :
          /\ b = Cardinality(Sung(u.list, e.sub)) /\ d = Cardinality(Sung(t.list, e.sub))
          /\ b <= o /\ d <= b + 1 /\ o = Cardinality(Sung(s.list, e.sub))
  BY <1>3, <1>6, <1>14
<1>17. ASSUME \A n \in Same(s, e) : s.list[n].sub = e.sub
       PROVE  d <= MaxSongs \/ d <= o
  <2>1. CASE Same(s, e) # {}
    <3>1. b <= o - 1
      BY <1>9, <1>16, <1>17, <2>1
    <3> QED
      BY <1>16, <3>1
  <2>2. CASE full
    <3>1. b <= o - 1
      BY <1>7, <1>16, <2>2
    <3> QED
      BY <1>16, <3>1
  <2>3. CASE Same(s, e) = {} /\ ~full
    <3>1. ~(o >= max)
      BY <1>6, <2>3
    <3>2. d <= max
      BY <1>5, <1>16, <3>1
    <3> QED
      BY <1>5, <3>2
  <2> QED
    BY <2>1, <2>2, <2>3
<1> QED
  BY <1>12, <1>13, <1>15, <1>16, <1>17

-----------------------------------------------------------------------------
(* Saving and loading.                                                     *)

LEMMA SavedType ==
    ASSUME NEW e \in Effect
    PROVE  /\ Saved(e) \in Effect /\ Like(Saved(e), e)
           /\ Saved(e).icon = e.icon /\ Saved(e).wears = FALSE
           /\ Loaded(e) \in Effect /\ Like(Loaded(e), e)
           /\ Loaded(e).icon = e.icon /\ Loaded(e).wears = e.wears
           /\ Loaded(e).dur = (e.dur * Second) % TickWidth
<1>1. TickWidth \in Nat \ {0} /\ Second \in Nat \ {0} /\ e.left \in Int /\ e.dur \in Nat
  BY EffectsAssumption DEF Effect
<1>2. PICK rest : rest = e.left % TickWidth
  OBVIOUS
<1>3. rest \in Nat
  BY <1>1, <1>2
<1>4. PICK d \in Nat : d = rest \div Second
  BY <1>1, <1>3
<1>a. PICK no \in BOOLEAN : no = FALSE
  OBVIOUS
<1>5. Saved(e) = [e EXCEPT !.dur = d, !.left = 0, !.wears = no]
  BY <1>2, <1>4, <1>a DEF Saved
<1>6. Saved(e) \in Effect /\ Like(Saved(e), e) /\ Saved(e).icon = e.icon /\ Saved(e).wears = FALSE
  <2>1. PICK f : f = [e EXCEPT !.dur = d, !.left = 0]
    OBVIOUS
  <2>2. f \in Effect /\ Like(f, e) /\ f.icon = e.icon
    <3>1. e \in Effect
      OBVIOUS
    <3>2. f \in Effect
      <4>1. PICK h : h = [e EXCEPT !.dur = d]
        OBVIOUS
      <4>2. h \in Effect
        BY <1>4, <3>1, <4>1 DEF Effect
      <4>3. f = [h EXCEPT !.left = 0]
        BY <2>1, <4>1
      <4> QED
        BY <4>2, <4>3 DEF Effect
    <3> QED
      BY <2>1, <3>2 DEF Effect, Like
  <2>3. PICK g : g = [f EXCEPT !.wears = no]
    OBVIOUS
  <2>4. g \in Effect /\ Like(g, f) /\ g.icon = f.icon /\ g.wears = FALSE
    BY <1>a, <2>2, <2>3 DEF Effect, Like
  <2>5. Saved(e) = g
    BY <1>5, <2>1, <2>3
  <2> QED
    BY <2>2, <2>4, <2>5 DEF Like
<1>7. PICK ticks : ticks = e.dur * Second
  OBVIOUS
<1>8. ticks \in Nat
  BY <1>1, <1>7
<1>9. ticks % TickWidth \in Nat
  BY <1>1, <1>8
<1>10. Loaded(e) = [e EXCEPT !.dur = ticks % TickWidth]
  BY <1>7 DEF Loaded
<1>11. /\ Loaded(e) \in Effect /\ Like(Loaded(e), e)
       /\ Loaded(e).icon = e.icon /\ Loaded(e).wears = e.wears /\ Loaded(e).dur = ticks % TickWidth
  BY <1>9, <1>10 DEF Effect, Like
<1> QED
  BY <1>6, <1>7, <1>11

LEMMA NothingFacts == Nothing \in BoxRec /\ Current(Nothing) /\ InSync(Nothing)
<1>1. <<>> \in Seq(Effect) /\ <<>> \in Seq(Ids)
  OBVIOUS
<1>2. [i \in Ids |-> 0] \in [Ids -> Int]
  OBVIOUS
<1>3. Nothing \in BoxRec
  BY <1>1, <1>2 DEF Nothing, BoxRec
<1> QED
  BY <1>3, IconsOfNone, PowerOfNone DEF Nothing, Current, InSync

\* The rows in any order, each once: a[k] is the container with the first k.
LEMMA LoadRun ==
    ASSUME rows \in Seq(Effect), NEW order \in SetToSeqs(DOMAIN rows)
    PROVE  \E n, a :
              /\ n \in Nat
              /\ order \in [1 .. n -> DOMAIN rows] /\ Len(order) = n /\ Len(rows) = n
              /\ \A i, j \in 1 .. n : order[i] = order[j] => i = j
              /\ a[0] = Nothing /\ a[n] = LoadStatusEffects(order)
              /\ \A k \in 1 .. n : a[k] = LoadRow(a[k-1], order[k])
              /\ \A k \in 0 .. n : a[k] \in BoxRec
<1> DEFINE round == [x \in (1 .. Len(order)) \X BoxRec |-> LoadRow(x[2], order[x[1]])]
           IsRun(f) == f = [k \in 0 .. Len(order) |->
                              IF k = 0 THEN Nothing ELSE LoadRow(f[k-1], order[k])]
<1>1. PICK n \in Nat : n = Len(order) /\ n = Len(rows) /\ order \in [1 .. n -> DOMAIN rows]
                       /\ \A i, j \in 1 .. n : order[i] = order[j] => i = j
  <2>1. PICK m \in Nat : DOMAIN rows = 1 .. m /\ m = Len(rows)
    OBVIOUS
  <2>2. Cardinality(DOMAIN rows) = m
    <3>1. Cardinality(1 .. m) = m
      BY FS_Interval
    <3> QED
      BY <2>1, <3>1
  <2>3. PICK c \in Nat : c = Cardinality(DOMAIN rows) /\ c = Len(rows)
    BY <2>1, <2>2
  <2>4. /\ order \in [1 .. c -> DOMAIN rows]
        /\ \A i, j \in 1 .. c : i # j => order[i] # order[j]
    BY <2>3 DEF SetToSeqs
  <2>5. Len(order) = c
    BY <2>4
  <2>6. \A i, j \in 1 .. c : order[i] = order[j] => i = j
    BY <2>4
  <2> QED
    BY <2>3, <2>4, <2>5, <2>6
<1>2. \A i \in 1 .. n : order[i] \in DOMAIN rows /\ rows[order[i]] \in Effect
  BY <1>1
<1>3. ASSUME NEW u \in BoxRec, NEW i \in 1 .. n PROVE LoadRow(u, order[i]) \in BoxRec
  <2>1. PICK e, v : e = Loaded(rows[order[i]]) /\ v = LoadRow(u, order[i])
    OBVIOUS
  <2>2. e \in Effect
    BY <1>2, <2>1, SavedType
  <2>3. v = AddStatusEffect(u, e)
    BY <2>1 DEF LoadRow
  <2>4. v \in BoxRec
    BY <2>2, <2>3, AddStatusEffectKeeps DEF AsRight
  <2> QED
    BY <2>1, <2>4
<1>4. PICK f \in [0 .. n -> BoxRec] :
         f[0] = Nothing /\ \A k \in 1 .. n : f[k] = LoadRow(f[k-1], order[k])
  <2>1. PICK S : S = BoxRec
    OBVIOUS
  <2>2. PICK r : r = round
    OBVIOUS
  <2>3. r \in [(1 .. n) \X S -> S]
    BY <1>1, <1>3, <2>1, <2>2
  <2>4. PICK f \in RunsOf(n, S, Nothing, r) : TRUE
    BY <2>1, <2>3, NothingFacts, RunExists
  <2>5. \A k \in 1 .. n : k - 1 \in 0 .. n
    OBVIOUS
  <2> QED
    BY <1>1, <2>1, <2>2, <2>4, <2>5 DEF RunsOf
<1>5. IsRun(f)
  <2>1. \A k \in 0 .. n : k = 0 \/ k \in 1 .. n
    OBVIOUS
  <2> HIDE DEF round
  <2> QED
    BY <1>1, <1>4, <2>1
<1>6. PICK a : a = CHOOSE q : IsRun(q)
  OBVIOUS
<1>7. IsRun(a)
  <2> HIDE DEF IsRun
  <2> QED
    BY <1>5, <1>6
<1>8. a[n] = LoadStatusEffects(order)
  BY <1>1, <1>6 DEF LoadStatusEffects, InTurn
<1>9. a[0] = Nothing /\ \A k \in 1 .. n : a[k] = LoadRow(a[k-1], order[k])
  <2>1. 0 \in 0 .. n /\ \A k \in 1 .. n : k \in 0 .. n /\ k # 0
    OBVIOUS
  <2> QED
    BY <1>1, <1>7, <2>1
<1> HIDE DEF round, IsRun
<1>10. \A k \in 0 .. n : a[k] \in BoxRec
  <2>1. PICK S : S = BoxRec
    OBVIOUS
  <2>2. a[0] \in S
    BY <1>9, <2>1, NothingFacts
  <2>3. ASSUME NEW k \in 1 .. n, a[k-1] \in S PROVE a[k] \in S
    BY <1>3, <1>9, <2>1, <2>3
  <2>4. \A k \in 0 .. n : a[k] \in S
    BY <2>2, <2>3, KeptByRounds
  <2> QED
    BY <2>1, <2>4
<1> QED
  BY <1>1, <1>8, <1>9, <1>10

\* Whatever the order of the rows, each is applied at most once.
LEMMA LoadStatusEffectsKeeps ==
    ASSUME rows \in Seq(Effect), NEW order \in SetToSeqs(DOMAIN rows),
           NEW t, t = LoadStatusEffects(order)
    PROVE  AsRight(Nothing, t) /\ Fewer(t.list, rows)
<1>1. PICK n, a :
         /\ n \in Nat
         /\ order \in [1 .. n -> DOMAIN rows] /\ Len(order) = n /\ Len(rows) = n
         /\ \A i, j \in 1 .. n : order[i] = order[j] => i = j
         /\ a[0] = Nothing /\ a[n] = LoadStatusEffects(order)
         /\ \A k \in 1 .. n : a[k] = LoadRow(a[k-1], order[k])
         /\ \A k \in 0 .. n : a[k] \in BoxRec
  BY LoadRun
<1>a. n \in Nat
  BY <1>1
<1> USE <1>a
<1>2. \A i \in 1 .. n : order[i] \in DOMAIN rows /\ rows[order[i]] \in Effect
  BY <1>1
<1>3. ASSUME NEW u \in BoxRec, NEW i \in 1 .. n
      PROVE  /\ AsRight(u, LoadRow(u, order[i]))
             /\ Fewer(LoadRow(u, order[i]).list, Append(u.list, Loaded(rows[order[i]])))
             /\ Loaded(rows[order[i]]) \in Effect
             /\ Like(Loaded(rows[order[i]]), rows[order[i]])
  <2>1. PICK e, v : e = Loaded(rows[order[i]]) /\ v = LoadRow(u, order[i])
    OBVIOUS
  <2>2. e \in Effect /\ Like(e, rows[order[i]])
    BY <1>2, <2>1, SavedType
  <2>3. v = AddStatusEffect(u, e)
    BY <2>1 DEF LoadRow
  <2>4. AsRight(u, v) /\ Fewer(v.list, Append(u.list, e))
    BY <2>2, <2>3, AddStatusEffectKeeps
  <2> QED
    BY <2>1, <2>2, <2>4
<1>8. t = a[n]
  BY <1>1
<1>9. a[0] = Nothing /\ \A k \in 1 .. n : a[k] = LoadRow(a[k-1], order[k])
  BY <1>1
\* After k rounds the list holds no more than the first k rows of the order.
<1>10. PICK read : read = [i \in 1 .. n |-> rows[order[i]]]
  OBVIOUS
<1> DEFINE part(k) == [i \in 1 .. k |-> read[i]]
           Sound == {x \in (0 .. n) \X BoxRec :
                        AsRight(Nothing, x[2]) /\ Fewer(x[2].list, part(x[1]))}
           b == [k \in 0 .. n |-> <<k, a[k]>>]
<1>11. \A k \in 0 .. n : part(k) \in Seq(Effect) /\ Len(part(k)) = k
  <2> TAKE k \in 0 .. n
  <2>1. \A i \in 1 .. k : i \in 1 .. n
    OBVIOUS
  <2>2. \A i \in 1 .. k : read[i] \in Effect
    BY <1>2, <1>10, <2>1
  <2>3. part(k) \in [1 .. k -> Effect]
    BY <2>2
  <2> QED
    BY <2>3
<1>12. b[0] \in Sound
  <2>1. 0 \in 0 .. n /\ b[0] = <<0, Nothing>>
    BY <1>9
  <2>2. Fewer(Nothing.list, part(0))
    <3>1. DOMAIN Nothing.list = DOMAIN part(0) /\ DOMAIN Nothing.list = {}
      BY DEF Nothing
    <3> QED
      BY <3>1, FewerByLike
  <2> HIDE DEF part
  <2>3. AsRight(Nothing, Nothing)
    BY NothingFacts DEF AsRight
  <2> QED
    BY <2>1, <2>2, <2>3, NothingFacts
<1>13. ASSUME NEW k \in 1 .. n, b[k-1] \in Sound PROVE b[k] \in Sound
  <2>1. k - 1 \in 0 .. n /\ k \in 0 .. n
    OBVIOUS
  <2>2. PICK u : u = a[k-1]
    OBVIOUS
  <2>3. u \in BoxRec /\ AsRight(Nothing, u) /\ Fewer(u.list, part(k - 1))
    <3> HIDE DEF part
    <3>1. b[k-1] = <<k - 1, u>>
      BY <2>1, <2>2
    <3> QED
      BY <1>13, <3>1
  <2>4. PICK v : v = a[k]
    OBVIOUS
  <2>5. PICK e : e = Loaded(rows[order[k]])
    OBVIOUS
  <2>6. /\ v = LoadRow(u, order[k]) /\ AsRight(u, v) /\ Fewer(v.list, Append(u.list, e))
        /\ e \in Effect /\ Like(e, rows[order[k]])
    BY <1>3, <1>9, <2>2, <2>3, <2>4, <2>5
  <2>7. PICK f1, f2 : f1 = part(k - 1) /\ f2 = part(k)
    OBVIOUS
  <2>8. f1 \in Seq(Effect) /\ Len(f1) = k - 1 /\ f2 \in Seq(Effect) /\ Len(f2) = k
    BY <1>11, <2>1, <2>7
  <2>9. PICK row : row = rows[order[k]]
    OBVIOUS
  <2>10. row \in Effect /\ f2[k] = row
    BY <1>2, <1>10, <2>7, <2>9
  <2>11. Fewer(Append(u.list, e), Append(f1, row))
    BY <2>3, <2>6, <2>7, <2>8, <2>9, <2>10, FewerAppend DEF BoxRec
  <2>12. Fewer(Append(f1, row), f2)
    <3>1. PICK l : l = Append(f1, row)
      OBVIOUS
    <3>2. DOMAIN l = 1 .. k /\ l[k] = row /\ \A i \in 1 .. k - 1 : l[i] = f1[i]
      BY <2>8, <2>10, <3>1
    <3>3. \A i \in 1 .. k - 1 : f1[i] = f2[i]
      <4>1. \A i \in 1 .. k - 1 : i \in 1 .. k
        OBVIOUS
      <4> QED
        BY <2>7, <4>1
    <3>4. \A i \in 1 .. k : i = k \/ i \in 1 .. k - 1
      OBVIOUS
    <3>5. DOMAIN l = DOMAIN f2 /\ \A i \in DOMAIN l : l[i] = f2[i]
      BY <2>8, <2>10, <3>2, <3>3, <3>4
    <3> QED
      BY <3>1, <3>5, FewerByLike DEF Like
  <2> HIDE DEF part
  <2>13. Fewer(v.list, part(k))
    BY <2>6, <2>7, <2>11, <2>12, FewerTwice
  <2>14. AsRight(Nothing, v) /\ v \in BoxRec
    BY <2>3, <2>6, AsRightTwice DEF AsRight
  <2>15. b[k] = <<k, v>>
    BY <2>1, <2>4
  <2> QED
    BY <2>1, <2>13, <2>14, <2>15
<1> HIDE DEF b, Sound, part
<1>14. b[n] \in Sound
  <2>1. \A k \in 0 .. n : b[k] \in Sound
    BY <1>12, <1>13, KeptByRounds
  <2> QED
    BY <2>1
<1>15. AsRight(Nothing, t) /\ Fewer(t.list, part(n))
  <2>1. b[n] = <<n, t>>
    BY <1>8 DEF b
  <2> QED
    BY <1>14, <2>1 DEF Sound
<1>16. Fewer(part(n), rows)
  <2>1. DOMAIN part(n) = 1 .. n /\ \A i \in 1 .. n : part(n)[i] = rows[order[i]]
    BY <1>10 DEF part
  <2>2. Embeds(order, part(n), rows)
    BY <1>1, <2>1 DEF Embeds, Like
  <2> QED
    BY <2>2 DEF Fewer
<1> QED
  BY <1>15, <1>16, FewerTwice

-----------------------------------------------------------------------------
(* The inductive invariant.                                                *)

\* No two effects of which each, when it is gained, ousts the other.
NoRivals(l) == \A i, j \in DOMAIN l :
    i # j => ~(Ousts(l[i].id, l[j].id) /\ Ousts(l[j].id, l[i].id))

LEMMA NoRivalsFewer ==
    ASSUME NEW l, NEW m, Fewer(l, m), NoRivals(m)
    PROVE  NoRivals(l)
<1>1. PICK g : Embeds(g, l, m)
  BY DEF Fewer
<1>2. \A i \in DOMAIN l : g[i] \in DOMAIN m /\ l[i].id = m[g[i]].id
  BY <1>1 DEF Embeds, Like
<1>3. \A i, j \in DOMAIN l : i # j => g[i] # g[j]
  BY <1>1 DEF Embeds
<1> QED
  BY <1>2, <1>3 DEF NoRivals

\* What may be left of an effect c that was applied: it may get an icon and
\* never loses it, and a permanent one stays permanent.
Stems(e, c) == c.id = e.id /\ (c.icon # None => e.icon # None) /\ (c.dur = 0 => e.dur = 0)

\* Every effect was applied once; the saved ones as temporary ones.
FromCasts(l) == \A i \in DOMAIN l : \E c \in Casts : Stems(l[i], c)
Temporary(l) == \A i \in DOMAIN l :
    l[i].wears = FALSE /\ \E c \in Casts : Stems(l[i], c) /\ c.dur # 0

LEMMA FromCastsSubset ==
    ASSUME NEW l, NEW m, ToSet(l) \subseteq ToSet(m), FromCasts(m)
    PROVE  FromCasts(l)
<1>1. \A i \in DOMAIN l : \E j \in DOMAIN m : l[i] = m[j]
  BY DEF ToSet
<1> QED
  BY <1>1 DEF FromCasts

LEMMA NoneFromCasts == NoRivals(<<>>) /\ FromCasts(<<>>) /\ Temporary(<<>>)
BY DEF NoRivals, FromCasts, Temporary

SongsWithin(l, more) == \A b \in Bards : Cardinality(Sung(l, b)) <= MaxSongs + more[b]

\* The list and the saved rows hold each song once and few songs of a bard, and
\* no two effects of which each ousts the other; all were applied, the rows as
\* temporary ones.  The icons are the list's, and the modifiers too while no
\* respawn has reset them.
EffectsInv ==
    /\ TypeOK
    /\ Current(box)
    /\ unsynced \/ InSync(box)
    /\ NoTwins(box.list) /\ SongsWithin(box.list, taken)
    /\ NoTwins(rows) /\ SongsWithin(rows, taken)
    /\ NoRivals(box.list) /\ FromCasts(box.list)
    /\ NoRivals(rows) /\ Temporary(rows)
    /\ place # "world" => kind = "pc"

LEMMA BoxFacts == TypeOK => box \in BoxRec /\ box.list \in Seq(Effect)
BY DEF TypeOK, BoxRec

LEMMA SongsWithinFewer ==
    ASSUME NEW l \in Seq(Effect), NEW m \in Seq(Effect), Fewer(l, m),
           NEW more \in [Bards -> Nat], SongsWithin(m, more)
    PROVE  SongsWithin(l, more)
<1> SUFFICES ASSUME NEW b \in Bards
             PROVE  Cardinality(Sung(l, b)) <= MaxSongs + more[b]
  BY DEF SongsWithin
<1>1. Cardinality(Sung(l, b)) <= Cardinality(Sung(m, b))
  BY SungFewer
<1>2. Cardinality(Sung(m, b)) <= MaxSongs + more[b]
  BY DEF SongsWithin
<1>3. PICK i \in Nat, j \in Nat : i = Cardinality(Sung(l, b)) /\ j = Cardinality(Sung(m, b))
  BY SungFinite
<1> QED
  BY <1>1, <1>2, <1>3, EffectsAssumption

\* A step that takes effects away, or lets them age, and leaves the rest as it was.
LEMMA TakenAway ==
    ASSUME EffectsInv, AsRight(box, box'), Fewer(box'.list, box.list), FromCasts(box'.list),
           TypeOK', UNCHANGED <<kind, rows, taken>>, place' # "world" => kind = "pc",
           unsynced \/ InSync(box) => unsynced' \/ InSync(box')
    PROVE  EffectsInv'
<1>1. box' \in BoxRec /\ box'.list \in Seq(Effect) /\ Fewer(box'.list, box.list)
      /\ (Current(box) => Current(box'))
  BY DEF AsRight, BoxRec
<1>2. box.list \in Seq(Effect) /\ taken \in [Bards -> Nat]
  BY BoxFacts DEF EffectsInv, TypeOK
<1>3. NoTwins(box'.list) /\ SongsWithin(box'.list, taken)
  BY <1>1, <1>2, NoTwinsFewer, SongsWithinFewer DEF EffectsInv
<1>4. (Current(box))'
  BY <1>1 DEF Current, EffectsInv
<1>5. /\ NoTwins(box.list)' /\ SongsWithin(box.list, taken)'
      /\ NoTwins(rows)' /\ SongsWithin(rows, taken)'
  BY <1>3 DEF EffectsInv
<1>7. NoRivals(box.list)' /\ FromCasts(box.list)' /\ NoRivals(rows)' /\ Temporary(rows)'
  BY <1>1, NoRivalsFewer DEF EffectsInv
<1>6. (unsynced \/ InSync(box))'
  BY DEF EffectsInv, InSync
<1> QED
  BY <1>4, <1>5, <1>6, <1>7 DEF EffectsInv

\* The type invariant after a step that leaves the box a container.
LEMMA TypeFromBox ==
    ASSUME TypeOK, box' \in BoxRec, kind' \in {"pc", "mob"}, life' \in {"alive", "dead", "down"},
           place' \in {"world", "leaving", "offline"}, rows' \in Seq(Effect),
           applied' \in 0 .. MaxEvents, clock' \in 0 .. MaxClock, unsynced' \in BOOLEAN,
           taken' \in [Bards -> Nat]
    PROVE  TypeOK'
BY DEF TypeOK, BoxRec

\* The methods that only take effects away.
LEMMA ChangeKeeps ==
    ASSUME EffectsInv, NEW s, Kept(box, s), Change(s)
    PROVE  EffectsInv'
<1>1. box' = s /\ UNCHANGED <<kind, place, life, rows, applied, clock, taken, unsynced>>
  BY DEF Change
<1>2. TypeOK'
  BY <1>1, TypeFromBox DEF Kept, AsRight, EffectsInv, TypeOK
<1>3. AsRight(box, box') /\ Fewer(box'.list, box.list) /\ FromCasts(box'.list)
  BY <1>1, FromCastsSubset DEF Kept, EffectsInv
<1>4. unsynced \/ InSync(box) => unsynced' \/ InSync(box')
  BY <1>1, <1>3 DEF AsRight
<1>5. place' # "world" => kind = "pc"
  BY <1>1 DEF EffectsInv
<1> QED
  BY <1>1, <1>2, <1>3, <1>4, <1>5, TakenAway

-----------------------------------------------------------------------------
(* What is gone after deletions, after a sweep, after an effect is gained. *)

Without(l, id) == \A i \in DOMAIN l : l[i].id # id
Once(l, id) == \A i, j \in DOMAIN l : l[i].id = id /\ l[j].id = id => i = j

LEMMA StillWithout ==
    ASSUME NEW l, NEW m, Fewer(l, m), NEW id
    PROVE  (Without(m, id) => Without(l, id)) /\ (Once(m, id) => Once(l, id))
<1>1. PICK g : Embeds(g, l, m)
  BY DEF Fewer
<1>2. \A i \in DOMAIN l : g[i] \in DOMAIN m /\ l[i].id = m[g[i]].id
  BY <1>1 DEF Embeds, Like
<1>3. \A i, j \in DOMAIN l : g[i] = g[j] => i = j
  BY <1>1 DEF Embeds
<1> QED
  BY <1>2, <1>3 DEF Without, Once

\* Where an id is there once at most, deleting it leaves none.
LEMMA DeletedOnce ==
    ASSUME NEW s \in BoxRec, NEW id, Once(s.list, id), NEW t, t = DelStatusEffect(s, id)
    PROVE  Without(t.list, id)
<1>1. CASE ~Has(s, id)
  BY <1>1 DEF DelStatusEffect, Has, Without
<1>2. CASE Has(s, id)
  <2>1. PICK n : n = First(s, id)
    OBVIOUS
  <2>2. PICK S : S = {k \in DOMAIN s.list : s.list[k].id = id}
    OBVIOUS
  <2>3. s.list \in Seq(Effect) /\ S \in SUBSET Nat /\ S # {}
    BY <1>2, <2>2 DEF BoxRec, Has
  <2>4. n \in DOMAIN s.list /\ s.list[n].id = id
    <3>1. n = Min(S)
      BY <2>1, <2>2 DEF First
    <3>2. n \in S
      BY <2>3, <3>1, MinOfNaturals
    <3> QED
      BY <2>2, <3>2
  <2>5. t = RemoveStatusEffect(s, n)
    BY <1>2, <2>1 DEF DelStatusEffect
  <2>6. Fewer(t.list, RemoveAt(s.list, n))
    BY <2>4, <2>5, RemoveStatusEffectKeeps
  <2>7. PICK r : r = RemoveAt(s.list, n)
    OBVIOUS
  <2>8. PICK len \in Nat : len = Len(s.list) /\ DOMAIN s.list = 1 .. len /\ n \in 1 .. len
    BY <2>3, <2>4
  <2>9. DOMAIN r = 1 .. len - 1 /\ \A i \in DOMAIN r : r[i] = IF i < n THEN s.list[i] ELSE s.list[i + 1]
    <3>1. DOMAIN r = 1 .. Len(s.list) - 1 /\ \A i \in DOMAIN r : r[i] = IF i < n THEN s.list[i] ELSE s.list[i + 1]
      BY <2>3, <2>4, <2>7, RemoveAtFacts
    <3> QED
      BY <2>8, <3>1
  <2>10. \A i \in 1 .. len : i # n => s.list[i].id # id
    BY <2>4, <2>8 DEF Once
  <2>11. Without(r, id)
    <3> SUFFICES ASSUME NEW i \in DOMAIN r PROVE r[i].id # id
      BY DEF Without
    <3>1. i \in 1 .. len /\ i + 1 \in 1 .. len
      BY <2>8, <2>9
    <3>2. CASE i < n
      BY <2>8, <2>9, <2>10, <3>1, <3>2
    <3>3. CASE ~(i < n)
      <4>1. i + 1 # n
        BY <2>8, <2>9, <3>3
      <4> QED
        BY <2>9, <2>10, <3>1, <3>3, <4>1
    <3> QED
      BY <3>2, <3>3
  <2> QED
    BY <2>6, <2>7, <2>11, StillWithout
<1> QED
  BY <1>1, <1>2

LEMMA DeletedInTurn ==
    ASSUME NEW s \in BoxRec, NEW V, NEW ids \in Seq(V), NEW t, t = InTurn(DelStatusEffect, s, ids),
           NEW j \in 1 .. Len(ids), Once(s.list, ids[j])
    PROVE  Without(t.list, ids[j])
<1>1. PICK n \in Nat : n = Len(ids)
  OBVIOUS
<1>2. PICK a : /\ a[0] = s /\ a[Len(ids)] = InTurn(DelStatusEffect, s, ids)
               /\ \A k \in 1 .. Len(ids) : a[k] = DelStatusEffect(a[k-1], ids[k])
               /\ \A k \in 0 .. Len(ids) : a[k] \in BoxRec /\ Kept(s, a[k])
  BY DeletionsRun
<1>3. PICK id : id = ids[j]
  OBVIOUS
<1> DEFINE f == [k \in 0 .. n |-> IF k < j \/ Without(a[k].list, id) THEN 1 ELSE 0]
<1>4. f[0] \in {1}
  BY <1>1
<1>5. ASSUME NEW k \in 1 .. n, f[k-1] \in {1} PROVE f[k] \in {1}
  <2>1. k - 1 \in 0 .. n /\ k \in 0 .. n /\ (k - 1 < j \/ Without(a[k-1].list, id))
    BY <1>5
  <2>2. PICK u, v : u = a[k-1] /\ v = a[k]
    OBVIOUS
  <2>3. u \in BoxRec /\ v = DelStatusEffect(u, ids[k]) /\ Kept(s, u)
    BY <1>1, <1>2, <2>1, <2>2
  <2>4. Fewer(v.list, u.list)
    BY <2>3, DelStatusEffectKeeps DEF Kept
  <2>5. k < j \/ Without(v.list, id)
    <3>1. CASE Without(u.list, id)
      BY <2>4, <3>1, StillWithout
    <3>2. CASE k = j
      <4>1. Once(u.list, id)
        BY <1>3, <2>3, StillWithout DEF Kept
      <4> QED
        BY <1>3, <2>3, <3>2, <4>1, DeletedOnce
    <3>3. CASE k < j
      BY <3>3
    <3> QED
      BY <1>1, <2>1, <2>2, <3>1, <3>2, <3>3
  <2> QED
    BY <2>1, <2>2, <2>5
<1> HIDE DEF f
<1>6. \A k \in 0 .. n : f[k] \in {1}
  <2>1. PICK S : S = {1}
    OBVIOUS
  <2>2. f[0] \in S /\ \A k \in 1 .. n : f[k-1] \in S => f[k] \in S
    BY <1>4, <1>5, <2>1
  <2>3. \A k \in 0 .. n : f[k] \in S
    BY <2>2, KeptByRounds
  <2> QED
    BY <2>1, <2>3
<1>7. f[n] = 1 /\ ~(n < j) /\ n \in 0 .. n
  BY <1>1, <1>6
<1>8. Without(a[n].list, id)
  BY <1>7 DEF f
<1> QED
  BY <1>1, <1>2, <1>3, <1>8

\* No effect of the list is doomed.
Spared(l, doomed) == \A i \in DOMAIN l : l[i] \notin doomed

LEMMA SparedSubset ==
    ASSUME NEW l, NEW m, ToSet(l) \subseteq ToSet(m), NEW doomed, Spared(m, doomed)
    PROVE  Spared(l, doomed)
<1>1. \A i \in DOMAIN l : \E j \in DOMAIN m : l[i] = m[j]
  BY DEF ToSet
<1> QED
  BY <1>1 DEF Spared

\* The rounds of a loop, seen from a state of it.
LEMMA RoundCases ==
    ASSUME NEW u \in BoxRec, NEW at \in Nat \ {0}, NEW doomed, NEW back,
           NEW w, w = Round([s |-> u, at |-> at], doomed, back)
    PROVE  /\ at > Len(u.list) => w.s = u /\ w.at = at
           /\ at \in DOMAIN u.list /\ u.list[at] \in doomed =>
                 w.s = RemoveStatusEffect(u, at) /\ w.at = NextPlace(at, back)
           /\ at \in DOMAIN u.list /\ u.list[at] \notin doomed => w.s = u /\ w.at = at + 1
           /\ at > Len(u.list) \/ at \in DOMAIN u.list
<1>1. PICK x : x = [s |-> u, at |-> at]
  OBVIOUS
<1>2. x.s = u /\ x.at = at
  BY <1>1
<1>3. PICK n \in Nat : n = Len(u.list) /\ DOMAIN u.list = 1 .. n
  BY DEF BoxRec
<1>4. at \in 1 .. n => ~(at > n)
  BY <1>3
<1> QED
  BY <1>1, <1>2, <1>3, <1>4 DEF Round

\* A sweep with one doomed effect at most removes it.
LEMMA SweptOnly ==
    ASSUME NEW s \in BoxRec, NEW doomed, NEW back \in BOOLEAN, NEW t, t = Sweep(s, doomed, back),
           \A i, j \in DOMAIN s.list : s.list[i] \in doomed /\ s.list[j] \in doomed => i = j
    PROVE  Spared(t.list, doomed)
<1>1. PICK n \in Nat : n = Len(s.list) /\ DOMAIN s.list = 1 .. n /\ s.list \in Seq(Effect)
  BY DEF BoxRec
<1>2. PICK a : /\ a[0] = [s |-> s, at |-> 1] /\ a[Len(s.list)].s = Sweep(s, doomed, back)
               /\ \A k \in 1 .. Len(s.list) : a[k] = Round(a[k-1], doomed, back)
               /\ \A k \in 0 .. Len(s.list) :
                     a[k] \in [s : BoxRec, at : Nat \ {0}] /\ Kept(s, a[k].s)
  BY SweepRun
<1> DEFINE Before(k) == a[k].s = s /\ a[k].at = k + 1 /\ \A i \in 1 .. k : s.list[i] \notin doomed
           f == [k \in 0 .. n |-> IF Before(k) \/ Spared(a[k].s.list, doomed) THEN 1 ELSE 0]
<1>3. f[0] \in {1}
  BY <1>2
<1>4. ASSUME NEW k \in 1 .. n, f[k-1] \in {1} PROVE f[k] \in {1}
  <2>1. k - 1 \in 0 .. n /\ k \in 0 .. n
    OBVIOUS
  <2>2. Before(k - 1) \/ Spared(a[k-1].s.list, doomed)
    <3> HIDE DEF Before
    <3> QED
      BY <1>4, <2>1
  <2>3. PICK u, at : u = a[k-1].s /\ at = a[k-1].at
    OBVIOUS
  <2>4. PICK w : w = a[k]
    OBVIOUS
  <2>5. u \in BoxRec /\ at \in Nat \ {0} /\ w = Round([s |-> u, at |-> at], doomed, back)
    <3>1. a[k-1] \in [s : BoxRec, at : Nat \ {0}] /\ a[k] = Round(a[k-1], doomed, back)
      BY <1>1, <1>2, <2>1
    <3>2. a[k-1] = [s |-> u, at |-> at]
      BY <2>3, <3>1
    <3> QED
      BY <2>3, <2>4, <3>1, <3>2
  <2>6. CASE Spared(u.list, doomed)
    <3>1. Kept(u, w.s)
      BY <2>5, RoundKeeps
    <3>2. Spared(w.s.list, doomed)
      BY <2>6, <3>1, SparedSubset DEF Kept
    <3> HIDE DEF Before
    <3> QED
      BY <2>1, <2>4, <3>2
  <2>7. CASE Before(k - 1)
    <3>1. u = s /\ at = k /\ at \in DOMAIN s.list /\ \A i \in 1 .. k - 1 : s.list[i] \notin doomed
      BY <1>1, <2>3, <2>7
    <3>2. CASE s.list[k] \notin doomed
      <4>1. w.s = s /\ w.at = k + 1
        BY <2>5, <3>1, <3>2, RoundCases
      <4>2. \A i \in 1 .. k : i = k \/ i \in 1 .. k - 1
        OBVIOUS
      <4>3. Before(k)
        BY <2>4, <3>1, <3>2, <4>1, <4>2
      <4> HIDE DEF Before
      <4> QED
        BY <2>1, <4>3
    <3>3. CASE s.list[k] \in doomed
      <4>1. w.s = RemoveStatusEffect(s, k)
        BY <2>5, <3>1, <3>3, RoundCases
      <4>2. ToSet(w.s.list) \subseteq ToSet(RemoveAt(s.list, k))
        BY <3>1, <4>1, RemoveStatusEffectKeeps
      <4>3. PICK r : r = RemoveAt(s.list, k)
        OBVIOUS
      <4>4. DOMAIN r = 1 .. n - 1 /\ \A i \in DOMAIN r : r[i] = IF i < k THEN s.list[i] ELSE s.list[i + 1]
        <5>1. DOMAIN r = 1 .. Len(s.list) - 1 /\ \A i \in DOMAIN r : r[i] = IF i < k THEN s.list[i] ELSE s.list[i + 1]
          BY <1>1, <3>1, <4>3, RemoveAtFacts
        <5> QED
          BY <1>1, <5>1
      <4>5. \A i \in 1 .. n : i # k => s.list[i] \notin doomed
        BY <1>1, <3>3
      <4>6. \A i \in 1 .. n - 1 : i \in 1 .. n /\ i + 1 \in 1 .. n /\ (i < k => i # k) /\ (~(i < k) => i + 1 # k)
        BY <1>1
      <4>7. Spared(r, doomed)
        BY <4>4, <4>5, <4>6 DEF Spared
      <4>8. Spared(w.s.list, doomed)
        BY <4>2, <4>3, <4>7, SparedSubset
      <4> HIDE DEF Before
      <4> QED
        BY <2>1, <2>4, <4>8
    <3> QED
      BY <3>2, <3>3
  <2> QED
    BY <2>2, <2>3, <2>6, <2>7
<1> HIDE DEF f
<1>5. \A k \in 0 .. n : f[k] \in {1}
  <2>1. PICK S : S = {1}
    OBVIOUS
  <2>2. f[0] \in S /\ \A k \in 1 .. n : f[k-1] \in S => f[k] \in S
    BY <1>3, <1>4, <2>1
  <2>3. \A k \in 0 .. n : f[k] \in S
    BY <2>2, KeptByRounds
  <2> QED
    BY <2>1, <2>3
<1>6. f[n] = 1 /\ n \in 0 .. n
  BY <1>5
<1>7. Before(n) \/ Spared(a[n].s.list, doomed)
  BY <1>6 DEF f
<1>8. CASE Before(n)
  BY <1>1, <1>2, <1>8 DEF Spared
<1> HIDE DEF Before
<1>9. CASE Spared(a[n].s.list, doomed)
  BY <1>1, <1>2, <1>9
<1> QED
  BY <1>7, <1>8, <1>9

LEMMA OnceWithoutRivals ==
    ASSUME NEW l, NoRivals(l), NEW b, Row[b].overwrite # "ignore"
    PROVE  Once(l, b)
BY DEF NoRivals, Ousts, Once

\* Overwrite leaves nothing of the ids it deletes, unless they are ignored.
LEMMA OverwriteOusts ==
    ASSUME NEW s \in BoxRec, NoRivals(s.list), NEW e \in Effect, NEW t, t = Overwrite(s, e),
           NEW b \in {e.id, Row[e.id].negative, Row[e.id].remove}, Row[b].overwrite # "ignore"
    PROVE  Without(t.list, b)
<1>1. PICK V : V = Ids \cup {None}
  OBVIOUS
<1>2. e.id \in V /\ e.id \in Ids /\ Row[e.id].remove \in V /\ Row[e.id].negative \in V
  BY <1>1, RowFacts DEF Effect
<1>3. PICK same : same = IF Row[e.id].overwrite = "ignore" THEN <<>> ELSE <<e.id>>
  OBVIOUS
<1>4. PICK x, y, z : x = e.id /\ y = Row[e.id].remove /\ z = Row[e.id].negative
  OBVIOUS
<1>5. PICK ids : ids = same \o <<y, z>>
  OBVIOUS
<1>6. t = InTurn(DelStatusEffect, s, ids)
  BY <1>3, <1>4, <1>5 DEF Overwrite
<1>7. Once(s.list, b)
  BY OnceWithoutRivals
<1>8. CASE Row[e.id].overwrite = "ignore"
  <2>1. ids = <<y, z>>
    BY <1>3, <1>5, <1>8
  <2>2. ids \in Seq(V) /\ Len(ids) = 2 /\ ids[1] = y /\ ids[2] = z
    BY <1>2, <1>4, <2>1
  <2>3. b = y \/ b = z
    BY <1>4, <1>8
  <2>4. \E j \in 1 .. Len(ids) : b = ids[j]
    BY <2>2, <2>3
  <2> QED
    BY <1>6, <1>7, <2>2, <2>4, DeletedInTurn
<1>9. CASE Row[e.id].overwrite # "ignore"
  <2>1. PICK p, q : p = <<x>> /\ q = <<y, z>> /\ ids = p \o q
    BY <1>3, <1>4, <1>5, <1>9
  <2>2. ids \in Seq(V) /\ Len(ids) = 3 /\ ids[1] = x /\ ids[2] = y /\ ids[3] = z
    <3>1. p \in Seq(V) /\ q \in Seq(V) /\ Len(p) = 1 /\ Len(q) = 2
          /\ p[1] = x /\ q[1] = y /\ q[2] = z
      BY <1>2, <1>4, <2>1
    <3>2. /\ p \o q \in Seq(V) /\ Len(p \o q) = Len(p) + Len(q)
          /\ \A i \in 1 .. Len(p) + Len(q) :
                (p \o q)[i] = IF i <= Len(p) THEN p[i] ELSE q[i - Len(p)]
      BY <3>1, ConcatProperties
    <3> QED
      BY <2>1, <3>1, <3>2
  <2>3. b = x \/ b = y \/ b = z
    BY <1>4
  <2>4. \E j \in 1 .. Len(ids) : b = ids[j]
    BY <2>2, <2>3
  <2> QED
    BY <1>6, <1>7, <2>2, <2>4, DeletedInTurn
<1> QED
  BY <1>8, <1>9

\* DelByType leaves nothing of the type.
LEMMA DelByTypeOusts ==
    ASSUME NEW s \in BoxRec, NoRivals(s.list), NEW type, type # 0, NEW t, t = DelByType(s, type)
    PROVE  \A i \in DOMAIN t.list : Row[t.list[i].id].type # type
<1>1. PICK doomed : doomed = {e \in ToSet(s.list) : Row[e.id].type = type}
  OBVIOUS
<1>2. t = Sweep(s, doomed, TRUE)
  BY <1>1 DEF DelByType
<1>3. \A i, j \in DOMAIN s.list : s.list[i] \in doomed /\ s.list[j] \in doomed => i = j
  BY <1>1 DEF NoRivals, Ousts
<1>4. Spared(t.list, doomed)
  BY <1>2, <1>3, SweptOnly
<1>5. ToSet(t.list) \subseteq ToSet(s.list)
  BY <1>2, SweepKeeps DEF Kept
<1>6. \A i \in DOMAIN t.list : t.list[i] \in ToSet(s.list)
  BY <1>5 DEF ToSet
<1> QED
  BY <1>1, <1>4, <1>6 DEF Spared

\* What AddStatusEffect does if it does anything: to what is left when others
\* have made way it appends the effect, with another icon perhaps.
MadeWay(s, e) == DelByType(Overwrite(s, e), Row[e.id].type)

LEMMA AddedAtTheEnd ==
    ASSUME NEW s \in BoxRec, NEW e \in Effect, CanGain(s, e), NEW t, t = AddStatusEffect(s, e)
    PROVE  \E new \in Effect :
              /\ t.list = Append(MadeWay(s, e).list, new) /\ Like(new, e)
              /\ new.dur = e.dur /\ new.wears = e.wears /\ (e.icon # None => new.icon # None)
              /\ new.left = IF 2 * e.dur > TickWidth THEN e.dur - TickWidth ELSE e.dur
<1>1. PICK cleared : cleared = MadeWay(s, e)
  OBVIOUS
<1>2. Kept(s, cleared) /\ cleared \in BoxRec
  <2>1. PICK over : over = Overwrite(s, e)
    OBVIOUS
  <2>2. Kept(s, over) /\ over \in BoxRec
    BY <2>1, OverwriteKeeps DEF Kept, AsRight
  <2>3. Kept(over, cleared)
    BY <1>1, <2>1, <2>2, DelByTypeKeeps DEF MadeWay
  <2> QED
    BY <2>2, <2>3, KeptTwice DEF Kept, AsRight
<1>3. PICK left : left = IF 2 * e.dur > TickWidth THEN e.dur - TickWidth ELSE e.dur
  OBVIOUS
<1>4. PICK icon : icon = IF e.id = Lullaby /\ life = "alive" THEN Sleep ELSE e.icon
  OBVIOUS
<1>5. PICK new : new = [e EXCEPT !.left = left, !.icon = icon]
  OBVIOUS
<1>6. left \in Int /\ icon \in Ids \cup {None} /\ (e.icon # None => icon # None)
  <2>1. e.dur \in Nat /\ TickWidth \in Nat /\ e.icon \in Ids \cup {None} /\ Sleep \in Ids /\ None \notin Ids
    BY EffectsAssumption DEF Effect
  <2>2. left \in Int
    BY <1>3, <2>1
  <2> QED
    BY <1>4, <2>1, <2>2
<1>7. /\ new \in Effect /\ Like(new, e) /\ new.dur = e.dur /\ new.wears = e.wears
      /\ new.icon = icon /\ new.left = left
  BY <1>5, <1>6 DEF Effect, Like
<1>8. PICK u : u = AddMods([cleared EXCEPT !.list = Append(@, new)], e.id, e.power)
  OBVIOUS
<1>9. t = IF new.icon # None THEN UpdateStatusIcons(u) ELSE u
  BY <1>1, <1>3, <1>4, <1>5, <1>8 DEF AddStatusEffect, MadeWay
<1>10. u.list = Append(cleared.list, new)
  BY <1>2, <1>8 DEF AddMods, BoxRec
<1>11. UpdateStatusIcons(u).list = u.list
  <2>1. PICK v : v = [cleared EXCEPT !.list = Append(@, new)]
    OBVIOUS
  <2>2. u = [v EXCEPT !.mods[e.id] = @ + e.power]
    BY <1>8, <2>1 DEF AddMods
  <2> QED
    BY <1>2, <2>1, <2>2 DEF UpdateStatusIcons, BoxRec
<1> QED
  BY <1>1, <1>3, <1>6, <1>7, <1>9, <1>10, <1>11

\* An effect that is gained leaves none that it ousts.
LEMMA AddedOusts ==
    ASSUME NEW s \in BoxRec, NoRivals(s.list), FromCasts(s.list), NEW e \in Effect, CanGain(s, e)
    PROVE  \A i \in DOMAIN MadeWay(s, e).list : ~Ousts(e.id, MadeWay(s, e).list[i].id)
<1>1. PICK over : over = Overwrite(s, e)
  OBVIOUS
<1>2. PICK cleared : cleared = DelByType(over, Row[e.id].type)
  OBVIOUS
<1>3. Kept(s, over) /\ over \in BoxRec
  BY <1>1, OverwriteKeeps DEF Kept, AsRight
<1>4. Kept(over, cleared) /\ cleared \in BoxRec /\ Kept(s, cleared)
  <2>1. Kept(over, cleared)
    BY <1>2, <1>3, DelByTypeKeeps
  <2> QED
    BY <1>3, <2>1, KeptTwice DEF Kept, AsRight
<1> SUFFICES ASSUME NEW i \in DOMAIN cleared.list PROVE ~Ousts(e.id, cleared.list[i].id)
  BY <1>1, <1>2 DEF MadeWay
<1>5. PICK b : b = cleared.list[i].id
  OBVIOUS
<1>6. ~(b \in {e.id, Row[e.id].negative, Row[e.id].remove} /\ Row[b].overwrite # "ignore")
  <2>1. SUFFICES ASSUME b \in {e.id, Row[e.id].negative, Row[e.id].remove},
                        Row[b].overwrite # "ignore"
                 PROVE  FALSE
    OBVIOUS
  <2>2. Without(over.list, b)
    BY <1>1, <2>1, OverwriteOusts
  <2>3. Without(cleared.list, b)
    BY <1>4, <2>2, StillWithout DEF Kept
  <2> QED
    BY <1>5, <2>3 DEF Without
<1>7. ~(Row[e.id].type = Row[b].type /\ Row[e.id].type # 0)
  <2>1. NoRivals(over.list)
    BY <1>3, NoRivalsFewer DEF Kept
  <2> QED
    BY <1>2, <1>3, <1>5, <2>1, DelByTypeOusts
<1>8. ~(b = Row[e.id].block /\ \A c \in Casts : c.id = b => c.icon # None)
  <2>1. PICK j \in DOMAIN s.list : s.list[j] = cleared.list[i]
    BY <1>4 DEF Kept, ToSet
  <2>2. PICK c \in Casts : Stems(s.list[j], c)
    BY <2>1 DEF FromCasts
  <2>3. ~HasStatusEffect(s, Row[e.id].block)
    BY DEF CanGain
  <2> QED
    BY <1>5, <2>1, <2>2, <2>3 DEF Stems, HasStatusEffect
<1> QED
  BY <1>5, <1>6, <1>7, <1>8 DEF Ousts

LEMMA AddedWithoutRivals ==
    ASSUME NEW s \in BoxRec, NoRivals(s.list), FromCasts(s.list), NEW e \in Effect,
           NEW c \in Casts, Stems(e, c), NEW t, t = AddStatusEffect(s, e)
    PROVE  NoRivals(t.list) /\ FromCasts(t.list)
<1>1. CASE ~CanGain(s, e)
  BY <1>1 DEF AddStatusEffect
<1>2. CASE CanGain(s, e)
  <2>1. PICK new \in Effect :
           /\ t.list = Append(MadeWay(s, e).list, new) /\ Like(new, e)
           /\ new.dur = e.dur /\ (e.icon # None => new.icon # None)
    BY <1>2, AddedAtTheEnd
  <2>2. PICK cleared : cleared = MadeWay(s, e)
    OBVIOUS
  <2>3. cleared \in BoxRec /\ Kept(s, cleared)
    <3>1. PICK over : over = Overwrite(s, e)
      OBVIOUS
    <3>2. Kept(s, over) /\ over \in BoxRec
      BY <3>1, OverwriteKeeps DEF Kept, AsRight
    <3>3. Kept(over, cleared)
      BY <2>2, <3>1, <3>2, DelByTypeKeeps DEF MadeWay
    <3> QED
      BY <3>2, <3>3, KeptTwice DEF Kept, AsRight
  <2>4. NoRivals(cleared.list) /\ FromCasts(cleared.list)
    BY <2>3, NoRivalsFewer, FromCastsSubset DEF Kept
  <2>5. PICK n \in Nat : n = Len(cleared.list) /\ DOMAIN cleared.list = 1 .. n
    BY <2>3 DEF BoxRec
  <2>6. PICK l : l = t.list
    OBVIOUS
  <2>7. DOMAIN l = 1 .. n + 1 /\ l[n + 1] = new /\ \A i \in 1 .. n : l[i] = cleared.list[i]
    BY <2>1, <2>2, <2>3, <2>5, <2>6 DEF BoxRec
  <2>8. \A i \in 1 .. n : ~Ousts(e.id, l[i].id)
    BY <1>2, <2>2, <2>5, <2>7, AddedOusts
  <2>9. new.id = e.id /\ Stems(new, c)
    BY <2>1 DEF Like, Stems
  <2>10. \A i \in 1 .. n + 1 : i = n + 1 \/ i \in 1 .. n
    OBVIOUS
  <2>11. NoRivals(l)
    <3> SUFFICES ASSUME NEW i \in 1 .. n + 1, NEW j \in 1 .. n + 1, i # j
                 PROVE  ~(Ousts(l[i].id, l[j].id) /\ Ousts(l[j].id, l[i].id))
      BY <2>7 DEF NoRivals
    <3>1. CASE i \in 1 .. n /\ j \in 1 .. n
      BY <2>4, <2>5, <2>7, <3>1 DEF NoRivals
    <3>2. CASE i = n + 1 /\ j \in 1 .. n
      BY <2>7, <2>8, <2>9, <3>2
    <3>3. CASE j = n + 1 /\ i \in 1 .. n
      BY <2>7, <2>8, <2>9, <3>3
    <3> QED
      BY <2>10, <3>1, <3>2, <3>3
  <2>12. FromCasts(l)
    BY <2>4, <2>5, <2>7, <2>9, <2>10 DEF FromCasts
  <2> QED
    BY <2>6, <2>11, <2>12
<1> QED
  BY <1>1, <1>2

-----------------------------------------------------------------------------
(* The steps.                                                              *)

LEMMA CastsAreEffects == \A e \in Casts : e \in Effect /\ (e.id \in Songs => e.sub \in Bards)
BY EffectsAssumption DEF Bards

LEMMA InitHolds == Init => EffectsInv
<1> SUFFICES ASSUME Init PROVE EffectsInv
  OBVIOUS
<1>1. box \in BoxRec /\ Current(box) /\ InSync(box) /\ box.list = <<>>
  BY NothingFacts DEF Init, Nothing
<1>2. <<>> \in Seq(Effect) /\ MaxSongs \in Nat /\ MaxEvents \in Nat /\ MaxClock \in Nat
  BY EffectsAssumption
<1>3. TypeOK
  <2>1. /\ kind \in {"pc", "mob"} /\ life \in {"alive", "dead", "down"}
        /\ place \in {"world", "leaving", "offline"} /\ rows \in Seq(Effect)
    BY <1>2 DEF Init
  <2>2. applied \in 0 .. MaxEvents /\ clock \in 0 .. MaxClock
    BY <1>2 DEF Init
  <2>3. taken \in [Bards -> Nat] /\ unsynced \in BOOLEAN
    BY DEF Init
  <2>4. box \in [list : Seq(Effect), icons : Seq(Ids), mods : [Ids -> Int]]
    BY <1>1 DEF BoxRec
  <2> QED
    BY <2>1, <2>2, <2>3, <2>4 DEF TypeOK
<1>4. NoTwins(<<>>)
  BY DEF NoTwins
<1>5. SongsWithin(<<>>, taken)
  <2> SUFFICES ASSUME NEW b \in Bards PROVE Cardinality(Sung(<<>>, b)) <= MaxSongs + taken[b]
    BY DEF SongsWithin
  <2>1. Sung(<<>>, b) = {}
    BY DEF Sung
  <2>2. taken[b] = 0
    BY DEF Init
  <2> QED
    BY <1>2, <2>1, <2>2, FS_EmptySet
<1> QED
  BY <1>1, <1>3, <1>4, <1>5, NoneFromCasts DEF Init, EffectsInv

LEMMA GainStep ==
    ASSUME EffectsInv, NEW e \in Casts, Gain(e)
    PROVE  EffectsInv'
<1>1. /\ e \in Effect /\ e.id \notin Songs /\ applied < MaxEvents
      /\ box' = AddStatusEffect(box, e) /\ applied' = applied + 1
      /\ UNCHANGED <<kind, place, life, rows, clock, taken, unsynced>>
  BY CastsAreEffects DEF Gain
<1>2. TypeOK /\ box \in BoxRec /\ box.list \in Seq(Effect) /\ taken \in [Bards -> Nat]
  BY BoxFacts DEF EffectsInv, TypeOK
<1>3. AsRight(box, box') /\ Fewer(box'.list, Append(box.list, e))
  BY <1>1, <1>2, AddStatusEffectKeeps
<1>4. box' \in BoxRec /\ box'.list \in Seq(Effect)
  BY <1>3 DEF AsRight, BoxRec
<1>5. applied' \in 0 .. MaxEvents
  BY <1>1, <1>2, EffectsAssumption DEF TypeOK
<1>6. TypeOK'
  BY <1>1, <1>2, <1>4, <1>5, TypeFromBox DEF TypeOK
<1>7. PICK list : list = Append(box.list, e)
  OBVIOUS
<1>8. list \in Seq(Effect)
  BY <1>1, <1>2, <1>7
<1>9. NoTwins(list)
  BY <1>1, <1>2, <1>7, NoTwinsAppend DEF EffectsInv
<1>10. SongsWithin(list, taken)
  BY <1>1, <1>2, <1>7, SungAppend DEF EffectsInv, SongsWithin
<1>11. NoTwins(box'.list) /\ SongsWithin(box'.list, taken)
  BY <1>2, <1>3, <1>4, <1>7, <1>8, <1>9, <1>10, NoTwinsFewer, SongsWithinFewer
<1>12. (Current(box))'
  BY <1>1, <1>3 DEF AsRight, Current, EffectsInv
<1>13. (unsynced \/ InSync(box))'
  BY <1>1, <1>3 DEF AsRight, InSync, EffectsInv
<1>14. /\ NoTwins(box.list)' /\ SongsWithin(box.list, taken)'
       /\ NoTwins(rows)' /\ SongsWithin(rows, taken)'
  BY <1>1, <1>11 DEF EffectsInv
<1>15. /\ NoRivals(box.list)' /\ FromCasts(box.list)' /\ NoRivals(rows)' /\ Temporary(rows)'
       /\ (place # "world" => kind = "pc")'
  <2>1. Stems(e, e)
    BY DEF Stems
  <2>2. NoRivals(box'.list) /\ FromCasts(box'.list)
    BY <1>1, <1>2, <2>1, AddedWithoutRivals DEF EffectsInv
  <2> QED
    BY <1>1, <2>2 DEF EffectsInv
<1> QED
  BY <1>6, <1>12, <1>13, <1>14, <1>15 DEF EffectsInv

\* A song is added like any effect, to what is left when another made way.
LEMMA BardAdds ==
    ASSUME NEW s \in BoxRec, NEW e, NEW max, NEW t, t = ApplyBardEffect(s, e, max)
    PROVE  \E u \in BoxRec : Kept(s, u) /\ t = AddStatusEffect(u, e)
<1>1. \E f : t = AddStatusEffect(DelSame(s, f), e)
  BY DEF ApplyBardEffect
<1>2. PICK f, u : u = DelSame(s, f) /\ t = AddStatusEffect(u, e)
  BY <1>1
<1>3. Kept(s, u) /\ u \in BoxRec
  BY <1>2, DelSameKeeps DEF Kept, AsRight
<1> QED
  BY <1>2, <1>3

LEMMA SingStep ==
    ASSUME EffectsInv, NEW e \in Casts, NEW max \in 1 .. MaxSongs, Sing(e, max)
    PROVE  EffectsInv'
<1>1. /\ e \in Effect /\ e.id \in Songs /\ e.sub \in Bards /\ applied < MaxEvents
      /\ box' = ApplyBardEffect(box, e, max) /\ applied' = applied + 1
      /\ UNCHANGED <<kind, place, life, rows, clock, unsynced>>
  BY CastsAreEffects DEF Sing
<1>2. TypeOK /\ box \in BoxRec /\ box.list \in Seq(Effect) /\ taken \in [Bards -> Nat]
  BY BoxFacts DEF EffectsInv, TypeOK
<1>3. /\ AsRight(box, box') /\ NoTwins(box'.list)
      /\ \A bard : bard # e.sub =>
            Cardinality(Sung(box'.list, bard)) <= Cardinality(Sung(box.list, bard))
      /\ Cardinality(Sung(box'.list, e.sub)) <= Cardinality(Sung(box.list, e.sub)) + 1
      /\ (\A n \in Same(box, e) : box.list[n].sub = e.sub) =>
            \/ Cardinality(Sung(box'.list, e.sub)) <= MaxSongs
            \/ Cardinality(Sung(box'.list, e.sub)) <= Cardinality(Sung(box.list, e.sub))
  <2>1. NoTwins(box.list)
    BY DEF EffectsInv
  <2> QED
    BY <1>1, <1>2, <2>1, ApplyBardEffectKeeps
<1>4. box' \in BoxRec /\ box'.list \in Seq(Effect)
  BY <1>3 DEF AsRight, BoxRec
<1>5. applied' \in 0 .. MaxEvents
  BY <1>1, <1>2, EffectsAssumption DEF TypeOK
<1>6. /\ taken' \in [Bards -> Nat]
      /\ \A b \in Bards : b # e.sub => taken'[b] = taken[b]
      /\ \A b \in Bards : taken'[b] >= taken[b]
      /\ ~(\A n \in Same(box, e) : box.list[n].sub = e.sub) => taken'[e.sub] = taken[e.sub] + 1
  <2>1. CASE \E n \in Same(box, e) : box.list[n].sub # e.sub
    <3>1. taken' = [taken EXCEPT ![e.sub] = @ + 1]
      BY <2>1 DEF Sing
    <3> QED
      BY <1>1, <1>2, <3>1
  <2>2. CASE ~(\E n \in Same(box, e) : box.list[n].sub # e.sub)
    <3>1. taken' = taken
      BY <2>2 DEF Sing
    <3> QED
      BY <1>2, <2>2, <3>1
  <2> QED
    BY <2>1, <2>2
<1>7. TypeOK'
  BY <1>1, <1>2, <1>4, <1>5, <1>6, TypeFromBox DEF TypeOK
<1>8. SongsWithin(box'.list, taken')
  <2> SUFFICES ASSUME NEW b \in Bards
               PROVE  Cardinality(Sung(box'.list, b)) <= MaxSongs + taken'[b]
    BY DEF SongsWithin
  <2>1. PICK i \in Nat, j \in Nat, k \in Nat, l \in Nat, m \in Nat :
           /\ i = Cardinality(Sung(box'.list, b)) /\ j = Cardinality(Sung(box.list, b))
           /\ k = taken[b] /\ l = taken'[b] /\ m = MaxSongs
    BY <1>2, <1>4, <1>6, SungFinite, EffectsAssumption
  <2>2. j <= m + k /\ l >= k
    BY <1>6, <2>1 DEF EffectsInv, SongsWithin
  <2>3. CASE b # e.sub
    BY <1>3, <2>1, <2>2, <2>3
  <2>4. CASE b = e.sub /\ \A n \in Same(box, e) : box.list[n].sub = e.sub
    <3>1. i <= m \/ i <= j
      BY <1>3, <2>1, <2>4
    <3> QED
      BY <2>1, <2>2, <3>1
  <2>5. CASE b = e.sub /\ ~(\A n \in Same(box, e) : box.list[n].sub = e.sub)
    <3>1. i <= j + 1 /\ l = k + 1
      BY <1>3, <1>6, <2>1, <2>5
    <3> QED
      BY <2>1, <2>2, <3>1
  <2> QED
    BY <2>3, <2>4, <2>5
<1>9. SongsWithin(rows, taken')
  <2> SUFFICES ASSUME NEW b \in Bards
               PROVE  Cardinality(Sung(rows, b)) <= MaxSongs + taken'[b]
    BY DEF SongsWithin
  <2>1. PICK i \in Nat, k \in Nat, l \in Nat, m \in Nat :
           /\ i = Cardinality(Sung(rows, b))
           /\ k = taken[b] /\ l = taken'[b] /\ m = MaxSongs
    BY <1>2, <1>6, SungFinite, EffectsAssumption DEF TypeOK
  <2>2. i <= m + k /\ l >= k
    BY <1>6, <2>1 DEF EffectsInv, SongsWithin
  <2> QED
    BY <2>1, <2>2
<1>10. (Current(box))'
  BY <1>1, <1>3 DEF AsRight, Current, EffectsInv
<1>11. (unsynced \/ InSync(box))'
  BY <1>1, <1>3 DEF AsRight, InSync, EffectsInv
<1>12. /\ NoTwins(box.list)' /\ SongsWithin(box.list, taken)'
       /\ NoTwins(rows)' /\ SongsWithin(rows, taken)'
  BY <1>1, <1>3, <1>8, <1>9 DEF EffectsInv
<1>13. /\ NoRivals(box.list)' /\ FromCasts(box.list)' /\ NoRivals(rows)' /\ Temporary(rows)'
       /\ (place # "world" => kind = "pc")'
  <2>1. PICK u \in BoxRec : Kept(box, u) /\ box' = AddStatusEffect(u, e)
    BY <1>1, <1>2, BardAdds
  <2>2. NoRivals(u.list) /\ FromCasts(u.list)
    BY <2>1, NoRivalsFewer, FromCastsSubset DEF EffectsInv, Kept
  <2>3. Stems(e, e)
    BY DEF Stems
  <2>4. NoRivals(box'.list) /\ FromCasts(box'.list)
    BY <1>1, <2>1, <2>2, <2>3, AddedWithoutRivals
  <2> QED
    BY <1>1, <2>4 DEF EffectsInv
<1> QED
  BY <1>7, <1>10, <1>11, <1>12, <1>13 DEF EffectsInv

LEMMA DelByFlagKeeps ==
    ASSUME NEW s \in BoxRec, NEW flag
    PROVE  Kept(s, DelByFlag(s, flag))
BY SweepKeeps DEF DelByFlag

LEMMA KillAllKeeps ==
    ASSUME NEW s \in BoxRec
    PROVE  Kept(s, KillAll(s))
BY SweepKeeps DEF KillAll

\* Cures, cancelling, erasing, dispelling, damage and expiry.
LEMMA RemovalSteps ==
    ASSUME EffectsInv,
           \/ \E id \in Ids : Cure(id) \/ Cancel(id)
           \/ \E flag \in {"ERASABLE", "DISPELABLE"} : EraseOne(flag) \/ EraseAll(flag)
           \/ Hurt \/ CheckRegen \/ CheckEffects
    PROVE  EffectsInv'
<1>1. box \in BoxRec /\ box.list \in Seq(Effect)
  BY BoxFacts DEF EffectsInv
<1>2. ASSUME NEW id \in Ids, Cure(id) PROVE EffectsInv'
  <2>1. PICK s : s = DelStatusEffect(box, id)
    OBVIOUS
  <2> QED
    BY <1>1, <1>2, <2>1, DelStatusEffectKeeps, ChangeKeeps DEF Cure
<1>3. ASSUME NEW id \in Ids, Cancel(id) PROVE EffectsInv'
  <2>1. PICK s : s = DelByIcon(box, id)
    OBVIOUS
  <2>2. Kept(box, s)
    BY <1>1, <2>1, SweepKeeps DEF DelByIcon
  <2> QED
    BY <1>3, <2>1, <2>2, ChangeKeeps DEF Cancel
<1>4. ASSUME NEW flag, EraseOne(flag) PROVE EffectsInv'
  <2>1. PICK n \in DOMAIN box.list : Change(RemoveStatusEffect(box, n))
    BY <1>4 DEF EraseOne
  <2>2. PICK s : s = RemoveStatusEffect(box, n)
    OBVIOUS
  <2> QED
    BY <1>1, <2>1, <2>2, RemoveStatusEffectKeeps, ChangeKeeps
<1>5. ASSUME NEW flag, EraseAll(flag) PROVE EffectsInv'
  <2>1. PICK doomed : doomed = {e \in ToSet(box.list) : Flagged(e, flag) /\ e.dur > 0}
    OBVIOUS
  <2>2. PICK s : s = Sweep(box, doomed, FALSE)
    OBVIOUS
  <2>3. Kept(box, s)
    BY <1>1, <2>2, SweepKeeps
  <2> QED
    BY <1>5, <2>1, <2>2, <2>3, ChangeKeeps DEF EraseAll
<1>6. ASSUME Hurt PROVE EffectsInv'
  <2>1. PICK s : s = DelByFlag(box, "DAMAGE")
    OBVIOUS
  <2> QED
    BY <1>1, <1>6, <2>1, DelByFlagKeeps, ChangeKeeps DEF Hurt
<1>7. ASSUME CheckRegen PROVE EffectsInv'
  <2>1. PICK V : V = {Healing, Sleep, Lullaby}
    OBVIOUS
  <2>2. PICK ids : ids = <<Healing, Sleep, Lullaby>>
    OBVIOUS
  <2>3. ids \in Seq(V)
    BY <2>1, <2>2
  <2>4. PICK s : s = InTurn(DelStatusEffect, box, ids)
    OBVIOUS
  <2>5. Kept(box, s)
    BY <1>1, <2>3, <2>4, DeletionsKeep
  <2> QED
    BY <1>7, <2>2, <2>4, <2>5, ChangeKeeps DEF CheckRegen
<1>8. ASSUME CheckEffects PROVE EffectsInv'
  <2>1. PICK doomed : doomed = {e \in ToSet(box.list) : Overdue(e)}
    OBVIOUS
  <2>2. PICK s : s = Sweep(box, doomed, TRUE)
    OBVIOUS
  <2>3. Kept(box, s)
    BY <1>1, <2>2, SweepKeeps
  <2> QED
    BY <1>8, <2>1, <2>2, <2>3, ChangeKeeps DEF CheckEffects
<1> QED
  BY <1>2, <1>3, <1>4, <1>5, <1>6, <1>7, <1>8

LEMMA TickStep ==
    ASSUME EffectsInv, Tick
    PROVE  EffectsInv'
<1>1. TypeOK /\ box \in BoxRec /\ box.list \in Seq(Effect)
  BY BoxFacts DEF EffectsInv
<1>2. PICK list : list = [n \in DOMAIN box.list |-> Aged(box.list[n])]
  OBVIOUS
<1>3. /\ box' = [box EXCEPT !.list = list] /\ clock' = clock + 1 /\ clock < MaxClock
      /\ UNCHANGED <<kind, place, life, rows, applied, taken, unsynced>>
  BY <1>2 DEF Tick
<1>4. PICK n \in Nat : n = Len(box.list) /\ DOMAIN box.list = 1 .. n
  BY <1>1
<1>5. ASSUME NEW i \in 1 .. n
      PROVE  /\ Aged(box.list[i]) \in Effect /\ Like(Aged(box.list[i]), box.list[i])
             /\ Aged(box.list[i]).icon = box.list[i].icon /\ Aged(box.list[i]).dur = box.list[i].dur
  <2>1. PICK e : e = box.list[i]
    OBVIOUS
  <2>2. e \in Effect
    BY <1>1, <1>4, <2>1
  <2>3. PICK left \in Int : left = e.left - 1
    BY <2>2 DEF Effect
  <2>4. Aged(e) = [e EXCEPT !.left = left]
    BY <2>3 DEF Aged
  <2>5. Aged(e) \in Effect /\ Like(Aged(e), e) /\ Aged(e).icon = e.icon /\ Aged(e).dur = e.dur
    BY <2>2, <2>3, <2>4 DEF Effect, Like
  <2> QED
    BY <2>1, <2>5
<1>6. /\ list \in Seq(Effect) /\ Len(list) = n /\ DOMAIN list = 1 .. n
      /\ \A i \in 1 .. n : /\ Like(list[i], box.list[i]) /\ list[i].icon = box.list[i].icon
                          /\ list[i].dur = box.list[i].dur
  <2>1. \A i \in 1 .. n : list[i] = Aged(box.list[i])
    BY <1>2, <1>4
  <2>2. list = [i \in 1 .. n |-> Aged(box.list[i])]
    BY <1>2, <1>4
  <2>3. list \in [1 .. n -> Effect]
    BY <1>5, <2>2
  <2>4. list \in Seq(Effect) /\ Len(list) = n /\ DOMAIN list = 1 .. n
    BY <2>3
  <2> QED
    BY <1>5, <2>1, <2>4
<1>7. box' \in BoxRec /\ box'.list = list /\ box'.icons = box.icons /\ box'.mods = box.mods
  BY <1>1, <1>3, <1>6 DEF BoxRec
<1>8. Fewer(list, box.list)
  BY <1>4, <1>6, FewerByLike
<1>9. Icons(list) = Icons(box.list)
  <2>1. HaveIcons(list) = HaveIcons(box.list)
    BY <1>4, <1>6 DEF HaveIcons
  <2>2. \A i \in HaveIcons(box.list) : list[i].icon = box.list[i].icon
    BY <1>4, <1>6 DEF HaveIcons
  <2> QED
    BY <1>1, <1>6, <2>1, <2>2, IconsSame
<1>10. ASSUME NEW id \in Ids PROVE PowerOf(list, id) = PowerOf(box.list, id)
  <2>1. \A k \in DOMAIN box.list : Part(box.list[k], id) = Part(list[k], id)
    BY <1>4, <1>6 DEF Part, Like
  <2> QED
    BY <1>1, <1>4, <1>6, <2>1, PowerOfSame
<1>11. AsRight(box, box') /\ Fewer(box'.list, box.list) /\ FromCasts(box'.list)
  <2>1. AsRight(box, box')
    BY <1>3, <1>7, <1>9, <1>10 DEF AsRight, Current, InSync
  <2>2. FromCasts(list)
    BY <1>4, <1>6 DEF EffectsInv, FromCasts, Stems, Like
  <2> QED
    BY <1>7, <1>8, <2>1, <2>2
<1>12. clock' \in 0 .. MaxClock
  <2>1. clock \in 0 .. MaxClock /\ MaxClock \in Nat
    BY <1>1, EffectsAssumption DEF TypeOK
  <2> QED
    BY <1>3, <2>1
<1>13. TypeOK'
  BY <1>1, <1>3, <1>7, <1>12, TypeFromBox DEF TypeOK
<1>14. unsynced \/ InSync(box) => unsynced' \/ InSync(box')
  BY <1>3, <1>11 DEF AsRight
<1>15. place' # "world" => kind = "pc"
  BY <1>3 DEF EffectsInv
<1> QED
  BY <1>3, <1>11, <1>13, <1>14, <1>15, TakenAway

\* Dying, and leaving a zone, change no effect.
LEMMA BoxStays ==
    ASSUME EffectsInv, UNCHANGED <<kind, box, rows, applied, clock, taken, unsynced>>,
           life' \in {"alive", "dead", "down"}, place' \in {"world", "leaving", "offline"},
           place' # "world" => kind = "pc"
    PROVE  EffectsInv'
<1>1. TypeOK /\ box \in BoxRec
  BY BoxFacts DEF EffectsInv
<1>2. TypeOK'
  BY <1>1 DEF TypeOK
<1>3. AsRight(box, box') /\ Fewer(box'.list, box.list) /\ FromCasts(box'.list)
  BY <1>1, KeptSame DEF Kept, EffectsInv
<1>4. unsynced \/ InSync(box) => unsynced' \/ InSync(box')
  OBVIOUS
<1> QED
  BY <1>2, <1>3, <1>4, TakenAway

LEMMA DieStep ==
    ASSUME EffectsInv, Die
    PROVE  EffectsInv'
BY BoxStays DEF Die, InZone, EffectsInv, TypeOK

LEMMA ZoneOutStep ==
    ASSUME EffectsInv, ZoneOut
    PROVE  EffectsInv'
BY BoxStays DEF ZoneOut, EffectsInv, TypeOK

\* Effects are taken away while the entity dies or comes into a zone.
LEMMA BoxCleared ==
    ASSUME EffectsInv, Kept(box, box'),
           UNCHANGED <<kind, rows, applied, clock, taken, unsynced>>,
           life' \in {"alive", "dead", "down"}, place' \in {"world", "leaving", "offline"},
           place' # "world" => kind = "pc"
    PROVE  EffectsInv'
<1>1. TypeOK'
  BY TypeFromBox DEF EffectsInv, TypeOK, Kept, AsRight
<1>2. unsynced \/ InSync(box) => unsynced' \/ InSync(box')
  BY DEF Kept, AsRight
<1>3. AsRight(box, box') /\ Fewer(box'.list, box.list) /\ FromCasts(box'.list)
  BY FromCastsSubset DEF Kept, EffectsInv
<1> QED
  BY <1>1, <1>2, <1>3, TakenAway

LEMMA ActionDeathStep ==
    ASSUME EffectsInv, ActionDeath
    PROVE  EffectsInv'
<1>1. box \in BoxRec
  BY BoxFacts DEF EffectsInv
<1>2. Kept(box, box')
  <2>1. Kept(box, DelByFlag(box, "DEATH")) /\ Kept(box, KillAll(box))
    BY <1>1, DelByFlagKeeps, KillAllKeeps
  <2> QED
    BY <2>1 DEF ActionDeath
<1>3. /\ life' \in {"alive", "dead", "down"} /\ place' \in {"world", "leaving", "offline"}
      /\ place' = "world" /\ UNCHANGED <<kind, rows, applied, clock, taken, unsynced>>
  BY DEF ActionDeath, EffectsInv, TypeOK
<1> QED
  BY <1>2, <1>3, BoxCleared

LEMMA ZoneInStep ==
    ASSUME EffectsInv, ZoneIn
    PROVE  EffectsInv'
<1>1. box \in BoxRec
  BY BoxFacts DEF EffectsInv
<1>2. Kept(box, box')
  BY <1>1, DelByFlagKeeps DEF ZoneIn
<1>3. /\ life' \in {"alive", "dead", "down"} /\ place' \in {"world", "leaving", "offline"}
      /\ place' = "world" /\ UNCHANGED <<kind, rows, applied, clock, taken, unsynced>>
  BY DEF ZoneIn, EffectsInv, TypeOK
<1> QED
  BY <1>2, <1>3, BoxCleared

\* A respawn resets the modifiers: they are right if no effect has stayed.
LEMMA RiseStep ==
    ASSUME EffectsInv, Rise
    PROVE  EffectsInv'
<1>1. TypeOK /\ box \in BoxRec
  BY BoxFacts DEF EffectsInv
<1>2. PICK left : left = KillAll(box)
  OBVIOUS
<1>3. /\ life' = "alive" /\ box' = IF kind = "pc" THEN box ELSE [left EXCEPT !.mods = Nothing.mods]
      /\ unsynced' = (unsynced \/ (kind = "mob" /\ left.list # <<>>))
      /\ UNCHANGED <<kind, place, rows, applied, clock, taken>>
  BY <1>2 DEF Rise
<1>4. Kept(box, left) /\ left \in BoxRec
  BY <1>1, <1>2, KillAllKeeps DEF Kept, AsRight
<1>5. CASE kind = "pc"
  <2>1. box' = box /\ (unsynced' <=> unsynced)
    BY <1>3, <1>5
  <2>2. unsynced' = unsynced
    BY <1>1, <1>3, <1>5 DEF TypeOK
  <2> QED
    BY <1>1, <1>3, <2>1, <2>2, BoxStays DEF TypeOK, Rise
<1>6. CASE kind # "pc"
  <2>1. kind = "mob" /\ box' = [left EXCEPT !.mods = Nothing.mods]
    BY <1>1, <1>3, <1>6 DEF TypeOK
  <2>2. Nothing.mods = [i \in Ids |-> 0] /\ Nothing.mods \in [Ids -> Int]
    BY DEF Nothing
  <2>3. /\ box' \in BoxRec /\ box'.list = left.list /\ box'.list \in Seq(Effect)
        /\ box'.mods = [i \in Ids |-> 0]
    BY <1>4, <2>1, <2>2 DEF BoxRec
  <2>4. unsynced' \/ InSync(box')
    <3>1. CASE left.list # <<>>
      BY <1>3, <2>1, <3>1
    <3>2. CASE left.list = <<>>
      BY <2>3, <3>2, PowerOfNone DEF InSync
    <3> QED
      BY <3>1, <3>2
  <2>5. NoTwins(box'.list) /\ SongsWithin(box'.list, taken)
    <3>1. Fewer(box'.list, box.list) /\ box.list \in Seq(Effect) /\ taken \in [Bards -> Nat]
      BY <1>1, <1>4, <2>3, BoxFacts DEF Kept, TypeOK
    <3> QED
      BY <2>3, <3>1, NoTwinsFewer, SongsWithinFewer DEF EffectsInv
  <2>6. (Current(box))'
    BY <1>3, <1>6 DEF Current
  <2>7. unsynced' \in BOOLEAN
    BY <1>3
  <2>8. TypeOK'
    BY <1>1, <1>3, <2>3, <2>7, TypeFromBox DEF TypeOK
  <2>9. (unsynced \/ InSync(box))'
    BY <2>4 DEF InSync
  <2>10. /\ NoTwins(box.list)' /\ SongsWithin(box.list, taken)'
         /\ NoTwins(rows)' /\ SongsWithin(rows, taken)'
    BY <1>3, <2>5 DEF EffectsInv
  <2>11. NoRivals(box.list)' /\ FromCasts(box.list)' /\ NoRivals(rows)' /\ Temporary(rows)'
    BY <1>3, <1>4, <2>3, NoRivalsFewer, FromCastsSubset DEF EffectsInv, Kept
  <2>12. (place # "world" => kind = "pc")'
    BY <1>3 DEF Rise
  <2> QED
    BY <2>6, <2>8, <2>9, <2>10, <2>11, <2>12 DEF EffectsInv
<1> QED
  BY <1>5, <1>6

LEMMA LogoutStep ==
    ASSUME EffectsInv, Logout
    PROVE  EffectsInv'
<1>1. TypeOK /\ box.list \in Seq(Effect) /\ taken \in [Bards -> Nat]
  BY BoxFacts DEF EffectsInv, TypeOK
<1>2. PICK keep : keep = {n \in DOMAIN box.list : box.list[n].dur # 0}
  OBVIOUS
<1>3. PICK temporary : temporary = Restricted(box.list, keep)
  OBVIOUS
<1>4. /\ place' = "offline" /\ rows' = [n \in DOMAIN temporary |-> Saved(temporary[n])]
      /\ box' = Nothing /\ UNCHANGED <<kind, life, applied, clock, taken, unsynced>>
  BY <1>2, <1>3 DEF Logout
<1>5. temporary \in Seq(Effect) /\ Fewer(temporary, box.list)
  <2>1. keep \in SUBSET (DOMAIN box.list)
    BY <1>2
  <2> QED
    BY <1>1, <1>3, <2>1, RestrictedType, FewerRestricted
<1>6. PICK n \in Nat : DOMAIN temporary = 1 .. n
  BY <1>5
<1>7. ASSUME NEW i \in 1 .. n
      PROVE  Saved(temporary[i]) \in Effect /\ Like(Saved(temporary[i]), temporary[i])
  <2>1. temporary[i] \in Effect
    BY <1>5, <1>6
  <2> QED
    BY <2>1, SavedType
<1>8. /\ rows' \in Seq(Effect) /\ DOMAIN rows' = DOMAIN temporary
      /\ \A i \in DOMAIN rows' : Like(rows'[i], temporary[i])
  <2>1. PICK r : r = [i \in 1 .. n |-> Saved(temporary[i])]
    OBVIOUS
  <2>2. r \in [1 .. n -> Effect] /\ \A i \in 1 .. n : r[i] = Saved(temporary[i])
    BY <1>7, <2>1
  <2>3. r \in Seq(Effect) /\ DOMAIN r = 1 .. n
    BY <2>2
  <2>4. rows' = r
    BY <1>4, <1>6, <2>1
  <2> QED
    BY <1>6, <1>7, <2>2, <2>3, <2>4
<1>9. Fewer(rows', box.list)
  <2>1. Fewer(rows', temporary)
    BY <1>8, FewerByLike
  <2> QED
    BY <1>5, <2>1, FewerTwice
<1>10. NoTwins(rows') /\ SongsWithin(rows', taken)
  BY <1>1, <1>8, <1>9, NoTwinsFewer, SongsWithinFewer DEF EffectsInv
<1>11. NoTwins(box'.list) /\ SongsWithin(box'.list, taken)
  <2>1. box'.list = <<>> /\ <<>> \in Seq(Effect)
    BY <1>4 DEF Nothing
  <2>2. Fewer(<<>>, box.list)
    <3>1. Embeds(<<>>, <<>>, box.list)
      BY DEF Embeds
    <3> QED
      BY <3>1 DEF Fewer
  <2> QED
    BY <1>1, <2>1, <2>2, NoTwinsFewer, SongsWithinFewer DEF EffectsInv
<1>12. (Current(box))' /\ (InSync(box))' /\ box' \in BoxRec
  BY <1>4, NothingFacts DEF Current, InSync
<1>13. TypeOK'
  BY <1>1, <1>4, <1>8, <1>12, TypeFromBox DEF TypeOK
<1>14. /\ NoTwins(box.list)' /\ SongsWithin(box.list, taken)'
       /\ NoTwins(rows)' /\ SongsWithin(rows, taken)'
  BY <1>4, <1>10, <1>11
<1>15. Temporary(rows')
  <2> SUFFICES ASSUME NEW i \in 1 .. n
               PROVE  rows'[i].wears = FALSE /\ \E c \in Casts : Stems(rows'[i], c) /\ c.dur # 0
    BY <1>6, <1>8 DEF Temporary
  <2>1. PICK k \in keep : temporary[i] = box.list[k]
    <3>1. keep \in SUBSET (DOMAIN box.list)
      BY <1>2
    <3>2. /\ DOMAIN temporary = 1 .. Cardinality(keep)
          /\ \A j \in 1 .. Cardinality(keep) :
                \E k \in keep : Rank(keep, k) = j /\ temporary[j] = box.list[k]
      BY <1>1, <1>3, <3>1, RestrictedElements
    <3> QED
      BY <1>6, <3>2
  <2>2. PICK e : e = box.list[k]
    OBVIOUS
  <2>3. e \in Effect /\ e.dur # 0 /\ rows'[i] = Saved(e)
    BY <1>1, <1>2, <1>4, <1>6, <2>1, <2>2
  <2>4. PICK c \in Casts : Stems(e, c)
    BY <1>2, <2>2 DEF EffectsInv, FromCasts
  <2>5. Saved(e).id = e.id /\ Saved(e).icon = e.icon /\ Saved(e).wears = FALSE
    BY <2>3, SavedType DEF Like
  <2> QED
    BY <2>3, <2>4, <2>5 DEF Stems
<1>16. /\ NoRivals(box.list)' /\ FromCasts(box.list)' /\ NoRivals(rows)' /\ Temporary(rows)'
       /\ (place # "world" => kind = "pc")'
  <2>1. box'.list = <<>>
    BY <1>4 DEF Nothing
  <2>2. place = "leaving"
    BY DEF Logout
  <2>3. NoRivals(rows')
    BY <1>9, NoRivalsFewer DEF EffectsInv
  <2>4. NoRivals(box'.list) /\ FromCasts(box'.list)
    BY <2>1, NoneFromCasts
  <2> QED
    BY <1>4, <1>15, <2>2, <2>3, <2>4 DEF EffectsInv
<1> QED
  BY <1>12, <1>13, <1>14, <1>16 DEF EffectsInv

\* The rows that are read leave no two of which each ousts the other.
LEMMA LoadedWithoutRivals ==
    ASSUME rows \in Seq(Effect), Temporary(rows), NEW order \in SetToSeqs(DOMAIN rows)
    PROVE  NoRivals(LoadStatusEffects(order).list) /\ FromCasts(LoadStatusEffects(order).list)
<1>1. PICK n, a :
         /\ n \in Nat
         /\ order \in [1 .. n -> DOMAIN rows] /\ Len(order) = n /\ Len(rows) = n
         /\ \A i, j \in 1 .. n : order[i] = order[j] => i = j
         /\ a[0] = Nothing /\ a[n] = LoadStatusEffects(order)
         /\ \A k \in 1 .. n : a[k] = LoadRow(a[k-1], order[k])
         /\ \A k \in 0 .. n : a[k] \in BoxRec
  BY LoadRun
<1>a. n \in Nat
  BY <1>1
<1> USE <1>a
<1>2. PICK S : S = {u \in BoxRec : NoRivals(u.list) /\ FromCasts(u.list)}
  OBVIOUS
<1>3. a[0] \in S
  BY <1>1, <1>2, NothingFacts, NoneFromCasts DEF Nothing
<1>4. ASSUME NEW k \in 1 .. n, a[k-1] \in S PROVE a[k] \in S
  <2>1. PICK u, v : u = a[k-1] /\ v = a[k]
    OBVIOUS
  <2>2. PICK r : r = rows[order[k]]
    OBVIOUS
  <2>3. PICK e : e = Loaded(r)
    OBVIOUS
  <2>4. r \in Effect /\ order[k] \in DOMAIN rows
    BY <1>1, <2>2
  <2>5. e \in Effect /\ e.id = r.id /\ e.icon = r.icon
    BY <2>3, <2>4, SavedType DEF Like
  <2>6. PICK c \in Casts : Stems(r, c) /\ c.dur # 0
    BY <2>2, <2>4 DEF Temporary
  <2>7. Stems(e, c)
    BY <2>5, <2>6 DEF Stems
  <2>8. v = AddStatusEffect(u, e)
    BY <1>1, <2>1, <2>2, <2>3 DEF LoadRow
  <2>9. u \in BoxRec /\ NoRivals(u.list) /\ FromCasts(u.list)
    BY <1>2, <1>4, <2>1
  <2>10. NoRivals(v.list) /\ FromCasts(v.list)
    BY <2>5, <2>7, <2>8, <2>9, AddedWithoutRivals
  <2>11. v \in BoxRec
    BY <1>1, <2>1
  <2> QED
    BY <1>2, <2>1, <2>10, <2>11
<1>5. \A k \in 0 .. n : a[k] \in S
  BY <1>3, <1>4, KeptByRounds
<1>6. a[n] \in S
  BY <1>5
<1> QED
  BY <1>1, <1>2, <1>6

LEMMA LoginStep ==
    ASSUME EffectsInv, Login
    PROVE  EffectsInv'
<1>1. TypeOK /\ rows \in Seq(Effect) /\ taken \in [Bards -> Nat]
  BY DEF EffectsInv, TypeOK
<1>2. PICK order \in SetToSeqs(DOMAIN rows) :
         box' = DelByFlag(LoadStatusEffects(order), "ON_ZONE")
  BY DEF Login
<1>3. /\ place' = "world" /\ rows' = <<>>
      /\ UNCHANGED <<kind, life, applied, clock, taken, unsynced>>
  BY DEF Login
<1>4. PICK s : s = LoadStatusEffects(order)
  OBVIOUS
<1>5. AsRight(Nothing, s) /\ Fewer(s.list, rows) /\ s \in BoxRec
  BY <1>1, <1>4, LoadStatusEffectsKeeps DEF AsRight
<1>6. Kept(s, box')
  BY <1>2, <1>4, <1>5, DelByFlagKeeps
<1>7. /\ box' \in BoxRec /\ Current(box') /\ InSync(box') /\ Fewer(box'.list, rows)
      /\ box'.list \in Seq(Effect)
  BY <1>5, <1>6, NothingFacts, FewerTwice DEF Kept, AsRight, BoxRec
<1>8. NoTwins(box'.list) /\ SongsWithin(box'.list, taken)
  BY <1>1, <1>7, NoTwinsFewer, SongsWithinFewer DEF EffectsInv
<1>9. <<>> \in Seq(Effect) /\ NoTwins(<<>>) /\ SongsWithin(<<>>, taken)
  <2>1. <<>> \in Seq(Effect) /\ NoTwins(<<>>)
    BY DEF NoTwins
  <2>2. Fewer(<<>>, rows)
    <3>1. Embeds(<<>>, <<>>, rows)
      BY DEF Embeds
    <3> QED
      BY <3>1 DEF Fewer
  <2>3. SongsWithin(rows, taken)
    BY DEF EffectsInv
  <2> QED
    BY <1>1, <2>1, <2>2, <2>3, SongsWithinFewer
<1>10. (Current(box))' /\ (InSync(box))'
  BY <1>3, <1>7 DEF Current, InSync
<1>11. TypeOK'
  BY <1>1, <1>3, <1>7, <1>9, TypeFromBox DEF TypeOK
<1>12. /\ NoTwins(box.list)' /\ SongsWithin(box.list, taken)'
       /\ NoTwins(rows)' /\ SongsWithin(rows, taken)'
  BY <1>3, <1>8, <1>9
<1>13. /\ NoRivals(box.list)' /\ FromCasts(box.list)' /\ NoRivals(rows)' /\ Temporary(rows)'
       /\ (place # "world" => kind = "pc")'
  <2>1. NoRivals(s.list) /\ FromCasts(s.list)
    BY <1>1, <1>4, LoadedWithoutRivals DEF EffectsInv
  <2>2. NoRivals(box'.list) /\ FromCasts(box'.list)
    BY <1>6, <2>1, NoRivalsFewer, FromCastsSubset DEF Kept
  <2> QED
    BY <1>3, <2>2, NoneFromCasts
<1> QED
  BY <1>10, <1>11, <1>12, <1>13 DEF EffectsInv

-----------------------------------------------------------------------------
(* The theorems.                                                           *)

LEMMA NextKeepsEffects == EffectsInv /\ [Next]_vars => EffectsInv'
<1> SUFFICES ASSUME EffectsInv, [Next]_vars PROVE EffectsInv'
  OBVIOUS
<1>1. CASE UNCHANGED vars
  BY <1>1, BoxStays DEF vars, EffectsInv, TypeOK
<1>2. ASSUME NEW e \in Casts, Gain(e) \/ \E max \in 1 .. MaxSongs : Sing(e, max) PROVE EffectsInv'
  BY <1>2, GainStep, SingStep
<1>3. CASE \/ \E id \in Ids : Cure(id) \/ Cancel(id)
           \/ \E flag \in {"ERASABLE", "DISPELABLE"} : EraseOne(flag) \/ EraseAll(flag)
           \/ Hurt \/ CheckRegen \/ CheckEffects
  BY <1>3, RemovalSteps
<1>4. CASE Tick \/ Die \/ ActionDeath \/ Rise
  BY <1>4, TickStep, DieStep, ActionDeathStep, RiseStep
<1>5. CASE ZoneOut \/ ZoneIn \/ Logout \/ Login
  BY <1>5, ZoneOutStep, ZoneInStep, LogoutStep, LoginStep
<1> QED
  BY <1>1, <1>2, <1>3, <1>4, <1>5 DEF Next

\* Whatever is applied, sung, erased, dispelled, saved and loaded, the
\* container, the icons, the modifiers and the songs stay in the invariant.
THEOREM EffectsInvariant == Spec => []EffectsInv
<1>1. Init => EffectsInv
  BY InitHolds
<1>2. EffectsInv /\ [Next]_vars => EffectsInv'
  BY NextKeepsEffects
<1> QED
  BY <1>1, <1>2, PTL DEF Spec

\* Every field of the container, of its effects and of the saved rows has its
\* type: no loop runs off the list.
THEOREM EffectsTypeCorrect == Spec => []TypeOK
<1>1. EffectsInv => TypeOK
  BY DEF EffectsInv
<1> QED
  BY <1>1, EffectsInvariant, PTL

\* The owner's modifiers are the sum of its effects, through overwriting,
\* scripts that delete a second effect, death and loading in any order.
THEOREM ModsStayInSync == Spec => []ModsInSync
<1>1. EffectsInv => ModsInSync
  BY DEF EffectsInv, InSync, ModsInSync
<1> QED
  BY <1>1, EffectsInvariant, PTL

\* The client's icons are those of the effects there are, in their order.
THEOREM IconsStayCurrent == Spec => []IconsCurrent
<1>1. EffectsInv => IconsCurrent
  <2> SUFFICES ASSUME EffectsInv PROVE IconsCurrent
    OBVIOUS
  <2>1. box \in BoxRec /\ Current(box)
    BY BoxFacts DEF EffectsInv
  <2>2. CASE kind = "pc"
    BY <2>1, <2>2 DEF IconsCurrent, UpdateStatusIcons, Current, BoxRec
  <2>3. CASE kind # "pc"
    BY <2>3 DEF IconsCurrent, UpdateStatusIcons
  <2> QED
    BY <2>2, <2>3
<1> QED
  BY <1>1, EffectsInvariant, PTL

\* A bard's songs on a target stay within the limit of ApplyBardEffect, but for
\* those that took the place of another's, also after they were saved and loaded.
THEOREM SongsStayBounded == Spec => []SongsBounded
<1>1. EffectsInv => SongsBounded
  BY DEF EffectsInv, SongsWithin, SongsBounded, Own, Sung
<1> QED
  BY <1>1, EffectsInvariant, PTL

\* No two effects on an entity would each have ousted the other, whatever the
\* table: AddStatusEffect, ApplyBardEffect and loading in any order keep this.
THEOREM RivalsNeverMeet == Spec => []NoRivals(box.list)
<1>1. EffectsInv => NoRivals(box.list)
  BY DEF EffectsInv
<1> QED
  BY <1>1, EffectsInvariant, PTL

\* Where the table's rows are two-sided, no two effects that exclude each other
\* are ever on an entity: what CanGain refuses and Overwrite and DelByType
\* delete is together all that the rows forbid.
THEOREM EffectsExclude ==
    ASSUME TwoSided
    PROVE  Spec => []Exclusive
<1>1. EffectsInv => Exclusive
  <2> SUFFICES ASSUME EffectsInv, NEW m \in DOMAIN box.list, NEW n \in DOMAIN box.list,
                      m # n, Excludes(box.list[m].id, box.list[n].id)
               PROVE  FALSE
    BY DEF Exclusive
  <2>1. PICK e, f : e = box.list[m] /\ f = box.list[n]
    OBVIOUS
  <2>2. box.list \in Seq(Effect)
    BY BoxFacts DEF EffectsInv
  <2>3. e \in Effect /\ f \in Effect
    BY <2>1, <2>2
  <2>4. e.id \in Ids /\ f.id \in Ids
    BY <2>3 DEF Effect
  <2>5. Ousts(e.id, f.id) /\ Ousts(f.id, e.id)
    BY <2>1, <2>4 DEF TwoSided
  <2> QED
    BY <2>1, <2>5 DEF EffectsInv, NoRivals
<1> QED
  BY <1>1, EffectsInvariant, PTL

-----------------------------------------------------------------------------
(* Sweeps that step back.                                                 *)

\* Where the script deletes nothing that is further up, what is further up stays.
LEMMA RemovedBehind ==
    ASSUME NEW u \in BoxRec, NEW at \in DOMAIN u.list, NEW w, w = RemoveStatusEffect(u, at),
           \A j \in DOMAIN u.list : j < at => u.list[j].id # Hook[u.list[at].id]
    PROVE  /\ Len(w.list) < Len(u.list)
           /\ \A i \in DOMAIN w.list : i < at => i \in DOMAIN u.list /\ w.list[i] = u.list[i]
<1>1. PICK b : b = u.list
  OBVIOUS
<1>2. b \in Seq(Effect) /\ at \in DOMAIN b
  BY <1>1 DEF BoxRec
<1>3. PICK n \in Nat : n = Len(b) /\ DOMAIN b = 1 .. n /\ at \in 1 .. n
  BY <1>2
<1>4. PICK other : other = Hook[b[at].id]
  OBVIOUS
<1>5. PICK v : v = RemoveQuietly(u, at)
  OBVIOUS
<1>6. PICK l : l = RemoveAt(b, at)
  OBVIOUS
<1>7. v \in BoxRec /\ v.list = l
  <2>1. Kept(u, v) /\ v.list = RemoveAt(u.list, at)
    BY <1>5, RemoveQuietlyKeeps
  <2> QED
    BY <1>1, <1>6, <2>1 DEF Kept, AsRight
<1>8. /\ l \in Seq(Effect) /\ Len(l) = n - 1 /\ DOMAIN l = 1 .. n - 1
      /\ \A i \in 1 .. n - 1 : l[i] = IF i < at THEN b[i] ELSE b[i + 1]
  <2>1. /\ l \in Seq(Effect) /\ Len(l) = Len(b) - 1 /\ DOMAIN l = 1 .. Len(b) - 1
        /\ \A i \in DOMAIN l : l[i] = IF i < at THEN b[i] ELSE b[i + 1]
    BY <1>2, <1>6, RemoveAtFacts
  <2> QED
    BY <1>3, <2>1
<1>9. w = IF Has(v, other) THEN RemoveQuietly(v, First(v, other)) ELSE v
  BY <1>1, <1>4, <1>5 DEF RemoveStatusEffect
<1>10. PICK r : r = w.list
  OBVIOUS
<1> SUFFICES Len(r) < n /\ \A i \in DOMAIN r : i < at => i \in DOMAIN b /\ r[i] = b[i]
  BY <1>1, <1>3, <1>10
<1>11. CASE ~Has(v, other)
  <2>1. r = l
    BY <1>7, <1>9, <1>10, <1>11
  <2> QED
    BY <1>3, <1>8, <2>1
<1>12. CASE Has(v, other)
  <2>1. PICK m : m = First(v, other)
    OBVIOUS
  <2>2. PICK S : S = {k \in DOMAIN l : l[k].id = other}
    OBVIOUS
  <2>3. S \in SUBSET Nat /\ S # {}
    <3>1. S \subseteq 1 .. n - 1
      BY <1>8, <2>2
    <3>2. S # {}
      BY <1>7, <1>12, <2>2 DEF Has
    <3> QED
      BY <3>1, <3>2
  <2>4. m \in S
    <3>1. m = Min(S)
      BY <1>7, <2>1, <2>2 DEF First
    <3> QED
      BY <2>3, <3>1, MinOfNaturals
  <2>5. m \in DOMAIN l /\ l[m].id = other
    BY <2>2, <2>4
  <2>6. m \in 1 .. n - 1 /\ ~(m < at)
    <3>1. m \in 1 .. n - 1
      BY <1>8, <2>5
    <3>2. m < at => l[m] = b[m] /\ m \in DOMAIN b
      BY <1>3, <1>8, <3>1
    <3> QED
      BY <1>1, <1>4, <2>5, <3>1, <3>2
  <2>7. r = RemoveAt(l, m)
    <3>1. PICK x : x = RemoveQuietly(v, m)
      OBVIOUS
    <3>2. w = x
      BY <1>9, <1>12, <2>1, <3>1
    <3>3. m \in DOMAIN v.list
      BY <1>7, <2>5
    <3>4. x.list = RemoveAt(v.list, m)
      BY <1>7, <3>1, <3>3, RemoveQuietlyKeeps
    <3> QED
      BY <1>7, <1>10, <3>2, <3>4
  <2>a. l \in Seq(Effect)
    BY <1>8
  <2>8. /\ Len(r) = Len(l) - 1 /\ DOMAIN r = 1 .. Len(l) - 1
        /\ \A i \in DOMAIN r : r[i] = IF i < m THEN l[i] ELSE l[i + 1]
    BY <2>a, <2>5, <2>7, RemoveAtFacts
  <2>9. (n - 1) - 1 = n - 2 /\ n - 2 < n
    BY <1>3
  <2>10. /\ Len(r) = n - 2 /\ DOMAIN r = 1 .. n - 2
         /\ \A i \in 1 .. n - 2 : r[i] = IF i < m THEN l[i] ELSE l[i + 1]
    BY <1>8, <2>8, <2>9
  <2>11. \A i \in 1 .. n - 2 : i < at => i < m /\ i \in 1 .. n - 1 /\ i \in 1 .. n
    BY <1>3, <2>6
  <2>12. \A i \in 1 .. n - 2 : i < at => i \in 1 .. n /\ r[i] = b[i]
    BY <1>8, <2>10, <2>11
  <2> QED
    BY <1>3, <2>9, <2>10, <2>12
<1> QED
  BY <1>11, <1>12

\* The scripts of doomed effects delete doomed effects only.
DoomedTogether(l, doomed) == \A i, j \in DOMAIN l :
    l[i] \in doomed /\ l[j].id = Hook[l[i].id] => l[j] \in doomed

\* A sweep that steps back misses none: what it has passed is spared, and each
\* round passes an effect or shortens the list.
LEMMA SweptThoroughly ==
    ASSUME NEW s \in BoxRec, NEW doomed, DoomedTogether(s.list, doomed),
           NEW back \in BOOLEAN,
           \A at \in Nat : NextPlace(at, back) = at, NEW t, t = Sweep(s, doomed, back)
    PROVE  Spared(t.list, doomed)
<1>1. PICK n \in Nat : n = Len(s.list) /\ DOMAIN s.list = 1 .. n /\ s.list \in Seq(Effect)
  BY DEF BoxRec
<1>2. PICK a : /\ a[0] = [s |-> s, at |-> 1] /\ a[Len(s.list)].s = Sweep(s, doomed, back)
               /\ \A k \in 1 .. Len(s.list) : a[k] = Round(a[k-1], doomed, back)
               /\ \A k \in 0 .. Len(s.list) :
                     a[k] \in [s : BoxRec, at : Nat \ {0}] /\ Kept(s, a[k].s)
  BY SweepRun
<1> DEFINE Passed(u, at) == \A i \in DOMAIN u.list : i < at => u.list[i] \notin doomed
           Far(u, at, k) == at > Len(u.list) \/ (at - 1) + (n - Len(u.list)) >= k
           f == [k \in 0 .. n |-> IF Passed(a[k].s, a[k].at) /\ Far(a[k].s, a[k].at, k) THEN 1 ELSE 0]
<1>3. f[0] \in {1}
  <2>1. a[0].s = s /\ a[0].at = 1
    BY <1>2
  <2>2. Passed(s, 1)
    BY <1>1
  <2>3. Far(s, 1, 0)
    BY <1>1
  <2> HIDE DEF Passed, Far
  <2> QED
    BY <2>1, <2>2, <2>3
<1>4. ASSUME NEW k \in 1 .. n, f[k-1] \in {1} PROVE f[k] \in {1}
  <2>1. k - 1 \in 0 .. n /\ k \in 0 .. n
    OBVIOUS
  <2>2. PICK u, at : u = a[k-1].s /\ at = a[k-1].at
    OBVIOUS
  <2>3. Passed(u, at) /\ Far(u, at, k - 1)
    <3> HIDE DEF Passed, Far
    <3> QED
      BY <1>4, <2>1, <2>2
  <2>4. PICK w : w = a[k]
    OBVIOUS
  <2>5. u \in BoxRec /\ at \in Nat \ {0} /\ w = Round([s |-> u, at |-> at], doomed, back) /\ Kept(s, u)
    <3>1. a[k-1] \in [s : BoxRec, at : Nat \ {0}] /\ a[k] = Round(a[k-1], doomed, back) /\ Kept(s, a[k-1].s)
      BY <1>1, <1>2, <2>1
    <3>2. a[k-1] = [s |-> u, at |-> at]
      BY <2>2, <3>1
    <3> QED
      BY <2>2, <2>4, <3>1, <3>2
  <2>6. PICK m \in Nat : m = Len(u.list) /\ DOMAIN u.list = 1 .. m
    BY <2>5 DEF BoxRec
  <2>9. at > m \/ (at - 1) + (n - m) >= k - 1
    BY <2>3, <2>6
  <2>10. at \in Nat /\ at # 0 /\ n \in Nat /\ k \in Nat
    BY <2>5
  <2>7. w.s \in BoxRec
    BY <1>1, <1>2, <2>1, <2>4
  <2>8. Passed(w.s, w.at) /\ Far(w.s, w.at, k)
    <3>1. CASE at > Len(u.list)
      BY <2>3, <2>5, <3>1, RoundCases
    <3>2. CASE at \in DOMAIN u.list /\ u.list[at] \notin doomed
      <4>1. w.s = u /\ w.at = at + 1
        BY <2>5, <3>2, RoundCases
      <4>2. Passed(u, at + 1)
        <5>1. \A i \in 1 .. m : i < at + 1 => i < at \/ i = at
          BY <2>5
        <5> QED
          BY <2>3, <2>6, <3>2, <5>1
      <4>3. Far(u, at + 1, k)
        <5>1. at + 1 > m \/ ((at + 1) - 1) + (n - m) >= k
          BY <2>6, <2>9, <2>10
        <5> QED
          BY <2>6, <5>1
      <4> HIDE DEF Passed, Far
      <4> QED
        BY <4>1, <4>2, <4>3
    <3>3. CASE at \in DOMAIN u.list /\ u.list[at] \in doomed
      <4>1. w.s = RemoveStatusEffect(u, at) /\ w.at = at
        BY <2>5, <3>3, RoundCases
      <4>2. ASSUME NEW j \in DOMAIN u.list, j < at PROVE u.list[j].id # Hook[u.list[at].id]
        <5>1. u.list[j] \notin doomed
          BY <2>3, <4>2
        <5>2. PICK p \in DOMAIN s.list, q \in DOMAIN s.list : s.list[p] = u.list[at] /\ s.list[q] = u.list[j]
          BY <2>5, <3>3, <4>2 DEF Kept, ToSet
        <5> QED
          BY <3>3, <5>1, <5>2 DEF DoomedTogether
      <4>3. PICK v : v = w.s
        OBVIOUS
      <4>4. /\ Len(v.list) < Len(u.list)
            /\ \A i \in DOMAIN v.list : i < at => i \in DOMAIN u.list /\ v.list[i] = u.list[i]
        BY <2>5, <3>3, <4>1, <4>2, <4>3, RemovedBehind
      <4>5. Passed(v, at)
        BY <2>3, <4>4
      <4>6. PICK mm \in Nat : mm = Len(v.list)
        BY <2>7, <4>3 DEF BoxRec
      <4>7. Far(v, at, k)
        <5>1. mm < m /\ ~(at > m)
          BY <2>6, <3>3, <4>4, <4>6
        <5>2. (at - 1) + (n - mm) >= k
          BY <2>6, <2>9, <2>10, <4>6, <5>1
        <5> QED
          BY <4>6, <5>2
      <4> HIDE DEF Passed, Far
      <4> QED
        BY <4>1, <4>3, <4>5, <4>7
    <3> QED
      BY <2>5, <3>1, <3>2, <3>3, RoundCases
  <2> HIDE DEF Passed, Far
  <2> QED
    BY <2>1, <2>4, <2>8
<1> HIDE DEF f
<1>5. \A k \in 0 .. n : f[k] \in {1}
  <2>1. PICK S : S = {1}
    OBVIOUS
  <2>2. f[0] \in S /\ \A k \in 1 .. n : f[k-1] \in S => f[k] \in S
    BY <1>3, <1>4, <2>1
  <2>3. \A k \in 0 .. n : f[k] \in S
    BY <2>2, KeptByRounds
  <2> QED
    BY <2>1, <2>3
<1>6. f[n] = 1 /\ n \in 0 .. n
  BY <1>5
<1>7. PICK u, at : u = a[n].s /\ at = a[n].at
  OBVIOUS
<1>8. Passed(u, at) /\ Far(u, at, n)
  <2> HIDE DEF Passed, Far
  <2> QED
    BY <1>6, <1>7 DEF f
<1>9. u \in BoxRec /\ at \in Nat /\ u = t
  <2>1. a[n] \in [s : BoxRec, at : Nat \ {0}] /\ a[n].s = t
    BY <1>1, <1>2, <1>6
  <2> QED
    BY <1>7, <2>1
<1>10. PICK m \in Nat : m = Len(u.list) /\ DOMAIN u.list = 1 .. m
  BY <1>9 DEF BoxRec
<1>11. at > m
  <2>1. at > m \/ (at - 1) + (n - m) >= n
    BY <1>8, <1>10
  <2> QED
    BY <1>9, <1>10, <2>1
<1>12. \A i \in 1 .. m : i < at
  BY <1>9, <1>10, <1>11
<1> QED
  BY <1>8, <1>9, <1>10, <1>12 DEF Spared

\* An effect whose script deletes another is permanent, where hooks are tame.
LEMMA HookedArePermanent ==
    ASSUME TameHooks, NEW l \in Seq(Effect), FromCasts(l), NEW i \in DOMAIN l,
           Hook[l[i].id] # None
    PROVE  l[i].dur = 0
<1>1. PICK c \in Casts : Stems(l[i], c)
  BY DEF FromCasts
<1>2. l[i].id \in Ids
  <2>1. l[i] \in Effect
    OBVIOUS
  <2> QED
    BY <2>1 DEF Effect
<1> QED
  BY <1>1, <1>2 DEF TameHooks, Stems

\* Where the scripts' hooks are tame, no overdue effect outlives a round of
\* CheckEffects, and none that ends with death its owner's ActionDeath, although
\* scripts shorten the list under the loops.
THEOREM SweepsAreThorough ==
    ASSUME TameHooks
    PROVE  Spec => SweepsMissNothing
<1>1. EffectsInv /\ [Next]_vars =>
         [/\ (\E n \in DOMAIN box'.list : Overdue(box'.list[n])) => ~CheckEffects
          /\ (\E n \in DOMAIN box'.list : Flagged(box'.list[n], "DEATH")) =>
                 ~(ActionDeath /\ kind = "pc")]_vars
  <2> SUFFICES ASSUME EffectsInv
               PROVE  /\ CheckEffects => \A n \in DOMAIN box'.list : ~Overdue(box'.list[n])
                      /\ ActionDeath /\ kind = "pc" =>
                            \A n \in DOMAIN box'.list : ~Flagged(box'.list[n], "DEATH")
    OBVIOUS
  <2>1. box \in BoxRec /\ box.list \in Seq(Effect) /\ FromCasts(box.list)
    BY BoxFacts DEF EffectsInv
  <2>2. PICK back \in BOOLEAN : back = TRUE
    OBVIOUS
  <2>3. \A at \in Nat : NextPlace(at, back) = at
    BY <2>2 DEF NextPlace
  <2>4. ASSUME CheckEffects PROVE \A n \in DOMAIN box'.list : ~Overdue(box'.list[n])
    <3>1. PICK doomed : doomed = {e \in ToSet(box.list) : Overdue(e)}
      OBVIOUS
    <3>2. PICK t : t = Sweep(box, doomed, back)
      OBVIOUS
    <3>3. box' = t
      BY <2>2, <2>4, <3>1, <3>2 DEF CheckEffects, Change
    <3>4. DoomedTogether(box.list, doomed)
      <4> SUFFICES ASSUME NEW i \in DOMAIN box.list, NEW j \in DOMAIN box.list,
                          box.list[i] \in doomed, box.list[j].id = Hook[box.list[i].id]
                   PROVE  FALSE
        BY DEF DoomedTogether
      <4>1. box.list[i].dur # 0
        BY <3>1 DEF Overdue
      <4>2. Hook[box.list[i].id] = None
        BY <2>1, <4>1, HookedArePermanent
      <4>3. box.list[j] \in Effect
        BY <2>1
      <4> QED
        BY <4>2, <4>3, EffectsAssumption DEF Effect
    <3>5. Spared(t.list, doomed)
      BY <2>1, <2>3, <3>2, <3>4, SweptThoroughly
    <3>6. ToSet(t.list) \subseteq ToSet(box.list)
      BY <2>1, <3>2, SweepKeeps DEF Kept
    <3>7. \A n \in DOMAIN t.list : t.list[n] \in ToSet(box.list)
      BY <3>6 DEF ToSet
    <3> QED
      BY <3>1, <3>3, <3>5, <3>7 DEF Spared
  <2>5. ASSUME ActionDeath, kind = "pc"
        PROVE  \A n \in DOMAIN box'.list : ~Flagged(box'.list[n], "DEATH")
    <3>1. PICK doomed : doomed = {e \in ToSet(box.list) : Flagged(e, "DEATH")}
      OBVIOUS
    <3>2. PICK t : t = Sweep(box, doomed, back)
      OBVIOUS
    <3>3. box' = t
      BY <2>2, <2>5, <3>1, <3>2 DEF ActionDeath, DelByFlag
    <3>4. DoomedTogether(box.list, doomed)
      <4> SUFFICES ASSUME NEW i \in DOMAIN box.list, NEW j \in DOMAIN box.list,
                          box.list[i] \in doomed, box.list[j].id = Hook[box.list[i].id]
                   PROVE  box.list[j] \in doomed
        BY DEF DoomedTogether
      <4>1. box.list[i] \in Effect /\ box.list[j] \in Effect
        BY <2>1
      <4>2. box.list[i].id \in Ids /\ Hook[box.list[i].id] # None
        BY <4>1, EffectsAssumption DEF Effect
      <4>3. "DEATH" \in Row[box.list[i].id].flags
        BY <3>1 DEF Flagged
      <4>4. "DEATH" \in Row[box.list[j].id].flags
        BY <4>2, <4>3 DEF TameHooks
      <4>5. box.list[j] \in ToSet(box.list)
        BY DEF ToSet
      <4> QED
        BY <3>1, <4>4, <4>5 DEF Flagged
    <3>5. Spared(t.list, doomed)
      BY <2>1, <2>3, <3>2, <3>4, SweptThoroughly
    <3>6. ToSet(t.list) \subseteq ToSet(box.list)
      BY <2>1, <3>2, SweepKeeps DEF Kept
    <3>7. \A n \in DOMAIN t.list : t.list[n] \in ToSet(box.list)
      BY <3>6 DEF ToSet
    <3> QED
      BY <3>1, <3>3, <3>5, <3>7 DEF Spared
  <2> QED
    BY <2>4, <2>5
<1> QED
  BY <1>1, EffectsInvariant, PTL DEF Spec, SweepsMissNothing

-----------------------------------------------------------------------------
(* Coming back.                                                            *)

LEMMA NothingDeleted ==
    ASSUME NEW s \in BoxRec, NEW V, NEW ids \in Seq(V), \A j \in 1 .. Len(ids) : ~Has(s, ids[j])
    PROVE  InTurn(DelStatusEffect, s, ids) = s
<1>1. PICK n \in Nat : n = Len(ids)
  OBVIOUS
<1>2. PICK a : /\ a[0] = s /\ a[Len(ids)] = InTurn(DelStatusEffect, s, ids)
               /\ \A k \in 1 .. Len(ids) : a[k] = DelStatusEffect(a[k-1], ids[k])
               /\ \A k \in 0 .. Len(ids) : a[k] \in BoxRec /\ Kept(s, a[k])
  BY DeletionsRun
<1>3. PICK S : S = {s}
  OBVIOUS
<1>4. ASSUME NEW k \in 1 .. n, a[k-1] \in S PROVE a[k] \in S
  <2>1. PICK id : id = ids[k] /\ ~Has(s, id)
    BY <1>1
  <2>2. DelStatusEffect(s, id) = s
    BY <2>1 DEF DelStatusEffect
  <2>3. a[k-1] = s /\ a[k] = DelStatusEffect(a[k-1], ids[k])
    BY <1>1, <1>2, <1>3, <1>4
  <2>4. a[k] = s
    BY <2>1, <2>2, <2>3
  <2> QED
    BY <1>3, <2>4
<1>a. a[0] \in S
  BY <1>2, <1>3
<1>5. \A k \in 0 .. n : a[k] \in S
  BY <1>a, <1>4, KeptByRounds
<1>6. n \in 0 .. n
  OBVIOUS
<1> QED
  BY <1>1, <1>2, <1>3, <1>5, <1>6

LEMMA NothingSwept ==
    ASSUME NEW s \in BoxRec, NEW doomed, NEW back \in BOOLEAN, Spared(s.list, doomed)
    PROVE  Sweep(s, doomed, back) = s
<1>1. PICK n \in Nat : n = Len(s.list)
  BY DEF BoxRec
<1>2. PICK a : /\ a[0] = [s |-> s, at |-> 1] /\ a[Len(s.list)].s = Sweep(s, doomed, back)
               /\ \A k \in 1 .. Len(s.list) : a[k] = Round(a[k-1], doomed, back)
               /\ \A k \in 0 .. Len(s.list) :
                     a[k] \in [s : BoxRec, at : Nat \ {0}] /\ Kept(s, a[k].s)
  BY SweepRun
<1>3. PICK S : S = {w \in [s : BoxRec, at : Nat \ {0}] : w.s = s}
  OBVIOUS
<1>4. a[0] \in S
  BY <1>2, <1>3
<1>5. ASSUME NEW k \in 1 .. n, a[k-1] \in S PROVE a[k] \in S
  <2>1. PICK at \in Nat \ {0} : a[k-1] = [s |-> s, at |-> at]
    BY <1>3, <1>5
  <2>2. PICK w : w = a[k]
    OBVIOUS
  <2>3. w = Round([s |-> s, at |-> at], doomed, back) /\ k \in 0 .. n
    BY <1>1, <1>2, <2>1, <2>2
  <2>4. w.s = s
    BY <2>3, RoundCases DEF Spared
  <2>5. w \in [s : BoxRec, at : Nat \ {0}]
    BY <1>1, <1>2, <2>2, <2>3
  <2> QED
    BY <1>3, <2>2, <2>4, <2>5
<1>6. \A k \in 0 .. n : a[k] \in S
  BY <1>4, <1>5, KeptByRounds
<1>7. n \in 0 .. n
  OBVIOUS
<1> QED
  BY <1>1, <1>2, <1>3, <1>6, <1>7

\* Whoever meets only effects that do not oust him while he ousts them is
\* gained, and none makes way for him: where rows are two-sided, no rule of
\* CanGain, Overwrite or DelByType speaks of any of them.
LEMMA GainedAmongStrangers ==
    ASSUME TwoSided, kind = "pc", NEW s \in BoxRec, NEW e \in Effect,
           \A i \in DOMAIN s.list : ~(Ousts(e.id, s.list[i].id) /\ Ousts(s.list[i].id, e.id))
    PROVE  CanGain(s, e) /\ MadeWay(s, e) = s
<1>1. PICK l : l = s.list
  OBVIOUS
<1>2. l \in Seq(Effect) /\ e.id \in Ids
  BY <1>1 DEF BoxRec, Effect
<1>3. ASSUME NEW i \in DOMAIN l PROVE l[i].id \in Ids
  <2>1. l[i] \in Effect
    BY <1>2
  <2> QED
    BY <2>1 DEF Effect
<1>4. ASSUME NEW i \in DOMAIN l
      PROVE  /\ l[i].id \notin {Row[e.id].negative, Row[e.id].block, Row[e.id].remove}
             /\ l[i].id = e.id => Row[e.id].overwrite = "ignore"
             /\ Row[e.id].type # 0 => Row[l[i].id].type # Row[e.id].type
  <2>1. PICK x, y : x = e.id /\ y = l[i].id
    OBVIOUS
  <2>2. x \in Ids /\ y \in Ids
    BY <1>2, <1>3, <2>1
  <2>3. ~(Ousts(x, y) /\ Ousts(y, x))
    BY <1>1, <2>1
  <2>4. ~Excludes(x, y)
    BY <2>2, <2>3 DEF TwoSided
  <2>5. ~(Row[x].type = Row[y].type /\ Row[x].type # 0)
    BY <2>3 DEF Ousts
  <2> QED
    BY <2>1, <2>4, <2>5 DEF Excludes
<1>5. PICK x, y, z : x = e.id /\ y = Row[e.id].remove /\ z = Row[e.id].negative
  OBVIOUS
<1>6. ~Has(s, y) /\ ~Has(s, z) /\ ~HasStatusEffect(s, Row[e.id].block)
      /\ (Has(s, x) => Row[e.id].overwrite = "ignore")
  BY <1>1, <1>4, <1>5 DEF Has, HasStatusEffect
<1>7. CanGain(s, e)
  BY <1>5, <1>6 DEF CanGain
<1>8. Overwrite(s, e) = s
  <2>1. PICK V : V = Ids \cup {None}
    OBVIOUS
  <2>2. x \in V /\ y \in V /\ z \in V
    BY <1>2, <1>5, <2>1, RowFacts
  <2>3. PICK same : same = IF Row[e.id].overwrite = "ignore" THEN <<>> ELSE <<x>>
    OBVIOUS
  <2>4. PICK p : p = <<y, z>>
    OBVIOUS
  <2>5. PICK ids : ids = same \o p
    OBVIOUS
  <2>6. Overwrite(s, e) = InTurn(DelStatusEffect, s, ids)
    BY <1>5, <2>3, <2>4, <2>5 DEF Overwrite
  <2>7. ids \in Seq(V) /\ \A j \in 1 .. Len(ids) : ~Has(s, ids[j])
    <3>1. p \in Seq(V) /\ Len(p) = 2 /\ \A j \in 1 .. 2 : ~Has(s, p[j])
      BY <1>6, <2>2, <2>4
    <3>2. CASE Row[e.id].overwrite = "ignore"
      <4>1. ids = p
        BY <2>3, <2>4, <2>5, <3>2
      <4> QED
        BY <3>1, <4>1
    <3>3. CASE Row[e.id].overwrite # "ignore"
      <4>1. same \in Seq(V) /\ Len(same) = 1 /\ ~Has(s, same[1])
        BY <1>6, <2>2, <2>3, <3>3
      <4>2. /\ same \o p \in Seq(V) /\ Len(same \o p) = Len(same) + Len(p)
            /\ \A i \in 1 .. Len(same) + Len(p) :
                  (same \o p)[i] = IF i <= Len(same) THEN same[i] ELSE p[i - Len(same)]
        BY <3>1, <4>1, ConcatProperties
      <4>3. Len(ids) = 3 /\ ids[1] = same[1] /\ ids[2] = p[1] /\ ids[3] = p[2]
        BY <2>5, <3>1, <4>1, <4>2
      <4>4. \A j \in 1 .. 3 : j = 1 \/ j = 2 \/ j = 3
        OBVIOUS
      <4>5. ~Has(s, ids[1]) /\ ~Has(s, ids[2]) /\ ~Has(s, ids[3])
        BY <3>1, <4>1, <4>3
      <4>6. \A j \in 1 .. 3 : ~Has(s, ids[j])
        BY <4>4, <4>5
      <4>7. ids \in Seq(V)
        BY <2>5, <4>2
      <4> QED
        BY <4>3, <4>6, <4>7
    <3> QED
      BY <3>2, <3>3
  <2> QED
    BY <2>6, <2>7, NothingDeleted
<1>9. DelByType(s, Row[e.id].type) = s
  <2>1. CASE Row[e.id].type = 0
    BY <2>1 DEF DelByType
  <2>2. CASE Row[e.id].type # 0
    <3>1. PICK doomed : doomed = {f \in ToSet(s.list) : Row[f.id].type = Row[e.id].type}
      OBVIOUS
    <3>2. PICK back \in BOOLEAN : back = TRUE
      OBVIOUS
    <3>3. Spared(s.list, doomed)
      BY <1>1, <1>4, <2>2, <3>1 DEF Spared
    <3>4. Sweep(s, doomed, back) = s
      BY <3>3, NothingSwept
    <3> QED
      BY <2>2, <3>1, <3>2, <3>4 DEF DelByType
  <2> QED
    BY <2>1, <2>2
<1> QED
  BY <1>7, <1>8, <1>9 DEF MadeWay

\* e is what has become of the saved row r.
ComesFrom(e, r) == Like(e, r) /\ e.wears = r.wears /\ e.left <= r.dur * Second

\* A duration in whole seconds does not grow when it is loaded.
LEMMA LoadedNoLonger ==
    ASSUME NEW r \in Effect, NEW left,
           left = IF 2 * Loaded(r).dur > TickWidth THEN Loaded(r).dur - TickWidth ELSE Loaded(r).dur
    PROVE  left <= r.dur * Second
<1>1. PICK w \in Nat \ {0} : w = TickWidth
  BY EffectsAssumption
<1>2. PICK m \in Nat : m = r.dur * Second
  <2>1. r.dur \in Nat /\ Second \in Nat
    BY EffectsAssumption DEF Effect
  <2> QED
    BY <2>1
<1>3. PICK d : d = m % w
  OBVIOUS
<1>4. d \in Nat /\ d <= m
  <2>1. d \in Nat /\ d < w
    BY <1>3
  <2>2. CASE m < w
    BY <1>3, <2>2
  <2>3. CASE ~(m < w)
    BY <2>1, <2>3
  <2> QED
    BY <2>2, <2>3
<1>5. Loaded(r).dur = d
  BY <1>1, <1>2, <1>3, SavedType
<1>6. left = d \/ left = d - w
  BY <1>1, <1>5
<1> QED
  BY <1>2, <1>4, <1>6

\* Saved rows without rivals come back one and all, in any order.
LEMMA LoadedWhole ==
    ASSUME TwoSided, kind = "pc", rows \in Seq(Effect), NoRivals(rows),
           NEW order \in SetToSeqs(DOMAIN rows), NEW l, l = LoadStatusEffects(order).list
    PROVE  \E n : /\ n \in Nat /\ Len(l) = n /\ Len(rows) = n
                  /\ order \in [1 .. n -> DOMAIN rows]
                  /\ \A i, j \in 1 .. n : order[i] = order[j] => i = j
                  /\ LoadStatusEffects(order) \in BoxRec
                  /\ \A i \in 1 .. n : ComesFrom(l[i], rows[order[i]])
<1>1. PICK n, a :
         /\ n \in Nat
         /\ order \in [1 .. n -> DOMAIN rows] /\ Len(order) = n /\ Len(rows) = n
         /\ \A i, j \in 1 .. n : order[i] = order[j] => i = j
         /\ a[0] = Nothing /\ a[n] = LoadStatusEffects(order)
         /\ \A k \in 1 .. n : a[k] = LoadRow(a[k-1], order[k])
         /\ \A k \in 0 .. n : a[k] \in BoxRec
  BY LoadRun
<1>a. n \in Nat
  BY <1>1
<1> USE <1>a
<1> DEFINE Back(k, b) == Len(b) = k /\ \A i \in 1 .. k : ComesFrom(b[i], rows[order[i]])
           f == [k \in 0 .. n |-> IF Back(k, a[k].list) THEN 1 ELSE 0]
<1>2. f[0] \in {1}
  <2>1. a[0].list = <<>>
    BY <1>1 DEF Nothing
  <2>2. Back(0, <<>>)
    OBVIOUS
  <2> HIDE DEF Back
  <2> QED
    BY <2>1, <2>2
<1>3. ASSUME NEW k \in 1 .. n, f[k-1] \in {1} PROVE f[k] \in {1}
  <2>1. k - 1 \in 0 .. n /\ k \in 0 .. n
    OBVIOUS
  <2>2. PICK u, v : u = a[k-1] /\ v = a[k]
    OBVIOUS
  <2>3. Back(k - 1, u.list)
    <3> HIDE DEF Back
    <3> QED
      BY <1>3, <2>1, <2>2
  <2>4. PICK r : r = rows[order[k]]
    OBVIOUS
  <2>5. PICK e : e = Loaded(r)
    OBVIOUS
  <2>6. r \in Effect /\ order[k] \in DOMAIN rows
    BY <1>1, <2>4
  <2>7. e \in Effect /\ Like(e, r) /\ e.wears = r.wears
    BY <2>5, <2>6, SavedType
  <2>8. u \in BoxRec /\ v \in BoxRec /\ v = AddStatusEffect(u, e)
    BY <1>1, <2>1, <2>2, <2>4, <2>5 DEF LoadRow
  <2>9. PICK b : b = u.list
    OBVIOUS
  <2>10. b \in Seq(Effect) /\ Len(b) = k - 1 /\ DOMAIN b = 1 .. k - 1
    BY <2>3, <2>8, <2>9 DEF BoxRec
  <2>11. ASSUME NEW i \in DOMAIN u.list
         PROVE  ~(Ousts(e.id, u.list[i].id) /\ Ousts(u.list[i].id, e.id))
    <3>1. i \in 1 .. k - 1 /\ i \in 1 .. n /\ i # k
      BY <2>9, <2>10, <2>11
    <3>2. ComesFrom(u.list[i], rows[order[i]])
      BY <2>3, <3>1
    <3>3. order[i] # order[k] /\ order[i] \in DOMAIN rows
      BY <1>1, <3>1
    <3>4. u.list[i].id = rows[order[i]].id /\ e.id = rows[order[k]].id
      BY <2>4, <2>7, <3>2 DEF ComesFrom, Like
    <3> QED
      BY <2>6, <3>3, <3>4 DEF NoRivals
  <2>12. CanGain(u, e) /\ MadeWay(u, e) = u
    BY <2>7, <2>8, <2>11, GainedAmongStrangers
  <2>13. PICK new \in Effect :
            /\ v.list = Append(MadeWay(u, e).list, new) /\ Like(new, e)
            /\ new.dur = e.dur /\ new.wears = e.wears /\ (e.icon # None => new.icon # None)
            /\ new.left = IF 2 * e.dur > TickWidth THEN e.dur - TickWidth ELSE e.dur
    BY <2>7, <2>8, <2>12, AddedAtTheEnd
  <2>14. new.left <= r.dur * Second
    BY <2>5, <2>6, <2>13, LoadedNoLonger
  <2>15. ComesFrom(new, r)
    BY <2>7, <2>13, <2>14 DEF ComesFrom, Like
  <2>16. PICK c : c = v.list
    OBVIOUS
  <2>17. c = Append(b, new)
    BY <2>9, <2>12, <2>13, <2>16
  <2>18. Len(c) = k /\ c[k] = new /\ \A i \in 1 .. k - 1 : c[i] = b[i]
    BY <2>10, <2>17
  <2>19. Back(k, c)
    <3>1. \A i \in 1 .. k : i = k \/ i \in 1 .. k - 1
      OBVIOUS
    <3>2. \A i \in 1 .. k - 1 : ComesFrom(c[i], rows[order[i]])
      BY <2>3, <2>9, <2>18
    <3>3. ComesFrom(c[k], rows[order[k]])
      BY <2>4, <2>15, <2>18
    <3> QED
      BY <2>18, <3>1, <3>2, <3>3
  <2> HIDE DEF Back
  <2> QED
    BY <2>1, <2>2, <2>16, <2>19
<1> HIDE DEF f
<1>4. \A k \in 0 .. n : f[k] \in {1}
  <2>1. PICK S : S = {1}
    OBVIOUS
  <2>2. f[0] \in S /\ \A k \in 1 .. n : f[k-1] \in S => f[k] \in S
    BY <1>2, <1>3, <2>1
  <2>3. \A k \in 0 .. n : f[k] \in S
    BY <2>2, KeptByRounds
  <2> QED
    BY <2>1, <2>3
<1>5. f[n] = 1 /\ n \in 0 .. n
  BY <1>4
<1>6. Back(n, a[n].list)
  <2> HIDE DEF Back
  <2> QED
    BY <1>5 DEF f
<1>7. a[n] \in BoxRec
  BY <1>1, <1>5
<1> QED
  BY <1>1, <1>6, <1>7

\* The positions of the effects that a sweep spares.
Staying(l, doomed) == {i \in DOMAIN l : l[i] \notin doomed}

LEMMA StayingFinite ==
    ASSUME NEW l \in Seq(Effect), NEW doomed
    PROVE  IsFiniteSet(Staying(l, doomed))
<1>1. PICK n \in Nat : DOMAIN l = 1 .. n
  OBVIOUS
<1>2. IsFiniteSet(1 .. n)
  BY FS_Interval
<1> QED
  BY <1>1, <1>2, FS_Subset DEF Staying

\* As many stay when a doomed one is removed.
LEMMA StayingRemoved ==
    ASSUME NEW l \in Seq(Effect), NEW doomed, NEW p \in DOMAIN l, l[p] \in doomed,
           NEW m, m = RemoveAt(l, p)
    PROVE  Cardinality(Staying(m, doomed)) = Cardinality(Staying(l, doomed))
<1>1. PICK n \in Nat : n = Len(l) /\ DOMAIN l = 1 .. n /\ p \in 1 .. n
  OBVIOUS
<1>2. DOMAIN m = 1 .. n - 1 /\ \A i \in 1 .. n - 1 : m[i] = IF i < p THEN l[i] ELSE l[i + 1]
  <2>1. /\ DOMAIN m = 1 .. Len(l) - 1
        /\ \A i \in DOMAIN m : m[i] = IF i < p THEN l[i] ELSE l[i + 1]
    BY RemoveAtFacts
  <2> QED
    BY <1>1, <2>1
<1>3. PICK S, T : S = Staying(l, doomed) /\ T = Staying(m, doomed)
  OBVIOUS
<1>4. PICK g : g = [i \in S |-> IF i < p THEN i ELSE i - 1]
  OBVIOUS
<1>5. \A i \in S : i \in 1 .. n /\ i # p /\ l[i] \notin doomed
  BY <1>1, <1>3 DEF Staying
<1>6. ASSUME NEW i \in S PROVE g[i] \in T
  <2>1. PICK k : k = IF i < p THEN i ELSE i - 1
    OBVIOUS
  <2>2. i \in 1 .. n /\ i # p /\ l[i] \notin doomed
    BY <1>5
  <2>3. k \in 1 .. n - 1 /\ (k < p => k = i) /\ (~(k < p) => k + 1 = i)
    BY <1>1, <2>1, <2>2
  <2>4. m[k] = l[i]
    BY <1>2, <2>3
  <2> QED
    BY <1>2, <1>3, <1>4, <2>1, <2>2, <2>3, <2>4 DEF Staying
<1>7. g \in [S -> T]
  BY <1>4, <1>6
<1>8. ASSUME NEW i \in S, NEW j \in S, g[i] = g[j] PROVE i = j
  <2>1. (IF i < p THEN i ELSE i - 1) = (IF j < p THEN j ELSE j - 1)
    BY <1>4, <1>8
  <2>2. i \in 1 .. n /\ i # p /\ j \in 1 .. n /\ j # p
    BY <1>5
  <2> QED
    BY <1>1, <2>1, <2>2
<1>9. ASSUME NEW k \in T PROVE \E i \in S : g[i] = k
  <2>1. k \in 1 .. n - 1 /\ m[k] \notin doomed
    BY <1>2, <1>3 DEF Staying
  <2>2. PICK i : i = IF k < p THEN k ELSE k + 1
    OBVIOUS
  <2>3. i \in 1 .. n /\ (IF i < p THEN i ELSE i - 1) = k
    BY <1>1, <2>1, <2>2
  <2>4. m[k] = l[i]
    BY <1>2, <2>1, <2>2
  <2>5. i \in S
    BY <1>1, <1>3, <2>1, <2>3, <2>4 DEF Staying
  <2> QED
    BY <1>4, <2>3, <2>5
<1>10. g \in Bijection(S, T)
  BY <1>7, <1>8, <1>9 DEF Bijection, Injection, Surjection, IsInjective
<1>11. ExistsBijection(S, T)
  BY <1>10 DEF ExistsBijection
<1> QED
  BY <1>3, <1>11, StayingFinite, FS_Bijection

\* A sweep takes none but the doomed if none of their scripts deletes another.
LEMMA SweepCounts ==
    ASSUME NEW s \in BoxRec, NEW doomed, NEW back \in BOOLEAN,
           \A i \in DOMAIN s.list : s.list[i] \in doomed => Hook[s.list[i].id] \notin Ids,
           NEW t, t = Sweep(s, doomed, back)
    PROVE  Cardinality(Staying(t.list, doomed)) = Cardinality(Staying(s.list, doomed))
<1>1. PICK n \in Nat : n = Len(s.list)
  BY DEF BoxRec
<1>2. PICK a : /\ a[0] = [s |-> s, at |-> 1] /\ a[Len(s.list)].s = Sweep(s, doomed, back)
               /\ \A k \in 1 .. Len(s.list) : a[k] = Round(a[k-1], doomed, back)
               /\ \A k \in 0 .. Len(s.list) :
                     a[k] \in [s : BoxRec, at : Nat \ {0}] /\ Kept(s, a[k].s)
  BY SweepRun
<1>3. PICK c : c = Cardinality(Staying(s.list, doomed))
  OBVIOUS
<1>4. PICK S : S = {w \in [s : BoxRec, at : Nat \ {0}] : Cardinality(Staying(w.s.list, doomed)) = c}
  OBVIOUS
<1>5. a[0] \in S
  <2>1. a[0] \in [s : BoxRec, at : Nat \ {0}] /\ a[0].s = s
    BY <1>1, <1>2
  <2> QED
    BY <1>3, <1>4, <2>1
<1>6. ASSUME NEW k \in 1 .. n, a[k-1] \in S PROVE a[k] \in S
  <2>1. PICK u, at : u = a[k-1].s /\ at = a[k-1].at
    OBVIOUS
  <2>2. PICK w : w = a[k]
    OBVIOUS
  <2>3. k - 1 \in 0 .. n /\ k \in 0 .. n
    OBVIOUS
  <2>4. /\ u \in BoxRec /\ at \in Nat \ {0} /\ Kept(s, u)
        /\ w = Round([s |-> u, at |-> at], doomed, back)
        /\ w \in [s : BoxRec, at : Nat \ {0}]
    <3>1. a[k-1] \in [s : BoxRec, at : Nat \ {0}] /\ a[k] = Round(a[k-1], doomed, back)
          /\ Kept(s, a[k-1].s) /\ a[k] \in [s : BoxRec, at : Nat \ {0}]
      BY <1>1, <1>2, <2>3
    <3>2. a[k-1] = [s |-> u, at |-> at]
      BY <2>1, <3>1
    <3> QED
      BY <2>1, <2>2, <3>1, <3>2
  <2>5. Cardinality(Staying(u.list, doomed)) = c
    BY <1>4, <1>6, <2>1
  <2>6. w.s = u \/ (at \in DOMAIN u.list /\ u.list[at] \in doomed /\ w.s = RemoveStatusEffect(u, at))
    BY <2>4, RoundCases
  <2>7. CASE at \in DOMAIN u.list /\ u.list[at] \in doomed /\ w.s = RemoveStatusEffect(u, at)
    <3>1. PICK v : v = RemoveQuietly(u, at)
      OBVIOUS
    <3>2. v \in BoxRec /\ v.list = RemoveAt(u.list, at)
      BY <2>4, <2>7, <3>1, RemoveQuietlyKeeps DEF Kept, AsRight
    <3>3. Hook[u.list[at].id] \notin Ids
      <4>1. PICK q \in DOMAIN s.list : s.list[q] = u.list[at]
        BY <2>4, <2>7 DEF Kept, ToSet
      <4> QED
        BY <2>7, <4>1
    <3>4. ASSUME NEW i \in DOMAIN v.list PROVE v.list[i].id \in Ids
      <4>1. v.list[i] \in Effect
        BY <3>2 DEF BoxRec
      <4> QED
        BY <4>1 DEF Effect
    <3>5. ~Has(v, Hook[u.list[at].id])
      BY <3>3, <3>4 DEF Has
    <3>6. w.s = v
      BY <2>7, <3>1, <3>5 DEF RemoveStatusEffect
    <3>7. PICK l, m : l = u.list /\ m = v.list
      OBVIOUS
    <3>8. l \in Seq(Effect)
      BY <2>4, <3>7 DEF BoxRec
    <3>9. at \in DOMAIN l /\ l[at] \in doomed /\ m = RemoveAt(l, at)
      BY <2>7, <3>2, <3>7
    <3>10. Cardinality(Staying(m, doomed)) = Cardinality(Staying(l, doomed))
      BY <3>8, <3>9, StayingRemoved
    <3> QED
      BY <1>4, <2>2, <2>4, <2>5, <3>6, <3>7, <3>10
  <2>8. CASE w.s = u
    BY <1>4, <2>2, <2>4, <2>5, <2>8
  <2> QED
    BY <2>6, <2>7, <2>8
<1>7. \A k \in 0 .. n : a[k] \in S
  BY <1>5, <1>6, KeptByRounds
<1>8. n \in 0 .. n
  OBVIOUS
<1>9. a[n] \in S /\ a[n].s = t
  BY <1>1, <1>2, <1>7, <1>8
<1> QED
  BY <1>3, <1>4, <1>9

\* As many places of the rows as of the list they were loaded into hold an effect
\* that zoning spares.
LEMMA SparedRows ==
    ASSUME NEW n \in Nat, NEW R, NEW order \in [1 .. n -> R], IsFiniteSet(R), Cardinality(R) = n,
           \A i, j \in 1 .. n : order[i] = order[j] => i = j, NEW T \in SUBSET R,
           NEW S, S = {i \in 1 .. n : order[i] \in T}
    PROVE  Cardinality(S) = Cardinality(T)
<1>1. order \in Injection(1 .. n, R)
  BY DEF Injection, IsInjective
<1>2. Cardinality(1 .. n) = Cardinality(R)
  BY FS_Interval
<1>3. order \in Surjection(1 .. n, R)
  BY <1>1, <1>2, FS_Injection
<1>4. PICK g : g = [i \in S |-> order[i]]
  OBVIOUS
<1>5. g \in [S -> T] /\ \A i, j \in S : g[i] = g[j] => i = j
  BY <1>4
<1>6. ASSUME NEW r \in T PROVE \E i \in S : g[i] = r
  <2>1. PICK i \in 1 .. n : order[i] = r
    BY <1>3 DEF Surjection
  <2> QED
    BY <1>4, <2>1
<1>7. g \in Bijection(S, T)
  BY <1>5, <1>6 DEF Bijection, Injection, Surjection, IsInjective
<1>8. ExistsBijection(S, T)
  BY <1>7 DEF ExistsBijection
<1>9. IsFiniteSet(S)
  <2>1. IsFiniteSet(1 .. n)
    BY FS_Interval
  <2> QED
    BY <2>1, FS_Subset
<1> QED
  BY <1>8, <1>9, FS_Bijection

\* Only logging in brings a character that is offline into a zone.
LEMMA OnlyLogin ==
    ASSUME Next, place = "offline", place' = "world"
    PROVE  Login
BY DEF Next, Gain, Sing, Cure, Cancel, EraseOne, EraseAll, Hurt, CheckRegen, CheckEffects,
       Tick, Die, ActionDeath, Rise, ZoneOut, ZoneIn, Logout, Change, InZone

\* Where the rows of the table are two-sided and the hooks are tame, a character
\* comes back with the effects it left with, but for those that end with zoning:
\* no effect that was saved is refused, overwritten or swept away because
\* another was loaded before it, in whatever order the query names them.
THEOREM EffectsComeBack ==
    ASSUME TwoSided, TameHooks
    PROVE  Spec => ComesBack
<1> DEFINE Lasting == {m \in DOMAIN rows : "ON_ZONE" \notin Row[rows[m].id].flags}
<1>1. ASSUME EffectsInv, Login
      PROVE  /\ Len(box'.list) = Cardinality(Lasting)
             /\ \A m \in DOMAIN box'.list : \E r \in ToSet(rows) :
                   /\ r.id = box'.list[m].id /\ r.power = box'.list[m].power
                   /\ box'.list[m].left <= r.dur * Second
  <2>1. /\ rows \in Seq(Effect) /\ NoRivals(rows) /\ Temporary(rows) /\ kind = "pc"
    <3>1. place = "offline"
      BY <1>1 DEF Login
    <3> QED
      BY <1>1, <3>1 DEF EffectsInv, TypeOK
  <2>2. PICK order \in SetToSeqs(DOMAIN rows) :
           box' = DelByFlag(LoadStatusEffects(order), "ON_ZONE")
    BY <1>1 DEF Login
  <2>3. PICK s, l : s = LoadStatusEffects(order) /\ l = s.list
    OBVIOUS
  <2>4. PICK n : /\ n \in Nat /\ Len(l) = n /\ Len(rows) = n
                 /\ order \in [1 .. n -> DOMAIN rows]
                 /\ \A i, j \in 1 .. n : order[i] = order[j] => i = j
                 /\ LoadStatusEffects(order) \in BoxRec
                 /\ \A i \in 1 .. n : ComesFrom(l[i], rows[order[i]])
    BY <2>1, <2>3, LoadedWhole
  <2>5. s \in BoxRec /\ l \in Seq(Effect) /\ DOMAIN l = 1 .. n /\ n \in Nat
    BY <2>3, <2>4 DEF BoxRec
  <2>6. PICK doomed : doomed = {e \in ToSet(l) : Flagged(e, "ON_ZONE")}
    OBVIOUS
  <2>7. PICK back \in BOOLEAN : back = TRUE
    OBVIOUS
  <2>8. \A at \in Nat : NextPlace(at, back) = at
    BY <2>7 DEF NextPlace
  <2>9. PICK t : t = Sweep(s, doomed, back)
    OBVIOUS
  <2>10. box' = t
    BY <2>2, <2>3, <2>6, <2>7, <2>9 DEF DelByFlag
  <2>11. ASSUME NEW i \in 1 .. n
         PROVE  /\ order[i] \in DOMAIN rows /\ Hook[l[i].id] = None
                /\ l[i] \notin doomed <=> order[i] \in Lasting
    <3>1. order[i] \in DOMAIN rows /\ ComesFrom(l[i], rows[order[i]])
      BY <2>4
    <3>2. PICK r : r = rows[order[i]]
      OBVIOUS
    <3>3. r \in Effect /\ r.wears = FALSE
      BY <2>1, <3>1, <3>2 DEF Temporary
    <3>4. PICK c \in Casts : Stems(r, c) /\ c.dur # 0
      BY <2>1, <3>1, <3>2 DEF Temporary
    <3>5. Hook[r.id] = None
      <4>1. r.id \in Ids
        BY <3>3 DEF Effect
      <4> QED
        BY <3>4, <4>1 DEF TameHooks, Stems
    <3>6. l[i].id = r.id /\ l[i].wears = FALSE
      BY <3>1, <3>2, <3>3 DEF ComesFrom, Like
    <3>7. l[i] \in ToSet(l)
      BY <2>5 DEF ToSet
    <3> QED
      BY <2>6, <3>1, <3>2, <3>5, <3>6, <3>7 DEF Flagged
  <2>12. None \notin Ids
    BY EffectsAssumption
  <2>13. \A i \in DOMAIN s.list : s.list[i] \in doomed => Hook[s.list[i].id] \notin Ids
    BY <2>3, <2>5, <2>11, <2>12
  <2>14. \A i \in 1 .. n : l[i].id \in Ids
    <3>1. \A i \in 1 .. n : l[i] \in Effect
      BY <2>5
    <3> QED
      BY <3>1 DEF Effect
  <2>15. DoomedTogether(s.list, doomed)
    BY <2>3, <2>5, <2>11, <2>12, <2>14 DEF DoomedTogether
  <2>16. Spared(t.list, doomed)
    BY <2>5, <2>8, <2>9, <2>15, SweptThoroughly
  <2>17. Cardinality(Staying(t.list, doomed)) = Cardinality(Staying(s.list, doomed))
    BY <2>5, <2>9, <2>13, SweepCounts
  <2>18. Kept(s, t)
    BY <2>5, <2>9, SweepKeeps
  <2>19. PICK p \in Nat : p = Len(t.list) /\ DOMAIN t.list = 1 .. p
    BY <2>18 DEF Kept, AsRight, BoxRec
  <2>20. Cardinality(Staying(t.list, doomed)) = p
    <3>1. Staying(t.list, doomed) = 1 .. p
      BY <2>16, <2>19 DEF Staying, Spared
    <3> QED
      BY <3>1, FS_Interval
  <2>21. Cardinality(Staying(s.list, doomed)) = Cardinality(Lasting)
    <3>1. PICK R, T : R = DOMAIN rows /\ T = Lasting
      OBVIOUS
    <3>2. PICK S : S = Staying(s.list, doomed)
      OBVIOUS
    <3>3. S = {i \in 1 .. n : order[i] \in T}
      <4>1. \A i \in 1 .. n : l[i] \notin doomed <=> order[i] \in T
        BY <2>11, <3>1
      <4> QED
        BY <2>3, <2>5, <3>2, <4>1 DEF Staying
    <3>4. order \in [1 .. n -> R] /\ T \in SUBSET R
      BY <2>4, <3>1
    <3>5. IsFiniteSet(R) /\ Cardinality(R) = n
      <4>1. R = 1 .. n
        BY <2>1, <2>4, <3>1
      <4> QED
        BY <2>5, <4>1, FS_Interval
    <3>6. \A i, j \in 1 .. n : order[i] = order[j] => i = j
      BY <2>4
    <3> QED
      BY <2>5, <3>1, <3>2, <3>3, <3>4, <3>5, <3>6, SparedRows
  <2>22. ASSUME NEW m \in DOMAIN t.list
         PROVE  \E r \in ToSet(rows) :
                   /\ r.id = t.list[m].id /\ r.power = t.list[m].power
                   /\ t.list[m].left <= r.dur * Second
    <3>1. PICK i \in 1 .. n : l[i] = t.list[m]
      <4>1. t.list[m] \in ToSet(t.list)
        BY DEF ToSet
      <4>2. t.list[m] \in ToSet(s.list)
        BY <2>18, <4>1 DEF Kept
      <4> QED
        BY <2>3, <2>5, <4>2 DEF ToSet
    <3>2. ComesFrom(l[i], rows[order[i]]) /\ order[i] \in DOMAIN rows
      BY <2>4
    <3>3. rows[order[i]] \in ToSet(rows)
      BY <3>2 DEF ToSet
    <3> QED
      BY <3>1, <3>2, <3>3 DEF ComesFrom, Like
  <2> QED
    BY <2>10, <2>17, <2>19, <2>20, <2>21, <2>22
<1>2. EffectsInv /\ [Next]_vars =>
         [place = "offline" /\ place' = "world" =>
                /\ Len(box'.list) = Cardinality({n \in DOMAIN rows : "ON_ZONE" \notin Row[rows[n].id].flags})
                /\ \A n \in DOMAIN box'.list : \E r \in ToSet(rows) :
                      /\ r.id = box'.list[n].id /\ r.power = box'.list[n].power
                      /\ box'.list[n].left <= r.dur * Second]_vars
  BY <1>1, OnlyLogin
<1> QED
  BY <1>2, EffectsInvariant, PTL DEF Spec, ComesBack
=============================================================================
