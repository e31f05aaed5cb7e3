-------------------------- MODULE IterationLemmas --------------------------
(***************************************************************************)
(* Loops written as recursive functions: f[k] is the state after the first *)
(* k rounds.  A first-order prover cannot take an induction principle as a *)
(* parameter, so each lemma speaks of sets and functions and argues by the *)
(* least round that goes wrong.                                            *)
(***************************************************************************)
EXTENDS Integers, FiniteSets, FiniteSetsExt, Lists, TLAPS, FiniteSetTheorems,
        SequenceTheorems, WellFoundedInduction

\* A set of natural numbers that is not empty has a least element.
LEMMA LeastNumber ==
    ASSUME NEW S \in SUBSET Nat, S # {}
    PROVE  \E m \in S : \A x \in S : m <= x
<1> DEFINE Less == OpToRel(<, Nat)
<1>1. IsWellFoundedOn(Less, Nat)
    BY NatLessThanWellFounded
<1>2. Less = {ss \in Nat \X Nat : ss[1] < ss[2]}
    BY DEF OpToRel
<1> HIDE DEF Less
<1>3. PICK m \in S : \A y \in S : <<y, m>> \notin Less
    BY <1>1, WFMin
<1>4. ASSUME NEW y \in S PROVE m <= y
    <2>1. ~ (y < m)
        BY <1>2, <1>3
    <2> QED BY <2>1
<1> QED BY <1>4

\* Min finds it.
LEMMA MinOfNaturals ==
    ASSUME NEW S \in SUBSET Nat, S # {}
    PROVE  Min(S) \in S /\ \A x \in S : Min(S) <= x
BY LeastNumber DEF Min

\* A set of natural numbers that has a bound and is not empty has a maximum,
\* and Max finds it.
LEMMA MaxOfNaturals ==
    ASSUME NEW n \in Nat, NEW S \in SUBSET (0 .. n), S # {}
    PROVE  Max(S) \in S /\ \A x \in S : x <= Max(S)
<1> DEFINE T == {k \in Nat : \A x \in S : x <= k}
<1>1. n \in T
    OBVIOUS
<1>2. PICK m \in T : \A k \in T : m <= k
    BY <1>1, LeastNumber
<1>3. m \in Nat /\ \A x \in S : x \in Nat /\ x <= m
    BY <1>2
<1>4. m \in S
    <2>1. SUFFICES ASSUME m \notin S PROVE FALSE
        OBVIOUS
    <2>2. \A x \in S : x <= m - 1
        BY <1>3, <2>1
    <2>3. m - 1 \in Nat
        <3>1. PICK x \in S : TRUE
            OBVIOUS
        <3>2. x \in Nat /\ x <= m - 1
            BY <1>3, <2>2
        <3> QED BY <1>3, <3>2
    <2>4. m - 1 \in T
        BY <2>2, <2>3
    <2> QED BY <1>2, <1>3, <2>4
<1>5. \E x \in S : \A y \in S : x >= y
    BY <1>3, <1>4
<1>6. Max(S) \in S /\ \A y \in S : Max(S) >= y
    BY <1>5 DEF Max
<1> QED BY <1>3, <1>6

\* A finite set has at most one element if and only if any two are the same.
LEMMA AtMostOne ==
    ASSUME NEW S, IsFiniteSet(S)
    PROVE  Cardinality(S) <= 1 <=> \A x, y \in S : x = y
<1>1. Cardinality(S) \in Nat /\ (Cardinality(S) = 0 <=> S = {})
      /\ (Cardinality(S) = 1 <=> \E x : S = {x})
    BY FS_CardinalityType, FS_EmptySet, FS_Singleton
<1>2. (S = {} \/ \E x : S = {x}) <=> \A x, y \in S : x = y
    <2>1. ASSUME S # {}, \A x, y \in S : x = y PROVE \E x : S = {x}
        <3>1. PICK x \in S : TRUE
            BY <2>1
        <3>2. S = {x}
            BY <2>1, <3>1
        <3> QED BY <3>2
    <2> QED BY <2>1
<1> QED BY <1>1, <1>2

\* What holds before the first round and is kept by every round holds after
\* each of them.
LEMMA KeptByRounds ==
    ASSUME NEW n \in Nat, NEW S, NEW f, f[0] \in S,
           \A k \in 1 .. n : f[k-1] \in S => f[k] \in S
    PROVE  \A k \in 0 .. n : f[k] \in S
<1> DEFINE T == {k \in 0 .. n : f[k] \notin S}
<1>1. SUFFICES ASSUME T # {} PROVE FALSE
    OBVIOUS
<1>2. PICK m \in T : \A x \in T : m <= x
    <2>1. T \in SUBSET Nat
        OBVIOUS
    <2> QED BY <1>1, <2>1, LeastNumber
<1>3. m \in 1 .. n
    BY <1>2
<1>4. m - 1 \in 0 .. n /\ m - 1 \notin T
    BY <1>2, <1>3
<1> QED BY <1>2, <1>3, <1>4

\* The runs of a loop of n rounds over the states in S: f[k] is the state after
\* the first k rounds.
RunsOf(n, S, start, round) ==
    {f \in [0 .. n -> S] : f[0] = start /\ \A k \in 1 .. n : f[k] = round[<<k, f[k-1]>>]}

\* A loop whose rounds keep the state within S has a run.
LEMMA RunExists ==
    ASSUME NEW n \in Nat, NEW S, NEW start \in S, NEW round \in [(1 .. n) \X S -> S]
    PROVE  RunsOf(n, S, start, round) # {}
<1> DEFINE Runs(m) == RunsOf(m, S, start, round)
           T == {m \in 0 .. n : Runs(m) = {}}
<1> USE DEF RunsOf
<1>1. SUFFICES ASSUME T # {} PROVE FALSE
    <2>1. n \in 0 .. n
        OBVIOUS
    <2>2. T = {} => Runs(n) # {}
        BY <2>1
    <2> QED BY <2>2
<1>2. PICK m \in T : \A x \in T : m <= x
    <2>1. T \in SUBSET Nat
        OBVIOUS
    <2> HIDE DEF T
    <2> QED BY <1>1, <2>1, LeastNumber
<1>3. m # 0
    <2>1. [k \in 0 .. 0 |-> start] \in Runs(0)
        OBVIOUS
    <2> QED BY <1>2, <2>1
<1>4. m \in 1 .. n /\ m - 1 \in 0 .. n /\ m - 1 \notin T
    BY <1>2, <1>3
<1>5. PICK g \in Runs(m - 1) : TRUE
    BY <1>4
<1> DEFINE h == [k \in 0 .. m |-> IF k = m THEN round[<<m, g[m-1]>>] ELSE g[k]]
<1>6. \A k \in 0 .. m : k # m => k \in 0 .. m - 1
    BY <1>4
<1>7. m - 1 \in 0 .. m - 1 /\ g[m-1] \in S
    BY <1>4, <1>5
<1>8. h \in [0 .. m -> S]
    <2>1. round[<<m, g[m-1]>>] \in S
        BY <1>4, <1>7
    <2>2. \A k \in 0 .. m - 1 : g[k] \in S
        BY <1>5
    <2> QED BY <1>6, <2>1, <2>2
<1>9. h[0] = start
    BY <1>4, <1>5
<1>10. \A k \in 1 .. m : h[k] = round[<<k, h[k-1]>>]
    <2> TAKE k \in 1 .. m
    <2>1. k \in 0 .. m /\ k - 1 \in 0 .. m /\ k - 1 # m
        BY <1>4
    <2>2. CASE k = m
        BY <2>1, <2>2
    <2>3. CASE k # m
        <3>1. k \in 1 .. m - 1
            BY <1>4, <2>3
        <3>2. g[k] = round[<<k, g[k-1]>>]
            BY <1>5, <3>1
        <3> QED BY <2>1, <2>3, <3>2
    <2> QED BY <2>2, <2>3
<1>11. h \in Runs(m)
    BY <1>8, <1>9, <1>10
<1> QED BY <1>2, <1>11

-----------------------------------------------------------------------------
(* Entries erased from lists.                                              *)

\* Rank counts up by one at each kept position, so every number from 1 to the
\* size of keep is the rank of a kept position.
LEMMA RankOnto ==
    ASSUME NEW n \in Nat, NEW keep \in SUBSET (1 .. n),
           NEW i \in 1 .. Cardinality(keep)
    PROVE  \E k \in keep : Rank(keep, k) = i
<1> DEFINE Below(k) == {j \in keep : j <= k}
<1> DEFINE T == {k \in Nat : Cardinality(Below(k)) >= i}
<1>a. keep \subseteq Int /\ \A j \in keep : 1 <= j /\ j <= n
    OBVIOUS
<1>b. IsFiniteSet(keep)
    <2>1. IsFiniteSet(1 .. n)
        BY FS_Interval
    <2> QED BY <2>1, FS_Subset
<1>c. \A k : Below(k) \in SUBSET keep
    OBVIOUS
<1>1. \A k \in Nat : IsFiniteSet(Below(k)) /\ Cardinality(Below(k)) \in Nat
    BY <1>b, <1>c, FS_Subset, FS_CardinalityType
<1>2. n \in T
    <2>1. \A j \in keep : j \in Below(n)
        BY <1>a
    <2>2. Below(n) = keep
        BY <2>1
    <2>3. Cardinality(keep) \in Nat
        BY <1>b, FS_CardinalityType
    <2> QED BY <2>2, <2>3
<1>3. PICK m \in T : \A x \in T : m <= x
    BY <1>2, MinOfNaturals
<1>4. m \in Nat /\ Cardinality(Below(m)) >= i
    BY <1>3
<1>5. m # 0
    <2>1. \A j \in keep : ~ (j <= 0)
        BY <1>a
    <2>2. Below(0) = {}
        BY <2>1
    <2> QED BY <1>4, <2>2, FS_EmptySet
<1>6. m - 1 \in Nat
    BY <1>4, <1>5
<1>7. Cardinality(Below(m-1)) < i
    <2>1. m - 1 \in T => m <= m - 1
        BY <1>3
    <2>2. ~ (m <= m - 1)
        BY <1>4
    <2>3. ~ (Cardinality(Below(m-1)) >= i)
        BY <1>6, <2>1, <2>2
    <2>4. i \in Int
        OBVIOUS
    <2> HIDE DEF Below
    <2>5. Cardinality(Below(m-1)) \in Nat
        BY <1>1, <1>6
    <2> QED BY <2>3, <2>4, <2>5
<1>8. \A j \in keep : j <= m <=> (j <= m - 1 \/ j = m)
    BY <1>a, <1>4
<1>9. m \in keep
    <2>1. SUFFICES ASSUME m \notin keep PROVE FALSE
        OBVIOUS
    <2>2. \A j \in keep : j <= m <=> j <= m - 1
        BY <1>8, <2>1
    <2>3. Below(m) = Below(m-1)
        BY <2>2
    <2> HIDE DEF Below
    <2> QED BY <1>1, <1>4, <1>6, <1>7, <2>3
<1>10. Below(m) = Below(m-1) \cup {m}
    BY <1>8, <1>9
<1>11. m \notin Below(m-1)
    BY <1>4
<1> HIDE DEF Below
<1>12. Cardinality(Below(m)) = Cardinality(Below(m-1)) + 1
    BY <1>1, <1>6, <1>10, <1>11, FS_AddElement
<1>13. Cardinality(Below(m)) = i
    BY <1>1, <1>4, <1>6, <1>7, <1>12
<1>14. Rank(keep, m) = Cardinality(Below(m))
    BY DEF Rank, Below
<1> QED BY <1>9, <1>13, <1>14

\* What is left of a sequence at the kept positions is a sequence over the
\* same elements.
LEMMA RestrictedType ==
    ASSUME NEW S, NEW seq \in Seq(S), NEW keep \in SUBSET (DOMAIN seq)
    PROVE  Restricted(seq, keep) \in Seq(S)
<1>1. Len(seq) \in Nat /\ DOMAIN seq = 1 .. Len(seq)
    OBVIOUS
<1>2. Cardinality(keep) \in Nat
    <2>1. IsFiniteSet(1 .. Len(seq))
        BY <1>1, FS_Interval
    <2> QED BY <1>1, <2>1, FS_Subset, FS_CardinalityType
<1>3. ASSUME NEW i \in 1 .. Cardinality(keep)
      PROVE  seq[CHOOSE k \in keep : Rank(keep, k) = i] \in S
    <2>1. \E k \in keep : Rank(keep, k) = i
        BY <1>1, RankOnto
    <2>2. (CHOOSE k \in keep : Rank(keep, k) = i) \in keep
        BY <2>1
    <2> QED BY <1>1, <2>2
<1> QED BY <1>2, <1>3, IsASeq DEF Restricted

\* The rank of a kept position is a position of the result, and different kept
\* positions have different ranks.
LEMMA RankInto ==
    ASSUME NEW n \in Nat, NEW keep \in SUBSET (1 .. n)
    PROVE  /\ \A k \in keep : Rank(keep, k) \in 1 .. Cardinality(keep)
           /\ \A k, l \in keep : Rank(keep, k) = Rank(keep, l) => k = l
<1> DEFINE Below(k) == {j \in keep : j <= k}
<1>a. \A k \in keep : k \in Int
    OBVIOUS
<1>1. IsFiniteSet(keep) /\ Cardinality(keep) \in Nat
    <2>1. IsFiniteSet(1 .. n)
        BY FS_Interval
    <2> QED BY <2>1, FS_Subset, FS_CardinalityType
<1>2. \A k \in keep : Below(k) \in SUBSET keep
    OBVIOUS
<1>3. \A k \in keep : /\ IsFiniteSet(Below(k)) /\ Cardinality(Below(k)) \in Nat
                      /\ Cardinality(Below(k)) <= Cardinality(keep)
    BY <1>1, <1>2, FS_Subset, FS_CardinalityType
<1>4. \A k \in keep : Rank(keep, k) = Cardinality(Below(k))
    BY DEF Rank
<1>5. \A k \in keep : Below(k) # {}
    OBVIOUS
<1>6. ASSUME NEW k \in keep, NEW l \in keep, k < l
      PROVE  Cardinality(Below(k)) < Cardinality(Below(l))
    <2>1. Below(k) \in SUBSET Below(l) /\ l \in Below(l) /\ l \notin Below(k)
        <3>1. \A j \in keep : j <= k => j <= l
            BY <1>a, <1>6
        <3>2. ~ (l <= k) /\ l <= l
            BY <1>a, <1>6
        <3> QED BY <3>1, <3>2
    <2>2. Below(k) # Below(l)
        BY <2>1
    <2> HIDE DEF Below
    <2> QED BY <1>3, <2>1, <2>2, FS_Subset
<1> HIDE DEF Below
<1>7. ASSUME NEW k \in keep, NEW l \in keep, Rank(keep, k) = Rank(keep, l)
      PROVE  k = l
    <2>1. Cardinality(Below(k)) = Cardinality(Below(l))
        BY <1>4, <1>7
    <2>2. k \in Int /\ l \in Int
        OBVIOUS
    <2>3. ~ (k < l) /\ ~ (l < k)
        BY <1>3, <1>6, <2>1
    <2> QED BY <2>2, <2>3
<1>8. ASSUME NEW k \in keep PROVE Rank(keep, k) \in 1 .. Cardinality(keep)
    <2>1. Cardinality(Below(k)) # 0
        BY <1>3, <1>5, FS_EmptySet
    <2> DEFINE r == Rank(keep, k)
               c == Cardinality(keep)
    <2>2. r \in Nat /\ r # 0 /\ r <= c /\ c \in Nat
        BY <1>1, <1>3, <1>4, <2>1
    <2> HIDE DEF r, c
    <2>3. r \in 1 .. c
        BY <2>2
    <2> QED BY <2>3 DEF r, c
<1> QED BY <1>7, <1>8

\* What Restricted puts at position i is the element of rank i, and every kept
\* element is there.
LEMMA RestrictedElements ==
    ASSUME NEW S, NEW seq \in Seq(S), NEW keep \in SUBSET (DOMAIN seq)
    PROVE  /\ DOMAIN Restricted(seq, keep) = 1 .. Cardinality(keep)
           /\ \A i \in 1 .. Cardinality(keep) :
                 \E k \in keep : Rank(keep, k) = i /\ Restricted(seq, keep)[i] = seq[k]
           /\ \A k \in keep : /\ Rank(keep, k) \in 1 .. Cardinality(keep)
                              /\ Restricted(seq, keep)[Rank(keep, k)] = seq[k]
<1>1. Len(seq) \in Nat /\ keep \in SUBSET (1 .. Len(seq))
    OBVIOUS
<1> DEFINE at(i) == CHOOSE k \in keep : Rank(keep, k) = i
<1>2. ASSUME NEW i \in 1 .. Cardinality(keep)
      PROVE  at(i) \in keep /\ Rank(keep, at(i)) = i
    <2>1. \E k \in keep : Rank(keep, k) = i
        BY <1>1, RankOnto
    <2> QED BY <2>1
<1>3. Restricted(seq, keep) = [i \in 1 .. Cardinality(keep) |-> seq[at(i)]]
    BY DEF Restricted
<1> HIDE DEF at
<1>4. ASSUME NEW k \in keep
      PROVE  Rank(keep, k) \in 1 .. Cardinality(keep) /\ at(Rank(keep, k)) = k
    <2>1. /\ Rank(keep, k) \in 1 .. Cardinality(keep)
          /\ \A l \in keep : Rank(keep, k) = Rank(keep, l) => k = l
        BY <1>1, RankInto
    <2>2. at(Rank(keep, k)) \in keep /\ Rank(keep, at(Rank(keep, k))) = Rank(keep, k)
        BY <1>2, <2>1
    <2> QED BY <2>1, <2>2
<1> QED BY <1>2, <1>3, <1>4

=============================================================================
