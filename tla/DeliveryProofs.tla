--------------------------- MODULE DeliveryProofs ---------------------------
(***************************************************************************)
(* Theorems about Delivery: types and keys of the table, and what becomes  *)
(* of the items, for any number of players, goods, cells and mails.        *)
(***************************************************************************)
EXTENDS Delivery, IterationLemmas

LEMMA CellsFacts ==
    /\ Cells \in Nat /\ Cells > 0 /\ MaxMails \in Nat /\ Size \in Nat
    /\ \A c \in Shown : c \in Nat /\ c < Cells
    /\ \A c \in New : c \in Nat /\ c >= Cells
    /\ Shown \subseteq Numbers /\ \A n \in Numbers : n \in Nat
BY DeliveryConstants DEF Shown, New, Numbers

LEMMA EntryIsNotVacant == \A e \in Entry : e # Vacant
BY DEF Entry, Vacant

-----------------------------------------------------------------------------
(* The table.                                                              *)

Keyed(R) == \A r, t \in R : r.to = t.to /\ r.box = t.box /\ r.slot = t.slot => r = t
OneSending(R) == \A r, t \in R :
    r.box = 2 /\ t.box = 2 /\ r.from = t.from /\ r.slot = t.slot => r = t
Numbered(R, m) == \A r \in R : IF r.box = 1 THEN r.slot < Cells + m ELSE r.slot \in Shown

GoodRows(R, m) == /\ R \subseteq Row /\ IsFiniteSet(R)
                  /\ Keyed(R) /\ OneSending(R) /\ Numbered(R, m)

LEMMA FewerRows ==
    ASSUME NEW R, NEW m, GoodRows(R, m), NEW T, T \subseteq R
    PROVE  GoodRows(T, m)
<1>1. IsFiniteSet(T)
  BY FS_Subset DEF GoodRows
<1> QED
  BY <1>1 DEF GoodRows, Keyed, OneSending, Numbered

LEMMA LaterNumbers ==
    ASSUME NEW R, NEW m \in Nat, GoodRows(R, m)
    PROVE  GoodRows(R, m + 1)
<1>1. \A r \in R : r.slot \in Nat
  BY CellsFacts DEF GoodRows, Row
<1>2. Numbered(R, m + 1)
  <2> SUFFICES ASSUME NEW r \in R
               PROVE  IF r.box = 1 THEN r.slot < Cells + (m + 1) ELSE r.slot \in Shown
    BY DEF Numbered
  <2>1. IF r.box = 1 THEN r.slot < Cells + m ELSE r.slot \in Shown
    BY DEF GoodRows, Numbered
  <2> QED
    BY <1>1, <2>1, CellsFacts
<1> QED
  BY <1>2 DEF GoodRows

LEMMA FiniteChanged ==
    ASSUME NEW R, IsFiniteSet(R), NEW r, NEW new
    PROVE  IsFiniteSet(Changed(R, r, new))
<1>1. R \ {r} \in SUBSET R
  OBVIOUS
<1>2. IsFiniteSet(R \ {r})
  BY <1>1, FS_Subset
<1> QED
  BY <1>2, FS_AddElement DEF Changed

\* The same row but for its marks, and a mail also but for its number.
SameMail(r, t) == /\ t.to = r.to /\ t.box = r.box /\ t.item = r.item /\ t.from = r.from
                  /\ t.sent = r.sent /\ (r.box = 2 => t.slot = r.slot)

LEMMA MarkedRow ==
    ASSUME NEW R, NEW m, GoodRows(R, m), NEW r \in R, NEW new \in Row,
           new.to = r.to /\ new.box = r.box /\ new.slot = r.slot /\ new.from = r.from
    PROVE  GoodRows(Changed(R, r, new), m)
<1>1. PICK T : T = Changed(R, r, new)
  OBVIOUS
<1>2. \A t \in T : t = new \/ (t \in R /\ t # r)
  BY <1>1 DEF Changed
<1>3. R \subseteq Row /\ Keyed(R) /\ OneSending(R) /\ Numbered(R, m)
  BY DEF GoodRows
<1>4. T \subseteq Row
  BY <1>2, <1>3
<1>5. Keyed(T)
  BY <1>2, <1>3 DEF Keyed
<1>6. OneSending(T)
  BY <1>2, <1>3 DEF OneSending
<1>7. Numbered(T, m)
  BY <1>2, <1>3 DEF Numbered
<1>8. IsFiniteSet(T)
  BY <1>1, FiniteChanged DEF GoodRows
<1> QED
  BY <1>1, <1>4, <1>5, <1>6, <1>7, <1>8 DEF GoodRows

\* A mail that moves to a cell that no mail of its receiver has.
LEMMA MovedRow ==
    ASSUME NEW R, NEW m \in Nat, GoodRows(R, m), NEW r \in R, r.box = 1, NEW c \in Shown,
           \A t \in R : t.box = 1 /\ t.to = r.to => t.slot # c
    PROVE  LET new == [r EXCEPT !.slot = c]
           IN  /\ GoodRows(Changed(R, r, new), m) /\ SameMail(r, new) /\ new \in Row
               /\ new.slot = c
<1>1. PICK new : new = [r EXCEPT !.slot = c]
  OBVIOUS
<1>2. PICK T : T = Changed(R, r, new)
  OBVIOUS
<1>3. R \subseteq Row /\ Keyed(R) /\ OneSending(R) /\ Numbered(R, m)
  BY DEF GoodRows
<1>4. /\ new \in Row /\ new.slot = c /\ new.to = r.to /\ new.box = r.box /\ new.item = r.item
      /\ new.from = r.from /\ new.sent = r.sent
  BY <1>1, <1>3, CellsFacts DEF Row
<1>5. \A t \in T : t = new \/ (t \in R /\ t # r)
  BY <1>2 DEF Changed
<1>6. T \subseteq Row
  BY <1>3, <1>4, <1>5
<1>7. Keyed(T)
  BY <1>3, <1>4, <1>5 DEF Keyed
<1>8. OneSending(T)
  BY <1>3, <1>4, <1>5 DEF OneSending
<1>9. Numbered(T, m)
  <2>1. c < Cells + m
    BY CellsFacts
  <2> QED
    BY <1>3, <1>4, <1>5, <2>1 DEF Numbered
<1>10. IsFiniteSet(T)
  BY <1>2, FiniteChanged DEF GoodRows
<1> QED
  BY <1>1, <1>2, <1>4, <1>6, <1>7, <1>8, <1>9, <1>10 DEF GoodRows, SameMail

\* The number of a new mail is that of no other mail, and of no cell.
LEMMA NextNumberFacts ==
    ASSUME NEW R, NEW m \in Nat, GoodRows(R, m), NEW p
    PROVE  /\ NextNumber(R, p) \in Cells .. (Cells + m)
           /\ \A r \in Mails(R, p) : r.slot < NextNumber(R, p)
<1>1. PICK S : S = {Cells} \cup {r.slot + 1 : r \in Mails(R, p)}
  OBVIOUS
<1>2. \A r \in Mails(R, p) : r.slot \in Nat /\ r.slot + 1 \in 0 .. (Cells + m)
  <2> TAKE r \in Mails(R, p)
  <2>1. r \in Row /\ r.slot < Cells + m
    BY DEF Mails, GoodRows, Numbered
  <2>2. r.slot \in Nat
    BY <2>1, CellsFacts DEF Row
  <2> QED
    BY <2>1, <2>2, CellsFacts
<1>3. Cells \in 0 .. (Cells + m) /\ Cells + m \in Nat
  BY CellsFacts
<1>4. S \in SUBSET (0 .. (Cells + m)) /\ S # {}
  BY <1>1, <1>2, <1>3
<1>5. PICK x : x = Max(S)
  OBVIOUS
<1>6. x \in S /\ \A y \in S : y <= x
  BY <1>3, <1>4, <1>5, MaxOfNaturals
<1>7. x \in Cells .. (Cells + m)
  <2>1. Cells <= x /\ x \in 0 .. (Cells + m)
    BY <1>1, <1>4, <1>6
  <2> QED
    BY <2>1, CellsFacts
<1>8. \A r \in Mails(R, p) : r.slot < x
  <2> TAKE r \in Mails(R, p)
  <2>1. r.slot + 1 <= x
    BY <1>1, <1>6
  <2> QED
    BY <1>2, <1>7, <2>1, CellsFacts
<1>9. x = NextNumber(R, p)
  BY <1>1, <1>5 DEF NextNumber
<1> QED
  BY <1>7, <1>8, <1>9

LEMMA MailAdded ==
    ASSUME NEW R, NEW m \in Nat, m < MaxMails, GoodRows(R, m),
           NEW from \in Players, NEW to \in Players, NEW item \in Goods,
           NEW new, new = Mail(R, from, to, item)
    PROVE  /\ GoodRows(R \cup {new}, m + 1) /\ new \in Row
           /\ new.box = 1 /\ new.item = item /\ new.to = to /\ new.slot \notin Shown
<1>1. new = Mail(R, from, to, item)
  OBVIOUS
<1>2. PICK T : T = R \cup {new}
  OBVIOUS
<1>3. PICK x : x = NextNumber(R, to)
  OBVIOUS
<1>4. x \in Cells .. (Cells + m) /\ \A r \in Mails(R, to) : r.slot < x
  BY <1>3, NextNumberFacts
<1>5. x \in Numbers /\ x \in Nat /\ x < Cells + (m + 1) /\ x \notin Shown
  BY <1>4, CellsFacts DEF Numbers, Shown
<1>6. /\ new \in Row /\ new.box = 1 /\ new.to = to /\ new.slot = x /\ new.item = item
      /\ new.from = from
  BY <1>1, <1>3, <1>5 DEF Mail, Row
<1>7. R \subseteq Row /\ Keyed(R) /\ OneSending(R) /\ Numbered(R, m)
  BY DEF GoodRows
<1>8. Keyed(T)
  <2>1. \A r \in R : r.to = to /\ r.box = 1 => r.slot # x
    <3> SUFFICES ASSUME NEW r \in R, r.to = to, r.box = 1 PROVE r.slot # x
      OBVIOUS
    <3>1. r \in Mails(R, to)
      BY DEF Mails
    <3>2. r.slot < x /\ r.slot \in Nat
      BY <1>4, <1>7, <3>1, CellsFacts DEF Row
    <3> QED
      BY <3>2, <1>5
  <2> QED
    BY <1>2, <1>6, <1>7, <2>1 DEF Keyed
<1>9. OneSending(T)
  BY <1>2, <1>6, <1>7 DEF OneSending
<1>10. Numbered(T, m + 1)
  <2> SUFFICES ASSUME NEW r \in T
               PROVE  IF r.box = 1 THEN r.slot < Cells + (m + 1) ELSE r.slot \in Shown
    BY DEF Numbered
  <2>1. CASE r = new
    BY <1>5, <1>6, <2>1
  <2>2. CASE r \in R
    <3>1. r.slot \in Nat /\ IF r.box = 1 THEN r.slot < Cells + m ELSE r.slot \in Shown
      BY <1>7, <2>2, CellsFacts DEF Row, Numbered
    <3> QED
      BY <3>1, CellsFacts
  <2> QED
    BY <1>2, <2>1, <2>2
<1>11. T \subseteq Row
  BY <1>2, <1>6, <1>7
<1>12. IsFiniteSet(T)
  BY <1>2, FS_AddElement DEF GoodRows
<1> QED
  BY <1>1, <1>2, <1>5, <1>6, <1>8, <1>9, <1>10, <1>11, <1>12 DEF GoodRows

LEMMA SendingAdded ==
    ASSUME NEW R, NEW m \in Nat, GoodRows(R, m), NEW new \in Row, new.box = 2, new.slot \in Shown,
           \A r \in R : r.box = 2 /\ r.to = new.to => r.slot # new.slot,
           \A r \in R : r.box = 2 /\ r.from = new.from => r.slot # new.slot
    PROVE  GoodRows(R \cup {new}, m)
<1>1. PICK T : T = R \cup {new}
  OBVIOUS
<1>2. R \subseteq Row /\ Keyed(R) /\ OneSending(R) /\ Numbered(R, m)
  BY DEF GoodRows
<1>3. Keyed(T)
  BY <1>1, <1>2 DEF Keyed
<1>4. OneSending(T)
  BY <1>1, <1>2 DEF OneSending
<1>5. Numbered(T, m)
  BY <1>1, <1>2 DEF Numbered
<1>6. IsFiniteSet(T)
  BY <1>1, FS_AddElement DEF GoodRows
<1> QED
  BY <1>1, <1>2, <1>3, <1>4, <1>5, <1>6 DEF GoodRows

-----------------------------------------------------------------------------
(* The pieces that are in rows.                                            *)

Single(S) == \A x, y \in S : x = y

\* T is R but for marks and numbers: the pieces are in both or in neither, and
\* not in more rows than before.
Follows(R, T) ==
    /\ \A r \in R : \E t \in T : SameMail(r, t)
    /\ \A t \in T : \E r \in R : SameMail(r, t)
    /\ \A i : Single(InRows(R, i)) => Single(InRows(T, i))

LEMMA FollowsSame == \A R : Follows(R, R)
BY DEF Follows, SameMail

LEMMA SameMailTwice ==
    ASSUME NEW r, NEW s, NEW t, SameMail(r, s), SameMail(s, t)
    PROVE  SameMail(r, t)
BY DEF SameMail

LEMMA FollowsTwice ==
    ASSUME NEW R, NEW S, NEW T, Follows(R, S), Follows(S, T)
    PROVE  Follows(R, T)
<1>1. \A r \in R : \E t \in T : SameMail(r, t)
  BY SameMailTwice DEF Follows
<1>2. \A t \in T : \E r \in R : SameMail(r, t)
  BY SameMailTwice DEF Follows
<1>3. \A i : Single(InRows(R, i)) => Single(InRows(T, i))
  BY DEF Follows
<1> QED
  BY <1>1, <1>2, <1>3 DEF Follows

LEMMA FollowsChanged ==
    ASSUME NEW R, NEW r \in R, NEW new, SameMail(r, new)
    PROVE  Follows(R, Changed(R, r, new))
<1>1. PICK T : T = Changed(R, r, new)
  OBVIOUS
<1>2. /\ new \in T /\ \A t \in T : t = new \/ (t \in R /\ t # r)
      /\ \A t \in R : t # r => t \in T
  BY <1>1 DEF Changed
<1>3. \A t : SameMail(t, t)
  BY DEF SameMail
<1>4. ASSUME NEW i, Single(InRows(R, i)) PROVE Single(InRows(T, i))
  <2> SUFFICES ASSUME NEW x \in InRows(T, i), NEW y \in InRows(T, i) PROVE x = y
    BY DEF Single
  <2>1. \A t \in InRows(T, i) : IF t = new THEN r \in InRows(R, i) ELSE t \in InRows(R, i) /\ t # r
    BY <1>2 DEF InRows, SameMail
  <2> QED
    BY <1>4, <2>1 DEF Single
<1> QED
  BY <1>1, <1>2, <1>3, <1>4 DEF Follows

\* UPDATE ... SET received = 1 ... LIMIT 1
LEMMA NotedFacts ==
    ASSUME NEW R, NEW m, GoodRows(R, m), NEW S, S \subseteq R, \A s \in S : s.box = 2
    PROVE  /\ GoodRows(Noted(R, S), m) /\ Follows(R, Noted(R, S))
           /\ \A t \in Noted(R, S) : t.box = 1 => t \in R
           /\ \A t \in R : t.box = 1 => t \in Noted(R, S)
<1>1. CASE S = {}
  <2>1. Noted(R, S) = R
    BY <1>1 DEF Noted
  <2> QED
    BY <2>1, FollowsSame
<1>2. CASE S # {}
  <2>1. \A s \in S : s \in Row /\ s.slot \in Nat
    BY CellsFacts DEF GoodRows, Row
  <2>2. PICK N : N = {s.slot : s \in S}
    OBVIOUS
  <2>3. N \in SUBSET Nat /\ N # {}
    BY <1>2, <2>1, <2>2
  <2>4. PICK k \in N : \A x \in N : k <= x
    BY <2>3, LeastNumber
  <2>5. \E x \in S : \A y \in S : x.slot <= y.slot
    BY <2>2, <2>4
  <2>6. PICK r : r = CHOOSE x \in S : \A y \in S : x.slot <= y.slot
    OBVIOUS
  <2>7. r \in S
    BY <2>5, <2>6
  <2>8. PICK new : new = [r EXCEPT !.received = TRUE]
    OBVIOUS
  <2>9. /\ new \in Row /\ new.to = r.to /\ new.box = r.box /\ new.slot = r.slot
        /\ new.from = r.from /\ new.item = r.item /\ new.sent = r.sent
    BY <2>1, <2>7, <2>8 DEF Row
  <2>10. Noted(R, S) = Changed(R, r, new)
    BY <1>2, <2>6, <2>8 DEF Noted
  <2>11. SameMail(r, new) /\ r \in R /\ r.box = 2 /\ new.box = 2
    BY <2>7, <2>9 DEF SameMail
  <2>12. GoodRows(Changed(R, r, new), m)
    BY <2>9, <2>11, MarkedRow
  <2>13. Follows(R, Changed(R, r, new))
    BY <2>11, FollowsChanged
  <2> QED
    BY <2>10, <2>11, <2>12, <2>13 DEF Changed
<1> QED
  BY <1>1, <1>2

-----------------------------------------------------------------------------
(* Rows in the order of their numbers.                                     *)

LEMMA AscendingFacts ==
    ASSUME NEW N, N \subseteq Numbers, NEW a, a = Ascending(N)
    PROVE  /\ a \in Seq(N) /\ \A n \in N : \E k \in DOMAIN a : a[k] = n
           /\ \A k, l \in DOMAIN a : a[k] = a[l] => k = l
<1>1. PICK len \in Nat : len = Cells + MaxMails + 1
  BY CellsFacts
<1>2. PICK seq : seq = [k \in 1 .. len |-> k - 1]
  OBVIOUS
<1>3. seq \in Seq(Int) /\ DOMAIN seq = 1 .. len /\ \A k \in 1 .. len : seq[k] = k - 1
  BY <1>1, <1>2
<1>4. PICK keep : keep = {n + 1 : n \in N}
  OBVIOUS
<1>5. keep \in SUBSET (1 .. len)
  <2> SUFFICES ASSUME NEW n \in N PROVE n + 1 \in 1 .. len
    BY <1>4
  <2> QED
    BY <1>1, CellsFacts DEF Numbers
<1>6. a = Restricted(seq, keep)
  BY <1>1, <1>2, <1>4 DEF Ascending
<1>7. PICK c : c = Cardinality(keep)
  OBVIOUS
<1>8. /\ DOMAIN a = 1 .. c
      /\ \A i \in 1 .. c : \E k \in keep : Rank(keep, k) = i /\ a[i] = seq[k]
      /\ \A k \in keep : Rank(keep, k) \in 1 .. c /\ a[Rank(keep, k)] = seq[k]
  <2>1. keep \in SUBSET (DOMAIN seq)
    BY <1>3, <1>5
  <2>2. /\ DOMAIN Restricted(seq, keep) = 1 .. Cardinality(keep)
        /\ \A i \in 1 .. Cardinality(keep) :
              \E k \in keep : Rank(keep, k) = i /\ Restricted(seq, keep)[i] = seq[k]
        /\ \A k \in keep : /\ Rank(keep, k) \in 1 .. Cardinality(keep)
                           /\ Restricted(seq, keep)[Rank(keep, k)] = seq[k]
    BY <1>3, <2>1, RestrictedElements
  <2> QED
    BY <1>6, <1>7, <2>2
<1>9. a \in Seq(Int)
  <2>1. keep \in SUBSET (DOMAIN seq)
    BY <1>3, <1>5
  <2> QED
    BY <1>3, <1>6, <2>1, RestrictedType
<1>10. \A k \in keep : k - 1 \in N /\ seq[k] = k - 1
  <2> TAKE k \in keep
  <2>1. PICK n \in N : k = n + 1
    BY <1>4
  <2>2. n \in Nat /\ k - 1 = n
    BY <2>1, CellsFacts
  <2>3. seq[k] = k - 1
    BY <1>3, <1>5
  <2> QED
    BY <2>2, <2>3
<1>11. \A i \in DOMAIN a : a[i] \in N
  BY <1>8, <1>10
<1>12. a \in Seq(N)
  <2>1. Len(a) \in Nat /\ DOMAIN a = 1 .. Len(a) /\ a = [i \in 1 .. Len(a) |-> a[i]]
    BY <1>9
  <2>2. \A i \in 1 .. Len(a) : a[i] \in N
    BY <1>11, <2>1
  <2> QED
    BY <2>1, <2>2, IsASeq
<1>13. ASSUME NEW n \in N PROVE \E k \in DOMAIN a : a[k] = n
  <2>1. n + 1 \in keep /\ n \in Nat
    BY <1>4, CellsFacts
  <2>2. seq[n + 1] = n
    BY <1>10, <2>1
  <2> QED
    BY <1>8, <2>1, <2>2
<1>14. ASSUME NEW k \in DOMAIN a, NEW l \in DOMAIN a, a[k] = a[l] PROVE k = l
  <2>1. PICK x \in keep : Rank(keep, x) = k /\ a[k] = seq[x]
    BY <1>8
  <2>2. PICK y \in keep : Rank(keep, y) = l /\ a[l] = seq[y]
    BY <1>8
  <2>3. seq[x] = x - 1 /\ seq[y] = y - 1
    BY <1>10
  <2>4. x = y
    <3>1. x - 1 = y - 1
      BY <1>14, <2>1, <2>2, <2>3
    <3>2. x \in 1 .. len /\ y \in 1 .. len
      BY <1>5
    <3> QED
      BY <3>1, <3>2
  <2> QED
    BY <2>1, <2>2, <2>4
<1> QED
  BY <1>12, <1>13, <1>14

LEMMA InOrderFacts ==
    ASSUME NEW S, S \subseteq Row, \A r, t \in S : r.slot = t.slot => r = t,
           NEW q, q = InOrder(S)
    PROVE  /\ q \in Seq(S) /\ \A r \in S : \E k \in DOMAIN q : q[k] = r
           /\ \A k, l \in DOMAIN q : q[k] = q[l] => k = l
<1>1. PICK N : N = {r.slot : r \in S}
  OBVIOUS
<1>2. PICK a : a = Ascending(N)
  OBVIOUS
<1>3. /\ a \in Seq(N) /\ \A n \in N : \E k \in DOMAIN a : a[k] = n
      /\ \A k, l \in DOMAIN a : a[k] = a[l] => k = l
  <2>1. N \subseteq Numbers
    BY <1>1 DEF Row
  <2> QED
    BY <1>2, <2>1, AscendingFacts
<1>4. q = [k \in DOMAIN a |-> CHOOSE r \in S : r.slot = a[k]]
  BY <1>1, <1>2 DEF InOrder
<1>5. Len(a) \in Nat /\ DOMAIN a = 1 .. Len(a) /\ \A k \in DOMAIN a : a[k] \in N
  BY <1>3
<1>6. \A k \in DOMAIN a : q[k] \in S /\ q[k].slot = a[k]
  <2> TAKE k \in DOMAIN a
  <2>1. \E r \in S : r.slot = a[k]
    BY <1>1, <1>5
  <2> QED
    BY <1>4, <2>1
<1>7. DOMAIN q = DOMAIN a
  BY <1>4
<1>8. q \in Seq(S)
  <2>1. q = [k \in 1 .. Len(a) |-> q[k]]
    BY <1>4, <1>5, <1>7
  <2> QED
    BY <1>5, <1>6, <2>1, IsASeq
<1>9. ASSUME NEW r \in S PROVE \E k \in DOMAIN q : q[k] = r
  <2>1. r.slot \in N
    BY <1>1
  <2>2. PICK k \in DOMAIN a : a[k] = r.slot
    BY <1>3, <2>1
  <2>3. q[k] \in S /\ q[k].slot = r.slot
    BY <1>6, <2>2
  <2>4. q[k] = r
    BY <2>3
  <2> QED
    BY <1>7, <2>2, <2>4
<1>10. \A k, l \in DOMAIN q : q[k] = q[l] => k = l
  BY <1>3, <1>6, <1>7
<1> QED
  BY <1>8, <1>9, <1>10

-----------------------------------------------------------------------------
(* AddItem of several items in turn.                                       *)

Bag == [Goods -> Nat]
AddRec == [bag : Bag, lost : SUBSET Goods]

LEMMA AddItemFacts ==
    ASSUME NEW w \in AddRec, NEW i \in Goods, NEW v, v = AddItem(w, i)
    PROVE  /\ v \in AddRec /\ w.lost \subseteq v.lost
           /\ \A j \in Goods : IF j = i THEN v.bag[j] \in {w.bag[j], w.bag[j] + 1} ELSE v.bag[j] = w.bag[j]
           /\ i \in v.lost \/ v.bag[i] > 0
<1>1. CASE Fits(w.bag, i)
  <2>1. v = [w EXCEPT !.bag[i] = @ + 1]
    BY <1>1 DEF AddItem
  <2>2. v = [bag |-> [w.bag EXCEPT ![i] = @ + 1], lost |-> w.lost]
    BY <2>1 DEF AddRec
  <2> QED
    BY <2>2 DEF AddRec, Bag
<1>2. CASE ~Fits(w.bag, i)
  <2>1. v = [w EXCEPT !.lost = @ \cup {i}]
    BY <1>2 DEF AddItem
  <2>2. v = [bag |-> w.bag, lost |-> w.lost \cup {i}]
    BY <2>1 DEF AddRec
  <2> QED
    BY <2>2 DEF AddRec, Bag
<1> QED
  BY <1>1, <1>2

\* What a player is given of an item: nothing if it is not among the items, one
\* at most if it is once among them; and whatever it is not given is lost.
LEMMA GivenFacts ==
    ASSUME NEW b \in Bag, NEW items \in Seq(Goods), NEW g, g = Given(b, items)
    PROVE  /\ g \in AddRec
           /\ \A i \in Goods : g.bag[i] >= b[i]
           /\ \A n \in DOMAIN items : items[n] \in g.lost \/ g.bag[items[n]] > 0
           /\ \A i \in Goods :
                 /\ (\A n \in DOMAIN items : items[n] # i) => g.bag[i] = b[i]
                 /\ (\A n, m \in DOMAIN items : items[n] = i /\ items[m] = i => n = m)
                       => g.bag[i] <= b[i] + 1
<1> DEFINE start == [bag |-> b, lost |-> {}]
           round == [x \in (1 .. Len(items)) \X AddRec |-> AddItem(x[2], items[x[1]])]
           IsRun(f) == f = [k \in 0 .. Len(items) |->
                              IF k = 0 THEN start ELSE AddItem(f[k-1], items[k])]
<1>1. PICK n \in Nat : n = Len(items) /\ DOMAIN items = 1 .. n
  OBVIOUS
<1>2. start \in AddRec
  BY DEF AddRec
<1>3. ASSUME NEW k \in 1 .. n, NEW w \in AddRec PROVE AddItem(w, items[k]) \in AddRec
  <2>1. items[k] \in Goods
    BY <1>1
  <2> QED
    BY <2>1, AddItemFacts
<1>4. PICK f \in [0 .. n -> AddRec] :
         f[0] = start /\ \A k \in 1 .. n : f[k] = AddItem(f[k-1], items[k])
  <2>1. PICK S : S = AddRec
    OBVIOUS
  <2>2. PICK r : r = round
    OBVIOUS
  <2>3. PICK s : s = start
    OBVIOUS
  <2>4. r \in [(1 .. n) \X S -> S] /\ s \in S
    BY <1>1, <1>2, <1>3, <2>1, <2>2, <2>3
  <2>5. PICK f \in RunsOf(n, S, s, r) : TRUE
    BY <2>4, RunExists
  <2>6. \A k \in 1 .. n : k - 1 \in 0 .. n
    OBVIOUS
  <2> QED
    BY <1>1, <2>1, <2>2, <2>3, <2>5, <2>6 DEF RunsOf
<1>5. IsRun(f)
  <2>1. \A k \in 0 .. n : k = 0 \/ k \in 1 .. n
    OBVIOUS
  <2> HIDE DEF start, round
  <2> QED
    BY <1>1, <1>4, <2>1
<1>6. PICK a : a = CHOOSE q : IsRun(q)
  OBVIOUS
<1>7. IsRun(a)
  <2> HIDE DEF IsRun
  <2> QED
    BY <1>5, <1>6
<1>8. g = a[n]
  BY <1>1, <1>6 DEF Given, InTurn
<1>9. a[0] = start /\ \A k \in 1 .. n : a[k] = AddItem(a[k-1], items[k])
  <2>1. 0 \in 0 .. n /\ \A k \in 1 .. n : k \in 0 .. n /\ k # 0
    OBVIOUS
  <2> QED
    BY <1>1, <1>7, <2>1
<1> HIDE DEF round, IsRun
<1>10. \A k \in 0 .. n : a[k] \in AddRec
  <2> HIDE DEF start
  <2> QED
    BY <1>2, <1>3, <1>9, KeptByRounds
\* What holds after k rounds.
<1> DEFINE Sound(k) ==
             /\ \A i \in Goods : a[k].bag[i] >= b[i]
             /\ \A m \in 1 .. k : items[m] \in a[k].lost \/ a[k].bag[items[m]] > 0
             /\ \A i \in Goods :
                   /\ (\A m \in 1 .. k : items[m] # i) => a[k].bag[i] = b[i]
                   /\ (\A m, o \in 1 .. k : items[m] = i /\ items[o] = i => m = o)
                         => a[k].bag[i] <= b[i] + 1
           Good == {k \in 0 .. n : Sound(k)}
           count == [k \in 0 .. n |-> k]
<1>11. Sound(0)
  <2>1. a[0].bag = b
    BY <1>9
  <2>2. \A i \in Goods : b[i] \in Nat
    BY DEF Bag
  <2> QED
    BY <2>1, <2>2
<1>12. ASSUME NEW k \in 1 .. n, Sound(k - 1) PROVE Sound(k)
  <2>1. PICK w, v, j : w = a[k-1] /\ v = a[k] /\ j = items[k]
    OBVIOUS
  <2>2. k - 1 \in 0 .. n /\ k \in 0 .. n /\ j \in Goods
    BY <1>1, <2>1
  <2>3. w \in AddRec /\ v \in AddRec /\ v = AddItem(w, j)
    BY <1>9, <1>10, <2>1, <2>2
  <2>4. /\ w.lost \subseteq v.lost /\ (j \in v.lost \/ v.bag[j] > 0)
        /\ \A i \in Goods : IF i = j THEN v.bag[i] \in {w.bag[i], w.bag[i] + 1} ELSE v.bag[i] = w.bag[i]
    BY <2>2, <2>3, AddItemFacts
  <2>5. \A i \in Goods : w.bag[i] \in Nat /\ v.bag[i] \in Nat /\ b[i] \in Nat
    BY <2>3 DEF AddRec, Bag
  <2>6. /\ \A i \in Goods : w.bag[i] >= b[i]
        /\ \A m \in 1 .. k - 1 : items[m] \in w.lost \/ w.bag[items[m]] > 0
    BY <1>12, <2>1
  <2>7. \A i \in Goods : v.bag[i] >= w.bag[i] /\ v.bag[i] <= w.bag[i] + 1
    <3> TAKE i \in Goods
    <3>1. PICK x, y \in Nat : x = w.bag[i] /\ y = v.bag[i]
      BY <2>5
    <3>2. y = x \/ y = x + 1
      BY <2>4, <3>1
    <3> QED
      BY <3>1, <3>2
  <2>8. \A m \in 1 .. k : m = k \/ m \in 1 .. k - 1
    OBVIOUS
  <2>9. \A m \in 1 .. k - 1 : m \in 1 .. k /\ m # k /\ items[m] \in Goods
    BY <1>1
  <2>10. \A i \in Goods : v.bag[i] >= b[i]
    BY <2>5, <2>6, <2>7
  <2>11. ASSUME NEW m \in 1 .. k PROVE items[m] \in v.lost \/ v.bag[items[m]] > 0
    <3>1. CASE m = k
      BY <2>1, <2>4, <3>1
    <3>2. CASE m \in 1 .. k - 1
      <4>1. items[m] \in Goods /\ (items[m] \in w.lost \/ w.bag[items[m]] > 0)
        BY <2>6, <2>9, <3>2
      <4> QED
        BY <2>4, <2>5, <2>7, <4>1
    <3> QED
      BY <2>8, <3>1, <3>2
  <2>12. ASSUME NEW i \in Goods, \A m \in 1 .. k : items[m] # i PROVE v.bag[i] = b[i]
    <3>1. k \in 1 .. k /\ \A m \in 1 .. k - 1 : items[m] # i
      BY <2>9, <2>12
    <3>2. i # j
      BY <2>1, <2>12, <3>1
    <3>3. w.bag[i] = b[i]
      BY <1>12, <2>1, <3>1
    <3> QED
      BY <2>4, <3>2, <3>3
  <2>13. ASSUME NEW i \in Goods, \A m, o \in 1 .. k : items[m] = i /\ items[o] = i => m = o
         PROVE  v.bag[i] <= b[i] + 1
    <3>1. CASE i # j
      <4>1. \A m, o \in 1 .. k - 1 : items[m] = i /\ items[o] = i => m = o
        BY <2>9, <2>13
      <4>2. w.bag[i] <= b[i] + 1
        BY <1>12, <2>1, <4>1
      <4> QED
        BY <2>4, <3>1, <4>2
    <3>2. CASE i = j
      <4>1. k \in 1 .. k
        OBVIOUS
      <4>2. \A m \in 1 .. k - 1 : items[m] # i
        BY <2>1, <2>9, <2>13, <3>2, <4>1
      <4>3. w.bag[i] = b[i]
        BY <1>12, <2>1, <4>2
      <4> QED
        BY <2>5, <2>7, <4>3
    <3> QED
      BY <3>1, <3>2
  <2> QED
    BY <2>1, <2>10, <2>11, <2>12, <2>13
<1> HIDE DEF Sound
<1>13. \A k \in 0 .. n : count[k] \in Good
  <2>1. count[0] \in Good
    BY <1>11
  <2>2. ASSUME NEW k \in 1 .. n, count[k-1] \in Good PROVE count[k] \in Good
    <3>1. k - 1 \in 0 .. n /\ k \in 0 .. n
      OBVIOUS
    <3>2. Sound(k - 1)
      BY <2>2, <3>1
    <3> QED
      BY <1>12, <3>1, <3>2
  <2>3. PICK S, c : S = Good /\ c = count
    OBVIOUS
  <2> HIDE DEF Good, count
  <2> QED
    BY <2>1, <2>2, <2>3, KeptByRounds
<1>14. Sound(n) /\ n \in 0 .. n
  BY <1>13
<1> QED
  BY <1>1, <1>8, <1>10, <1>14 DEF Sound

-----------------------------------------------------------------------------
(* The invariant.                                                          *)

Window == [window : {"closed", "in", "out"}, cell : [Shown \cup New -> Entry \cup {Vacant}]]

\* An open send box shows what its owner's rows of box 2 say.
OutAgrees(x, R, p) == x.window = "out" =>
    /\ \A c \in Shown : x.cell[c] # Vacant => \E r \in Sendings(R, p) : r.slot = c
    /\ \A r \in Sendings(R, p) :
          /\ x.cell[r.slot] # Vacant /\ x.cell[r.slot].item = r.item
          /\ ~x.cell[r.slot].seen => ~r.sent

\* What a cell of an open inbox shows is the item of the mail with its number,
\* if there is one and 0x05 has not taken it for another.
InAgrees(x, R, p, mix) == x.window = "in" =>
    \A r \in Mails(R, p) : r.slot \in Shown /\ x.cell[r.slot] # Vacant =>
        \/ r.item = x.cell[r.slot].item
        \/ {r.item, x.cell[r.slot].item} \subseteq mix

\* A row of box 2 that was marked as not sent when the receiver had the mail:
\* the container still has the mark, and the piece is a copy.
Ghost(bx, r) == r.box = 2 /\ bx[r.from].window = "out" /\ bx[r.from].cell[r.slot].sent

\* What the histories say is lost.
Lost == gone \cup forgotten

Counts(r) == r.box = 1 \/ ~r.sent

OnePlace(b, R, i) ==
    /\ \A p \in Players : b[p][i] <= 1 /\ (InRows(R, i) # {} => b[p][i] = 0)
    /\ \A p, q \in Players : b[p][i] > 0 /\ b[q][i] > 0 => p = q
    /\ Single(InRows(R, i))

Somewhere(b, R, bx, i) ==
    \/ \E p \in Players : b[p][i] > 0
    \/ \E r \in InRows(R, i) : ~Ghost(bx, r)

DeliveryInv ==
    /\ TypeOK /\ GoodRows(rows, mails)
    /\ \A p \in Players : OutAgrees(box[p], rows, p) /\ InAgrees(box[p], rows, p, mixed)
    /\ \A i \in Goods : i \in copied \cup mixed \/ OnePlace(bag, rows, i)
    /\ \A i \in Goods : i \in Lost \cup mixed \/ Somewhere(bag, rows, box, i)

LEMMA TypeFacts ==
    ASSUME DeliveryInv
    PROVE  /\ bag \in [Players -> Bag] /\ box \in [Players -> Window] /\ GoodRows(rows, mails)
           /\ rows \subseteq Row /\ OneSending(rows)
           /\ mails \in Nat /\ mails <= MaxMails
           /\ Lost \subseteq Goods /\ copied \subseteq Goods /\ mixed \subseteq Goods
           /\ \A p \in Players : /\ box[p] \in Window /\ bag[p] \in Bag
                                 /\ OutAgrees(box[p], rows, p) /\ InAgrees(box[p], rows, p, mixed)
<1>1. bag \in [Players -> Bag] /\ box \in [Players -> Window]
  BY DEF DeliveryInv, TypeOK, Bag, Window
<1>2. mails \in 0 .. MaxMails /\ Lost \cup copied \cup mixed \subseteq Goods
  BY DEF DeliveryInv, TypeOK, Lost
<1>3. mails \in Nat /\ mails <= MaxMails
  BY <1>2, CellsFacts
<1>4. GoodRows(rows, mails) /\ \A p \in Players : /\ OutAgrees(box[p], rows, p)
                                                /\ InAgrees(box[p], rows, p, mixed)
  BY DEF DeliveryInv
<1>5. rows \subseteq Row /\ OneSending(rows)
  BY <1>4 DEF GoodRows
<1> QED
  BY <1>1, <1>2, <1>3, <1>4, <1>5

LEMMA TypeFrom ==
    ASSUME NEW m, GoodRows(rows', m), bag' \in [Players -> Bag], box' \in [Players -> Window],
           mails' \in 0 .. MaxMails, Lost' \subseteq Goods, copied' \subseteq Goods, mixed' \subseteq Goods
    PROVE  TypeOK'
<1>1. \A r, t \in rows' : <<r.to, r.box, r.slot>> = <<t.to, t.box, t.slot>> => r = t
  BY DEF GoodRows, Keyed
<1> QED
  BY <1>1 DEF TypeOK, GoodRows, Bag, Window, Lost

\* The sendings of q are the same but for their marks, and it has no new mail in
\* a cell.
SameFor(R, T, q) ==
    /\ \A t \in Sendings(T, q) : \E r \in Sendings(R, q) : SameMail(r, t)
    /\ \A r \in Sendings(R, q) : \E t \in Sendings(T, q) : SameMail(r, t)
    /\ \A t \in Mails(T, q) : t.slot \in Shown => t \in R

LEMMA OthersAgree ==
    ASSUME NEW x, NEW R, NEW T, NEW q, SameFor(R, T, q), NEW m, NEW n, m \subseteq n,
           OutAgrees(x, R, q), InAgrees(x, R, q, m)
    PROVE  OutAgrees(x, T, q) /\ InAgrees(x, T, q, n)
<1>1. OutAgrees(x, T, q)
  <2> SUFFICES ASSUME x.window = "out"
               PROVE  /\ \A c \in Shown : x.cell[c] # Vacant => \E r \in Sendings(T, q) : r.slot = c
                      /\ \A r \in Sendings(T, q) :
                            /\ x.cell[r.slot] # Vacant /\ x.cell[r.slot].item = r.item
                            /\ ~x.cell[r.slot].seen => ~r.sent
    BY DEF OutAgrees
  <2>1. \A r : r \in Sendings(R, q) => r.box = 2
    BY DEF Sendings
  <2>2. ASSUME NEW c \in Shown, x.cell[c] # Vacant PROVE \E r \in Sendings(T, q) : r.slot = c
    <3>1. PICK r \in Sendings(R, q) : r.slot = c
      BY <2>2 DEF OutAgrees
    <3>2. PICK t \in Sendings(T, q) : SameMail(r, t)
      BY DEF SameFor
    <3> QED
      BY <2>1, <3>1, <3>2 DEF SameMail
  <2>3. ASSUME NEW t \in Sendings(T, q)
        PROVE  /\ x.cell[t.slot] # Vacant /\ x.cell[t.slot].item = t.item
               /\ ~x.cell[t.slot].seen => ~t.sent
    <3>1. PICK r \in Sendings(R, q) : SameMail(r, t)
      BY DEF SameFor
    <3>2. t.slot = r.slot /\ t.item = r.item /\ t.sent = r.sent
      BY <2>1, <3>1 DEF SameMail
    <3>3. /\ x.cell[r.slot] # Vacant /\ x.cell[r.slot].item = r.item
          /\ ~x.cell[r.slot].seen => ~r.sent
      BY DEF OutAgrees
    <3> QED
      BY <3>2, <3>3
  <2> QED
    BY <2>2, <2>3
<1>2. InAgrees(x, T, q, n)
  BY DEF InAgrees, SameFor, Mails
<1> QED
  BY <1>1, <1>2

\* A step of p that leaves the others' sendings and cells alone.
LEMMA Assemble ==
    ASSUME DeliveryInv, NEW p \in Players, NEW x \in Window, box' = [box EXCEPT ![p] = x],
           bag' \in [Players -> Bag], GoodRows(rows', mails'), mails' \in 0 .. MaxMails,
           Lost' \subseteq Goods, copied' \subseteq Goods, mixed' \subseteq Goods, mixed \subseteq mixed',
           OutAgrees(x, rows', p), InAgrees(x, rows', p, mixed'),
           \A q \in Players : q # p => SameFor(rows, rows', q),
           \A i \in Goods : i \in copied' \cup mixed' \/ OnePlace(bag', rows', i),
           \A i \in Goods : i \in Lost' \cup mixed' \/ Somewhere(bag', rows', box', i)
    PROVE  DeliveryInv'
<1>1. box' \in [Players -> Window] /\ box'[p] = x /\ \A q \in Players : q # p => box'[q] = box[q]
  BY TypeFacts
<1>2. TypeOK'
  BY <1>1, TypeFrom
<1>3. ASSUME NEW q \in Players PROVE OutAgrees(box'[q], rows', q) /\ InAgrees(box'[q], rows', q, mixed')
  <2>1. CASE q = p
    BY <1>1, <2>1
  <2>2. CASE q # p
    <3>1. OutAgrees(box[q], rows, q) /\ InAgrees(box[q], rows, q, mixed)
      BY TypeFacts
    <3>2. box'[q] = box[q] /\ SameFor(rows, rows', q)
      BY <1>1, <2>2
    <3>3. PICK T, m : T = rows' /\ m = mixed'
      OBVIOUS
    <3>4. OutAgrees(box[q], T, q) /\ InAgrees(box[q], T, q, m)
      BY <3>1, <3>2, <3>3, OthersAgree
    <3> QED
      BY <3>2, <3>3, <3>4
  <2> QED
    BY <2>1, <2>2
<1> QED
  BY <1>2, <1>3 DEF DeliveryInv

\* A step of p that removes rows, if any.
LEMMA RowsRemoved ==
    ASSUME DeliveryInv, NEW p \in Players, NEW x \in Window, box' = [box EXCEPT ![p] = x],
           bag' \in [Players -> Bag], rows' \subseteq rows, mails' = mails, mixed' = mixed,
           Lost \subseteq Lost', Lost' \subseteq Goods, copied \subseteq copied', copied' \subseteq Goods,
           OutAgrees(x, rows', p), InAgrees(x, rows', p, mixed),
           \A r \in rows : r \notin rows' /\ r.box = 2 => r.from = p,
           \A i \in Goods : i \notin copied' \cup mixed /\ OnePlace(bag, rows, i) =>
                                OnePlace(bag', rows', i),
           \A q \in Players, i \in Goods : bag'[q][i] >= bag[q][i],
           \A r \in rows : r \notin rows' /\ Counts(r) /\ ~Ghost(box, r) =>
                               r.item \in Lost' \cup mixed \/ \E q \in Players : bag'[q][r.item] > 0,
           \A r \in rows' : Counts(r) /\ r.box = 2 /\ r.from = p /\ Ghost(box', r) => Ghost(box, r)
    PROVE  DeliveryInv'
<1>1. GoodRows(rows', mails') /\ mails' \in 0 .. MaxMails /\ mixed' \subseteq Goods
  BY TypeFacts, FewerRows, CellsFacts
<1>2. ASSUME NEW q \in Players, q # p PROVE SameFor(rows, rows', q)
  <2>1. Sendings(rows', q) = Sendings(rows, q)
    BY <1>2 DEF Sendings
  <2>2. \A r : SameMail(r, r)
    BY DEF SameMail
  <2> QED
    BY <2>1, <2>2 DEF SameFor, Mails
<1>3. ASSUME NEW i \in Goods PROVE i \in copied' \cup mixed' \/ OnePlace(bag', rows', i)
  BY DEF DeliveryInv
<1>4. ASSUME NEW i \in Goods, i \notin Lost' \cup mixed' PROVE Somewhere(bag', rows', box', i)
  <2>1. Somewhere(bag, rows, box, i)
    BY <1>4 DEF DeliveryInv
  <2>2. CASE \E q \in Players : bag[q][i] > 0
    <3>1. PICK q \in Players : bag[q][i] > 0
      BY <2>2
    <3>2. bag'[q][i] >= bag[q][i] /\ bag'[q][i] \in Nat /\ bag[q][i] \in Nat
      BY TypeFacts DEF Bag
    <3>3. bag'[q][i] > 0
      BY <3>1, <3>2
    <3> QED
      BY <3>3 DEF Somewhere
  <2>3. CASE \E r \in InRows(rows, i) : ~Ghost(box, r)
    <3>1. PICK r \in rows : r.item = i /\ Counts(r) /\ ~Ghost(box, r)
      BY <2>3 DEF InRows, Counts
    <3>2. CASE r \notin rows'
      BY <1>4, <3>1, <3>2 DEF Somewhere
    <3>3. CASE r \in rows'
      <4>1. ~Ghost(box', r)
        <5>1. CASE r.from = p
          BY <3>1, <3>3, <5>1 DEF Ghost
        <5>2. CASE r.from # p
          <6>1. r.from \in Players
            BY TypeFacts DEF Row
          <6>2. box'[r.from] = box[r.from]
            BY <5>2, <6>1, TypeFacts
          <6> QED
            BY <3>1, <6>2 DEF Ghost
        <5> QED
          BY <5>1, <5>2
      <4>2. r \in InRows(rows', i)
        BY <3>1, <3>3 DEF InRows, Counts
      <4> QED
        BY <4>1, <4>2 DEF Somewhere
    <3> QED
      BY <3>2, <3>3
  <2> QED
    BY <2>1, <2>2, <2>3 DEF Somewhere
<1> QED
  BY <1>1, <1>2, <1>3, <1>4, Assemble

\* The items come from rows that are removed, each from one of its own.
Backed(R, T, items, i) ==
    /\ T \subseteq R
    /\ \A n \in DOMAIN items : items[n] = i => \E r \in InRows(R, i) : r \notin T
    /\ \A n, m \in DOMAIN items : items[n] = i /\ items[m] = i /\ n # m =>
          \E r, t \in InRows(R, i) : r # t

LEMMA GiveFacts ==
    ASSUME DeliveryInv, NEW p \in Players, NEW items \in Seq(Goods), Give(p, items),
           forgotten \subseteq forgotten', forgotten' \subseteq Goods
    PROVE  /\ bag' \in [Players -> Bag] /\ Lost \subseteq Lost' /\ Lost' \subseteq Goods
           /\ \A q \in Players, i \in Goods : bag'[q][i] >= bag[q][i]
           /\ \A n \in DOMAIN items : items[n] \in Lost' \/ bag'[p][items[n]] > 0
           /\ \A R, T, i : i \in Goods /\ OnePlace(bag, R, i) /\ Backed(R, T, items, i)
                               => OnePlace(bag', T, i)
<1>1. bag \in [Players -> Bag] /\ bag[p] \in Bag /\ Lost \subseteq Goods
  BY TypeFacts
<1>2. PICK g : g = Given(bag[p], items)
  OBVIOUS
<1>3. /\ g \in AddRec
      /\ \A i \in Goods : g.bag[i] >= bag[p][i]
      /\ \A n \in DOMAIN items : items[n] \in g.lost \/ g.bag[items[n]] > 0
      /\ \A i \in Goods :
            /\ (\A n \in DOMAIN items : items[n] # i) => g.bag[i] = bag[p][i]
            /\ (\A n, m \in DOMAIN items : items[n] = i /\ items[m] = i => n = m)
                  => g.bag[i] <= bag[p][i] + 1
  BY <1>1, <1>2, GivenFacts
<1>4. /\ bag' = [bag EXCEPT ![p] = g.bag] /\ g.lost \subseteq Lost'
      /\ Lost \subseteq Lost' /\ Lost' \subseteq Goods
  <2>1. bag' = [bag EXCEPT ![p] = g.bag] /\ gone' = gone \cup g.lost
    BY <1>2 DEF Give
  <2>2. g.lost \subseteq Goods /\ gone \subseteq Goods
    BY <1>1, <1>3 DEF AddRec, Lost
  <2> QED
    BY <2>1, <2>2 DEF Lost
<1>5. g.bag \in Bag /\ g.lost \subseteq Goods
  BY <1>3 DEF AddRec
<1>6. /\ bag' \in [Players -> Bag] /\ bag'[p] = g.bag
      /\ \A q \in Players : q # p => bag'[q] = bag[q]
  BY <1>1, <1>4, <1>5
<1>7. \A q \in Players, i \in Goods : bag[q][i] \in Nat /\ bag'[q][i] \in Nat
  BY <1>1, <1>6 DEF Bag
<1>8. \A q \in Players, i \in Goods : bag'[q][i] >= bag[q][i]
  <2> TAKE q \in Players, i \in Goods
  <2>1. CASE q = p
    BY <1>3, <1>6, <2>1
  <2>2. CASE q # p
    BY <1>6, <1>7, <2>2
  <2> QED
    BY <2>1, <2>2
<1>9. \A n \in DOMAIN items : items[n] \in Lost' \/ bag'[p][items[n]] > 0
  BY <1>3, <1>4, <1>6
<1>10. ASSUME NEW R, NEW T, NEW i \in Goods, OnePlace(bag, R, i), Backed(R, T, items, i)
       PROVE  OnePlace(bag', T, i)
  <2>1. InRows(T, i) \subseteq InRows(R, i)
    BY <1>10 DEF Backed, InRows
  <2>2. Single(InRows(R, i)) /\ Single(InRows(T, i))
    BY <1>10, <2>1 DEF OnePlace, Single
  <2>3. CASE \A n \in DOMAIN items : items[n] # i
    <3>1. \A q \in Players : bag'[q][i] = bag[q][i]
      BY <1>3, <1>6, <2>3
    <3> QED
      BY <1>10, <2>1, <2>2, <3>1 DEF OnePlace
  <2>4. CASE \E n \in DOMAIN items : items[n] = i
    <3>1. PICK n \in DOMAIN items : items[n] = i
      BY <2>4
    <3>2. PICK r \in InRows(R, i) : r \notin T
      BY <1>10, <3>1 DEF Backed
    <3>3. InRows(T, i) = {}
      BY <2>1, <2>2, <3>2 DEF Single, InRows
    <3>4. \A q \in Players : bag[q][i] = 0
      BY <1>10, <3>2 DEF OnePlace
    <3>5. \A m, o \in DOMAIN items : items[m] = i /\ items[o] = i => m = o
      BY <1>10, <2>2 DEF Backed, Single
    <3>6. g.bag[i] <= 1
      BY <1>3, <3>4, <3>5
    <3>7. \A q \in Players : IF q = p THEN bag'[q][i] <= 1 ELSE bag'[q][i] = 0
      BY <1>6, <3>4, <3>6
    <3>8. \A q \in Players : bag'[q][i] <= 1 /\ (bag'[q][i] > 0 => q = p)
      BY <1>7, <3>7
    <3> QED
      BY <2>2, <3>3, <3>8 DEF OnePlace
  <2> QED
    BY <2>3, <2>4
<1> QED
  BY <1>1, <1>4, <1>5, <1>6, <1>8, <1>9, <1>10

ForgottenGrows == forgotten \subseteq forgotten' /\ forgotten' \subseteq Goods

\* p is given what is in rows that are removed.
LEMMA RowsGiven ==
    ASSUME DeliveryInv, NEW p \in Players, NEW x \in Window, box' = [box EXCEPT ![p] = x],
           NEW items \in Seq(Goods), Give(p, items), rows' \subseteq rows,
           ForgottenGrows,
           mails' = mails, mixed' = mixed, copied \subseteq copied', copied' \subseteq Goods,
           OutAgrees(x, rows', p), InAgrees(x, rows', p, mixed),
           \A r \in rows : r \notin rows' /\ r.box = 2 => r.from = p,
           \A i \in Goods : i \notin copied' \cup mixed => Backed(rows, rows', items, i),
           \A r \in rows : r \notin rows' /\ Counts(r) /\ ~Ghost(box, r) =>
                               r.item \in forgotten' \cup mixed \/ \E n \in DOMAIN items : items[n] = r.item,
           \A r \in rows' : Counts(r) /\ r.box = 2 /\ r.from = p /\ Ghost(box', r) => Ghost(box, r)
    PROVE  DeliveryInv'
<1>1. /\ bag' \in [Players -> Bag] /\ Lost \subseteq Lost' /\ Lost' \subseteq Goods
      /\ \A q \in Players, i \in Goods : bag'[q][i] >= bag[q][i]
      /\ \A n \in DOMAIN items : items[n] \in Lost' \/ bag'[p][items[n]] > 0
      /\ \A R, T, i : i \in Goods /\ OnePlace(bag, R, i) /\ Backed(R, T, items, i)
                          => OnePlace(bag', T, i)
  BY GiveFacts DEF ForgottenGrows
<1>2. \A i \in Goods : i \notin copied' \cup mixed /\ OnePlace(bag, rows, i) =>
                           OnePlace(bag', rows', i)
  BY <1>1
<1>3. \A r \in rows : r \notin rows' /\ Counts(r) /\ ~Ghost(box, r) =>
                          r.item \in Lost' \cup mixed \/ \E q \in Players : bag'[q][r.item] > 0
  BY <1>1 DEF Lost
<1> QED
  BY <1>1, <1>2, <1>3, RowsRemoved

\* Windows that are opened, closed, and of which one cell changes.
LEMMA ClosedFacts ==
    Closed \in Window /\ Closed.window = "closed"
    /\ \A R, p, m : OutAgrees(Closed, R, p) /\ InAgrees(Closed, R, p, m)
BY DEF Closed, Window, OutAgrees, InAgrees

LEMMA PutFacts ==
    ASSUME DeliveryInv, NEW p \in Players, NEW c \in Shown, NEW e \in Entry \cup {Vacant}, Put(p, c, e)
    PROVE  \E x \in Window :
              /\ box' = [box EXCEPT ![p] = x] /\ x.window = box[p].window /\ x.cell[c] = e
              /\ \A d \in Shown : d # c => x.cell[d] = box[p].cell[d]
<1>1. PICK y : y = box[p]
  OBVIOUS
<1>2. y \in Window
  BY <1>1, TypeFacts
<1>3. PICK x : x = [window |-> y.window, cell |-> [y.cell EXCEPT ![c] = e]]
  OBVIOUS
<1>4. y = [window |-> y.window, cell |-> y.cell]
  BY <1>2 DEF Window
<1>5. x = [y EXCEPT !.cell = [@ EXCEPT ![c] = e]]
  BY <1>3, <1>4
<1>6. box' = [box EXCEPT ![p] = x]
  <2>1. x = [box[p] EXCEPT !.cell = [box[p].cell EXCEPT ![c] = e]]
    BY <1>1, <1>5
  <2> QED
    BY <2>1, Zenon DEF Put
<1>7. y.cell \in [Shown \cup New -> Entry \cup {Vacant}] /\ y.window \in {"closed", "in", "out"}
  BY <1>2 DEF Window
<1>8. x \in Window
  BY <1>3, <1>7 DEF Window
<1>9. x.window = y.window /\ x.cell[c] = e /\ \A d \in Shown : d # c => x.cell[d] = y.cell[d]
  BY <1>3, <1>7
<1> QED
  BY <1>1, <1>6, <1>8, <1>9

LEMMA OpenedFacts ==
    ASSUME NEW w \in {"in", "out"}, NEW S, S \subseteq Row, \A r, t \in S : r.slot = t.slot => r = t,
           NEW y, y = Opened(w, S)
    PROVE  /\ y \in Window /\ y.window = w
           /\ \A c \in Shown : y.cell[c] # Vacant => \E r \in S : r.slot = c
           /\ \A r \in S : r.slot \in Shown => /\ y.cell[r.slot] # Vacant
                                               /\ y.cell[r.slot].item = r.item
                                               /\ y.cell[r.slot].seen = (w = "out")
<1> DEFINE entry(r) == [item |-> r.item, at |-> r.slot, with |-> IF w = "in" THEN r.from ELSE r.to,
                        sent |-> w = "out", seen |-> w = "out"]
           at(c) == CHOOSE r \in S : r.slot = c
<1>1. y.window = w
  BY DEF Opened
<1>2. y = [window |-> w, cell |-> [c \in Shown \cup New |->
              IF \E r \in S : r.slot = c THEN entry(at(c)) ELSE Vacant]]
  BY DEF Opened
<1>3. \A r \in S : entry(r) \in Entry
  BY DEF Entry, Row
<1>4. \A c : (\E r \in S : r.slot = c) => at(c) \in S /\ at(c).slot = c
  OBVIOUS
<1>5. \A r \in S : at(r.slot) = r
  BY <1>4
<1>6. \A r \in S : entry(r).item = r.item /\ entry(r).seen = (w = "out")
  OBVIOUS
<1> HIDE DEF entry, at
<1>7. y \in Window
  BY <1>2, <1>3, <1>4 DEF Window
<1>8. \A c \in Shown : y.cell[c] # Vacant => \E r \in S : r.slot = c
  BY <1>2
<1>9. \A r \in S : r.slot \in Shown => y.cell[r.slot] = entry(r)
  BY <1>2, <1>5
<1>10. \A r \in S : entry(r) # Vacant
  BY <1>3, EntryIsNotVacant
<1> QED
  BY <1>1, <1>6, <1>7, <1>8, <1>9, <1>10

-----------------------------------------------------------------------------
(* The sender's window.                                                    *)

\* Whatever is recovered before the window is opened or the player arrives.
LEMMA RecoverKeeps ==
    ASSUME DeliveryInv, NEW p \in Players, NEW x \in Window, box' = [box EXCEPT ![p] = x],
           Recover(p), rows' = rows \ Unsent(rows, p), UNCHANGED <<mails, copied, mixed>>,
           OutAgrees(x, rows', p), InAgrees(x, rows', p, mixed)
    PROVE  DeliveryInv'
<1>1. PICK S : S = Unsent(rows, p)
  OBVIOUS
<1>2. S \subseteq rows /\ S \subseteq Row /\ \A r \in S : r.box = 2 /\ r.from = p /\ ~r.sent
  BY <1>1, TypeFacts DEF Unsent, Sendings
<1>3. \A r, t \in S : r.slot = t.slot => r = t
  BY <1>2, TypeFacts DEF OneSending
<1>4. PICK fitting : fitting = {r \in S : Fits(bag[p], r.item)}
  OBVIOUS
<1>5. PICK read : read = {r \in S : \A f \in fitting : r.slot <= f.slot}
  OBVIOUS
<1>6. read \subseteq S
  BY <1>5
<1>7. PICK back : back = InOrder(read)
  OBVIOUS
<1>8. /\ back \in Seq(read) /\ \A r \in read : \E k \in DOMAIN back : back[k] = r
      /\ \A k, l \in DOMAIN back : back[k] = back[l] => k = l
  BY <1>2, <1>3, <1>7, <1>6, InOrderFacts
<1>9. Len(back) \in Nat /\ DOMAIN back = 1 .. Len(back) /\ \A n \in DOMAIN back : back[n] \in S
  BY <1>8, <1>6
<1>10. PICK items : items = [n \in DOMAIN back |-> back[n].item]
  OBVIOUS
<1>11. DOMAIN items = DOMAIN back /\ \A n \in DOMAIN back : items[n] = back[n].item
  BY <1>10
<1>12. items \in Seq(Goods)
  <2>1. \A n \in 1 .. Len(back) : items[n] \in Goods
    BY <1>2, <1>9, <1>11 DEF Row
  <2>2. items = [n \in 1 .. Len(back) |-> items[n]]
    BY <1>9, <1>10
  <2> QED
    BY <1>9, <2>1, <2>2, IsASeq
<1>13. Give(p, items) /\ forgotten' = forgotten \cup {r.item : r \in S \ read}
  BY <1>1, <1>7, <1>10, <1>4, <1>5 DEF Recover
<1>14. rows' = rows \ S
  BY <1>1
<1>15. ASSUME NEW i PROVE Backed(rows, rows', items, i)
  <2>1. \A n \in DOMAIN items : items[n] = i => back[n] \in InRows(rows, i) /\ back[n] \notin rows'
    BY <1>2, <1>9, <1>11, <1>14 DEF InRows
  <2>2. \A n, m \in DOMAIN items : n # m => back[n] # back[m]
    BY <1>8, <1>11
  <2> QED
    BY <1>14, <2>1, <2>2 DEF Backed
<1>16. ASSUME NEW r \in rows, r \notin rows'
       PROVE  r.item \in forgotten' \/ \E n \in DOMAIN items : items[n] = r.item
  <2>1. r \in S
    BY <1>14, <1>16
  <2>2. CASE r \in read
    <3>1. PICK k \in DOMAIN back : back[k] = r
      BY <1>8, <2>2
    <3> QED
      BY <1>11, <3>1
  <2>3. CASE r \notin read
    BY <1>13, <2>1, <2>3
  <2> QED
    BY <2>2, <2>3
<1>17. mails' = mails /\ mixed' = mixed /\ copied \subseteq copied' /\ copied' \subseteq Goods
  BY TypeFacts
<1>18. \A r \in rows : r \notin rows' /\ r.box = 2 => r.from = p
  BY <1>2, <1>14
<1>19. \A i \in Goods : i \notin copied' \cup mixed => Backed(rows, rows', items, i)
  BY <1>15
<1>20. \A r \in rows : r \notin rows' /\ Counts(r) /\ ~Ghost(box, r) =>
                            r.item \in forgotten' \cup mixed \/ \E n \in DOMAIN items : items[n] = r.item
  BY <1>16
<1>21. \A r \in rows' : Counts(r) /\ r.box = 2 /\ r.from = p /\ Ghost(box', r) => Ghost(box, r)
  BY <1>1, <1>14 DEF Unsent, Sendings, Counts
<1>22. rows' \subseteq rows
  BY <1>14
<1>23. ForgottenGrows
  <2>1. forgotten \subseteq Goods
    BY TypeFacts DEF Lost
  <2> QED
    BY <1>2, <1>13, <2>1 DEF Row, ForgottenGrows
<1>24. Give(p, items)
  BY <1>13
<1> QED
  BY <1>12, <1>24, <1>17, <1>18, <1>19, <1>20, <1>21, <1>22, <1>23, RowsGiven

LEMMA OpenSendBoxStep ==
    ASSUME DeliveryInv, NEW p \in Players, OpenSendBox(p)
    PROVE  DeliveryInv'
<1>1. PICK S : S = Sendings(rows', p)
  OBVIOUS
<1>2. PICK x : x = Opened("out", S)
  OBVIOUS
<1>3. rows' = rows \ Unsent(rows, p) /\ box' = [box EXCEPT ![p] = x] /\ Recover(p)
      /\ UNCHANGED <<mails, copied, mixed>>
  BY <1>1, <1>2 DEF OpenSendBox
<1>4. /\ S \subseteq Row /\ \A r, t \in S : r.slot = t.slot => r = t
      /\ \A r \in S : r.slot \in Shown /\ r.sent
  <2>1. \A r \in S : r \in rows /\ r.box = 2 /\ r.from = p /\ r.sent
    BY <1>1, <1>3 DEF Sendings, Unsent
  <2> QED
    BY <2>1, TypeFacts DEF OneSending, GoodRows, Numbered
<1>5. /\ x \in Window /\ x.window = "out"
      /\ \A c \in Shown : x.cell[c] # Vacant => \E r \in S : r.slot = c
      /\ \A r \in S : r.slot \in Shown => /\ x.cell[r.slot] # Vacant
                                          /\ x.cell[r.slot].item = r.item
                                          /\ x.cell[r.slot].seen = ("out" = "out")
  BY <1>2, <1>4, OpenedFacts
<1>6. OutAgrees(x, rows', p)
  BY <1>1, <1>4, <1>5 DEF OutAgrees
<1>7. InAgrees(x, rows', p, mixed)
  BY <1>5 DEF InAgrees
<1> QED
  BY <1>3, <1>5, <1>6, <1>7, RecoverKeeps

LEMMA ZoneInStep ==
    ASSUME DeliveryInv, NEW p \in Players, ZoneIn(p)
    PROVE  DeliveryInv'
<1>1. box' = [box EXCEPT ![p] = Closed] /\ UNCHANGED <<copied, mixed>>
  BY DEF ZoneIn
<1>2. Closed \in Window /\ OutAgrees(Closed, rows', p) /\ InAgrees(Closed, rows', p, mixed)
  BY ClosedFacts
<1>3. CASE Recover(p) /\ rows' = rows \ Unsent(rows, p) /\ UNCHANGED mails
  BY <1>1, <1>2, <1>3, RecoverKeeps
<1>4. CASE mails < MaxMails /\ mails' = mails + 1 /\ UNCHANGED <<bag, rows, gone, forgotten>>
  <2>1. bag' = bag /\ rows' = rows /\ Lost' = Lost /\ copied' = copied /\ mixed' = mixed
    BY <1>1, <1>4 DEF Lost
  <2>2. GoodRows(rows', mails')
    BY <1>4, <2>1, TypeFacts, LaterNumbers
  <2>3. \A q \in Players : q # p => SameFor(rows, rows', q)
    BY <2>1 DEF SameFor, SameMail, Mails
  <2>4. \A i \in Goods : Somewhere(bag, rows, box, i) => Somewhere(bag', rows', box', i)
    <3>1. \A q \in Players : box'[q] = Closed \/ box'[q] = box[q]
      BY <1>1, TypeFacts
    <3>2. \A r \in rows : Ghost(box', r) => Ghost(box, r)
      BY <3>1, TypeFacts, ClosedFacts DEF Ghost, Row
    <3> QED
      BY <2>1, <3>2 DEF Somewhere, InRows
  <2>5. /\ \A i \in Goods : i \in copied' \cup mixed' \/ OnePlace(bag', rows', i)
        /\ \A i \in Goods : i \in Lost' \cup mixed' \/ Somewhere(bag', rows', box', i)
    BY <2>1, <2>4 DEF DeliveryInv
  <2>6. /\ bag' \in [Players -> Bag] /\ mails' \in 0 .. MaxMails /\ mixed \subseteq mixed'
        /\ Lost' \subseteq Goods /\ copied' \subseteq Goods /\ mixed' \subseteq Goods
    BY <1>4, <2>1, TypeFacts, CellsFacts
  <2>7. InAgrees(Closed, rows', p, mixed')
    BY <1>2, <2>1
  <2> QED
    BY <1>1, <1>2, <2>2, <2>3, <2>5, <2>6, <2>7, Assemble
<1> QED
  BY <1>3, <1>4 DEF ZoneIn

LEMMA CloseSendBoxStep ==
    ASSUME DeliveryInv, NEW p \in Players, CloseSendBox(p)
    PROVE  DeliveryInv'
<1>1. PICK x : x = box[p]
  OBVIOUS
<1>2. x \in Window /\ x.window = "out" /\ OutAgrees(x, rows, p)
  BY <1>1, TypeFacts DEF CloseSendBox
<1>3. PICK cells : cells = {c \in Shown : x.cell[c] # Vacant /\ ~x.cell[c].sent}
  OBVIOUS
<1>4. PICK back : back = Ascending(cells)
  OBVIOUS
<1>5. PICK items : items = [n \in DOMAIN back |-> x.cell[back[n]].item]
  OBVIOUS
<1>6. PICK U : U = Unsent(rows, p)
  OBVIOUS
<1>7. PICK twice : twice = {x.cell[c].item : c \in {c \in cells : ~\E r \in U : r.slot = c}}
  OBVIOUS
<1>8. /\ Give(p, items) /\ rows' = rows \ U /\ box' = [box EXCEPT ![p] = Closed]
      /\ copied' = copied \cup twice /\ mails' = mails /\ mixed' = mixed
      /\ forgotten' = forgotten
  BY <1>1, <1>3, <1>4, <1>5, <1>6, <1>7 DEF CloseSendBox
<1>9. \A c \in cells : c \in Shown /\ x.cell[c] \in Entry /\ x.cell[c].item \in Goods
  BY <1>2, <1>3 DEF Window, Entry
<1>10. /\ back \in Seq(cells) /\ \A c \in cells : \E k \in DOMAIN back : back[k] = c
       /\ \A k, l \in DOMAIN back : back[k] = back[l] => k = l
  BY <1>4, <1>9, CellsFacts, AscendingFacts
<1>11. Len(back) \in Nat /\ DOMAIN back = 1 .. Len(back) /\ \A n \in DOMAIN back : back[n] \in cells
  BY <1>10
<1>12. DOMAIN items = DOMAIN back /\ \A n \in DOMAIN back : items[n] = x.cell[back[n]].item
  BY <1>5
<1>13. items \in Seq(Goods)
  <2>1. \A n \in 1 .. Len(back) : items[n] \in Goods
    BY <1>9, <1>11, <1>12
  <2>2. items = [n \in 1 .. Len(back) |-> items[n]]
    BY <1>5, <1>11
  <2> QED
    BY <1>11, <2>1, <2>2, IsASeq
<1>14. \A r \in U : /\ r \in rows /\ r \in Sendings(rows, p) /\ r.box = 2 /\ r.from = p /\ ~r.sent
                    /\ r.slot \in Shown
                    /\ x.cell[r.slot] # Vacant /\ x.cell[r.slot].item = r.item
  <2> TAKE r \in U
  <2>1. r \in rows /\ r \in Sendings(rows, p) /\ r.box = 2 /\ r.from = p /\ ~r.sent
    BY <1>6 DEF Unsent, Sendings
  <2>2. r.slot \in Shown
    BY <2>1, TypeFacts DEF GoodRows, Numbered
  <2> QED
    BY <1>2, <2>1, <2>2 DEF OutAgrees
\* An item that is not known to be copied comes from an unsent row of its cell.
<1>15. ASSUME NEW i \in Goods, i \notin copied' \cup mixed PROVE Backed(rows, rows', items, i)
  <2>1. ASSUME NEW n \in DOMAIN items, items[n] = i
        PROVE  \E r \in U : r.slot = back[n] /\ r \in InRows(rows, i)
    <3>1. back[n] \in cells /\ x.cell[back[n]].item = i
      BY <1>11, <1>12, <2>1
    <3>2. i \notin twice
      BY <1>8, <1>15
    <3>3. PICK r \in U : r.slot = back[n]
      BY <1>7, <3>1, <3>2
    <3> QED
      BY <1>14, <3>1, <3>3 DEF InRows
  <2>2. \A n, m \in DOMAIN items : n # m => back[n] # back[m]
    BY <1>10, <1>12
  <2>3. \A n, m \in DOMAIN items : items[n] = i /\ items[m] = i /\ n # m =>
           \E r, t \in InRows(rows, i) : r # t
    BY <2>1, <2>2
  <2> QED
    BY <1>8, <2>1, <2>3 DEF Backed
<1>16. ASSUME NEW r \in rows, r \notin rows', ~Ghost(box, r)
       PROVE  \E n \in DOMAIN items : items[n] = r.item
  <2>1. r \in U
    BY <1>8, <1>16
  <2>2. r.slot \in cells
    BY <1>1, <1>2, <1>3, <1>14, <1>16, <2>1 DEF Ghost
  <2>3. PICK k \in DOMAIN back : back[k] = r.slot
    BY <1>10, <2>2
  <2> QED
    BY <1>12, <1>14, <2>1, <2>3
<1>17. \A r \in rows' : Counts(r) /\ r.box = 2 /\ r.from = p /\ Ghost(box', r) => Ghost(box, r)
  BY <1>6, <1>8 DEF Unsent, Sendings, Counts
<1>18. \A r \in rows : r \notin rows' /\ r.box = 2 => r.from = p
  BY <1>8, <1>14
<1>19. Closed \in Window /\ OutAgrees(Closed, rows', p) /\ InAgrees(Closed, rows', p, mixed)
  BY ClosedFacts
<1>20. copied \subseteq copied' /\ copied' \subseteq Goods /\ rows' \subseteq rows
  BY <1>7, <1>8, <1>9, TypeFacts
<1>21. \A i \in Goods : i \notin copied' \cup mixed => Backed(rows, rows', items, i)
  BY <1>15
<1>22. \A r \in rows : r \notin rows' /\ Counts(r) /\ ~Ghost(box, r) =>
                            r.item \in forgotten' \cup mixed \/ \E n \in DOMAIN items : items[n] = r.item
  BY <1>16
<1>23. ForgottenGrows
  BY <1>8, TypeFacts DEF Lost, ForgottenGrows
<1>24. Give(p, items) /\ box' = [box EXCEPT ![p] = Closed] /\ mails' = mails /\ mixed' = mixed
  BY <1>8
<1> QED
  BY <1>24, <1>13, <1>17, <1>18, <1>19, <1>20, <1>21, <1>22, <1>23, RowsGiven

LEMMA TakeBackStep ==
    ASSUME DeliveryInv, NEW p \in Players, NEW c \in Shown, TakeBack(p, c)
    PROVE  DeliveryInv'
<1>1. PICK y : y = box[p]
  OBVIOUS
<1>2. y \in Window /\ y.window = "out" /\ y.cell[c] # Vacant /\ ~y.cell[c].seen
      /\ OutAgrees(y, rows, p)
  BY <1>1, TypeFacts DEF TakeBack, Has
<1>3. \A r \in Sendings(rows, p) : r \in rows /\ r.box = 2 /\ r.from = p
  BY DEF Sendings
<1>4. \E r \in Unsent(rows, p) : r.slot = c
  BY <1>2 DEF OutAgrees, Unsent
<1>5. PICK items : items = <<y.cell[c].item>>
  OBVIOUS
<1>6. PICK x \in Window : /\ box' = [box EXCEPT ![p] = x] /\ x.window = "out" /\ x.cell[c] = Vacant
                         /\ \A d \in Shown : d # c => x.cell[d] = y.cell[d]
  BY <1>1, <1>2, PutFacts DEF TakeBack
<1>7. PICK r \in Unsent(rows, p) : r.slot = c /\ rows' = rows \ {r} /\ Give(p, items)
  BY <1>1, <1>4, <1>5 DEF TakeBack
<1>8. box' = [box EXCEPT ![p] = x] /\ mails' = mails /\ copied' = copied /\ mixed' = mixed
      /\ forgotten' = forgotten
  BY <1>6 DEF TakeBack
<1>9. /\ x \in Window /\ x.window = "out" /\ x.cell[c] = Vacant
      /\ \A d \in Shown : d # c => x.cell[d] = y.cell[d]
  BY <1>6
<1>10. r \in Sendings(rows, p) /\ r \in rows /\ r \in Row /\ r.box = 2 /\ r.from = p /\ ~r.sent
  BY <1>3, <1>7, TypeFacts DEF Unsent
<1>11. y.cell[c].item = r.item
  BY <1>2, <1>7, <1>10 DEF OutAgrees
<1>12. items \in Seq(Goods) /\ DOMAIN items = {1} /\ items[1] = r.item
  BY <1>5, <1>10, <1>11 DEF Row
<1>13. \A t \in Sendings(rows, p) : t.slot \in Shown /\ (t.slot = c => t = r)
  <2> TAKE t \in Sendings(rows, p)
  <2>1. t.slot \in Shown
    BY <1>3, TypeFacts DEF GoodRows, Numbered
  <2>2. t.slot = c => t = r
    BY <1>3, <1>7, <1>10, TypeFacts DEF OneSending
  <2> QED
    BY <2>1, <2>2
<1>14. Sendings(rows', p) = Sendings(rows, p) \ {r}
  BY <1>7 DEF Sendings
<1>15. OutAgrees(x, rows', p)
  <2>1. ASSUME NEW d \in Shown, x.cell[d] # Vacant PROVE \E t \in Sendings(rows', p) : t.slot = d
    <3>1. d # c /\ y.cell[d] # Vacant
      BY <1>9, <2>1
    <3> QED
      BY <1>2, <1>7, <1>14, <3>1 DEF OutAgrees
  <2>2. ASSUME NEW t \in Sendings(rows', p)
        PROVE  /\ x.cell[t.slot] # Vacant /\ x.cell[t.slot].item = t.item
               /\ ~x.cell[t.slot].seen => ~t.sent
    <3>1. t \in Sendings(rows, p) /\ t.slot \in Shown /\ t.slot # c
      BY <1>13, <1>14
    <3> QED
      BY <1>2, <1>9, <3>1 DEF OutAgrees
  <2> QED
    BY <2>1, <2>2 DEF OutAgrees
<1>16. InAgrees(x, rows', p, mixed)
  BY <1>9 DEF InAgrees
<1>17. \A i \in Goods : i \notin copied' \cup mixed => Backed(rows, rows', items, i)
  BY <1>7, <1>10, <1>12 DEF Backed, InRows
<1>18. \A t \in rows : t \notin rows' => t = r
  BY <1>7
<1>19. \A t \in rows : t \notin rows' /\ t.box = 2 => t.from = p
  BY <1>10, <1>18
<1>20. \A t \in rows : t \notin rows' /\ Counts(t) /\ ~Ghost(box, t) =>
                           t.item \in forgotten' \cup mixed \/ \E n \in DOMAIN items : items[n] = t.item
  BY <1>12, <1>18
<1>21. \A t \in rows' : Counts(t) /\ t.box = 2 /\ t.from = p /\ Ghost(box', t) => Ghost(box, t)
  <2> SUFFICES ASSUME NEW t \in rows', t.box = 2, t.from = p, Ghost(box', t) PROVE Ghost(box, t)
    OBVIOUS
  <2>1. t \in Sendings(rows, p) /\ t # r
    BY <1>7 DEF Sendings
  <2>2. t.slot \in Shown /\ t.slot # c
    BY <1>13, <2>1
  <2>3. box'[p] = x
    BY <1>8, TypeFacts
  <2> QED
    BY <1>1, <1>2, <1>9, <2>2, <2>3 DEF Ghost
<1>22. copied \subseteq copied' /\ copied' \subseteq Goods /\ rows' \subseteq rows
  BY <1>7, <1>8, TypeFacts
<1>23. ForgottenGrows
  BY <1>8, TypeFacts DEF Lost, ForgottenGrows
<1> QED
  BY <1>7, <1>8, <1>9, <1>12, <1>15, <1>16, <1>17, <1>19, <1>20, <1>21, <1>22, <1>23, RowsGiven

LEMMA ClearStep ==
    ASSUME DeliveryInv, NEW p \in Players, Clear(p)
    PROVE  DeliveryInv'
<1>1. PICK y : y = box[p]
  OBVIOUS
<1>2. PICK marked : marked = {c \in Shown : Has(p, "out", c) /\ box[p].cell[c].sent}
  OBVIOUS
<1>3. PICK c : c = Min(marked)
  OBVIOUS
<1>4. c \in marked
  <2>1. marked \in SUBSET Nat /\ marked # {}
    BY <1>2, CellsFacts DEF Clear
  <2> QED
    BY <1>3, <2>1, MinOfNaturals
<1>5. c \in Shown /\ y \in Window /\ y.window = "out" /\ y.cell[c] # Vacant /\ y.cell[c].sent
      /\ OutAgrees(y, rows, p)
  BY <1>1, <1>2, <1>4, TypeFacts DEF Has
<1>6. PICK r \in Sendings(rows, p) : r.slot = c /\ rows' = rows \ {r}
  BY <1>2, <1>3 DEF Clear
<1>7. PICK x \in Window : /\ box' = [box EXCEPT ![p] = x] /\ x.window = "out" /\ x.cell[c] = Vacant
                         /\ \A d \in Shown : d # c => x.cell[d] = y.cell[d]
  <2>1. Put(p, c, Vacant)
    BY <1>2, <1>3 DEF Clear
  <2> QED
    BY <1>1, <1>5, <2>1, PutFacts
<1>8. /\ box' = [box EXCEPT ![p] = x] /\ mails' = mails /\ copied' = copied /\ mixed' = mixed
      /\ bag' = bag /\ Lost' = Lost
  BY <1>7 DEF Clear, Lost
<1>9. /\ x \in Window /\ x.window = "out" /\ x.cell[c] = Vacant
      /\ \A d \in Shown : d # c => x.cell[d] = y.cell[d]
  BY <1>7
<1>10. \A t \in Sendings(rows, p) : t \in rows /\ t.box = 2 /\ t.from = p
  BY DEF Sendings
<1>11. \A t \in Sendings(rows, p) : t.slot \in Shown /\ (t.slot = c => t = r)
  <2> TAKE t \in Sendings(rows, p)
  <2>1. t.slot \in Shown
    BY <1>10, TypeFacts DEF GoodRows, Numbered
  <2>2. t.slot = c => t = r
    BY <1>6, <1>10, TypeFacts DEF OneSending
  <2> QED
    BY <2>1, <2>2
<1>12. Sendings(rows', p) = Sendings(rows, p) \ {r}
  BY <1>6 DEF Sendings
<1>13. OutAgrees(x, rows', p)
  <2>1. ASSUME NEW d \in Shown, x.cell[d] # Vacant PROVE \E t \in Sendings(rows', p) : t.slot = d
    <3>1. d # c /\ y.cell[d] # Vacant
      BY <1>9, <2>1
    <3> QED
      BY <1>5, <1>6, <1>12, <3>1 DEF OutAgrees
  <2>2. ASSUME NEW t \in Sendings(rows', p)
        PROVE  /\ x.cell[t.slot] # Vacant /\ x.cell[t.slot].item = t.item
               /\ ~x.cell[t.slot].seen => ~t.sent
    <3>1. t \in Sendings(rows, p) /\ t.slot \in Shown /\ t.slot # c
      BY <1>11, <1>12
    <3> QED
      BY <1>5, <1>9, <3>1 DEF OutAgrees
  <2> QED
    BY <2>1, <2>2 DEF OutAgrees
<1>14. InAgrees(x, rows', p, mixed)
  BY <1>9 DEF InAgrees
<1>15. \A t \in rows : t \notin rows' => t = r
  BY <1>6
<1>16. \A t \in rows : t \notin rows' /\ t.box = 2 => t.from = p
  BY <1>10, <1>15
<1>17. \A t \in rows : t \notin rows' /\ Counts(t) /\ ~Ghost(box, t) =>
                           t.item \in Lost' \cup mixed \/ \E q \in Players : bag'[q][t.item] > 0
  <2>1. Ghost(box, r)
    BY <1>1, <1>5, <1>6, <1>10 DEF Ghost
  <2> QED
    BY <1>15, <2>1
<1>18. \A t \in rows' : Counts(t) /\ t.box = 2 /\ t.from = p /\ Ghost(box', t) => Ghost(box, t)
  <2> SUFFICES ASSUME NEW t \in rows', t.box = 2, t.from = p, Ghost(box', t) PROVE Ghost(box, t)
    OBVIOUS
  <2>1. t \in Sendings(rows, p) /\ t # r
    BY <1>6 DEF Sendings
  <2>2. t.slot \in Shown /\ t.slot # c
    BY <1>11, <2>1
  <2>3. box'[p] = x
    BY <1>8, TypeFacts
  <2> QED
    BY <1>1, <1>5, <1>9, <2>2, <2>3 DEF Ghost
<1>19. rows' \subseteq rows
  BY <1>6
<1>20. \A i \in Goods : i \notin copied' \cup mixed /\ OnePlace(bag, rows, i) => OnePlace(bag', rows', i)
  BY <1>8, <1>19 DEF OnePlace, InRows, Single
<1>21. /\ bag' \in [Players -> Bag] /\ Lost \subseteq Lost' /\ Lost' \subseteq Goods
       /\ copied \subseteq copied' /\ copied' \subseteq Goods
       /\ \A q \in Players, i \in Goods : bag'[q][i] >= bag[q][i]
  BY <1>8, TypeFacts DEF Bag
<1> QED
  BY <1>8, <1>9, <1>13, <1>14, <1>16, <1>17, <1>18, <1>19, <1>20, <1>21, RowsRemoved

-----------------------------------------------------------------------------
(* The receiver's window.                                                  *)

\* A step that only changes p's window, which is not a send box.
LEMMA WindowStep ==
    ASSUME DeliveryInv, NEW p \in Players, NEW x \in Window, box' = [box EXCEPT ![p] = x],
           UNCHANGED <<bag, rows, mails, Lost, copied, mixed>>,
           x.window # "out", InAgrees(x, rows, p, mixed)
    PROVE  DeliveryInv'
<1>1. OutAgrees(x, rows', p) /\ InAgrees(x, rows', p, mixed)
  BY DEF OutAgrees
<1>2. \A t \in rows' : Counts(t) /\ t.box = 2 /\ t.from = p /\ Ghost(box', t) => Ghost(box, t)
  <2>1. box'[p] = x
    BY TypeFacts
  <2> QED
    BY <2>1 DEF Ghost
<1>3. \A i \in Goods : i \notin copied' \cup mixed /\ OnePlace(bag, rows, i) => OnePlace(bag', rows', i)
  OBVIOUS
<1>4. /\ bag' \in [Players -> Bag] /\ Lost \subseteq Lost' /\ Lost' \subseteq Goods
      /\ copied \subseteq copied' /\ copied' \subseteq Goods /\ rows' \subseteq rows
      /\ mails' = mails /\ mixed' = mixed
      /\ \A q \in Players, i \in Goods : bag'[q][i] >= bag[q][i]
  BY TypeFacts DEF Bag
<1>5. \A t \in rows : t \in rows'
  OBVIOUS
<1> QED
  BY <1>1, <1>2, <1>3, <1>4, <1>5, RowsRemoved

LEMMA CloseInboxStep ==
    ASSUME DeliveryInv, NEW p \in Players, CloseInbox(p)
    PROVE  DeliveryInv'
<1>1. /\ box' = [box EXCEPT ![p] = Closed]
      /\ UNCHANGED <<bag, rows, mails, Lost, copied, mixed>>
  BY DEF CloseInbox, Lost
<1>2. Closed \in Window /\ Closed.window # "out" /\ InAgrees(Closed, rows, p, mixed)
  BY ClosedFacts
<1> QED
  BY <1>1, <1>2, WindowStep

\* Two mails of one receiver have two numbers.
LEMMA MailsFacts ==
    ASSUME DeliveryInv, NEW p
    PROVE  /\ Mails(rows, p) \subseteq Row
           /\ \A r, t \in Mails(rows, p) : r.slot = t.slot => r = t
BY TypeFacts DEF Mails, GoodRows, Keyed

LEMMA OpenInboxStep ==
    ASSUME DeliveryInv, NEW p \in Players, OpenInbox(p)
    PROVE  DeliveryInv'
<1>1. PICK S : S = {r \in Mails(rows, p) : r.slot \in Shown}
  OBVIOUS
<1>2. PICK x : x = Opened("in", S)
  OBVIOUS
<1>3. box' = [box EXCEPT ![p] = x] /\ UNCHANGED <<bag, rows, mails, Lost, copied, mixed>>
  BY <1>1, <1>2 DEF OpenInbox, Lost
<1>4. S \subseteq Row /\ \A r, t \in S : r.slot = t.slot => r = t
  BY <1>1, MailsFacts
<1>5. /\ x \in Window /\ x.window = "in"
      /\ \A c \in Shown : x.cell[c] # Vacant => \E r \in S : r.slot = c
      /\ \A r \in S : r.slot \in Shown => /\ x.cell[r.slot] # Vacant
                                          /\ x.cell[r.slot].item = r.item
                                          /\ x.cell[r.slot].seen = ("in" = "out")
  BY <1>2, <1>4, OpenedFacts
<1>6. InAgrees(x, rows, p, mixed)
  BY <1>1, <1>5 DEF InAgrees
<1> QED
  BY <1>3, <1>5, <1>6, WindowStep

LEMMA ShowMailsStep ==
    ASSUME DeliveryInv, NEW p \in Players, ShowMails(p)
    PROVE  DeliveryInv'
<1>1. PICK y : y = box[p]
  OBVIOUS
<1>2. y \in Window /\ y.window = "in" /\ InAgrees(y, rows, p, mixed)
  BY <1>1, TypeFacts DEF ShowMails
<1>3. PICK M : M = Mails(rows, p)
  OBVIOUS
<1>4. M \subseteq Row /\ \A r, t \in M : r.slot = t.slot => r = t
  BY <1>3, MailsFacts
<1>5. PICK all : all = InOrder(M)
  OBVIOUS
<1>6. all \in Seq(M)
  BY <1>4, <1>5, InOrderFacts
<1>7. PICK n : n = Min({Len(all), Cells})
  OBVIOUS
<1>8. n \in Nat /\ n <= Len(all)
  <2>1. {Len(all), Cells} \in SUBSET Nat /\ {Len(all), Cells} # {}
    BY <1>6, CellsFacts
  <2> QED
    BY <1>7, <2>1, MinOfNaturals
<1>9. PICK first : first = SubSeq(all, 1, n)
  OBVIOUS
<1>10. first \in Seq(M)
  <2>1. Len(all) \in Nat /\ DOMAIN all = 1 .. Len(all) /\ \A k \in 1 .. Len(all) : all[k] \in M
    BY <1>6
  <2>2. first = [k \in 1 .. n |-> all[k]]
    BY <1>6, <1>8, <1>9
  <2>3. \A k \in 1 .. n : all[k] \in M
    BY <1>8, <2>1
  <2> QED
    BY <1>8, <2>2, <2>3, IsASeq
<1>11. \A r \in ToSet(first) : r \in M
  BY <1>10 DEF ToSet
<1>12. PICK new : new = Restricted(first, {k \in DOMAIN first : first[k].slot \notin Shown})
  OBVIOUS
<1>13. new \in Seq(M)
  <2>1. PICK keep : keep = {k \in DOMAIN first : first[k].slot \notin Shown}
    OBVIOUS
  <2>2. keep \in SUBSET (DOMAIN first)
    BY <2>1
  <2> QED
    BY <1>10, <1>12, <2>1, <2>2, RestrictedType
<1> DEFINE entry(r) == [item |-> r.item, at |-> r.slot, with |-> r.from, sent |-> FALSE, seen |-> FALSE]
           shown(c) == CHOOSE r \in ToSet(first) : r.slot = c
           cell == [c \in Shown \cup New |->
               IF c \in New THEN IF c - Cells < Len(new) THEN entry(new[c - Cells + 1]) ELSE y.cell[c]
               ELSE IF \E r \in ToSet(first) : r.slot = c THEN entry(shown(c)) ELSE y.cell[c]]
<1>14. PICK x : x = [y EXCEPT !.cell = cell]
  OBVIOUS
<1>15. /\ box' = [box EXCEPT ![p] = x] /\ UNCHANGED <<bag, rows, mails, Lost, copied, mixed>>
  <2>1. box' = [box EXCEPT ![p].cell = cell]
    BY <1>1, <1>3, <1>5, <1>7, <1>9, <1>12 DEF ShowMails
  <2>2. x = [box[p] EXCEPT !.cell = cell]
    BY <1>1, <1>14
  <2>3. PICK d : d = cell
    OBVIOUS
  <2> HIDE DEF cell
  <2>4. box' = [box EXCEPT ![p] = x]
    BY <2>1, <2>2, <2>3
  <2> QED
    BY <2>4 DEF ShowMails, Lost
<1>16. \A r \in M : entry(r) \in Entry /\ entry(r).item = r.item
  BY <1>4 DEF Entry, Row
<1>17. \A c \in Shown : (\E r \in ToSet(first) : r.slot = c) =>
           shown(c) \in M /\ shown(c).slot = c
  BY <1>11
<1>18. \A c \in New : c - Cells < Len(new) => new[c - Cells + 1] \in M
  <2> TAKE c \in New
  <2>1. c - Cells < Len(new) => c - Cells + 1 \in 1 .. Len(new)
    BY <1>13, CellsFacts
  <2> QED
    BY <1>13, <2>1
<1> HIDE DEF entry, shown
<1>19. \A c \in Shown \cup New : y.cell[c] \in Entry \cup {Vacant}
  BY <1>2 DEF Window
<1>20. \A c \in Shown : c \notin New
  BY CellsFacts
<1>21. cell \in [Shown \cup New -> Entry \cup {Vacant}]
  BY <1>16, <1>17, <1>18, <1>19
<1>22. \A c \in Shown : cell[c] = y.cell[c] \/ \E r \in M : r.slot = c /\ cell[c] = entry(r)
  BY <1>17, <1>20
<1> HIDE DEF cell
<1>23. x \in Window /\ x.window = "in" /\ x.cell = cell
  BY <1>2, <1>14, <1>21 DEF Window
<1>24. InAgrees(x, rows, p, mixed)
  <2> SUFFICES ASSUME NEW r \in Mails(rows, p), r.slot \in Shown, x.cell[r.slot] # Vacant
               PROVE  r.item = x.cell[r.slot].item \/ {r.item, x.cell[r.slot].item} \subseteq mixed
    BY DEF InAgrees
  <2>1. CASE x.cell[r.slot] = y.cell[r.slot]
    BY <1>2, <2>1 DEF InAgrees
  <2>2. CASE x.cell[r.slot] # y.cell[r.slot]
    <3>1. PICK t \in M : t.slot = r.slot /\ x.cell[r.slot] = entry(t)
      BY <1>22, <1>23, <2>2
    <3>2. t = r
      BY <1>3, <1>4, <3>1
    <3> QED
      BY <1>3, <1>16, <3>1, <3>2
  <2> QED
    BY <2>1, <2>2
<1> QED
  BY <1>15, <1>23, <1>24, WindowStep

\* Of one number there is one mail at most, with the item of the cell unless
\* 0x05 took one for the other.
LEMMA AtFacts ==
    ASSUME DeliveryInv, NEW p \in Players, NEW c \in Shown, Has(p, "in", c)
    PROVE  /\ \A r \in At(p, c) : /\ r \in rows /\ r \in Row /\ r.box = 1
                                  /\ r.item = box[p].cell[c].item \/ {r.item, box[p].cell[c].item} \subseteq mixed
           /\ \A r, t \in At(p, c) : r = t
           /\ box[p] \in Window /\ box[p].cell[c] \in Entry /\ box[p].cell[c].item \in Goods
<1>1. \A r \in At(p, c) : r \in Mails(rows, p) /\ r.slot = c /\ r \in rows /\ r \in Row /\ r.box = 1
  BY TypeFacts DEF At, Mails
<1>2. InAgrees(box[p], rows, p, mixed) /\ box[p].window = "in" /\ box[p].cell[c] # Vacant
      /\ box[p] \in Window
  BY TypeFacts DEF Has
<1>3. \A r \in At(p, c) : r.item = box[p].cell[c].item \/ {r.item, box[p].cell[c].item} \subseteq mixed
  BY <1>1, <1>2 DEF InAgrees
<1>4. \A r, t \in At(p, c) : r = t
  BY <1>1, MailsFacts
<1>5. box[p].cell[c] \in Entry /\ box[p].cell[c].item \in Goods
  BY <1>2 DEF Window, Entry
<1> QED
  BY <1>1, <1>2, <1>3, <1>4, <1>5

\* The cell of an inbox becomes vacant and its mail, if there is one, goes.
LEMMA MailGoes ==
    ASSUME DeliveryInv, NEW p \in Players, NEW c \in Shown, Has(p, "in", c),
           rows' = rows \ At(p, c), Put(p, c, Vacant)
    PROVE  /\ \E x \in Window : /\ box' = [box EXCEPT ![p] = x]
                                /\ OutAgrees(x, rows', p) /\ InAgrees(x, rows', p, mixed)
           /\ rows' \subseteq rows
           /\ \A r \in rows : r \notin rows' => r.box = 1 /\ r \in At(p, c)
           /\ \A r \in rows' : Counts(r) /\ r.box = 2 /\ r.from = p /\ Ghost(box', r) => Ghost(box, r)
<1>1. InAgrees(box[p], rows, p, mixed) /\ box[p].window = "in"
  BY TypeFacts DEF Has
<1>2. PICK x \in Window : /\ box' = [box EXCEPT ![p] = x] /\ x.window = "in" /\ x.cell[c] = Vacant
                          /\ \A d \in Shown : d # c => x.cell[d] = box[p].cell[d]
  BY <1>1, PutFacts
<1>3. OutAgrees(x, rows', p)
  BY <1>2 DEF OutAgrees
<1>4. InAgrees(x, rows', p, mixed)
  <2>1. \A r \in Mails(rows', p) : r \in Mails(rows, p)
    BY DEF Mails
  <2> QED
    BY <1>1, <1>2, <2>1 DEF InAgrees
<1>5. \A r \in rows : r \notin rows' => r.box = 1 /\ r \in At(p, c)
  BY AtFacts
<1>6. \A r : r.from = p => ~Ghost(box', r)
  <2>1. box'[p] = x
    BY <1>2, TypeFacts
  <2> QED
    BY <1>2, <2>1 DEF Ghost
<1> QED
  BY <1>2, <1>3, <1>4, <1>5, <1>6

LEMMA TakeStep ==
    ASSUME DeliveryInv, NEW p \in Players, NEW c \in Shown, Take(p, c)
    PROVE  DeliveryInv'
<1>1. /\ Has(p, "in", c) /\ rows' = rows \ At(p, c) /\ Put(p, c, Vacant)
      /\ mails' = mails /\ copied' = copied /\ mixed' = mixed
      /\ forgotten' = forgotten
  BY DEF Take
<1>2. PICK x \in Window : /\ box' = [box EXCEPT ![p] = x]
                          /\ OutAgrees(x, rows', p) /\ InAgrees(x, rows', p, mixed)
  BY <1>1, MailGoes
<1>3. /\ rows' \subseteq rows
      /\ \A r \in rows : r \notin rows' => r.box = 1 /\ r \in At(p, c)
      /\ \A r \in rows' : Counts(r) /\ r.box = 2 /\ r.from = p /\ Ghost(box', r) => Ghost(box, r)
  BY <1>1, MailGoes
<1>4. PICK i : i = box[p].cell[c].item
  OBVIOUS
<1>5. /\ \A r \in At(p, c) : r \in rows /\ r \in Row /\ r.box = 1 /\ (r.item = i \/ {r.item, i} \subseteq mixed)
      /\ \A r, t \in At(p, c) : r = t
      /\ i \in Goods
  BY <1>1, <1>4, AtFacts
<1>6. copied \subseteq copied' /\ copied' \subseteq Goods
  BY <1>1, TypeFacts
<1>7. CASE At(p, c) # {}
  <2>1. PICK items : items = <<i>>
    OBVIOUS
  <2>2. items \in Seq(Goods) /\ DOMAIN items = {1} /\ items[1] = i
    BY <1>5, <2>1
  <2>3. Give(p, items)
    BY <1>4, <1>7, <2>1 DEF Take
  <2>4. PICK r \in At(p, c) : r \notin rows'
    BY <1>1, <1>7
  <2>5. \A j \in Goods : j \notin copied' \cup mixed => Backed(rows, rows', items, j)
    <3> SUFFICES ASSUME NEW j \in Goods, j \notin mixed PROVE Backed(rows, rows', items, j)
      OBVIOUS
    <3>1. i = j => r \in InRows(rows, j)
      BY <1>5, <2>4 DEF InRows
    <3> QED
      BY <1>3, <2>2, <2>4, <3>1 DEF Backed
  <2>6. \A t \in rows : t \notin rows' /\ Counts(t) /\ ~Ghost(box, t) =>
                            t.item \in forgotten' \cup mixed \/ \E n \in DOMAIN items : items[n] = t.item
    BY <1>3, <1>5, <2>2
  <2>7. \A t \in rows : t \notin rows' /\ t.box = 2 => t.from = p
    BY <1>3
  <2>8. ForgottenGrows
    BY <1>1, TypeFacts DEF Lost, ForgottenGrows
  <2> QED
    BY <1>1, <1>2, <1>3, <1>6, <2>2, <2>3, <2>5, <2>6, <2>7, <2>8, RowsGiven
<1>8. CASE At(p, c) = {}
  <2>1. bag' = bag /\ Lost' = Lost /\ rows' = rows
    BY <1>1, <1>8 DEF Take, Lost
  <2>2. \A j \in Goods : j \notin copied' \cup mixed /\ OnePlace(bag, rows, j) => OnePlace(bag', rows', j)
    BY <2>1
  <2>3. /\ bag' \in [Players -> Bag] /\ Lost \subseteq Lost' /\ Lost' \subseteq Goods
        /\ \A q \in Players, j \in Goods : bag'[q][j] >= bag[q][j]
    BY <2>1, TypeFacts DEF Bag
  <2>4. \A t \in rows : t \in rows'
    BY <2>1
  <2> QED
    BY <1>1, <1>2, <1>3, <1>6, <2>2, <2>3, <2>4, RowsRemoved
<1> QED
  BY <1>7, <1>8

LEMMA DropStep ==
    ASSUME DeliveryInv, NEW p \in Players, NEW c \in Shown, Drop(p, c)
    PROVE  DeliveryInv'
<1>1. PICK i : i = box[p].cell[c].item
  OBVIOUS
<1>2. /\ Has(p, "in", c) /\ rows' = rows \ At(p, c) /\ Put(p, c, Vacant)
      /\ mails' = mails /\ copied' = copied /\ mixed' = mixed /\ bag' = bag
      /\ Lost' = Lost \cup {i}
  BY <1>1 DEF Drop, Lost
<1>3. PICK x \in Window : /\ box' = [box EXCEPT ![p] = x]
                          /\ OutAgrees(x, rows', p) /\ InAgrees(x, rows', p, mixed)
  BY <1>2, MailGoes
<1>4. /\ rows' \subseteq rows
      /\ \A r \in rows : r \notin rows' => r.box = 1 /\ r \in At(p, c)
      /\ \A r \in rows' : Counts(r) /\ r.box = 2 /\ r.from = p /\ Ghost(box', r) => Ghost(box, r)
  BY <1>2, MailGoes
<1>5. /\ \A r \in At(p, c) : r.item = i \/ {r.item, i} \subseteq mixed
      /\ i \in Goods
  BY <1>1, <1>2, AtFacts
<1>6. /\ bag' \in [Players -> Bag] /\ Lost \subseteq Lost' /\ Lost' \subseteq Goods
      /\ copied \subseteq copied' /\ copied' \subseteq Goods
      /\ \A q \in Players, j \in Goods : bag'[q][j] >= bag[q][j]
  BY <1>2, <1>5, TypeFacts DEF Bag
<1>7. \A j \in Goods : j \notin copied' \cup mixed /\ OnePlace(bag, rows, j) => OnePlace(bag', rows', j)
  BY <1>2, <1>4 DEF OnePlace, InRows, Single
<1>8. \A t \in rows : t \notin rows' /\ Counts(t) /\ ~Ghost(box, t) =>
                          t.item \in Lost' \cup mixed \/ \E q \in Players : bag'[q][t.item] > 0
  BY <1>2, <1>4, <1>5
<1>9. \A t \in rows : t \notin rows' /\ t.box = 2 => t.from = p
  BY <1>4
<1> QED
  BY <1>2, <1>3, <1>4, <1>6, <1>7, <1>8, <1>9, RowsRemoved

-----------------------------------------------------------------------------
(* Rows that come or change.                                               *)

LEMMA NotGhostStays ==
    ASSUME DeliveryInv, NEW p \in Players, NEW x \in Window, box' = [box EXCEPT ![p] = x],
           NEW r \in Row, ~Ghost(box, r),
           r.from = p /\ x.window = "out" =>
               box[p].window = "out" /\ (r.box = 2 /\ x.cell[r.slot].sent => box[p].cell[r.slot].sent)
    PROVE  ~Ghost(box', r)
<1>1. box'[p] = x /\ \A q \in Players : q # p => box'[q] = box[q]
  BY TypeFacts
<1>2. r.from \in Players
  BY DEF Row
<1> QED
  BY <1>1, <1>2 DEF Ghost

LEMMA PutInStep ==
    ASSUME DeliveryInv, NEW p \in Players, NEW q \in Players, NEW i \in Goods, NEW c \in Shown,
           PutIn(p, q, i, c)
    PROVE  DeliveryInv'
<1>1. PICK y : y = box[p]
  OBVIOUS
<1>2. y \in Window /\ y.window = "out" /\ y.cell[c] = Vacant /\ OutAgrees(y, rows, p) /\ bag[p][i] > 0
  BY <1>1, TypeFacts DEF PutIn
<1>3. PICK e : e = [item |-> i, at |-> 0, with |-> q, sent |-> FALSE, seen |-> FALSE]
  OBVIOUS
<1>4. PICK new : new = [to |-> q, box |-> 2, slot |-> c, item |-> i, from |-> p,
                        received |-> FALSE, sent |-> FALSE]
  OBVIOUS
<1>5. /\ rows' = rows \cup {new} /\ Put(p, c, e) /\ bag' = [bag EXCEPT ![p][i] = @ - 1]
      /\ mails' = mails /\ Lost' = Lost /\ copied' = copied /\ mixed' = mixed
      /\ ~\E r \in rows : r.box = 2 /\ r.to = q /\ r.slot = c
  BY <1>3, <1>4 DEF PutIn, Lost
<1>6. e \in Entry /\ e # Vacant /\ e.item = i /\ ~e.sent /\ ~e.seen
  <2>1. 0 \in Numbers
    BY CellsFacts DEF Numbers
  <2>2. e \in Entry
    BY <1>3, <2>1 DEF Entry
  <2> QED
    BY <1>3, <2>2, EntryIsNotVacant
<1>7. PICK x \in Window : /\ box' = [box EXCEPT ![p] = x] /\ x.window = y.window /\ x.cell[c] = e
                          /\ \A d \in Shown : d # c => x.cell[d] = y.cell[d]
  BY <1>1, <1>5, <1>6, PutFacts
<1>8. /\ new \in Row /\ new.box = 2 /\ new.to = q /\ new.from = p /\ new.slot = c /\ new.item = i
      /\ ~new.sent
  BY <1>4, CellsFacts DEF Row
<1>9. \A r \in Sendings(rows, p) : r \in rows /\ r.box = 2 /\ r.slot \in Shown /\ r.slot # c
  <2> TAKE r \in Sendings(rows, p)
  <2>1. r \in rows /\ r.box = 2
    BY DEF Sendings
  <2>2. r.slot # c
    BY <1>2 DEF OutAgrees
  <2> QED
    BY <2>1, <2>2, TypeFacts DEF GoodRows, Numbered
<1>10. GoodRows(rows', mails')
  <2>1. \A r \in rows : r.box = 2 /\ r.to = new.to => r.slot # new.slot
    BY <1>5, <1>8
  <2>2. \A r \in rows : r.box = 2 /\ r.from = new.from => r.slot # new.slot
    BY <1>8, <1>9 DEF Sendings
  <2>3. GoodRows(rows \cup {new}, mails)
    BY <1>8, <2>1, <2>2, SendingAdded, TypeFacts
  <2> QED
    BY <1>5, <2>3
<1>11. Sendings(rows', p) = Sendings(rows, p) \cup {new}
  BY <1>5, <1>8 DEF Sendings
<1>12. OutAgrees(x, rows', p)
  <2>1. ASSUME NEW d \in Shown, x.cell[d] # Vacant PROVE \E t \in Sendings(rows', p) : t.slot = d
    <3>1. CASE d = c
      BY <1>8, <1>11, <3>1
    <3>2. CASE d # c
      BY <1>2, <1>7, <1>11, <2>1, <3>2 DEF OutAgrees
    <3> QED
      BY <3>1, <3>2
  <2>2. ASSUME NEW t \in Sendings(rows', p)
        PROVE  /\ x.cell[t.slot] # Vacant /\ x.cell[t.slot].item = t.item
               /\ ~x.cell[t.slot].seen => ~t.sent
    <3>1. CASE t = new
      BY <1>6, <1>7, <1>8, <3>1
    <3>2. CASE t \in Sendings(rows, p)
      BY <1>2, <1>7, <1>9, <3>2 DEF OutAgrees
    <3> QED
      BY <1>11, <3>1, <3>2
  <2> QED
    BY <2>1, <2>2 DEF OutAgrees
<1>13. InAgrees(x, rows', p, mixed')
  BY <1>2, <1>7 DEF InAgrees
<1>14. ASSUME NEW o \in Players, o # p PROVE SameFor(rows, rows', o)
  <2>1. Sendings(rows', o) = Sendings(rows, o) /\ Mails(rows', o) \subseteq rows
    BY <1>5, <1>8, <1>14 DEF Sendings, Mails
  <2>2. \A r : SameMail(r, r)
    BY DEF SameMail
  <2> QED
    BY <2>1, <2>2 DEF SameFor
<1>15. bag \in [Players -> Bag] /\ bag[p] \in Bag /\ \A o \in Players, j \in Goods : bag[o][j] \in Nat
  BY TypeFacts DEF Bag
<1>16. /\ bag' \in [Players -> Bag] /\ bag'[p][i] = bag[p][i] - 1
       /\ \A o \in Players, j \in Goods : o # p \/ j # i => bag'[o][j] = bag[o][j]
  <2>1. PICK b : b = [bag[p] EXCEPT ![i] = @ - 1]
    OBVIOUS
  <2>2. b \in Bag /\ b[i] = bag[p][i] - 1 /\ \A j \in Goods : j # i => b[j] = bag[p][j]
    BY <1>2, <1>15, <2>1 DEF Bag
  <2>3. bag' = [bag EXCEPT ![p] = b]
    BY <1>5, <1>15, <2>1
  <2> QED
    BY <1>15, <2>2, <2>3
<1>17. ASSUME NEW j \in Goods, j \notin copied \cup mixed PROVE OnePlace(bag', rows', j)
  <2>1. OnePlace(bag, rows, j)
    BY <1>17 DEF DeliveryInv
  <2>2. CASE j # i
    <3>1. InRows(rows', j) = InRows(rows, j)
      BY <1>5, <1>8, <2>2 DEF InRows
    <3>2. \A o \in Players : bag'[o][j] = bag[o][j]
      BY <1>16, <2>2
    <3> QED
      BY <2>1, <3>1, <3>2 DEF OnePlace
  <2>3. CASE j = i
    <3>1. InRows(rows, i) = {} /\ bag[p][i] = 1 /\ \A o \in Players : o # p => bag[o][i] = 0
      BY <1>2, <1>15, <2>1, <2>3 DEF OnePlace
    <3>2. \A o \in Players : bag'[o][i] = 0
      BY <1>16, <3>1
    <3>3. Single(InRows(rows', i))
      BY <1>5, <3>1 DEF Single, InRows
    <3> QED
      BY <2>3, <3>2, <3>3 DEF OnePlace
  <2> QED
    BY <2>2, <2>3
<1>18. ASSUME NEW j \in Goods, j \notin Lost \cup mixed PROVE Somewhere(bag', rows', box', j)
  <2>1. Somewhere(bag, rows, box, j)
    BY <1>18 DEF DeliveryInv
  <2>2. CASE j = i
    <3>1. box'[p] = x
      BY <1>7, TypeFacts
    <3>2. ~Ghost(box', new)
      BY <1>6, <1>7, <1>8, <3>1 DEF Ghost
    <3>3. new \in InRows(rows', j)
      BY <1>5, <1>8, <2>2 DEF InRows
    <3> QED
      BY <3>2, <3>3 DEF Somewhere
  <2>3. CASE j # i /\ \E o \in Players : bag[o][j] > 0
    BY <1>16, <2>3 DEF Somewhere
  <2>4. CASE \E r \in InRows(rows, j) : ~Ghost(box, r)
    <3>1. PICK r \in InRows(rows, j) : ~Ghost(box, r)
      BY <2>4
    <3>2. r \in Row /\ r \in rows /\ r \in InRows(rows', j)
      BY <1>5, TypeFacts DEF InRows
    <3>3. r.from = p /\ r.box = 2 => x.cell[r.slot] = y.cell[r.slot]
      BY <1>7, <1>9, <3>2 DEF Sendings
    <3>4. r.from = p /\ x.window = "out" =>
              box[p].window = "out" /\ (r.box = 2 /\ x.cell[r.slot].sent => box[p].cell[r.slot].sent)
      BY <1>1, <1>2, <3>3
    <3>5. ~Ghost(box', r)
      BY <1>7, <3>1, <3>2, <3>4, NotGhostStays
    <3> QED
      BY <3>2, <3>5 DEF Somewhere
  <2> QED
    BY <2>1, <2>2, <2>3, <2>4 DEF Somewhere
<1>19. mails' \in 0 .. MaxMails /\ Lost' \subseteq Goods /\ copied' \subseteq Goods /\ mixed' \subseteq Goods
       /\ mixed \subseteq mixed'
  BY <1>5, TypeFacts, CellsFacts
<1>20. /\ \A j \in Goods : j \in copied' \cup mixed' \/ OnePlace(bag', rows', j)
       /\ \A j \in Goods : j \in Lost' \cup mixed' \/ Somewhere(bag', rows', box', j)
  BY <1>5, <1>17, <1>18
<1> QED
  BY <1>7, <1>10, <1>12, <1>13, <1>14, <1>16, <1>19, <1>20, Assemble

LEMMA SendStep ==
    ASSUME DeliveryInv, NEW p \in Players, NEW c \in Shown, Send(p, c)
    PROVE  DeliveryInv'
<1>1. PICK y : y = box[p]
  OBVIOUS
<1>2. y \in Window /\ y.window = "out" /\ y.cell[c] # Vacant /\ OutAgrees(y, rows, p) /\ mails < MaxMails
  BY <1>1, TypeFacts DEF Send, Has
<1>3. PICK e : e = [y.cell[c] EXCEPT !.seen = TRUE]
  OBVIOUS
<1>4. y.cell[c] \in Entry
  BY <1>2 DEF Window
<1>5. e \in Entry /\ e # Vacant /\ e.item = y.cell[c].item /\ e.seen /\ e.sent = y.cell[c].sent
      /\ e.item \in Goods
  <2>1. e \in Entry /\ e.item = y.cell[c].item /\ e.seen /\ e.sent = y.cell[c].sent /\ e.item \in Goods
    BY <1>3, <1>4 DEF Entry
  <2> QED
    BY <2>1, EntryIsNotVacant
<1>6. PICK r \in Unsent(rows, p) :
         /\ r.slot = c
         /\ rows' = Changed(rows, r, [r EXCEPT !.sent = TRUE]) \cup {Mail(rows, p, r.to, y.cell[c].item)}
  BY <1>1 DEF Send
<1>7. /\ Put(p, c, e) /\ mails' = mails + 1
      /\ bag' = bag /\ Lost' = Lost /\ copied' = copied /\ mixed' = mixed
  BY <1>1, <1>3 DEF Send, Lost
<1>8. PICK x \in Window : /\ box' = [box EXCEPT ![p] = x] /\ x.window = y.window /\ x.cell[c] = e
                          /\ \A d \in Shown : d # c => x.cell[d] = y.cell[d]
  BY <1>1, <1>5, <1>7, PutFacts
<1>9. r \in Sendings(rows, p) /\ r \in rows /\ r \in Row /\ r.box = 2 /\ r.from = p /\ ~r.sent
  BY <1>6, TypeFacts DEF Unsent, Sendings
<1>10. r.item = e.item /\ r.to \in Players
  BY <1>2, <1>5, <1>6, <1>9 DEF OutAgrees, Row
<1>11. PICK new : new = [r EXCEPT !.sent = TRUE]
  OBVIOUS
<1>12. /\ new \in Row /\ new.to = r.to /\ new.box = 2 /\ new.slot = c /\ new.from = p
       /\ new.item = r.item /\ new.sent
  BY <1>6, <1>9, <1>11 DEF Row
<1>13. PICK mail : mail = Mail(rows, p, r.to, e.item)
  OBVIOUS
<1>14. /\ GoodRows(rows \cup {mail}, mails + 1)
       /\ mail.box = 1 /\ mail.item = e.item /\ mail.slot \notin Shown
  <2>1. mails \in Nat /\ GoodRows(rows, mails)
    BY TypeFacts
  <2>2. PICK to \in Players, item \in Goods : to = r.to /\ item = e.item
    BY <1>5, <1>10
  <2>3. mail = Mail(rows, p, to, item)
    BY <1>13, <2>2
  <2> QED
    BY <1>2, <2>1, <2>2, <2>3, MailAdded
<1>15. rows' = Changed(rows \cup {mail}, r, new)
  BY <1>5, <1>6, <1>9, <1>11, <1>13, <1>14 DEF Changed
<1>16. \A t : t \in rows' <=> t = new \/ t = mail \/ (t \in rows /\ t # r)
  BY <1>9, <1>14, <1>15 DEF Changed
<1>17. GoodRows(rows', mails')
  <2>1. PICK R : R = rows \cup {mail}
    OBVIOUS
  <2>2. GoodRows(Changed(R, r, new), mails + 1)
    BY <1>6, <1>9, <1>12, <1>14, <2>1, MarkedRow
  <2> QED
    BY <1>7, <1>15, <2>1, <2>2
<1>18. \A t \in Sendings(rows, p) : t \in rows /\ t.box = 2 /\ t.slot \in Shown /\ (t.slot = c => t = r)
  <2> TAKE t \in Sendings(rows, p)
  <2>1. t \in rows /\ t.box = 2 /\ t.from = p
    BY DEF Sendings
  <2>2. t.slot = c => t = r
    BY <1>6, <1>9, <2>1, TypeFacts DEF OneSending
  <2> QED
    BY <2>1, <2>2, TypeFacts DEF GoodRows, Numbered
<1>19. \A t : t \in Sendings(rows', p) <=> t = new \/ (t \in Sendings(rows, p) /\ t # r)
  BY <1>12, <1>14, <1>16 DEF Sendings
<1>20. OutAgrees(x, rows', p)
  <2>1. ASSUME NEW d \in Shown, x.cell[d] # Vacant PROVE \E t \in Sendings(rows', p) : t.slot = d
    <3>1. CASE d = c
      BY <1>12, <1>19, <3>1
    <3>2. CASE d # c
      BY <1>2, <1>6, <1>8, <1>19, <2>1, <3>2 DEF OutAgrees
    <3> QED
      BY <3>1, <3>2
  <2>2. ASSUME NEW t \in Sendings(rows', p)
        PROVE  /\ x.cell[t.slot] # Vacant /\ x.cell[t.slot].item = t.item
               /\ ~x.cell[t.slot].seen => ~t.sent
    <3>1. CASE t = new
      BY <1>5, <1>8, <1>10, <1>12, <3>1
    <3>2. CASE t \in Sendings(rows, p) /\ t # r
      BY <1>2, <1>8, <1>18, <3>2 DEF OutAgrees
    <3> QED
      BY <1>19, <3>1, <3>2
  <2> QED
    BY <2>1, <2>2 DEF OutAgrees
<1>21. InAgrees(x, rows', p, mixed')
  BY <1>2, <1>8 DEF InAgrees
<1>22. ASSUME NEW o \in Players, o # p PROVE SameFor(rows, rows', o)
  <2>1. \A t : t \in Sendings(rows', o) <=> t \in Sendings(rows, o)
    BY <1>9, <1>12, <1>14, <1>16, <1>22 DEF Sendings
  <2>2. \A t \in Mails(rows', o) : t.slot \in Shown => t \in rows
    BY <1>12, <1>14, <1>16 DEF Mails
  <2>3. \A t : SameMail(t, t)
    BY DEF SameMail
  <2> QED
    BY <2>1, <2>2, <2>3 DEF SameFor
<1>23. \A j : j # e.item => InRows(rows', j) = InRows(rows, j)
  BY <1>10, <1>12, <1>14, <1>16 DEF InRows
<1>24. r \in InRows(rows, e.item) /\ mail \in InRows(rows', e.item)
       /\ \A t \in InRows(rows', e.item) : t = mail \/ (t \in InRows(rows, e.item) /\ t # r)
  BY <1>9, <1>10, <1>12, <1>14, <1>16 DEF InRows
<1>25. ASSUME NEW j \in Goods, j \notin copied \cup mixed PROVE OnePlace(bag', rows', j)
  <2>1. OnePlace(bag, rows, j)
    BY <1>25 DEF DeliveryInv
  <2>2. CASE j # e.item
    BY <1>7, <1>23, <2>1, <2>2 DEF OnePlace
  <2>3. CASE j = e.item
    <3>1. Single(InRows(rows', j)) /\ InRows(rows, j) # {}
      BY <1>24, <2>1, <2>3 DEF OnePlace, Single
    <3> QED
      BY <1>7, <2>1, <3>1 DEF OnePlace
  <2> QED
    BY <2>2, <2>3
<1>26. ASSUME NEW j \in Goods, j \notin Lost \cup mixed PROVE Somewhere(bag', rows', box', j)
  <2>1. Somewhere(bag, rows, box, j)
    BY <1>26 DEF DeliveryInv
  <2>2. CASE j = e.item
    <3>1. ~Ghost(box', mail)
      BY <1>14 DEF Ghost
    <3> QED
      BY <1>24, <2>2, <3>1 DEF Somewhere
  <2>3. CASE j # e.item /\ \E o \in Players : bag[o][j] > 0
    BY <1>7, <2>3 DEF Somewhere
  <2>4. CASE j # e.item /\ \E t \in InRows(rows, j) : ~Ghost(box, t)
    <3>1. PICK t \in InRows(rows, j) : ~Ghost(box, t)
      BY <2>4
    <3>2. t \in Row /\ t \in rows /\ t \in InRows(rows', j)
      BY <1>23, <2>4, TypeFacts DEF InRows
    <3>3. t.from = p /\ t.box = 2 => x.cell[t.slot].sent = y.cell[t.slot].sent
      BY <1>5, <1>8, <1>18, <3>2 DEF Sendings
    <3>4. t.from = p /\ x.window = "out" =>
              box[p].window = "out" /\ (t.box = 2 /\ x.cell[t.slot].sent => box[p].cell[t.slot].sent)
      BY <1>1, <1>2, <3>3
    <3>5. ~Ghost(box', t)
      BY <1>8, <3>1, <3>2, <3>4, NotGhostStays
    <3> QED
      BY <3>2, <3>5 DEF Somewhere
  <2> QED
    BY <2>1, <2>2, <2>3, <2>4 DEF Somewhere
<1>27. mails' \in 0 .. MaxMails /\ Lost' \subseteq Goods /\ copied' \subseteq Goods /\ mixed' \subseteq Goods
       /\ mixed \subseteq mixed' /\ bag' \in [Players -> Bag]
  BY <1>2, <1>7, TypeFacts, CellsFacts
<1>28. /\ \A j \in Goods : j \in copied' \cup mixed' \/ OnePlace(bag', rows', j)
       /\ \A j \in Goods : j \in Lost' \cup mixed' \/ Somewhere(bag', rows', box', j)
  BY <1>7, <1>25, <1>26
<1> QED
  BY <1>8, <1>17, <1>20, <1>21, <1>22, <1>27, <1>28, Assemble

LEMMA CancelStep ==
    ASSUME DeliveryInv, NEW p \in Players, NEW c \in Shown, Cancel(p, c)
    PROVE  DeliveryInv'
<1>1. PICK y : y = box[p]
  OBVIOUS
<1>2. PICK e : e = y.cell[c]
  OBVIOUS
<1>3. y \in Window /\ y.window = "out" /\ e # Vacant /\ e.seen /\ OutAgrees(y, rows, p)
  BY <1>1, <1>2, TypeFacts DEF Cancel, Has
<1>4. e \in Entry /\ e.item \in Goods
  BY <1>2, <1>3 DEF Window, Entry
<1>5. PICK mail : mail = {m \in Mails(rows, e.with) : m.from = p /\ m.item = e.item}
  OBVIOUS
<1>6. PICK r \in Sendings(rows, p) :
         /\ r.slot = c /\ r.sent
         /\ LET back == Changed(rows, r, [r EXCEPT !.sent = FALSE])
            IN  IF mail = {}
                THEN rows' = back /\ copied' = copied \cup {e.item} /\ UNCHANGED box
                ELSE /\ \E m \in mail : rows' = back \ {m}
                     /\ Put(p, c, [e EXCEPT !.sent = FALSE, !.seen = FALSE])
                     /\ UNCHANGED copied
  BY <1>1, <1>2, <1>5 DEF Cancel
<1>7. bag' = bag /\ mails' = mails /\ Lost' = Lost /\ mixed' = mixed
  BY DEF Cancel, Lost
<1>8. PICK new : new = [r EXCEPT !.sent = FALSE]
  OBVIOUS
<1>9. PICK R : R = Changed(rows, r, new)
  OBVIOUS
<1>10. r \in rows /\ r \in Row /\ r.box = 2 /\ r.from = p /\ r.item = e.item
  BY <1>2, <1>3, <1>6, TypeFacts DEF Sendings, OutAgrees
<1>11. /\ new \in Row /\ new.to = r.to /\ new.box = 2 /\ new.slot = c /\ new.from = p
       /\ new.item = r.item /\ ~new.sent
  BY <1>6, <1>8, <1>10 DEF Row
<1>12. /\ \A t : t \in R <=> t = new \/ (t \in rows /\ t # r)
       /\ GoodRows(R, mails)
  <2>1. GoodRows(rows, mails)
    BY TypeFacts
  <2>2. GoodRows(Changed(rows, r, new), mails)
    BY <1>6, <1>10, <1>11, <2>1, MarkedRow
  <2> QED
    BY <1>9, <2>2 DEF Changed
<1>13. \A t \in Sendings(rows, p) : t \in rows /\ t.box = 2 /\ t.slot \in Shown /\ (t.slot = c => t = r)
  <2> TAKE t \in Sendings(rows, p)
  <2>1. t \in rows /\ t.box = 2 /\ t.from = p
    BY DEF Sendings
  <2>2. t.slot = c => t = r
    BY <1>6, <1>10, <2>1, TypeFacts DEF OneSending
  <2> QED
    BY <2>1, <2>2, TypeFacts DEF GoodRows, Numbered
\* Both outcomes: a mail m goes, or none, and p's window is x.
<1>14. ASSUME NEW x \in Window, box' = [box EXCEPT ![p] = x], x.window = "out",
              \A d \in Shown : d # c => x.cell[d] = y.cell[d],
              x.cell[c] \in Entry, x.cell[c].item = e.item,
              rows' \subseteq R, \A t \in R : t.box = 2 => t \in rows',
              \A t \in R : t \notin rows' => t.item = e.item,
              copied \subseteq copied', copied' \subseteq Goods,
              e.item \in copied' \/ (~x.cell[c].sent /\ \E m \in R : m.box = 1 /\ m.item = e.item /\ m \notin rows'),
              x.cell[c].sent => rows' = R /\ x = y
       PROVE  DeliveryInv'
  <2>1. GoodRows(rows', mails')
    BY <1>7, <1>12, <1>14, FewerRows
  <2>2. \A t : t \in Sendings(rows', p) <=> t = new \/ (t \in Sendings(rows, p) /\ t # r)
    BY <1>11, <1>12, <1>14 DEF Sendings
  <2>3. x.cell[c] # Vacant
    BY <1>14, EntryIsNotVacant
  <2>4. OutAgrees(x, rows', p)
    <3>1. ASSUME NEW d \in Shown, x.cell[d] # Vacant PROVE \E t \in Sendings(rows', p) : t.slot = d
      <4>1. CASE d = c
        BY <1>11, <2>2, <4>1
      <4>2. CASE d # c
        BY <1>3, <1>6, <1>14, <2>2, <3>1, <4>2 DEF OutAgrees
      <4> QED
        BY <4>1, <4>2
    <3>2. ASSUME NEW t \in Sendings(rows', p)
          PROVE  /\ x.cell[t.slot] # Vacant /\ x.cell[t.slot].item = t.item
                 /\ ~x.cell[t.slot].seen => ~t.sent
      <4>1. CASE t = new
        BY <1>10, <1>11, <1>14, <2>3, <4>1
      <4>2. CASE t \in Sendings(rows, p) /\ t # r
        BY <1>3, <1>13, <1>14, <4>2 DEF OutAgrees
      <4> QED
        BY <2>2, <4>1, <4>2
    <3> QED
      BY <3>1, <3>2 DEF OutAgrees
  <2>5. InAgrees(x, rows', p, mixed')
    BY <1>14 DEF InAgrees
  <2>6. ASSUME NEW o \in Players, o # p PROVE SameFor(rows, rows', o)
    <3>1. \A t : t \in Sendings(rows', o) <=> t \in Sendings(rows, o)
      BY <1>10, <1>11, <1>12, <1>14, <2>6 DEF Sendings
    <3>2. \A t \in Mails(rows', o) : t \in rows
      BY <1>11, <1>12, <1>14 DEF Mails
    <3>3. \A t : SameMail(t, t)
      BY DEF SameMail
    <3> QED
      BY <3>1, <3>2, <3>3 DEF SameFor
  <2>7. \A j : j # e.item => InRows(rows', j) = InRows(rows, j)
    BY <1>10, <1>11, <1>12, <1>14 DEF InRows
  <2>8. ASSUME NEW j \in Goods, j \notin copied' \cup mixed PROVE OnePlace(bag', rows', j)
    <3>1. OnePlace(bag, rows, j)
      BY <1>14, <2>8 DEF DeliveryInv
    <3>2. CASE j # e.item
      BY <1>7, <2>7, <3>1, <3>2 DEF OnePlace
    <3>3. CASE j = e.item
      <4>1. PICK m \in R : m.box = 1 /\ m.item = e.item /\ m \notin rows'
        BY <1>14, <2>8, <3>3
      <4>2. m \in InRows(rows, j)
        BY <1>11, <1>12, <3>3, <4>1 DEF InRows
      <4>3. \A t \in InRows(rows', j) : t = new
        BY <1>12, <1>14, <3>1, <4>1, <4>2 DEF OnePlace, Single, InRows
      <4> QED
        BY <1>7, <3>1, <4>2, <4>3 DEF OnePlace, Single
    <3> QED
      BY <3>2, <3>3
  <2>9. ASSUME NEW j \in Goods, j \notin Lost \cup mixed PROVE Somewhere(bag', rows', box', j)
    <3>1. Somewhere(bag, rows, box, j)
      BY <2>9 DEF DeliveryInv
    <3>2. CASE \E o \in Players : bag[o][j] > 0
      BY <1>7, <3>2 DEF Somewhere
    <3>3. CASE j = e.item /\ ~x.cell[c].sent
      <4>1. box'[p] = x /\ new \in InRows(rows', j)
        BY <1>10, <1>11, <1>12, <1>14, <3>3, TypeFacts DEF InRows
      <4>2. ~Ghost(box', new)
        BY <1>11, <3>3, <4>1 DEF Ghost
      <4> QED
        BY <4>1, <4>2 DEF Somewhere
    <3>4. CASE ~(j = e.item /\ ~x.cell[c].sent) /\ \E t \in InRows(rows, j) : ~Ghost(box, t)
      <4>1. PICK t \in InRows(rows, j) : ~Ghost(box, t)
        BY <3>4
      <4>2. t \in Row /\ t \in rows /\ t.item = j /\ t # r
        BY <1>6, <1>10, TypeFacts DEF InRows
      <4>3. t \in InRows(rows', j)
        BY <1>12, <1>14, <3>4, <4>2 DEF InRows
      <4>4. t.from = p /\ t.box = 2 => x.cell[t.slot] = y.cell[t.slot]
        BY <1>13, <1>14, <4>2 DEF Sendings
      <4>5. t.from = p /\ x.window = "out" =>
                box[p].window = "out" /\ (t.box = 2 /\ x.cell[t.slot].sent => box[p].cell[t.slot].sent)
        BY <1>1, <1>3, <4>4
      <4>6. ~Ghost(box', t)
        BY <1>14, <4>1, <4>2, <4>5, NotGhostStays
      <4> QED
        BY <4>3, <4>6 DEF Somewhere
    <3> QED
      BY <3>1, <3>2, <3>3, <3>4 DEF Somewhere
  <2>10. mails' \in 0 .. MaxMails /\ Lost' \subseteq Goods /\ mixed' \subseteq Goods /\ mixed \subseteq mixed'
         /\ bag' \in [Players -> Bag]
    BY <1>7, TypeFacts, CellsFacts
  <2>11. /\ \A j \in Goods : j \in copied' \cup mixed' \/ OnePlace(bag', rows', j)
         /\ \A j \in Goods : j \in Lost' \cup mixed' \/ Somewhere(bag', rows', box', j)
    BY <1>7, <2>8, <2>9
  <2> QED
    BY <1>14, <2>1, <2>4, <2>5, <2>6, <2>10, <2>11, Assemble
<1>15. CASE mail = {}
  <2>1. rows' = R /\ copied' = copied \cup {e.item} /\ box' = box
    BY <1>6, <1>8, <1>9, <1>15
  <2>2. box' = [box EXCEPT ![p] = y]
    BY <1>1, <2>1, TypeFacts
  <2>3. copied' \subseteq Goods
    BY <1>4, <2>1, TypeFacts
  <2> QED
    BY <1>2, <1>3, <1>4, <1>14, <2>1, <2>2, <2>3
<1>16. CASE mail # {}
  <2>1. PICK n : n = [e EXCEPT !.sent = FALSE, !.seen = FALSE]
    OBVIOUS
  <2>2. n \in Entry /\ n.item = e.item /\ ~n.sent
    BY <1>4, <2>1 DEF Entry
  <2>3. PICK m \in mail : rows' = R \ {m}
    BY <1>6, <1>8, <1>9, <1>16
  <2>4. Put(p, c, n) /\ copied' = copied
    BY <1>6, <1>16, <2>1
  <2>5. PICK x \in Window : /\ box' = [box EXCEPT ![p] = x] /\ x.window = y.window /\ x.cell[c] = n
                            /\ \A d \in Shown : d # c => x.cell[d] = y.cell[d]
    BY <1>1, <2>2, <2>4, PutFacts
  <2>6. m \in rows /\ m.box = 1 /\ m.item = e.item
    BY <1>5, <2>3 DEF Mails
  <2>7. m \in R
    BY <1>10, <1>12, <2>6
  <2>8. copied \subseteq copied' /\ copied' \subseteq Goods
    BY <2>4, TypeFacts
  <2>9. rows' \subseteq R /\ (\A t \in R : t.box = 2 => t \in rows') /\ m \notin rows'
        /\ (\A t \in R : t \notin rows' => t.item = e.item)
    BY <2>3, <2>6
  <2> QED
    BY <1>3, <1>14, <2>2, <2>5, <2>6, <2>7, <2>8, <2>9
<1> QED
  BY <1>15, <1>16

LEMMA OnePlaceFollows ==
    ASSUME NEW b, NEW R, NEW T, NEW i, OnePlace(b, R, i), Follows(R, T)
    PROVE  OnePlace(b, T, i)
<1>1. InRows(T, i) # {} => InRows(R, i) # {}
  BY DEF Follows, SameMail, InRows
<1> QED
  BY <1>1 DEF OnePlace, Follows

LEMMA SomewhereFollows ==
    ASSUME NEW b, NEW R, NEW T, NEW bx, NEW i, Somewhere(b, R, bx, i), Follows(R, T)
    PROVE  Somewhere(b, T, bx, i)
<1>1. ASSUME NEW r \in InRows(R, i), ~Ghost(bx, r) PROVE \E t \in InRows(T, i) : ~Ghost(bx, t)
  <2>1. PICK t \in T : SameMail(r, t)
    BY DEF Follows, InRows
  <2>2. t \in InRows(T, i)
    BY <2>1 DEF SameMail, InRows
  <2>3. ~Ghost(bx, t)
    BY <1>1, <2>1 DEF SameMail, Ghost
  <2> QED
    BY <2>2, <2>3
<1> QED
  BY <1>1 DEF Somewhere

LEMMA SameForFollows ==
    ASSUME NEW R, NEW T, NEW q, Follows(R, T), \A t \in Mails(T, q) : t.slot \in Shown => t \in R
    PROVE  SameFor(R, T, q)
BY DEF SameFor, Follows, SameMail, Sendings

\* p's window is an inbox before and after: none of its rows is a ghost.
LEMMA SomewhereInbox ==
    ASSUME DeliveryInv, NEW p \in Players, NEW x \in Window, box' = [box EXCEPT ![p] = x],
           x.window = "in", NEW T, T \subseteq Row, NEW i, Somewhere(bag, T, box, i), bag' = bag
    PROVE  Somewhere(bag', T, box', i)
<1>1. ASSUME NEW r \in InRows(T, i), ~Ghost(box, r) PROVE ~Ghost(box', r)
  <2>1. r \in Row
    BY DEF InRows
  <2> QED
    BY <1>1, <2>1, NotGhostStays
<1> QED
  BY <1>1 DEF Somewhere

LEMMA ReturnStep ==
    ASSUME DeliveryInv, NEW p \in Players, NEW c \in Shown, Return(p, c)
    PROVE  DeliveryInv'
<1>1. PICK y : y = box[p]
  OBVIOUS
<1>2. PICK i : i = y.cell[c].item
  OBVIOUS
<1>3. Has(p, "in", c) /\ y.window = "in" /\ InAgrees(y, rows, p, mixed) /\ mails < MaxMails
      /\ y \in Window
  BY <1>1, TypeFacts DEF Return, Has
<1>4. /\ \A r \in At(p, c) : r \in rows /\ r \in Row /\ r.box = 1 /\ (r.item = i \/ {r.item, i} \subseteq mixed)
      /\ i \in Goods
  BY <1>1, <1>2, <1>3, AtFacts
<1>5. PICK r \in At(p, c) :
        LET sending == {s \in Sendings(rows, r.from) : s.to = p}
            after == (rows \ {r}) \cup {Mail(rows, p, r.from, i)}
        IN  /\ rows' = Noted(after, sending)
            /\ IF rows' # after THEN Put(p, c, Vacant) ELSE UNCHANGED box
  BY <1>1, <1>2 DEF Return
<1>6. PICK sending : sending = {s \in Sendings(rows, r.from) : s.to = p}
  OBVIOUS
<1>7. PICK new : new = Mail(rows, p, r.from, i)
  OBVIOUS
<1>8. PICK after : after = (rows \ {r}) \cup {new}
  OBVIOUS
<1>9. rows' = Noted(after, sending) /\ (Put(p, c, Vacant) \/ box' = box)
  BY <1>5, <1>6, <1>7, <1>8
<1>10. mails' = mails + 1 /\ bag' = bag /\ Lost' = Lost /\ copied' = copied /\ mixed' = mixed
  BY DEF Return, Lost
<1>11. /\ GoodRows(rows \cup {new}, mails + 1) /\ new \in Row
       /\ new.box = 1 /\ new.item = i /\ new.slot \notin Shown
  <2>1. mails \in Nat /\ GoodRows(rows, mails)
    BY TypeFacts
  <2>2. PICK to \in Players : to = r.from
    BY <1>4 DEF Row
  <2>3. new = Mail(rows, p, to, i)
    BY <1>7, <2>2
  <2> QED
    BY <1>3, <1>4, <2>1, <2>2, <2>3, MailAdded
<1>12. GoodRows(after, mails + 1)
  <2>1. after \subseteq rows \cup {new}
    BY <1>8
  <2> QED
    BY <1>11, <2>1, FewerRows
<1>13. sending \subseteq after /\ \A s \in sending : s.box = 2
  BY <1>4, <1>6, <1>8 DEF Sendings
<1>14. /\ GoodRows(rows', mails + 1) /\ Follows(after, rows')
       /\ \A t \in rows' : t.box = 1 => t \in after
  <2>1. PICK T : T = rows'
    OBVIOUS
  <2>2. T = Noted(after, sending)
    BY <1>9, <2>1
  <2>3. GoodRows(T, mails + 1) /\ Follows(after, T) /\ \A t \in T : t.box = 1 => t \in after
    BY <1>12, <1>13, <2>2, NotedFacts
  <2> QED
    BY <2>1, <2>3
<1>15. PICK x \in Window : /\ box' = [box EXCEPT ![p] = x] /\ x.window = "in"
                           /\ \A d \in Shown : x.cell[d] # Vacant => x.cell[d] = y.cell[d]
  <2>1. CASE Put(p, c, Vacant)
    <3>1. PICK x \in Window : /\ box' = [box EXCEPT ![p] = x] /\ x.window = y.window /\ x.cell[c] = Vacant
                              /\ \A d \in Shown : d # c => x.cell[d] = y.cell[d]
      BY <1>1, <2>1, PutFacts
    <3> QED
      BY <1>3, <3>1
  <2>2. CASE box' = box
    <3>1. box' = [box EXCEPT ![p] = y]
      BY <1>1, <2>2, TypeFacts
    <3> QED
      BY <1>3, <3>1
  <2> QED
    BY <1>9, <2>1, <2>2
<1>16. \A q : \A t \in Mails(rows', q) : t.slot \in Shown => t \in rows
  BY <1>8, <1>11, <1>14 DEF Mails
<1>17. InAgrees(x, rows', p, mixed')
  <2>1. \A t \in Mails(rows', p) : t.slot \in Shown => t \in Mails(rows, p)
    BY <1>16 DEF Mails
  <2> QED
    BY <1>3, <1>10, <1>15, <2>1 DEF InAgrees
<1>18. OutAgrees(x, rows', p)
  BY <1>15 DEF OutAgrees
<1>19. ASSUME NEW q \in Players, q # p PROVE SameFor(rows, rows', q)
  <2>1. \A t : t \in Sendings(after, q) <=> t \in Sendings(rows, q)
    BY <1>4, <1>8, <1>11 DEF Sendings
  <2>2. (\A t \in Sendings(rows', q) : \E s \in Sendings(after, q) : SameMail(s, t))
        /\ (\A s \in Sendings(after, q) : \E t \in Sendings(rows', q) : SameMail(s, t))
    BY <1>14 DEF Follows, SameMail, Sendings
  <2> QED
    BY <1>16, <2>1, <2>2 DEF SameFor
\* The mail that goes and the one that comes are of the same item, or both
\* items are mixed.
<1>20. ASSUME NEW j \in Goods, j \notin mixed
       PROVE  /\ j # i => InRows(after, j) = InRows(rows, j)
              /\ j = i => r \in InRows(rows, j) /\ new \in InRows(after, j)
                          /\ \A t \in InRows(after, j) : t = new \/ (t \in InRows(rows, j) /\ t # r)
  <2>1. r.item = j <=> i = j
    BY <1>4, <1>20
  <2>2. \A t : t \in after <=> t = new \/ (t \in rows /\ t # r)
    BY <1>8
  <2> QED
    BY <1>4, <1>11, <2>1, <2>2 DEF InRows
<1>21. ASSUME NEW j \in Goods, j \notin copied \cup mixed PROVE OnePlace(bag', rows', j)
  <2>1. OnePlace(bag, rows, j)
    BY <1>21 DEF DeliveryInv
  <2>2. OnePlace(bag, after, j)
    <3>1. CASE j # i
      BY <1>20, <1>21, <2>1, <3>1 DEF OnePlace
    <3>2. CASE j = i
      <4>1. Single(InRows(after, j)) /\ InRows(rows, j) # {}
        BY <1>20, <1>21, <2>1, <3>2 DEF OnePlace, Single
      <4> QED
        BY <2>1, <4>1 DEF OnePlace
    <3> QED
      BY <3>1, <3>2
  <2>3. PICK T : T = rows'
    OBVIOUS
  <2>4. OnePlace(bag, T, j)
    BY <1>14, <2>2, <2>3, OnePlaceFollows
  <2> QED
    BY <1>10, <2>3, <2>4
<1>22. ASSUME NEW j \in Goods, j \notin Lost \cup mixed PROVE Somewhere(bag', rows', box', j)
  <2>1. Somewhere(bag, rows, box, j)
    BY <1>22 DEF DeliveryInv
  <2>2. Somewhere(bag, after, box, j)
    <3>1. CASE j # i
      BY <1>20, <1>22, <2>1, <3>1 DEF Somewhere
    <3>2. CASE j = i
      <4>1. ~Ghost(box, new)
        BY <1>11 DEF Ghost
      <4> QED
        BY <1>20, <1>22, <3>2, <4>1 DEF Somewhere
    <3> QED
      BY <3>1, <3>2
  <2>3. PICK T : T = rows'
    OBVIOUS
  <2>4. Somewhere(bag, T, box, j) /\ T \subseteq Row
    BY <1>14, <2>2, <2>3, SomewhereFollows DEF GoodRows
  <2>5. Somewhere(bag', T, box', j)
    BY <1>10, <1>15, <2>4, SomewhereInbox
  <2> QED
    BY <2>3, <2>5
<1>23. GoodRows(rows', mails')
  BY <1>10, <1>14
<1>24. mails' \in 0 .. MaxMails /\ Lost' \subseteq Goods /\ copied' \subseteq Goods /\ mixed' \subseteq Goods
       /\ mixed \subseteq mixed' /\ bag' \in [Players -> Bag]
  BY <1>3, <1>10, TypeFacts, CellsFacts
<1>25. /\ \A j \in Goods : j \in copied' \cup mixed' \/ OnePlace(bag', rows', j)
       /\ \A j \in Goods : j \in Lost' \cup mixed' \/ Somewhere(bag', rows', box', j)
  BY <1>10, <1>21, <1>22
<1> QED
  BY <1>15, <1>17, <1>18, <1>19, <1>23, <1>24, <1>25, Assemble

-----------------------------------------------------------------------------
(* 0x05: new mails move to the cells.                                      *)

\* The states of the loop.
Round(p) ==
    {w \in [who : {p}, rows : SUBSET Row, cell : [Shown \cup New -> Entry \cup {Vacant}],
            mixed : SUBSET Goods, over : BOOLEAN] :
        /\ GoodRows(w.rows, mails) /\ Follows(rows, w.rows) /\ mixed \subseteq w.mixed
        /\ InAgrees([window |-> "in", cell |-> w.cell], w.rows, p, w.mixed)
        /\ \A q \in Players : q # p => Mails(w.rows, q) \subseteq rows}

LEMMA PlacedFacts ==
    ASSUME DeliveryInv, NEW p \in Players, NEW w \in Round(p), NEW k \in New
    PROVE  Placed(w, k) \in Round(p)
<1>1. PICK v : v = Placed(w, k)
  OBVIOUS
<1>2. PICK R, cell, mix, over : R = w.rows /\ cell = w.cell /\ mix = w.mixed /\ over = w.over
  OBVIOUS
<1>3. /\ w.who = p /\ R \subseteq Row /\ cell \in [Shown \cup New -> Entry \cup {Vacant}]
      /\ mix \subseteq Goods /\ over \in BOOLEAN
      /\ GoodRows(R, mails) /\ Follows(rows, R) /\ mixed \subseteq mix
      /\ InAgrees([window |-> "in", cell |-> cell], R, p, mix)
      /\ \A q \in Players : q # p => Mails(R, q) \subseteq rows
  BY <1>2 DEF Round
<1>a. w = [who |-> p, rows |-> R, cell |-> cell, mixed |-> mix, over |-> over]
  BY <1>2 DEF Round
<1>4. PICK e : e = cell[k]
  OBVIOUS
<1>5. PICK vacant : vacant = {c \in Shown : cell[c] = Vacant}
  OBVIOUS
<1>6. PICK mail : mail = {r \in Mails(R, p) : r.slot = e.at}
  OBVIOUS
<1>7. PICK c : c = Min(vacant)
  OBVIOUS
<1>8. v = IF w.over \/ e = Vacant THEN [w EXCEPT !.over = TRUE]
          ELSE IF vacant = {} \/ mail = {} \/ (\E r \in Mails(R, p) : r.slot = c) THEN w
          ELSE LET r == CHOOSE r \in mail : TRUE
                   moved == Changed(R, r, [r EXCEPT !.slot = c])
               IN  [w EXCEPT
                       !.mixed = IF r.item = e.item THEN @ ELSE @ \cup {r.item, e.item},
                       !.rows = Noted(moved, {s \in Sendings(moved, e.with) : s.to = p /\ ~s.received}),
                       !.cell = [@ EXCEPT ![c] = [e EXCEPT !.at = c], ![k] = Vacant]]
  BY <1>1, <1>2, <1>3, <1>4, <1>5, <1>6, <1>7 DEF Placed
<1>9. CASE w.over \/ e = Vacant
  <2>1. v = [w EXCEPT !.over = TRUE]
    BY <1>8, <1>9, Zenon
  <2>2. v = [who |-> p, rows |-> R, cell |-> cell, mixed |-> mix, over |-> TRUE]
    BY <1>a, <2>1
  <2> QED
    BY <1>1, <1>3, <2>2 DEF Round
<1>10. CASE ~(w.over \/ e = Vacant) /\ (vacant = {} \/ mail = {} \/ (\E r \in Mails(R, p) : r.slot = c))
  BY <1>1, <1>8, <1>10
<1>11. CASE ~(w.over \/ e = Vacant) /\ ~(vacant = {} \/ mail = {} \/ (\E r \in Mails(R, p) : r.slot = c))
  <2>1. PICK r : r = CHOOSE m \in mail : TRUE
    OBVIOUS
  <2>2. r \in mail /\ r \in R /\ r \in Row /\ r.box = 1 /\ r.to = p
    BY <1>3, <1>6, <1>11, <2>1 DEF Mails
  <2>3. c \in Shown /\ c # k
    <3>1. vacant \in SUBSET Nat /\ vacant # {}
      BY <1>5, <1>11, CellsFacts
    <3>2. c \in vacant
      BY <1>7, <3>1, MinOfNaturals
    <3> QED
      BY <1>5, <3>2, CellsFacts
  <2>4. PICK new : new = [r EXCEPT !.slot = c]
    OBVIOUS
  <2>5. PICK moved : moved = Changed(R, r, new)
    OBVIOUS
  <2>6. GoodRows(moved, mails) /\ SameMail(r, new) /\ new \in Row /\ new.slot = c
    <3>1. \A t \in R : t.box = 1 /\ t.to = r.to => t.slot # c
      BY <1>11, <2>2 DEF Mails
    <3>2. GoodRows(R, mails) /\ mails \in Nat
      BY <1>3, TypeFacts
    <3> QED
      BY <2>2, <2>3, <2>4, <2>5, <3>1, <3>2, MovedRow
  <2>7. new.box = 1 /\ new.to = p /\ new.item = r.item
    BY <2>2, <2>6 DEF SameMail
  <2>8. Follows(R, moved)
    BY <2>2, <2>5, <2>6, FollowsChanged
  <2>9. \A t : t \in moved <=> t = new \/ (t \in R /\ t # r)
    BY <2>5 DEF Changed
  <2>10. PICK S : S = {s \in Sendings(moved, e.with) : s.to = p /\ ~s.received}
    OBVIOUS
  <2>11. PICK T : T = Noted(moved, S)
    OBVIOUS
  <2>12. GoodRows(T, mails) /\ Follows(moved, T) /\ \A t \in T : t.box = 1 => t \in moved
    <3>1. S \subseteq moved /\ \A s \in S : s.box = 2
      BY <2>10 DEF Sendings
    <3> QED
      BY <2>6, <2>11, <3>1, NotedFacts
  <2>13. Follows(rows, T)
    BY <1>3, <2>8, <2>12, FollowsTwice
  <2>14. PICK mx : mx = IF r.item = e.item THEN mix ELSE mix \cup {r.item, e.item}
    OBVIOUS
  <2>15. PICK n : n = [e EXCEPT !.at = c]
    OBVIOUS
  <2>16. e \in Entry
    <3>1. k \in Shown \cup New
      OBVIOUS
    <3> QED
      BY <1>3, <1>4, <1>11, <3>1
  <2>17. n \in Entry /\ n.item = e.item /\ e.item \in Goods
    BY <2>3, <2>15, <2>16, CellsFacts DEF Entry
  <2>18. mx \subseteq Goods /\ mix \subseteq mx /\ (r.item = e.item \/ {r.item, e.item} \subseteq mx)
    BY <1>3, <2>2, <2>14, <2>17 DEF Row
  <2>19. PICK cl : cl = [cell EXCEPT ![c] = n, ![k] = Vacant]
    OBVIOUS
  <2>20. /\ cl \in [Shown \cup New -> Entry \cup {Vacant}]
         /\ cl[c] = n /\ \A d \in Shown : d # c => cl[d] = cell[d]
    <3>1. \A d \in Shown : d # k
      BY CellsFacts
    <3> QED
      BY <1>3, <2>3, <2>17, <2>19, <3>1
  <2>21. v = [who |-> p, rows |-> T, cell |-> cl, mixed |-> mx, over |-> over]
    <3>1. v = [w EXCEPT
                 !.mixed = IF r.item = e.item THEN @ ELSE @ \cup {r.item, e.item},
                 !.rows = Noted(moved, {s \in Sendings(moved, e.with) : s.to = p /\ ~s.received}),
                 !.cell = [@ EXCEPT ![c] = [e EXCEPT !.at = c], ![k] = Vacant]]
      BY <1>8, <1>11, <2>1, <2>4, <2>5
    <3>2. v = [w EXCEPT !.mixed = IF r.item = e.item THEN @ ELSE @ \cup {r.item, e.item},
                        !.rows = T, !.cell = [@ EXCEPT ![c] = n, ![k] = Vacant]]
      BY <2>10, <2>11, <2>15, <3>1
    <3>3. v = [w EXCEPT !.mixed = mx, !.rows = T, !.cell = cl]
      BY <1>2, <2>14, <2>19, <3>2
    <3> QED
      BY <1>a, <3>3
  <2>22. InAgrees([window |-> "in", cell |-> cl], T, p, mx)
    <3> SUFFICES ASSUME NEW t \in Mails(T, p), t.slot \in Shown, cl[t.slot] # Vacant
                 PROVE  t.item = cl[t.slot].item \/ {t.item, cl[t.slot].item} \subseteq mx
      BY DEF InAgrees
    <3>1. t \in moved /\ t.box = 1 /\ t.to = p
      BY <2>12 DEF Mails
    <3>2. CASE t.slot = c
      <4>1. t = new
        BY <2>6, <2>7, <2>9, <3>1, <3>2 DEF GoodRows, Keyed
      <4> QED
        BY <2>7, <2>17, <2>18, <2>20, <3>2, <4>1
    <3>3. CASE t.slot # c
      <4>1. t \in Mails(R, p) /\ cl[t.slot] = cell[t.slot]
        BY <2>6, <2>9, <2>20, <3>1, <3>3 DEF Mails
      <4> QED
        BY <1>3, <2>18, <4>1 DEF InAgrees
    <3> QED
      BY <3>2, <3>3
  <2>23. \A q \in Players : q # p => Mails(T, q) \subseteq rows
    BY <1>3, <2>7, <2>9, <2>12 DEF Mails
  <2>24. T \subseteq Row
    BY <2>12 DEF GoodRows
  <2> QED
    BY <1>1, <1>3, <2>12, <2>13, <2>18, <2>20, <2>21, <2>22, <2>23, <2>24 DEF Round
<1> QED
  BY <1>9, <1>10, <1>11

LEMMA ReceiveMailsStep ==
    ASSUME DeliveryInv, NEW p \in Players, ReceiveMails(p)
    PROVE  DeliveryInv'
<1>1. PICK y : y = box[p]
  OBVIOUS
<1>2. y \in Window /\ y.window = "in" /\ InAgrees(y, rows, p, mixed)
  BY <1>1, TypeFacts DEF ReceiveMails
<1>3. PICK start : start = [who |-> p, rows |-> rows, cell |-> y.cell, mixed |-> mixed, over |-> FALSE]
  OBVIOUS
<1>4. PICK n \in Nat : n = Cells
  BY CellsFacts
<1>5. PICK list : list = [k \in 1 .. n |-> Cells + k - 1]
  OBVIOUS
<1>6. /\ DOMAIN list = 1 .. n /\ Len(list) = n
      /\ \A k \in 1 .. n : list[k] \in New
  <2>1. list \in Seq(Int) /\ Len(list) = n
    BY <1>4, <1>5
  <2>2. ASSUME NEW k \in 1 .. n PROVE list[k] \in New
    <3>1. list[k] = Cells + k - 1 /\ Cells + k - 1 \in Cells .. (2 * Cells - 1)
      BY <1>4, <1>5, CellsFacts
    <3> QED
      BY <3>1 DEF New
  <2> QED
    BY <1>5, <2>1, <2>2
<1>7. PICK w : w = InTurn(Placed, start, list)
  OBVIOUS
<1>8. /\ rows' = w.rows /\ box' = [box EXCEPT ![p].cell = w.cell] /\ mixed' = w.mixed
      /\ bag' = bag /\ mails' = mails /\ Lost' = Lost /\ copied' = copied
  BY <1>1, <1>3, <1>4, <1>5, <1>7 DEF ReceiveMails, Lost
<1>9. PICK S : S = Round(p)
  OBVIOUS
<1>10. start \in S
  <2>1. GoodRows(rows, mails) /\ rows \subseteq Row /\ mixed \subseteq Goods
    BY TypeFacts
  <2>2. y.cell \in [Shown \cup New -> Entry \cup {Vacant}] /\ y = [window |-> "in", cell |-> y.cell]
    BY <1>2 DEF Window
  <2>3. \A q : Mails(rows, q) \subseteq rows
    BY DEF Mails
  <2>4. InAgrees([window |-> "in", cell |-> y.cell], rows, p, mixed)
    BY <1>2, <2>2
  <2> QED
    BY <1>3, <1>9, <2>1, <2>2, <2>3, <2>4, FollowsSame DEF Round
<1>11. \A k \in 1 .. n, s \in S : Placed(s, list[k]) \in S
  BY <1>6, <1>9, PlacedFacts
<1> DEFINE round == [z \in (1 .. n) \X S |-> Placed(z[2], list[z[1]])]
           IsRun(f) == f = [k \in 0 .. Len(list) |->
                              IF k = 0 THEN start ELSE Placed(f[k-1], list[k])]
<1>12. PICK f \in [0 .. n -> S] :
          f[0] = start /\ \A k \in 1 .. n : f[k] = Placed(f[k-1], list[k])
  <2>1. PICK r : r = round
    OBVIOUS
  <2>2. r \in [(1 .. n) \X S -> S]
    BY <1>11, <2>1
  <2>3. PICK f \in RunsOf(n, S, start, r) : TRUE
    BY <1>10, <2>2, RunExists
  <2>4. \A k \in 1 .. n : k - 1 \in 0 .. n
    OBVIOUS
  <2> QED
    BY <2>1, <2>3, <2>4 DEF RunsOf
<1>13. IsRun(f)
  <2>1. \A k \in 0 .. n : k = 0 \/ k \in 1 .. n
    OBVIOUS
  <2> HIDE DEF round
  <2> QED
    BY <1>6, <1>12, <2>1
<1>14. PICK a : a = CHOOSE q : IsRun(q)
  OBVIOUS
<1>15. IsRun(a)
  <2> HIDE DEF IsRun
  <2> QED
    BY <1>13, <1>14
<1>16. w = a[n]
  BY <1>6, <1>7, <1>14 DEF InTurn
<1>17. a[0] = start /\ \A k \in 1 .. n : a[k] = Placed(a[k-1], list[k])
  <2>1. 0 \in 0 .. n /\ \A k \in 1 .. n : k \in 0 .. n /\ k # 0
    OBVIOUS
  <2> QED
    BY <1>6, <1>15, <2>1
<1> HIDE DEF round, IsRun
<1>18. w \in S
  <2>1. \A k \in 1 .. n : a[k-1] \in S => a[k] \in S
    BY <1>11, <1>17
  <2>2. \A k \in 0 .. n : a[k] \in S
    BY <1>10, <1>17, <2>1, KeptByRounds
  <2> QED
    BY <1>16, <2>2
<1>19. PICK x : x = [window |-> "in", cell |-> w.cell]
  OBVIOUS
<1>20. PICK T, mix : T = rows' /\ mix = mixed'
  OBVIOUS
<1>21. /\ T \subseteq Row /\ w.cell \in [Shown \cup New -> Entry \cup {Vacant}]
       /\ mix \subseteq Goods /\ GoodRows(T, mails) /\ Follows(rows, T) /\ mixed \subseteq mix
       /\ InAgrees(x, T, p, mix)
       /\ \A q \in Players : q # p => Mails(T, q) \subseteq rows
  BY <1>8, <1>9, <1>18, <1>19, <1>20 DEF Round
<1>22. x \in Window /\ x.window = "in"
  BY <1>19, <1>21 DEF Window
<1>23. box' = [box EXCEPT ![p] = x]
  <2>1. y = [window |-> "in", cell |-> y.cell]
    BY <1>2 DEF Window
  <2>2. x = [box[p] EXCEPT !.cell = w.cell]
    BY <1>1, <1>19, <2>1
  <2> QED
    BY <1>8, <2>2
<1>24. OutAgrees(x, rows', p) /\ InAgrees(x, rows', p, mixed')
  BY <1>20, <1>21, <1>22 DEF OutAgrees
<1>25. ASSUME NEW q \in Players, q # p PROVE SameFor(rows, rows', q)
  <2>1. \A t \in Mails(T, q) : t.slot \in Shown => t \in rows
    BY <1>21, <1>25
  <2>2. SameFor(rows, T, q)
    BY <1>21, <2>1, SameForFollows
  <2> QED
    BY <1>20, <2>2
<1>26. ASSUME NEW i \in Goods, i \notin copied' \cup mixed' PROVE OnePlace(bag', rows', i)
  <2>1. OnePlace(bag, rows, i)
    BY <1>8, <1>20, <1>21, <1>26 DEF DeliveryInv
  <2>2. OnePlace(bag, T, i)
    BY <1>21, <2>1, OnePlaceFollows
  <2> QED
    BY <1>8, <1>20, <2>2
<1>27. ASSUME NEW i \in Goods, i \notin Lost' \cup mixed' PROVE Somewhere(bag', rows', box', i)
  <2>1. Somewhere(bag, rows, box, i)
    BY <1>8, <1>20, <1>21, <1>27 DEF DeliveryInv
  <2>2. Somewhere(bag, T, box, i)
    BY <1>21, <2>1, SomewhereFollows
  <2>3. Somewhere(bag', T, box', i)
    BY <1>8, <1>21, <1>22, <1>23, <2>2, SomewhereInbox
  <2> QED
    BY <1>20, <2>3
<1>28. GoodRows(rows', mails') /\ mixed' \subseteq Goods /\ mixed \subseteq mixed'
  BY <1>8, <1>20, <1>21
<1>29. mails' \in 0 .. MaxMails /\ Lost' \subseteq Goods /\ copied' \subseteq Goods
       /\ bag' \in [Players -> Bag]
  BY <1>8, TypeFacts, CellsFacts
<1>30. /\ \A j \in Goods : j \in copied' \cup mixed' \/ OnePlace(bag', rows', j)
       /\ \A j \in Goods : j \in Lost' \cup mixed' \/ Somewhere(bag', rows', box', j)
  BY <1>26, <1>27
<1> QED
  BY <1>22, <1>23, <1>24, <1>25, <1>28, <1>29, <1>30, Assemble

-----------------------------------------------------------------------------
(* The theorems.                                                           *)

LEMMA InitEstablishes == Init => DeliveryInv
<1> SUFFICES ASSUME Init PROVE DeliveryInv
  OBVIOUS
<1>1. PICK owner \in [Goods -> Players] :
         bag = [p \in Players |-> [i \in Goods |-> IF owner[i] = p THEN 1 ELSE 0]]
  BY DEF Init
<1>2. /\ rows = {} /\ box = [p \in Players |-> Closed]
      /\ mails = 0 /\ gone = {} /\ forgotten = {} /\ copied = {} /\ mixed = {}
  BY DEF Init
<1>3. \A p \in Players, i \in Goods : bag[p][i] = IF owner[i] = p THEN 1 ELSE 0
  BY <1>1
<1>4. bag \in [Players -> Bag]
  BY <1>1 DEF Bag
<1>5. GoodRows(rows, mails)
  BY <1>2, FS_EmptySet DEF GoodRows, Keyed, OneSending, Numbered
<1>6. \A p \in Players : box[p] = Closed
  BY <1>2
<1>7. TypeOK
  <2>1. box \in [Players -> Window]
    BY <1>2, ClosedFacts
  <2>2. mails \in 0 .. MaxMails
    BY <1>2, CellsFacts
  <2> QED
    BY <1>2, <1>4, <2>1, <2>2 DEF TypeOK, Bag, Window
<1>8. \A p \in Players : OutAgrees(box[p], rows, p) /\ InAgrees(box[p], rows, p, mixed)
  BY <1>6, ClosedFacts
<1>9. \A i \in Goods : OnePlace(bag, rows, i)
  BY <1>2, <1>3 DEF OnePlace, InRows, Single
<1>10. \A i \in Goods : Somewhere(bag, rows, box, i)
  <2> TAKE i \in Goods
  <2>1. owner[i] \in Players /\ bag[owner[i]][i] > 0
    BY <1>3
  <2> QED
    BY <2>1 DEF Somewhere
<1> QED
  BY <1>5, <1>7, <1>8, <1>9, <1>10 DEF DeliveryInv

LEMMA NextKeeps == DeliveryInv /\ [Next]_vars => DeliveryInv'
<1> SUFFICES ASSUME DeliveryInv, [Next]_vars PROVE DeliveryInv'
  OBVIOUS
<1>1. CASE UNCHANGED vars
  <2>1. /\ bag' = bag /\ rows' = rows /\ box' = box /\ mails' = mails
        /\ gone' = gone /\ forgotten' = forgotten /\ copied' = copied /\ mixed' = mixed
    BY <1>1 DEF vars
  <2>2. TypeOK'
    BY <2>1 DEF DeliveryInv, TypeOK
  <2> QED
    BY <2>1, <2>2 DEF DeliveryInv, Lost
<1>2. CASE Next
  <2>1. PICK p \in Players :
        \/ OpenSendBox(p) \/ CloseSendBox(p) \/ Clear(p) \/ ZoneIn(p)
        \/ OpenInbox(p) \/ ShowMails(p) \/ ReceiveMails(p) \/ CloseInbox(p)
        \/ \E c \in Shown :
            \/ \E q \in Players, i \in Goods : PutIn(p, q, i, c)
            \/ Send(p, c) \/ Cancel(p, c) \/ TakeBack(p, c)
            \/ Take(p, c) \/ Return(p, c) \/ Drop(p, c)
    BY <1>2 DEF Next
  <2>2. CASE OpenSendBox(p)
    BY <2>2, OpenSendBoxStep
  <2>3. CASE CloseSendBox(p)
    BY <2>3, CloseSendBoxStep
  <2>4. CASE Clear(p)
    BY <2>4, ClearStep
  <2>5. CASE ZoneIn(p)
    BY <2>5, ZoneInStep
  <2>6. CASE OpenInbox(p)
    BY <2>6, OpenInboxStep
  <2>7. CASE ShowMails(p)
    BY <2>7, ShowMailsStep
  <2>8. CASE ReceiveMails(p)
    BY <2>8, ReceiveMailsStep
  <2>9. CASE CloseInbox(p)
    BY <2>9, CloseInboxStep
  <2>10. ASSUME NEW c \in Shown, NEW q \in Players, NEW i \in Goods, PutIn(p, q, i, c)
         PROVE  DeliveryInv'
    BY <2>10, PutInStep
  <2>11. ASSUME NEW c \in Shown, Send(p, c) PROVE DeliveryInv'
    BY <2>11, SendStep
  <2>12. ASSUME NEW c \in Shown, Cancel(p, c) PROVE DeliveryInv'
    BY <2>12, CancelStep
  <2>13. ASSUME NEW c \in Shown, TakeBack(p, c) PROVE DeliveryInv'
    BY <2>13, TakeBackStep
  <2>14. ASSUME NEW c \in Shown, Take(p, c) PROVE DeliveryInv'
    BY <2>14, TakeStep
  <2>15. ASSUME NEW c \in Shown, Return(p, c) PROVE DeliveryInv'
    BY <2>15, ReturnStep
  <2>16. ASSUME NEW c \in Shown, Drop(p, c) PROVE DeliveryInv'
    BY <2>16, DropStep
  <2> QED
    BY <2>1, <2>2, <2>3, <2>4, <2>5, <2>6, <2>7, <2>8, <2>9, <2>10, <2>11, <2>12, <2>13,
       <2>14, <2>15, <2>16
<1> QED
  BY <1>1, <1>2

\* The numbers of rows stay apart, open windows agree with the table, and an
\* item for which nothing is noted is in exactly one place.
THEOREM DeliveryInvariant == Spec => []DeliveryInv
<1>1. Init => DeliveryInv
  BY InitEstablishes
<1>2. DeliveryInv /\ [Next]_vars => DeliveryInv'
  BY NextKeeps
<1> QED
  BY <1>1, <1>2, PTL DEF Spec

\* The type invariant, and the primary key of the table: charid, box, slot.
THEOREM DeliveryTypeCorrect == Spec => []TypeOK
<1>1. DeliveryInv => TypeOK
  BY DEF DeliveryInv
<1> QED
  BY <1>1, DeliveryInvariant, PTL

LEMMA FinitelyManyPieces ==
    ASSUME DeliveryInv, NEW i \in Goods
    PROVE  IsFiniteSet(InBags(i)) /\ IsFiniteSet(InRows(rows, i))
<1>1. PICK f : f = [p \in Players |-> {p} \X (1 .. bag[p][i])]
  OBVIOUS
<1>2. PICK S : S = {{p} \X (1 .. bag[p][i]) : p \in Players}
  OBVIOUS
<1>3. f \in Surjection(Players, S)
  BY <1>1, <1>2 DEF Surjection
<1>4. IsFiniteSet(Players)
  BY DeliveryConstants
<1>5. IsFiniteSet(S)
  BY <1>3, <1>4, FS_Surjection
<1>6. ASSUME NEW p \in Players PROVE IsFiniteSet({p} \X (1 .. bag[p][i]))
  <2>1. PICK n \in Int : n = bag[p][i]
    BY TypeFacts DEF Bag
  <2>2. IsFiniteSet(1 .. n)
    BY FS_Interval
  <2>3. IsFiniteSet({p})
    BY FS_Singleton
  <2> QED
    BY <2>1, <2>2, <2>3, FS_Product
<1>7. IsFiniteSet(UNION S)
  <2>1. \A T \in S : IsFiniteSet(T)
    BY <1>2, <1>6
  <2> QED
    BY <1>5, <2>1, FS_UNION
<1>8. IsFiniteSet(InBags(i))
  BY <1>2, <1>7 DEF InBags
<1>9. IsFiniteSet(InRows(rows, i))
  <2>1. IsFiniteSet(rows) /\ InRows(rows, i) \in SUBSET rows
    BY TypeFacts DEF GoodRows, InRows
  <2> QED
    BY <2>1, FS_Subset
<1> QED
  BY <1>8, <1>9

LEMMA BagPieces ==
    ASSUME DeliveryInv, NEW i \in Goods
    PROVE  \A x : x \in InBags(i) <=> \E p \in Players : \E n \in 1 .. bag[p][i] : x = <<p, n>>
BY DEF InBags

LEMMA PiecesSomewhere ==
    ASSUME DeliveryInv
    PROVE  OnlyKnownLosses
<1> SUFFICES ASSUME NEW i \in Goods, Pieces(i) = 0, i \notin Lost \cup mixed PROVE FALSE
  BY DEF OnlyKnownLosses, Lost
<1>1. Somewhere(bag, rows, box, i)
  BY DEF DeliveryInv
<1>2. InBags(i) # {} \/ InRows(rows, i) # {}
  <2>1. ASSUME NEW p \in Players, bag[p][i] > 0 PROVE InBags(i) # {}
    <3>1. bag[p][i] \in Nat
      BY TypeFacts DEF Bag
    <3>2. 1 \in 1 .. bag[p][i]
      BY <2>1, <3>1
    <3>3. <<p, 1>> \in InBags(i)
      BY <3>2, BagPieces
    <3> QED
      BY <3>3
  <2> QED
    BY <1>1, <2>1 DEF Somewhere
<1>3. PICK a, b \in Nat : a = Cardinality(InBags(i)) /\ b = Cardinality(InRows(rows, i))
  BY FinitelyManyPieces, FS_CardinalityType
<1>4. a = 0 /\ b = 0
  BY <1>3 DEF Pieces
<1> QED
  BY <1>2, <1>3, <1>4, FinitelyManyPieces, FS_EmptySet

LEMMA PiecesInOnePlace ==
    ASSUME DeliveryInv
    PROVE  OnlyKnownCopies
<1> SUFFICES ASSUME NEW i \in Goods, Pieces(i) > 1, i \notin copied \cup mixed PROVE FALSE
  BY DEF OnlyKnownCopies
<1>1. OnePlace(bag, rows, i)
  BY DEF DeliveryInv
<1>2. Cardinality(InRows(rows, i)) <= 1
  BY <1>1, FinitelyManyPieces, AtMostOne DEF OnePlace, Single
<1>3. \A x \in InBags(i) : \E p \in Players : bag[p][i] = 1 /\ x = <<p, 1>>
  <2> SUFFICES ASSUME NEW p \in Players, NEW n \in 1 .. bag[p][i]
               PROVE  bag[p][i] = 1 /\ <<p, n>> = <<p, 1>>
    BY BagPieces
  <2>1. bag[p][i] \in Nat /\ bag[p][i] <= 1
    BY <1>1, TypeFacts DEF OnePlace, Bag
  <2> QED
    BY <2>1
<1>4. \A x, y \in InBags(i) : x = y
  BY <1>1, <1>3 DEF OnePlace
<1>5. Cardinality(InBags(i)) <= 1
  BY <1>4, FinitelyManyPieces, AtMostOne
<1>6. InRows(rows, i) # {} => InBags(i) = {}
  BY <1>1, <1>3 DEF OnePlace
<1>7. PICK a, b \in Nat : a = Cardinality(InBags(i)) /\ b = Cardinality(InRows(rows, i))
  BY FinitelyManyPieces, FS_CardinalityType
<1>8. a = 0 \/ b = 0
  BY <1>6, <1>7, FS_EmptySet
<1> QED
  BY <1>2, <1>5, <1>7, <1>8 DEF Pieces

\* An item is nowhere only if it was dropped, refused by an inventory, mixed up
\* by 0x05, or deleted unread by RecoverFailedSendBox.
THEOREM LossesAreKnown == Spec => []OnlyKnownLosses
<1>1. DeliveryInv => OnlyKnownLosses
  BY PiecesSomewhere
<1> QED
  BY <1>1, DeliveryInvariant, PTL

\* An item is in more than one place only if a send box was closed or a sending
\* cancelled after its mail had Lost, or if 0x05 took its mail for another.
THEOREM CopiesAreKnown == Spec => []OnlyKnownCopies
<1>1. DeliveryInv => OnlyKnownCopies
  BY PiecesInOnePlace
<1> QED
  BY <1>1, DeliveryInvariant, PTL

=============================================================================
