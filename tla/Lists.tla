------------------------------- MODULE Lists -------------------------------
(* Lists of which a loop erases entries while it goes through them.        *)
EXTENDS Integers, Sequences, FiniteSets

\* "for (i = 0; i < list.size(); ++i) if (...) list.erase(list.begin() + i)":
\* after an erased entry the loop skips the next one.  Of each run of entries
\* that match it erases the first, the third, ...  (positions that match: E)
Skipping(E) ==
    {k \in E : \E j \in 1 .. k : /\ j .. k \subseteq E /\ j - 1 \notin E
                                 /\ (k - j) % 2 = 0}

\* The elements of seq at the positions in keep, in order.
Rank(keep, k) == Cardinality({j \in keep : j <= k})
Restricted(seq, keep) ==
    [i \in 1 .. Cardinality(keep) |-> seq[CHOOSE k \in keep : Rank(keep, k) = i]]

\* "for (i = 0; i < list.size(); ++i) h = Op(h, list[i])": after[k] is the
\* state when k elements have been handled.
InTurn(Op(_, _), h, list) ==
    LET after[k \in 0 .. Len(list)] ==
            IF k = 0 THEN h ELSE Op(after[k - 1], list[k])
    IN  after[Len(list)]
=============================================================================
