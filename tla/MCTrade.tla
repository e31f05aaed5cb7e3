------------------------------ MODULE MCTrade ------------------------------
(* Three players, one of whom can disturb the trade of the other two.      *)
EXTENDS Trade

CONSTANTS a, b, c, gil, ring, ore

MCStack == [id \in Ids |-> IF id = ore THEN 2 ELSE 1]

Of(id, n) == [id |-> id, qty |-> n, reserve |-> 0]
Pack(money, x) == [s \in Slots |-> CASE s = 0 -> Of(gil, money) [] s = 1 -> x [] OTHER -> NoItem]

\* a has a rare ring and gil, b a stack of ore, c a ring of its own.
MCStock == [p \in Players |-> CASE p = a -> Pack(1, Of(ring, 1))
                              [] p = b -> Pack(1, Of(ore, 2))
                              [] p = c -> Pack(0, Of(ring, 1))]
=============================================================================
