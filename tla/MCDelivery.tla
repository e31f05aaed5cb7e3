----------------------------- MODULE MCDelivery -----------------------------
(* Two players, who are alike, send each other two goods, one of them rare. *)
EXTENDS Delivery

CONSTANTS ann, bob, ring, ore

Alike == Permutations(Players)
=============================================================================
