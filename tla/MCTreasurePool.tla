--------------------------- MODULE MCTreasurePool ---------------------------
(* Small instances of TreasurePool for TLC.                                *)
EXTENDS TreasurePool, TLC

CONSTANTS alice, bob, carol, sword

TwoChars == {alice, bob}
ThreeChars == {alice, bob, carol}
OneItem == {sword}

Symmetry2 == Permutations(TwoChars)
Symmetry3 == Permutations(ThreeChars)
=============================================================================
