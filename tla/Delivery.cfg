CONSTANTS
    ann = ann
    bob = bob
    ring = ring
    ore = ore
    Players = {ann, bob}
    Goods = {ring, ore}
    Rare = {ring}
    Size = 2
    Cells = 2
    MaxMails = 2
SPECIFICATION Spec
INVARIANTS TypeOK OnlyKnownLosses OnlyKnownCopies
SYMMETRY Alike
