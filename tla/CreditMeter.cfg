SPECIFICATION Spec
CONSTANTS
    Calls = {k1, k2}
    Budget = 2
    Cap = 2
    Slots = {2}
    Deltas <- FineOrGift
    MaxTime = 3
    MaxAdjusts = 1
SYMMETRY Symmetry
INVARIANT TypeOK
INVARIANT ChargeIsBounded
INVARIANT PausedTimeIsFree
