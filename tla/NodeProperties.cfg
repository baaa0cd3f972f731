CONSTANTS
    Key = {k1, k2, k3}
    NoKey = NoKey
    MaxSlots = 3
    Word = 16
    Value <- MCValue
    NoValue = NoValue
    NodeRef = {n1}
    NoId = NoId
    MaxRels = 3
SPECIFICATION MCSpec
SYMMETRY Symmetry
INVARIANTS
    EveryReadIsTheLastWrite
    EveryBatchReadAgrees
    EverySearchExact
    EveryCountExact
    EveryFilterExact
CHECK_DEADLOCK FALSE
