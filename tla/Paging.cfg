CONSTANTS
    k1 = k1
    k2 = k2
    k3 = k3
    k4 = k4
    t1 = t1
    t2 = t2
    Key = {k1, k2, k3, k4}
    NoKey = NoKey
    MaxSlots = 3
    Word = 16
    Shard <- TwoShards
    Type <- TwoTypes
    ShardOf <- ThreeAndOne
    Named <- FourNodes
    Everything = Everything
    Scope = {t1, Everything}
    MaxFreed = 1
    Pages <- SomePages
    NodeRef = {1}
    NoId = NoId
    MaxRels = 3
SPECIFICATION MCSpec
INVARIANTS
    EveryFirstPageExact
    EveryPageOfOneShardExact
    NothingListedIsMissed
SYMMETRY FirstShardSymmetry
CHECK_DEADLOCK FALSE
