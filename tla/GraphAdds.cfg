CONSTANTS
    k1 = k1
    k2 = k2
    k3 = k3
    Key = {k1, k2}
    NoKey = NoKey
    NoId = NoId
    Shard <- TwoShards
    NodeRef <- TwoShardIds
    ShardOf <- OneAndTwo
    Client = {c1, c2, c3}
    Ops = {"addNode", "addRel"}
    Addressing = {"id", "key"}
    TypeAtStart = TRUE
    FarRemovals = TRUE
    MaxSlots = 1
    MaxRels = 2
    Word = 16
SPECIFICATION FairSpec
INVARIANTS
    MirrorIsOwed
PROPERTIES
    EventuallyMirrored
CHECK_DEADLOCK FALSE
