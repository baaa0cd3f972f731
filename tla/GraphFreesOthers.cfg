CONSTANTS
    k1 = k1
    k2 = k2
    k3 = k3
    Key = {k1, k2, k3}
    NoKey = NoKey
    NoId = NoId
    Shard <- TwoShards
    NodeRef <- TwoShardIds
    ShardOf <- OneAndTwo
    Client = {c1}
    Ops = {"addNode", "addRel", "removeNode"}
    Addressing = {"id"}
    TypeAtStart = TRUE
    FarRemovals = TRUE
    MaxSlots = 2
    MaxRels = 1
    Word = 16
SPECIFICATION Spec
PROPERTIES
    RemovalFreesOnlyItsOwn
