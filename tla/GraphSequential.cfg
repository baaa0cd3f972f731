CONSTANTS
    k1 = k1
    k2 = k2
    k3 = k3
    Key = {k1, k2, k3}
    NoKey = NoKey
    NoId = NoId
    Shard <- TwoShards
    NodeRef <- TwoShardIds
    ShardOf <- OneAndTwo
    Client = {c1}
    Ops = {"addNode", "addRel", "removeRel", "removeNode"}
    Addressing = {"id", "key"}
    TypeAtStart = TRUE
    FarRemovals = FALSE
    MaxSlots = 2
    MaxRels = 2
    Word = 16
SPECIFICATION Spec
INVARIANTS
    TypeOK
    OwnerSide
    EndsAreNodes
    IncomingSide
PROPERTIES
    ImplementsPropertyGraph
