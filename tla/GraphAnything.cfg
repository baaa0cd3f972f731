CONSTANTS
    k1 = k1
    k2 = k2
    k3 = k3
    Key = {k1, k2}
    NoKey = NoKey
    NoId = NoId
    Shard <- TwoShards
    NodeRef <- TwoShardIds
    ShardOf <- OneAndTwo
    Client = {c1, c2}
    Ops = {"addNode", "addRel", "removeRel", "removeNode"}
    Addressing = {"id", "key"}
    TypeAtStart = FALSE
    FarRemovals = TRUE
    MaxSlots = 1
    MaxRels = 1
    Word = 16
SPECIFICATION Spec
INVARIANTS
    ColumnsAgree
    RelStoresAgree
SYMMETRY ClientSymmetry
