CONSTANTS
    Shard <- ThreeShards
    Name = {a, b}
    NoName = NoName
    Client = {c1, c2}
    Inserters <- ShardZero
    Deletes = "emptied"
    Storing = TRUE
    HoldsLock = FALSE
    MaxTypes = 3
SPECIFICATION FairSpec
INVARIANTS
    NamesMatchPositions
    TypeIdsAreGlobal
    AnsweredMeansKnown
    DeletedOnAllShards
PROPERTIES
    EventuallyAgreed
CHECK_DEADLOCK FALSE
