CONSTANTS
    Node <- FiveNodes
    Shard = {0, 1}
    ShardOf <- OddOrEven
    Rel = {1, 2, 3, 4, 5, 6, 7, 8}
    Ends <- Ways
    Cost = {0, 3}
    Gone = Gone
    Unset = Unset
    TraceLimit = 3
    Request <- Requests
    Changing = {3}
    MaxChanges = 1
SPECIFICATION MCSpec
INVARIANTS
    BestPathExact
    EveryPathFound
    TracesBack
PROPERTIES
    EverySearchEnds
