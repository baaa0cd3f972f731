CONSTANTS
    k3 = k3
    Key = {k1, k2, k3}
    KeyHome <- MCKeyHome
    Caller = {0}
    NoKey = NoKey
    MaxSlots = 2
    Word = 16
    Value <- MCValue
    NoValue = NoValue
    Shard = {0, 1}
    Home <- MCHome
    NoIndex = NoIndex
    MaxWrites = 2
    MaxTasks = 3
SPECIFICATION Spec
INVARIANTS
    NothingMissing
    NothingStale
    SearchesAgree
CHECK_DEADLOCK FALSE
