CONSTANTS
    Shard = {0, 1}
    Query = {q1, q2, q3}
    Write = {w1, w2}
    capacity = 2
    NoClosure = NoClosure
    NoFill = NoFill
    Asker = {1}
    Caller = {0, 1}
    MaxChanges = 2
SPECIFICATION Spec
SYMMETRY Symmetric
INVARIANTS
    RecentPlansKept
    PlansFresh
    ClosuresFresh
CHECK_DEADLOCK FALSE
