CONSTANTS
    Key = {k1, k2, k3, k4}
    NoKey = NoKey
    MaxSlots = 4
    Word = 16
SPECIFICATION Spec
INVARIANTS
    TypeOK
    SlotIntegrity
    ValidNodeHasKey
    HiddenBoundedByDeleted
    PagesListEveryValidNode
PROPERTIES
    NodeIdStable
CHECK_DEADLOCK FALSE
