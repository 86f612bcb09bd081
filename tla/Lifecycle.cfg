CONSTANT MaxCalls = 5
SPECIFICATION Spec
INVARIANTS
    LifecycleInv
    NoOrphanServer
    OffUnlessOverlooked
PROPERTY StopEnds
CHECK_DEADLOCK FALSE
