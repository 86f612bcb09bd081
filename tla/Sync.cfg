CONSTANTS
    p1 = p1
    Phones <- MCPhones
    MaxSockets = 2
    MaxVersion = 2
    Room = 1
SPECIFICATION Spec
INVARIANTS
    SyncInv
    RestIsCurrent
PROPERTIES
    ChangeReachesPhone
CHECK_DEADLOCK FALSE
