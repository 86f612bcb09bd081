CONSTANTS
    p1 = p1
    p2 = p2
    a = a
    b = b
    c = c
    Phones <- MCPhones
    Sockets <- MCSockets
    PhoneOf <- MCPhoneOf
    MaxSessions = 2
SPECIFICATION Spec
SYMMETRY MCSymmetry
INVARIANTS
    SessionsInv
    AloneHasTaps
    OnlyLateOnesOutlive
CHECK_DEADLOCK FALSE
