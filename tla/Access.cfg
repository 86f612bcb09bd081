CONSTANTS
    p1 = p1
    c1 = c1
    c2 = c2
    s1 = s1
    s2 = s2
    s3 = s3
    Phones <- MCPhones
    Secrets <- MCSecrets
    Conns <- MCConns
    MaxTokens = 2
    MaxAttempts = 2
SPECIFICATION Spec
SYMMETRY Symmetry
INVARIANTS
    AccessInv
    HandedOutIsOnFile
    RevokedStaysOut
    OnlyTheRaceIsMissed
PROPERTY ForgetsOnlyRevoked
