CONSTANTS
    Length = 2
    ReadAhead = 1
    RingBlocks = 2
    TapPacing = 1
    TapBlocks = 2
    MaxCommands = 3
SPECIFICATION FairSpec
INVARIANTS
    MediaDeckInv
    PhoneNeverReplays
    OneBlockLate
PROPERTIES
    StopSilences
CHECK_DEADLOCK FALSE
