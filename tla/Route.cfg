CONSTANTS
    StartupBlocks = 2
    ReserveBlocks = 0
    PrebufferBlocks = 1
    JitterCapacity = 2
    RingCapacity = 1
    MaxRefill = 1
    EngineMayStop = TRUE
    SessionMayClose = TRUE
SPECIFICATION TalkingSpec
ACTION_CONSTRAINT OneAtATime
INVARIANTS
    RouteInv
    CheckedResetNotBesideBoth
    ReturnedMeansWindows
PROPERTIES
    GoesLiveOrDrops
    ReturnWins
