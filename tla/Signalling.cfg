SPECIFICATION Spec
CONSTANTS
    MaxStarts = 2
    MaxPeers = 2
    MaxSockets = 2
    MaxOfBoth = 3
    Room = 1
INVARIANTS SignallingInv StopIsFinal
PROPERTY StopReleases
CHECK_DEADLOCK FALSE
