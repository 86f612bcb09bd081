CONSTANTS
    Capacity = 3
    Batches = {1, 2, 4}
    Resetters = {bridge, engine}
    Horizon = 7
SPECIFICATION BufferSpec
INVARIANTS
    BufferInv
PROPERTIES
    ReadNeverMovesBackwards
    ImplementsChannel
