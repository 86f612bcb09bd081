CONSTANTS
    Pads = {siren, bell}
    Looping = {siren}
    Layered = {siren}
    QueueSlots = 3
    MaxVoices = 2
    LoadedAtStart = {siren}
    MaxCommands = 4
    MaxRuns = 2
    MaxLoads = 2
SPECIFICATION FairSpec
INVARIANTS
    
    NoVoiceOutlivesItsStop
    
PROPERTIES
    ImplementsFifo
    StopsAreObeyed
CHECK_DEADLOCK FALSE
