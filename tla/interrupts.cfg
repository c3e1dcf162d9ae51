SPECIFICATION Spec
CONSTANTS
    LastThread = 2
    Quantum = 1
    Delays = {1}
    MaxDelay = 1
INVARIANTS
    TypeOK
    ServiceMatches
PROPERTIES
    EoiEndsOwn
    FrameKeptUntilEoi
    
CHECK_DEADLOCK FALSE
