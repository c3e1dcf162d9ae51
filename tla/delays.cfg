SPECIFICATION FairSpec
CONSTANTS
    LastThread = 1
    Quantum = 1
    Delays = {1}
    MaxDelay = 1
PROPERTIES
    TicksDelivered
    DelayEnds
CHECK_DEADLOCK FALSE
