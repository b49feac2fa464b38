SPECIFICATION Spec
CONSTANTS
    InitialDelay = 1
    MaxDelay = 4
    ResetAfter = 3
    MaxEvents = 3
    MaxFaults = 2
INVARIANTS
    LoopEndsOnlyOnStop
CHECK_DEADLOCK FALSE
