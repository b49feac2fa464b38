SPECIFICATION FairSpec
CONSTANTS
    InitialDelay = 1
    MaxDelay = 4
    ResetAfter = 3
    MaxEvents = 4
    MaxFaults = 3
INVARIANTS
    OneHeartbeat
    EventsCountedOnce
    ResumesOwnSession
    PacedRetries
PROPERTIES
    ServesAgain
CHECK_DEADLOCK FALSE
