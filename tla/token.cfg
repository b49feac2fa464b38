SPECIFICATION FairSpec
CONSTANTS
    Callers = {c1, c2, c3}
    Lifetime = 4
    Safety = 2
    Latency = 1
    MaxTokens = 2
    MaxTime = 5
    Faults = {"request", "revoke", "cancel"}
INVARIANTS
    OneRequest
PROPERTIES
    ReturnsLiveTokens
    RefusedIsNotReused
    WaitersServed
CHECK_DEADLOCK FALSE
