SPECIFICATION Spec
CONSTANTS
    Payloads <- RecoveryPayloads
    Messages <- RecoveryMessages
    MessageOf <- RecoveryMessageOf
    Event <- RecoveryEvent
    Groups <- MCGroups
    Users <- MCUsers
    DisabledGroups = {"h"}
    MaxAttempts = 3
    Retention = 0
    MaxDeliveries = 2
    MaxTime = 0
    Faults = {"crash", "load", "requeue", "lookup", "record", "turn"}
    Receivers = {"gw"}
    Workers = {w1, w2}
    MaxConcurrent = 2
    Window = 2
    SummaryCooldown = 1
    AssistantCooldown = 1
    Transport = "websocket"
    Configs <- AllFeatures
    MaxRestarts = 2
SYMMETRY WorkerSymmetry
INVARIANTS
    AtMostOnePost
    ClaimedRowIsOwned
    PendingCanRun
    RecordedTurnReconciled
PROPERTIES
    TerminalIsFinal
