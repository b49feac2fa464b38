SPECIFICATION Spec
CONSTANTS
    Payloads <- ShutdownPayloads
    Messages <- ShutdownMessages
    MessageOf <- ShutdownMessageOf
    Event <- ShutdownEvent
    Groups <- MCGroups
    Users <- MCUsers
    DisabledGroups = {"h"}
    MaxAttempts = 2
    Retention = 0
    MaxDeliveries = 1
    MaxTime = 0
    Faults = {}
    Receivers = {"gw"}
    Workers = {w1}
    MaxConcurrent = 1
    Window = 2
    SummaryCooldown = 1
    AssistantCooldown = 1
    Transport = "websocket"
    Configs <- AllFeatures
    MaxRestarts = 1
INVARIANTS
    RecognisedIsRecorded
