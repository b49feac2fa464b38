SPECIFICATION FairSpec
CONSTANTS
    Payloads <- SettlePayloads
    Messages <- SettleMessages
    MessageOf <- SettleMessageOf
    Event <- SettleEvent
    Groups <- MCGroups
    Users <- MCUsers
    DisabledGroups = {"h"}
    MaxAttempts = 2
    Retention = 0
    MaxDeliveries = 2
    MaxTime = 0
    Faults = {"crash", "load", "llm", "refused"}
    Receivers = {"gw"}
    Workers = {w1, w2}
    MaxConcurrent = 2
    Window = 1
    SummaryCooldown = 1
    AssistantCooldown = 1
    Transport = "websocket"
    Configs <- AllFeatures
    MaxRestarts = 1
PROPERTIES
    EveryRowSettles
