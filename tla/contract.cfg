SPECIFICATION Spec
CONSTANTS
    Payloads <- ContractPayloads
    Messages <- ContractMessages
    MessageOf <- ContractMessageOf
    Event <- ContractEvent
    Groups <- MCGroups
    Users <- MCUsers
    DisabledGroups = {"h"}
    MaxAttempts = 2
    Retention = 1
    MaxDeliveries = 2
    MaxTime = 2
    Faults = {"crash", "load", "record", "llm", "refused", "turn", "prune"}
    Receivers = {"gw"}
    Workers = {w1}
    MaxConcurrent = 1
    Window = 3
    SummaryCooldown = 1
    AssistantCooldown = 1
    Transport = "websocket"
    Configs <- AnyFeatures
    MaxRestarts = 2
INVARIANTS
    OneReplyPerMessage
PROPERTIES
    ReplyContractHolds
