SPECIFICATION Spec
CONSTANTS
    Payloads <- HandlerPayloads
    Messages <- HandlerMessages
    MessageOf <- HandlerMessageOf
    Event <- HandlerEvent
    Groups <- MCGroups
    Users <- MCUsers
    DisabledGroups = {"h"}
    MaxAttempts = 2
    Retention = 0
    MaxDeliveries = 2
    MaxTime = 2
    Faults = {"raw", "message", "enqueue", "poll", "claim", "llm", "persist", "token", "refused", "unconfirmed", "turn", "record"}
    Receivers = {"rq1", "rq2"}
    Workers = {w1, w2}
    MaxConcurrent = 2
    Window = 2
    SummaryCooldown = 1
    AssistantCooldown = 1
    Transport = "webhook"
    Configs <- AllFeatures
    MaxRestarts = 0
SYMMETRY WorkerSymmetry
INVARIANTS
    TypeOK
    SummaryStoredBeforePost
    CompletedMeansAnswered
    PermitsConserved
    OneSummaryPerGroup
