SPECIFICATION FairSpec
CONSTANTS
    MaxRetries = 2
    RetryAfters <- MCRetryAfters
    MaxMessages = 4
    ChunkMessages = 3
    Budgets = {5, 7}
    Windows <- MCWindows
    Described = {1, 8}
    WindowFrame = 2
    ChunkFrame = 1
    MergeFrame = 1
    Contents <- MCContents
    Usages <- MCUsages
INVARIANTS
    RetryDiscipline
    StallBounded
    ChunksTile
    RefusedBeforeTextCalls
    SummaryIsWhole
PROPERTIES
    SummaryEnds
CHECK_DEADLOCK FALSE
