SPECIFICATION FairSpec
CONSTANTS
    Loads <- MCLoads
    BatchSize = 2
    ContainsForward <- MCContainsForward
    Encoded <- MCEncoded
    PicturesOf <- PicturesOfTree
    Windows <- MCWindows
    Lookback = 2
    MaxMessages = 2
    Key <- MCKey
    Content <- MCContent
    MaxImages = 2
    MaxForwardDepth = 2
    MaxForwardNodes = 3
    MaxNesting = 3
INVARIANTS
    HistoryExact
    PersistAnswersStored
    ReparseComplete
    ContextPrecedesTrigger
    StoredTreeFaithful
    TreeBounded
    CutsAreVisible
    FetchesBounded
    DescriptionsAgree
    DescriptionsAreOwn
    RecentPicturesFirst
PROPERTIES
    ReparseEnds
CHECK_DEADLOCK FALSE
