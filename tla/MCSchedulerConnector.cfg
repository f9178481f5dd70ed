SPECIFICATION ConnectorSpec
CONSTANTS
    NumBlocks = 6
    EnableCaching = TRUE
    NoHash <- MCNoHash
    Reqs <- MCReqs
    BlockSize = 2
    MaxModelLen = 6
    SlidingWindow = 0
    UseEagle = FALSE
    Prompt <- MCPrompt
    MaxTokens <- MCMaxTokens
    Priority <- MCPriority
    Policy = "fcfs"
    Async = FALSE
    BatchQueueSize = 1
    MaxNumScheduledTokens = 4
    MaxNumRunningReqs = 2
    LongPrefillThreshold = 0
    EnableChunkedPrefill = TRUE
    MayAbort = {2}
    MayEos = {}
    ResetModes = {}
    MaxResets = 1
    HasConnector = TRUE
    Offers <- MCOffers
    Sends = {1}
    MayFail <- MCMayFail
    MaxLoadFailures = 1
    AbortLoading = FALSE
INVARIANTS
    BlockAccounting
    CachedIsComputed
    OutputInOrder
    SentIsIntact
PROPERTIES
    EveryRequestFinishes
CHECK_DEADLOCK FALSE
