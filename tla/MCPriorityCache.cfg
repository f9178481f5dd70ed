SPECIFICATION Spec
CONSTANTS
    NumBlocks = 8
    EnableCaching = TRUE
    NoHash <- MCNoHash
    Reqs <- MCReqs
    BlockSize = 2
    MaxModelLen = 14
    SlidingWindow = 0
    UseEagle = FALSE
    Prompt <- MCPrompt
    MaxTokens <- MCMaxTokens
    Priority <- MCPriority
    Policy = "priority"
    Async = FALSE
    BatchQueueSize = 1
    MaxNumScheduledTokens = 6
    MaxNumRunningReqs = 3
    LongPrefillThreshold = 4
    EnableChunkedPrefill = TRUE
    MayAbort = {}
    MayEos = {}
    ResetModes = {}
    MaxResets = 1
    HasConnector = FALSE
    Offers <- MCNoOffers
    Sends = {}
    MayFail <- MCNoFailures
    MaxLoadFailures = 0
    AbortLoading = FALSE
INVARIANT
    CachedIsComputed
CHECK_DEADLOCK FALSE
