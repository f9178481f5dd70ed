SPECIFICATION Spec
CONSTANTS
    NumBlocks = 3
    EnableCaching = TRUE
    NoHash <- MCNoHash
    Reqs <- MCReqs
    BlockSize = 2
    MaxModelLen = 6
    SlidingWindow = 0
    UseEagle = FALSE
    Prompt <- MCPrompt
    MaxTokens <- MCMaxTokens
    Priority <- MCPriority
    Policy = "fcfs"
    Async = FALSE
    BatchQueueSize = 1
    MaxNumScheduledTokens = 4
    MaxNumRunningReqs = 2
    LongPrefillThreshold = 0
    EnableChunkedPrefill = TRUE
    MayAbort = {1}
    MayEos = {}
    ResetModes = {}
    MaxResets = 1
    HasConnector = TRUE
    Offers <- MCOffers
    Sends = {}
    MayFail <- MCMayFail
    MaxLoadFailures = 0
    AbortLoading = TRUE
INVARIANTS
    CachedIsComputed
CHECK_DEADLOCK FALSE
