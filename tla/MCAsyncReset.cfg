SPECIFICATION Spec
CONSTANTS
    NumBlocks = 5
    EnableCaching = TRUE
    NoHash <- MCNoHash
    Reqs <- MCReqs
    BlockSize = 2
    MaxModelLen = 6
    SlidingWindow = 0
    UseEagle = FALSE
    Prompt <- MCPrompt
    MaxTokens <- MCMaxTokens
    Priority <- MCPriority
    Policy = "fcfs"
    Async = TRUE
    BatchQueueSize = 2
    MaxNumScheduledTokens = 4
    MaxNumRunningReqs = 3
    LongPrefillThreshold = 0
    EnableChunkedPrefill = TRUE
    MayAbort = {}
    MayEos = {}
    ResetModes = {TRUE}
    MaxResets = 1
    HasConnector = FALSE
    Offers <- MCNoOffers
    Sends = {}
    MayFail <- MCNoFailures
    MaxLoadFailures = 0
    AbortLoading = FALSE
INVARIANTS
    OutputInOrder
CHECK_DEADLOCK FALSE
