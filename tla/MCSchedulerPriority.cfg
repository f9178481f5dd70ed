SPECIFICATION Spec
CONSTANTS
    NumBlocks = 4
    EnableCaching = TRUE
    NoHash <- MCNoHash
    Reqs <- MCReqs
    BlockSize = 2
    MaxModelLen = 6
    SlidingWindow = 0
    UseEagle = FALSE
    Prompt <- MCPrompt
    MaxTokens <- MCMaxTokens
    Priority <- MCPriority
    Policy = "priority"
    Async = TRUE
    BatchQueueSize = 2
    MaxNumScheduledTokens = 6
    MaxNumRunningReqs = 3
    LongPrefillThreshold = 0
    EnableChunkedPrefill = FALSE
    MayAbort = {1}
    MayEos = {}
    ResetModes = {TRUE}
    MaxResets = 1
    HasConnector = TRUE
    Offers <- MCOffers
    Sends = {}
    MayFail <- MCMayFail
    MaxLoadFailures = 1
    AbortLoading = TRUE
INVARIANTS
    QueuesMatchStatus
    BlockAccounting
    ScheduleWithinLimits
    PreemptedIsLeastUrgent
    LoadsIntoOwnBlocks
CHECK_DEADLOCK FALSE
