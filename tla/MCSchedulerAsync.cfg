SPECIFICATION Spec
CONSTANTS
    NumBlocks = 5
    EnableCaching = TRUE
    NoHash <- MCNoHash
    Reqs <- MCReqs
    BlockSize = 2
    MaxModelLen = 6
    SlidingWindow = 0
    UseEagle = FALSE
    Prompt <- MCPrompt
    MaxTokens <- MCMaxTokens
    Priority <- MCPriority
    Policy = "fcfs"
    Async = TRUE
    BatchQueueSize = 2
    MaxNumScheduledTokens = 4
    MaxNumRunningReqs = 3
    LongPrefillThreshold = 2
    EnableChunkedPrefill = TRUE
    MayAbort = {1}
    MayEos = {2}
    ResetModes = {FALSE}
    MaxResets = 1
    HasConnector = FALSE
    Offers <- MCNoOffers
    Sends = {}
    MayFail <- MCNoFailures
    MaxLoadFailures = 0
    AbortLoading = FALSE
INVARIANTS
    CachedIsComputed
    OutputInOrder
    FcfsOrder
    PlaceholdersInFlight
PROPERTIES
    FinishedIsFinal
    EveryRequestFinishes
CHECK_DEADLOCK FALSE
