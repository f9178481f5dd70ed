SPECIFICATION Spec
CONSTANTS
    NumBlocks = 5
    EnableCaching = TRUE
    NoHash <- MCNoHash
    Reqs <- MCReqs
    BlockSize = 1
    MaxModelLen = 6
    SlidingWindow = 0
    UseEagle = FALSE
    Prompt <- MCPrompt
    MaxTokens <- MCMaxTokens
    BlockSizeFactor = 2
    NumCPUBlocks = 3
    MaxChunk = 4
    MayAbort = {1}
INVARIANTS
    ReadyIsStored
    ComputedIsInMemory
    OffloadAccounting
    KeptIsReported
CHECK_DEADLOCK FALSE
