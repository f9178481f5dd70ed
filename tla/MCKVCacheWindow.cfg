SPECIFICATION Spec
CONSTANTS
    NumBlocks = 4
    EnableCaching = TRUE
    NoHash <- MCNoHash
    Reqs <- MCReqs
    BlockSize = 2
    MaxModelLen = 6
    SlidingWindow = 3
    UseEagle = TRUE
    Prompt <- MCPrompt
    Vocab = {1}
    Lookahead = 1
    Connector = "blocks"
    AllowEvict = TRUE
INVARIANTS
    CachedIsComputed
    ComputedIsInMemory
    NothingCachedTwice
