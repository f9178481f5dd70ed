SPECIFICATION Spec
CONSTANTS
    NumBlocks = 4
    EnableCaching = TRUE
    NoHash <- MCNoHash
    Reqs <- MCReqs
    BlockSize = 2
    MaxModelLen = 6
    SlidingWindow = 3
    UseEagle = FALSE
    Prompt <- MCPrompt
    Vocab = {1}
    Lookahead = 0
    Connector = "all"
    AllowEvict = FALSE
INVARIANTS
    ComputedIsInMemory
