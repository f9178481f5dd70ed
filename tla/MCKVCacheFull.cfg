SPECIFICATION Spec
CONSTANTS
    NumBlocks = 4
    EnableCaching = TRUE
    NoHash <- MCNoHash
    Reqs <- MCReqs
    BlockSize = 2
    MaxModelLen = 4
    SlidingWindow = 0
    UseEagle = FALSE
    Prompt <- MCPrompt
    Vocab = {2}
    Lookahead = 0
    Connector = "none"
    AllowEvict = FALSE
INVARIANTS
    BlockAccounting
    HashMapConsistent
    ComputedIsInMemory
    PrefixClosed
    CommonPrefixSound
