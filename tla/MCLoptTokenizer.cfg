SPECIFICATION Spec
CONSTANTS
    ChunkSize = 7
    Overlap = 7
    MinTail = 3
    MismatchThres = 2
    TextLens = {5, 16, 18}
    Split = {3, 15}
    MaxTokenLen = 2
    Edge = 3
    Builds = {TRUE, FALSE}
    Pending = Pending
    None = None
INVARIANTS
    Lossless
    MatchIsLongestRun
