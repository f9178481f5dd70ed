SPECIFICATION Spec
CONSTANTS
    ChunkSize = 7
    Overlap = 7
    MinTail = 3
    MismatchThres = 2
    TextLens = {14}
    Split = {}
    MaxTokenLen = 2
    Edge = 2
    Builds = {TRUE}
    Pending = Pending
    None = None
INVARIANTS
    AlwaysServed
