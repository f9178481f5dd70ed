CONSTANTS
    NumBlocks = 5
    FakeHead = FakeHead
    FakeTail = FakeTail
    None = None
SPECIFICATION Spec
INVARIANTS TypeOK WellLinked
PROPERTY ImplementsQueue
