SPECIFICATION Spec
CONSTANTS
    LocalReaders = {r1, r2}
    RemoteReaders = {r3}
    MaxChunks = 2
    MaxMessages = 6
    Large = {2, 3, 6}
    MayTimeOut = {3, 4}
    Empty = Empty
    Torn = Torn
    Overflow = Overflow
    READY = READY
INVARIANT UnreadIsIntact
PROPERTY ImplementsBroadcast
PROPERTY EnqueueReturns
CHECK_DEADLOCK FALSE
