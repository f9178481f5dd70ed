SPECIFICATION Spec
CONSTANTS
    Engines <- const_Engines
    Clients = {c1, c2}
    c1 = c1
    c2 = c2
    ClientOf <- const_ClientOf
    Reqs = {1, 2}
    Steps <- const_Steps
    MayAbort = {2}
    SyncInterval = 2
    Nobody = Nobody
INVARIANT CollectivesMatch
INVARIANT WavesAgree
INVARIANT NoneLeftWaitingUnlessAborted
INVARIANT BeliefsConverge
CHECK_DEADLOCK FALSE
