SPECIFICATION FairSpec
CONSTANTS
    Envs = {e1, e2}
    Calls = {c1, c2}
    Retrier = c1
    Retried = e1
    MaxStarts = 2
    MaxFaults = 1
INVARIANT TypeOK
INVARIANT NoOrphanWithoutRestart
 
PROPERTY SuccessIsPublished
PROPERTY LateCreateLoses
PROPERTY RetriedDeleteEnds
 
CHECK_DEADLOCK FALSE
