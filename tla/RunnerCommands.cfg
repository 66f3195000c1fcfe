SPECIFICATION FairSpec
CONSTANTS
    Procs = {p1, p2}
    MaxCommands = 3
    MaxFlawed = 1
    MaxCrashes = 1
    MaxLosses = 1
    MaxForeign = 1
INVARIANT TypeOK
 
 
 
PROPERTY OnlyOwnNamespace
PROPERTY RefusedIsInert
 
 
CHECK_DEADLOCK FALSE
