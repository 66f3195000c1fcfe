SPECIFICATION FairSpec
CONSTANTS
    NItems = 2
    MaxSwaps = 3
    MaxConsumers = 1
    MaxFaults = 1
INVARIANT TypeOK
INVARIANT WritesOnlyPlannedTargets
INVARIANT DoneItemIsCopied
 
CHECK_DEADLOCK FALSE
