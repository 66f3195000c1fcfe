SPECIFICATION FairSpec
CONSTANTS
    Attempts = {a1, a2}
    NTables = 1
    MaxDDL = 0
    MaxDML = 0
    MaxChanges = 1
    MaxSwaps = 0
PROPERTY HoldEnds
CHECK_DEADLOCK FALSE
