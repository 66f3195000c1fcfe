SPECIFICATION Spec
CONSTANTS
    Attempts = {a1, a2}
    NChunks = 2
    MaxWrites = 0
    MaxPowerLoss = 0
INVARIANT MarkerIsDurable
CHECK_DEADLOCK FALSE
