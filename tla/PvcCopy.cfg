SPECIFICATION Spec
CONSTANTS
    Attempts = {a1, a2}
    NChunks = 2
    MaxWrites = 2
    MaxPowerLoss = 1
INVARIANT TypeOK
INVARIANT SingleHelperAtWork
INVARIANT CompleteIsFaithful
INVARIANT SuccessIsDurable
INVARIANT OwnMarkerIsDurable
PROPERTY NeverOverwritten
PROPERTY ImplementsVerifiedCopy
CHECK_DEADLOCK FALSE
