SPECIFICATION Spec
CONSTANTS
    Attempts = {a1, a2}
    NTables = 2
    MaxDDL = 1
    MaxDML = 1
    MaxChanges = 0
    MaxSwaps = 1
INVARIANT TypeOK
INVARIANT ReceiptIsTrue
INVARIANT RowsOnlyInOwnClaim
PROPERTY PartialIsLeftAlone
PROPERTY ImplementsVerifiedCopy
SYMMETRY AttemptSymmetry
CHECK_DEADLOCK FALSE
