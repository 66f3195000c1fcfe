SPECIFICATION FairSpec
CONSTANTS
    MaxRotations = 1
    MaxRevocations = 0
    MaxFaults = 1
    RevokeKinds = {}
    LegacyVolume = FALSE
PROPERTY RotationRecovers
