SPECIFICATION Spec
CONSTANTS
    MaxRotations = 0
    MaxRevocations = 0
    MaxFaults = 0
    RevokeKinds = {}
    LegacyVolume = FALSE
PROPERTY NoOnlineOverwrite
