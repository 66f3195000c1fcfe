SPECIFICATION Spec
CONSTANTS
    MaxRotations = 0
    MaxRevocations = 1
    MaxFaults = 0
    RevokeKinds = {"unissued"}
    LegacyVolume = FALSE
INVARIANT PollEndsOnlyWhenDegraded
