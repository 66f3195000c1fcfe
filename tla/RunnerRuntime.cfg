SPECIFICATION FairSpec
CONSTANTS
    MaxRotations = 1
    MaxRevocations = 1
    MaxFaults = 1
    RevokeKinds = {"unissued", "reissued"}
    LegacyVolume = TRUE
INVARIANT TypeOK
INVARIANT CredentialDurable
INVARIANT RegistrationsAccounted
INVARIANT PollEndsForAReason
 
PROPERTY OverclaimHeals
PROPERTY OnlyInFlightOverwrites
PROPERTY ImplementsIdentity
