SPECIFICATION Spec
CONSTANTS
    UnitIds <- MCUnitIds
    HeaderAddress = 40000
    ReadHeader = 63000
    AddressMod = 65536
    CommonLengths <- MCCommonLengths
    MpptLimit = 48
    Devices <- MCDevices
    Cuts <- MCCuts
    MaxReads = 3
    MaxFaults = 1
INVARIANTS
    TypeOK FramesAreTrue IdentityIsTrue PublishedIsLastAccepted Extremes DirtyIsChange
PROPERTIES
    ReadIsHeard
CHECK_DEADLOCK FALSE
