CONSTANTS
    UnitIds <- MCUnitIds
    HeaderAddress = 40
    ReadHeader = 100
    AddressMod = 128
    CommonLengths <- MCCommonLengths
    MpptLimit = 6
    Hosts = {h1}
    Devices <- MCDevices
    MaxBusy = 2
    MaxReads = 2
SPECIFICATION Spec
INVARIANTS TypeOK OneOutstanding StallsExplained DirectoryOfUnit IdentityOfUnit
PROPERTIES HandedOverIsTrue ScanEnds
CHECK_DEADLOCK FALSE
