SPECIFICATION IssueSpec
CONSTANTS
    NRegs = 2
    Values = {1, 4}
    RegRange = 4
    OneAtLeast = {1}
    ResetValue = 3
    Default = 1
    NotYet = NotYet
    HttpDuringStart = TRUE
    WriteReg = TRUE
    Lossy = TRUE
    MaxRequests = 2
    MaxFpgaResets = 1
    MaxFails = 1
    MaxCrashes = 1
INVARIANTS
    UndisturbedSetIsMirrored
    RegistersFollow
CHECK_DEADLOCK FALSE
