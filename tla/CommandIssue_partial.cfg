SPECIFICATION IssueSpec
CONSTANTS
    NRegs = 2
    Values = {1, 2}
    RegRange = 4
    OneAtLeast = {1}
    ResetValue = 3
    Default = 1
    NotYet = NotYet
    HttpDuringStart = FALSE
    WriteReg = FALSE
    Lossy = FALSE
    MaxRequests = 2
    MaxFpgaResets = 0
    MaxFails = 1
    MaxCrashes = 0
INVARIANTS
    MirrorIsLastIssued
CHECK_DEADLOCK FALSE
