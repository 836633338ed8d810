SPECIFICATION FairSpecAnyClient
CONSTANTS
    OfflineAfter = 0
    SetLength = 1
    SameMtime = FALSE
    MaxWrites = 1
PROPERTY StopEnds
