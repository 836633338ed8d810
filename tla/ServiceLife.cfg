SPECIFICATION FairSpec
CONSTANTS
    OfflineAfter = 0
    SetLength = 1
    SameMtime = FALSE
    MaxWrites = 1

PROPERTIES StopEnds ConfigFollowsFile SilenceNoticed ComesBack
