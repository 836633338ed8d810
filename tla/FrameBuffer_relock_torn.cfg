SPECIFICATION Spec
CONSTANTS
    Blocks = 4
    ReadTime = 2
    ShortFrames = FALSE
    MaxFrames = 6
    MaxRelocks = 1
INVARIANT NoTearing
CHECK_DEADLOCK FALSE
