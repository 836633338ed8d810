SPECIFICATION Spec
CONSTANTS
    Blocks = 4
    ReadTime = 2
    ShortFrames = TRUE
    MaxFrames = 7
    MaxRelocks = 2
INVARIANT ShowsLastWholeFrame
INVARIANT TwoTornPerRelock
PROPERTY KeepsOffBusyBank
CHECK_DEADLOCK FALSE
