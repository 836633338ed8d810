SPECIFICATION Spec
CONSTANTS
    Blocks = 3
    ReadTime = 9
    ShortFrames = FALSE
    MaxFrames = 6
    MaxRelocks = 0
PROPERTY NeverEntersReadBank
CHECK_DEADLOCK FALSE
