SPECIFICATION CameraSpec
CONSTANTS
    LineCounts = {2}
    LineWidths = {4}
    HGap = 2
    VSyncLen = 2
    Porch = 2
    Polarities = {TRUE}
    RoiX = 1
    RoiW = 2
    CountMod = 4
    Levels = {TRUE, FALSE}
    MaxPictures = 4
    MaxToggles = 0
INVARIANTS
    RoiExact
CHECK_DEADLOCK FALSE
