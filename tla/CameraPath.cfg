SPECIFICATION CameraSpec
CONSTANTS
    LineCounts = {2}
    LineWidths = {2, 3}
    HGap = 2
    VSyncLen = 2
    Porch = 2
    Polarities = {TRUE, FALSE}
    RoiX = 1
    RoiW = 2
    CountMod = 4
    Levels = {TRUE, FALSE}
    MaxPictures = 4
    MaxToggles = 2
INVARIANTS
    RecordIsOneFrame
    NoFrameSkipped
    PixelsAligned
    FramesMarked
CHECK_DEADLOCK FALSE
