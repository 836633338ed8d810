SPECIFICATION Spec
CONSTANTS
    ChunksPerFrame = 3
    IdMod = 3
    MaxFrames = 4
    MaxInFlight = 3
    MaxResets = 1
    MaxRestarts = 1
INVARIANTS
    WholeFrame
    IntactFramePublished
PROPERTIES
    ShowsWholeFrames
CHECK_DEADLOCK FALSE
