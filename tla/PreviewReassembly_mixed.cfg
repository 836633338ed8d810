SPECIFICATION Spec
CONSTANTS
    ChunksPerFrame = 3
    IdMod = 4
    MaxFrames = 3
    MaxInFlight = 3
    MaxResets = 1
    MaxRestarts = 0
INVARIANTS
    PictureWhole
