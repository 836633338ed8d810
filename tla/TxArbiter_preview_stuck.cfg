SPECIFICATION FairSpec
CONSTANTS
    MaxFrames = 2
    MaxResets = 0
    FifoDepth = 2
    ChunksPerFrame = 2
    HeaderCycles = 1
    CrcCycles = 1
    TelemLen = 2
    ChunkLen = 3
PROPERTIES
    PreviewProgress
