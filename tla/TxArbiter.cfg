SPECIFICATION BoardSpec
CONSTANTS
    MaxFrames = 3
    MaxResets = 2
    FifoDepth = 2
    ChunksPerFrame = 2
    HeaderCycles = 1
    CrcCycles = 1
    TelemLen = 2
    ChunkLen = 3
INVARIANTS
    SoleOwner
    WireBytes
    TelemetryExactlyOnce
    PreviewInOrder
PROPERTIES
    TransmitterReleased
    EveryFrameArrives
