SPECIFICATION Spec
CONSTANTS
    BurstWords = 2
    FrameBursts = 3
    LostWords = 1
    WrDepth = 4
    RdDepth = 4
    MaxFrames = 4
    MaxErrors = 0
INVARIANTS
    WholeFrameRead
