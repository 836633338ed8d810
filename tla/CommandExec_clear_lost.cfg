SPECIFICATION FairSpec
CONSTANTS
    MaxPeriod = 2
    MinGap = 0
    MaxPulses = 0
    FifoDepth = 2
    RoiRange = 4
    MaxCommands = 1
    MaxResets = 0
PROPERTIES
    ClearErrorArrives
