SPECIFICATION SccbFairSpec
CONSTANTS
    Width = 3
    Device <- MCDevice
    Table <- MCTable
    Divider = 2
    WaitCycles = 3
    LongestDelay = 24
    MaxResets = 2
INVARIANT DoneMeansWritten
PROPERTY InitEnds
