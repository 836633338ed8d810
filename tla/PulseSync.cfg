SPECIFICATION FairSync
CONSTANTS
    MaxPeriod = 5
    MinGap = 4
    MaxPulses = 6
INVARIANTS
    NoPulseLost
PROPERTIES
    PulseArrives
