SPECIFICATION Spec
CONSTANTS
    Counts = {1, 2}
    Thresholds = {2}
    FifoDepth = 2
    BeepFrames = 2
    MaxFrames = 4
    MaxCommands = 1
    MaxMishaps = 0
    MaxWrites = 0
INVARIANTS
    EventShowsItsReason
CHECK_DEADLOCK FALSE
