SPECIFICATION Spec
CONSTANTS
    Counts = {1, 2}
    Thresholds = {2, 3}
    FifoDepth = 2
    BeepFrames = 2
    MaxFrames = 3
    MaxCommands = 2
    MaxMishaps = 1
    MaxWrites = 1
INVARIANTS
    EventsAreAlarms
    BitIsDecision
    EachAlarmHasItsEvent
    EventMeetsThreshold
PROPERTIES
    BuzzerStartsWithAnAlarm
CHECK_DEADLOCK FALSE
