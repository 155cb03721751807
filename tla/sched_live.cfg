SPECIFICATION FairSpec
CONSTANTS
    NSlots = 3
    MaxPid = 2
    DEFAULT_TIME_SLICE = 2
    PriorityStep = 256
    Priorities = {}
    Signals = {9}
PROPERTIES
    ReadyRuns
    KillTakesEffect
CHECK_DEADLOCK FALSE
