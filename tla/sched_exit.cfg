SPECIFICATION Spec
CONSTANTS
    NSlots = 3
    MaxPid = 2
    DEFAULT_TIME_SLICE = 4
    PriorityStep = 256
    Priorities = {}
    Signals = {9}
INVARIANT
    ExitNeverReturns
CHECK_DEADLOCK FALSE
