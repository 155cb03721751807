SPECIFICATION Spec
VIEW LiveState
CONSTANTS
    NSlots = 3
    MaxPid = 2
    DEFAULT_TIME_SLICE = 2
    PriorityStep = 128
    Priorities = {0}
    Signals = {15}
INVARIANTS
    TypeOK
    PcbsAccounted
    QueueAscending
    RunningIsCurrent
PROPERTY
    RoundRobinOrder
CHECK_DEADLOCK FALSE
