SPECIFICATION MCSpec
CONSTANTS
    Timers = {"a", "b"}
    timer_list = "timer_list"
    NULL = "NULL"
    Delays = {1, 2}
    Slots = {"slot"}
    Intervals = {1}
    Callers = {"p", "q"}
    Waits = {2}
    Modulus = 4
INVARIANTS
    TimerListSound
    TimersPunctual
    DeadlinesKept
PROPERTY WalkEnds
