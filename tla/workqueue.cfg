SPECIFICATION QueueSpec
CONSTANTS
    w1 = w1
    w2 = w2
    w3 = w3
    Works = {w1, w2, w3}
    work_queue = work_queue
    Null = Null
    Caller = Caller
    Worker = Worker
    Schedules <- DisjointProducers
    MaxAccepted = 2
VIEW LiveState
INVARIANTS WorkerMeetsNoNull RunsAtMostOncePerSchedule
PROPERTY FlushSeesDequeue
\* The caller may have nothing left to schedule, or wait for a pending flag
\* that a lost update left set.
CHECK_DEADLOCK FALSE
