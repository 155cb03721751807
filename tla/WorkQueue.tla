----------------------------- MODULE WorkQueue -----------------------------
(***************************************************************************)
(* The deferred-work queue, kernel/workqueue.c, with the list operations   *)
(* of include/list.h written out.                                          *)
(*                                                                         *)
(* schedule_work, flush_work and worker_thread run in process context with *)
(* interrupts enabled and without a lock, so the timer can switch from one *)
(* process to another between any two accesses.  Each step is therefore    *)
(* one read or one store to shared memory: the links of work_queue,        *)
(* work->pending, pending_work_count.  process_yield changes none of them  *)
(* and is no step.                                                         *)
(*                                                                         *)
(* A process calls schedule_work and flush_work; a work function, running  *)
(* in the worker thread, may call schedule_work too.                       *)
(***************************************************************************)
EXTENDS Integers, FiniteSets

CONSTANTS
    Works,          \* the work_struct objects, INIT_WORK done
    work_queue,     \* the list head
    Null,
    Caller, Worker, \* the two threads
    Schedules,      \* Schedules[t]: the works thread t calls schedule_work on
    MaxAccepted     \* bound: calls of schedule_work that queue a given work

Threads == {Caller, Worker}
QueueNodes == Works \cup {work_queue}

(***************************************************************************)
(* A work is scheduled by one thread only.  Between schedule_work's test   *)
(* of pending and the store that sets it, another thread that schedules    *)
(* the same work queues it twice, and worker_thread then follows a NULL.   *)
(***************************************************************************)
ASSUME WorkQueueAssumption ==
    /\ work_queue \notin Works /\ Null \notin QueueNodes
    /\ Caller # Worker
    /\ Schedules \in [Threads -> SUBSET Works]
    /\ Schedules[Caller] \cap Schedules[Worker] = {}
    /\ MaxAccepted \in Nat

VARIABLES
    mem,    \* shared memory: next and prev of every node, pending of every
            \* work, and the counter pending_work_count
    local,  \* by thread: where it is (pc), the argument of its call (arg), the
            \* work worker_thread executes (work), the neighbours and the
            \* counter value it has read (before, after, count)
    log     \* history, by work: schedule_work calls that passed the pending
            \* test, and removals from the queue

queue_vars == <<mem, local, log>>

Labels ==
    {"idle", "add_read", "add_head_prev", "add_next", "add_prev", "add_link",
     "set_pending", "inc_read", "inc_store", "flush", "loop", "del_read_next",
     "del_read_prev", "del_prev", "del_next", "null_next", "null_prev",
     "clear_pending", "dec_read", "dec_store", "func", "func_end"}

\* Thread t goes from one label to another, leaving m in memory and l in its
\* locals.
Access(t, from, to, m, l) ==
    /\ local[t].pc = from
    /\ mem' = m
    /\ local' = [local EXCEPT ![t] = [l EXCEPT !.pc = to]]

\* A store through the NULL pointer hits no node: page 0 is mapped and
\* writable, so it goes through unnoticed.
StoreNext(n, val) == [mem EXCEPT !.next = [x \in QueueNodes |-> IF x = n THEN val ELSE @[x]]]
StorePrev(n, val) == [mem EXCEPT !.prev = [x \in QueueNodes |-> IF x = n THEN val ELSE @[x]]]

-----------------------------------------------------------------------------
(***************************************************************************)
(* schedule_work(w).  The worker calls it from a work function, at most    *)
(* once per execution, and goes back to that function.                     *)
(***************************************************************************)
CallSite(t) == IF t = Caller THEN "idle" ELSE "func"
ReturnTo(t) == IF t = Caller THEN "idle" ELSE "func_end"

ScheduleRefuses(t, w) ==
    /\ mem.pending[w]
    /\ Access(t, CallSite(t), ReturnTo(t), mem, local[t])
    /\ UNCHANGED log

ScheduleAccepts(t, w) ==
    /\ ~mem.pending[w]
    /\ log.accepted[w] < MaxAccepted
    /\ Access(t, CallSite(t), "add_read", mem, [local[t] EXCEPT !.arg = w])
    /\ log' = [log EXCEPT !.accepted[w] = @ + 1]

\* list_add_tail(new, head) is __list_add(new, head->prev, head).
AddRead(t) ==
    /\ Access(t, "add_read", "add_head_prev", mem,
              [local[t] EXCEPT !.before = mem.prev[work_queue]])
    /\ UNCHANGED log

AddHeadPrev(t) ==
    /\ Access(t, "add_head_prev", "add_next", StorePrev(work_queue, local[t].arg), local[t])
    /\ UNCHANGED log

AddNext(t) ==
    /\ Access(t, "add_next", "add_prev", StoreNext(local[t].arg, work_queue), local[t])
    /\ UNCHANGED log

AddPrev(t) ==
    /\ Access(t, "add_prev", "add_link", StorePrev(local[t].arg, local[t].before), local[t])
    /\ UNCHANGED log

AddLink(t) ==
    /\ Access(t, "add_link", "set_pending", StoreNext(local[t].before, local[t].arg), local[t])
    /\ UNCHANGED log

SetPending(t) ==
    /\ Access(t, "set_pending", "inc_read",
              [mem EXCEPT !.pending[local[t].arg] = TRUE], local[t])
    /\ UNCHANGED log

\* pending_work_count++ is a load and a store: the build does not optimise.
IncRead(t) ==
    /\ Access(t, "inc_read", "inc_store", mem, [local[t] EXCEPT !.count = mem.count])
    /\ UNCHANGED log

IncStore(t) ==
    /\ Access(t, "inc_store", ReturnTo(t), [mem EXCEPT !.count = local[t].count + 1], local[t])
    /\ UNCHANGED log

-----------------------------------------------------------------------------
(***************************************************************************)
(* flush_work(w): yield until the work is no longer pending.               *)
(***************************************************************************)
FlushWork(w) ==
    /\ Access(Caller, "idle", "flush", mem, [local[Caller] EXCEPT !.arg = w])
    /\ UNCHANGED log

\* Mutant: waits until the queue is empty.
FlushUntilEmpty ==
    /\ Access(Caller, "flush", "idle", mem, local[Caller])
    /\ mem.next[work_queue] = work_queue
    /\ UNCHANGED log

FlushReturn ==
    /\ Access(Caller, "flush", "idle", mem, local[Caller])
    /\ ~mem.pending[local[Caller].arg]
    /\ UNCHANGED log

-----------------------------------------------------------------------------
(***************************************************************************)
(* worker_thread.  work->func is never NULL: schedule_work refuses a work  *)
(* without one.                                                            *)
(***************************************************************************)
Entry == local[Worker].work

\* Mutant: pending cleared before list_del.
TakeClearsPending ==
    /\ mem.next[work_queue] # work_queue
    /\ Access(Worker, "loop", "del_read_next", [mem EXCEPT !.pending[mem.next[work_queue]] = FALSE],
              [local[Worker] EXCEPT !.work = mem.next[work_queue]])
    /\ UNCHANGED log

TakeFirst ==
    /\ mem.next[work_queue] # work_queue
    /\ Access(Worker, "loop", "del_read_next", mem,
              [local[Worker] EXCEPT !.work = mem.next[work_queue]])
    /\ UNCHANGED log

\* list_del(entry) is __list_del(entry->prev, entry->next), whose arguments
\* are evaluated from right to left, and then a NULL in both links.
DelReadNext ==
    /\ Access(Worker, "del_read_next", "del_read_prev", mem,
              [local[Worker] EXCEPT !.after = mem.next[Entry]])
    /\ UNCHANGED log

DelReadPrev ==
    /\ Access(Worker, "del_read_prev", "del_prev", mem,
              [local[Worker] EXCEPT !.before = mem.prev[Entry]])
    /\ UNCHANGED log

DelPrev ==
    /\ Access(Worker, "del_prev", "del_next",
              StorePrev(local[Worker].after, local[Worker].before), local[Worker])
    /\ UNCHANGED log

\* Mutant: __list_del without its second store.
DelNextForgotten ==
    /\ Access(Worker, "del_next", "null_next", mem, local[Worker])
    /\ log' = [log EXCEPT !.dequeued[Entry] = @ + 1]

DelNext ==
    /\ Access(Worker, "del_next", "null_next",
              StoreNext(local[Worker].before, local[Worker].after), local[Worker])
    /\ log' = [log EXCEPT !.dequeued[Entry] = @ + 1]

NullNext ==
    /\ Access(Worker, "null_next", "null_prev", StoreNext(Entry, Null), local[Worker])
    /\ UNCHANGED log

NullPrev ==
    /\ Access(Worker, "null_prev", "clear_pending", StorePrev(Entry, Null), local[Worker])
    /\ UNCHANGED log

ClearPending ==
    /\ Access(Worker, "clear_pending", "dec_read",
              [mem EXCEPT !.pending[Entry] = FALSE], local[Worker])
    /\ UNCHANGED log

DecRead ==
    /\ Access(Worker, "dec_read", "dec_store", mem,
              [local[Worker] EXCEPT !.count = mem.count])
    /\ UNCHANGED log

DecStore ==
    /\ Access(Worker, "dec_store", "func",
              [mem EXCEPT !.count = local[Worker].count - 1], local[Worker])
    /\ UNCHANGED log

FuncReturn ==
    /\ \E from \in {"func", "func_end"} : Access(Worker, from, "loop", mem, local[Worker])
    /\ UNCHANGED log

-----------------------------------------------------------------------------
\* LIST_HEAD(work_queue) and INIT_WORK: every node points to itself.
QueueInit ==
    /\ mem = [next |-> [n \in QueueNodes |-> n], prev |-> [n \in QueueNodes |-> n],
              pending |-> [w \in Works |-> FALSE], count |-> 0]
    /\ local = [t \in Threads |->
                  [pc |-> IF t = Caller THEN "idle" ELSE "loop", arg |-> Null,
                   work |-> Null, before |-> Null, after |-> Null, count |-> 0]]
    /\ log = [accepted |-> [w \in Works |-> 0], dequeued |-> [w \in Works |-> 0]]

ScheduleWork(t) == \E w \in Schedules[t] : ScheduleRefuses(t, w) \/ ScheduleAccepts(t, w)

\* The rest of a call of schedule_work that has begun.
AddStep(t) ==
    \/ AddRead(t) \/ AddHeadPrev(t) \/ AddNext(t) \/ AddPrev(t) \/ AddLink(t)
    \/ SetPending(t) \/ IncRead(t) \/ IncStore(t)

WorkerStep ==
    \/ TakeFirst \/ DelReadNext \/ DelReadPrev \/ DelPrev \/ DelNext
    \/ NullNext \/ NullPrev \/ ClearPending \/ DecRead \/ DecStore \/ FuncReturn

QueueNext ==
    \/ \E t \in Threads : ScheduleWork(t) \/ AddStep(t)
    \/ \E w \in Works : FlushWork(w)
    \/ FlushReturn
    \/ WorkerStep

QueueSpec == QueueInit /\ [][QueueNext]_queue_vars

-----------------------------------------------------------------------------
(***************************************************************************)
(* Properties.                                                             *)
(***************************************************************************)
\* worker_thread never meets a NULL link, neither at the head of the queue nor
\* in the work it removes, although list_del leaves NULL links behind in works
\* that schedule_work may be linking at the same time (workqueue.c:17-19, 54).
WorkerMeetsNoNull ==
    /\ mem.next[work_queue] # Null
    /\ local[Worker].pc = "del_prev" => Null \notin {local[Worker].before, local[Worker].after}

\* A work is taken off the queue, and so executed, at most once for every call
\* of schedule_work that accepted it (workqueue.c:18-25, 49-58).
RunsAtMostOncePerSchedule == \A w \in Works : log.dequeued[w] =< log.accepted[w]

\* When flush_work returns, every call of schedule_work its thread has made for
\* that work has been taken off the queue: the lost and the doubled updates of
\* pending only ever leave it set (workqueue.c:20, 55, 65).
FlushSeesDequeue ==
    [][FlushReturn => \A w \in {local[Caller].arg} \cap Schedules[Caller] :
                         log.dequeued[w] = log.accepted[w]]_queue_vars

=============================================================================
