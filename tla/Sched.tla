------------------------------- MODULE Sched -------------------------------
(***************************************************************************)
(* The process table, the round-robin scheduler and signal delivery of    *)
(* ValcOS: kernel/process.c, kernel/process.asm, kernel/signal.c, the     *)
(* process calls of kernel/syscall.c and the scheduling tick of           *)
(* drivers/timer.c.                                                       *)
(*                                                                         *)
(* A handler of the kernel runs to completion in one step.  Handlers call *)
(* one another (process_block calls schedule, schedule calls do_signal,   *)
(* do_signal calls process_kill, process_kill calls schedule again), so   *)
(* every C function is an operator on a kernel state k: the state it      *)
(* leaves behind, or, for schedule and the functions that end by calling  *)
(* it, an action.                                                         *)
(*                                                                         *)
(* A PCB is named by its slot in the slab of process_cache.  Killing the  *)
(* running process puts its slot back on the free list while              *)
(* current_process still points to it: that slot is then free, unlinked   *)
(* and running, and the model follows what the code does with it.         *)
(***************************************************************************)
EXTENDS Integers, Sequences, FiniteSets, SequencesExt

CONSTANTS
    NSlots,             \* objects in the slab of process_cache
    MaxPid,             \* bound: pids handed out are 0 .. MaxPid
    DEFAULT_TIME_SLICE, \* 10 in process.c
    PriorityStep,       \* 64 in process.c
    Priorities,         \* arguments tried for process_set_priority
    Signals             \* signal numbers tried

SIGKILL == 9
SIGTERM == 15
SIGCONT == 18
SIGSTOP == 19

\* The signals whose default action terminates the process.
Terminators == {2, 3, 6, SIGKILL, 11, SIGTERM}

READY   == "READY"
RUNNING == "RUNNING"
BLOCKED == "BLOCKED"

(***************************************************************************)
(* A time slice is at least two ticks (10 .. 13 in the code), so that     *)
(* schedule does not expire a slice it has just filled.                   *)
(***************************************************************************)
ASSUME SchedAssumption ==
    /\ NSlots \in Nat \ {0}
    /\ MaxPid \in Nat
    /\ DEFAULT_TIME_SLICE \in Nat /\ DEFAULT_TIME_SLICE >= 2
    /\ PriorityStep \in Nat \ {0}
    /\ Priorities \subseteq 0..255
    /\ Signals \subseteq 1..31

VARIABLES
    pcb,             \* the slots, by slot number
    ready_queue,     \* slots linked in ready_queue, head first
    current_process, \* the slot current_process points to
    freelist,        \* free slots of the slab, the next one to hand out first
    next_pid,
    cpu_stack,       \* pid for which the kernel stack in use was allocated
    fault            \* "none", or why the processor stopped

vars == <<pcb, ready_queue, current_process, freelist, next_pid, cpu_stack, fault>>

Slots   == 1..NSlots
Pids    == 0..MaxPid
Wild    == 0    \* a free-list link that is not a slot address
NoStack == -1   \* a saved stack pointer of 0

States == {READY, RUNNING, BLOCKED}
Faults == {"none", "null_walk", "null_stack", "wild_alloc"}

(***************************************************************************)
(* time_slice: ticks left; handled: signals whose handler is not SIG_DFL  *)
(* (SIG_IGN and a user handler both only consume the signal); esp: pid    *)
(* for which the kernel stack holding the saved context was allocated.    *)
(***************************************************************************)
PCB == [pid: Pids, state: States, priority: 0..255, time_slice: Nat,
        pending: SUBSET Signals, handled: SUBSET Signals,
        esp: Pids \cup {NoStack}]

\* memset(obj, 0, object_size) in kmem_cache_alloc; PROCESS_READY is 0.
ZeroPCB == [pid |-> 0, state |-> READY, priority |-> 0, time_slice |-> 0,
            pending |-> {}, handled |-> {}, esp |-> NoStack]

-----------------------------------------------------------------------------
(***************************************************************************)
(* Kernel states and the list and slab operations on them.                *)
(***************************************************************************)
Kernel == [pcb |-> pcb, queue |-> ready_queue, current |-> current_process,
           freelist |-> freelist, next_pid |-> next_pid, stack |-> cpu_stack,
           fault |-> fault]

Become(k) ==
    /\ pcb' = k.pcb
    /\ ready_queue' = k.queue
    /\ current_process' = k.current
    /\ freelist' = k.freelist
    /\ next_pid' = k.next_pid
    /\ cpu_stack' = k.stack
    /\ fault' = k.fault

Linked(k, s) == \E i \in 1..Len(k.queue) : k.queue[i] = s

Position(k, s) == CHOOSE i \in 1..Len(k.queue) : k.queue[i] = s

Queued(k, pid) == \E i \in 1..Len(k.queue) : k.pcb[k.queue[i]].pid = pid

\* The first process on the queue with this pid.
process_find_by_pid(k, pid) ==
    LET at == {i \in 1..Len(k.queue) : k.pcb[k.queue[i]].pid = pid}
    IN  k.queue[CHOOSE i \in at : \A j \in at : i <= j]

\* The first object of the free list, zeroed, becomes the new PCB.
kmem_cache_alloc(k) ==
    [k EXCEPT !.freelist = Tail(@), !.pcb = [@ EXCEPT ![Head(k.freelist)] = ZeroPCB]]

list_del(k, s) == [k EXCEPT !.queue = RemoveAt(@, Position(k, s))]

kmem_cache_free(k, s) == [k EXCEPT !.freelist = <<s>> \o @]

list_add_tail(k, s) == [k EXCEPT !.queue = Append(@, s)]

SetPCB(k, s, p) == [k EXCEPT !.pcb = [@ EXCEPT ![s] = p]]

calculate_time_slice(priority) == DEFAULT_TIME_SLICE + priority \div PriorityStep

-----------------------------------------------------------------------------
(***************************************************************************)
(* schedule.                                                              *)
(***************************************************************************)

\* Mutant of ChargeSlice: decrements an unsigned slice of 0.
ChargeSliceUnguarded(k) ==
    SetPCB(k, k.current, [k.pcb[k.current] EXCEPT !.time_slice = @ - 1])

\* One tick of the running process's slice.
ChargeSlice(k) ==
    LET p == k.pcb[k.current]
    IN  SetPCB(k, k.current,
               [p EXCEPT !.time_slice = IF @ > 0 THEN @ - 1 ELSE @])

KeepsCpu(k) ==
    /\ k.pcb[k.current].time_slice > 0
    /\ k.pcb[k.current].state # BLOCKED

Run(k) == SetPCB(k, k.current, [k.pcb[k.current] EXCEPT !.state = RUNNING])

\* The search starts from the NULL link list_del left; page_fault_handler halts.
NullWalk(k) == [k EXCEPT !.fault = "null_walk"]

(***************************************************************************)
(* schedule as process_kill calls it, on a current process it has just    *)
(* unlinked: while the slice lasts that process simply goes on running.   *)
(***************************************************************************)
ScheduleUnlinked(k) ==
    LET c == ChargeSlice(k)
    IN  IF KeepsCpu(c) THEN Run(c) ELSE NullWalk(c)

\* Mutant of process_kill: frees the PCB without list_del.
KillLeavesLinked(k, pid) ==
    IF pid = 0 \/ ~Queued(k, pid) THEN k
    ELSE kmem_cache_free(k, process_find_by_pid(k, pid))

\* Mutant of process_kill: does not protect pid 0.
KillAnyone(k, pid) ==
    IF ~Queued(k, pid)
    THEN k
    ELSE LET s    == process_find_by_pid(k, pid)
             gone == kmem_cache_free(list_del(k, s), s)
         IN  IF s = k.current THEN ScheduleUnlinked(gone) ELSE gone

process_kill(k, pid) ==
    IF pid = 0 \/ ~Queued(k, pid)
    THEN k
    ELSE LET s    == process_find_by_pid(k, pid)
             gone == kmem_cache_free(list_del(k, s), s)
         IN  IF s = k.current THEN ScheduleUnlinked(gone) ELSE gone

(***************************************************************************)
(* do_signal takes the pending signals of the current process in          *)
(* ascending order and stops at the first one that terminates it.  Only   *)
(* SIGCONT and SIGSTOP act otherwise, and both are above every            *)
(* terminating signal.                                                    *)
(***************************************************************************)

\* Mutant of Deadly: SIGKILL is missing from the switch.
DeadlyButKill(p) == (p.pending \cap (Terminators \ {SIGKILL})) \ p.handled

Deadly(p) == (p.pending \cap Terminators) \ p.handled

TakeSignals(p) ==
    LET acts  == p.pending \ p.handled
        first == CHOOSE sig \in Deadly(p) : \A other \in Deadly(p) : sig <= other
        resumed == IF SIGCONT \in acts /\ p.state = BLOCKED THEN READY ELSE p.state
    IN  IF Deadly(p) # {}
        THEN [p EXCEPT !.pending = {sig \in @ : sig > first}]
        ELSE [p EXCEPT !.pending = {},
                       !.state = IF SIGSTOP \in acts THEN BLOCKED ELSE resumed]

\* k before and taken after the signals are cleared from the pending set.
do_signal(k, taken) ==
    LET p == k.pcb[k.current]
    IN  IF Deadly(p) # {} THEN process_kill(taken, p.pid) ELSE taken

(***************************************************************************)
(* switch_to_task stores the stack pointer in the first word of the PCB.  *)
(* For a PCB that do_signal has just freed that word is the link of the   *)
(* slab's free list.  A stack pointer of 0 (a child forked before its      *)
(* parent was ever switched out) pops its return address from page 0 and  *)
(* faults.                                                                *)
(***************************************************************************)
switch_to_task(k, next) ==
    LET c == k.current
        saved == IF Linked(k, c)
                 THEN SetPCB(k, c, [k.pcb[c] EXCEPT !.esp = k.stack])
                 ELSE [k EXCEPT !.freelist = <<c, Wild>>]
    IN  [saved EXCEPT !.current = next, !.stack = k.pcb[next].esp,
                      !.fault = IF k.pcb[next].esp = NoStack THEN "null_stack" ELSE @]

Eligible(k, s) == k.pcb[s].state \in {READY, RUNNING}

\* Mutant of SearchRank: the search always starts at the head of the queue.
RankFromHead(k, s) == Position(k, s)

\* Where the search meets slot s: behind the current process, then from the head.
SearchRank(k, s) ==
    LET at == Position(k, s)
        current == Position(k, k.current)
    IN  IF at > current THEN at - current ELSE at - current + Len(k.queue)

Candidates(k) ==
    {s \in {k.queue[i] : i \in 1..Len(k.queue)} \ {k.current} : Eligible(k, s)}

Refill(k, s, state) ==
    SetPCB(k, s, [k.pcb[s] EXCEPT !.state = state,
                                  !.time_slice = calculate_time_slice(k.pcb[s].priority)])

\* Mutant of Expire: refills the slice but leaves the process RUNNING.
ExpireKeepsState(k) ==
    IF Eligible(k, k.current) THEN Refill(k, k.current, k.pcb[k.current].state) ELSE k

Expire(k) == IF Eligible(k, k.current) THEN Refill(k, k.current, READY) ELSE k

Dispatch(k, next) ==
    \E ready \in {Refill(k, next, RUNNING)} :
    \E taken \in {SetPCB(ready, k.current, TakeSignals(ready.pcb[k.current]))} :
    \E signalled \in {do_signal(ready, taken)} :
        Become(IF signalled.fault = "none" THEN switch_to_task(signalled, next)
                                           ELSE signalled)

Reschedule(k) ==
    \/ Candidates(k) = {} /\ Become(Run(k))
    \/ \E next \in Candidates(k) :
          /\ \A other \in Candidates(k) : SearchRank(k, next) <= SearchRank(k, other)
          /\ Dispatch(k, next)

schedule(k) ==
    \E c \in {ChargeSlice(k)} :
        \/ KeepsCpu(c) /\ Become(Run(c))
        \/ ~KeepsCpu(c) /\ ~Linked(c, c.current) /\ Become(NullWalk(c))
        \/ /\ ~KeepsCpu(c)
           /\ Linked(c, c.current)
           /\ \E expired \in {Expire(c)} : Reschedule(expired)

-----------------------------------------------------------------------------
(***************************************************************************)
(* The callers.                                                           *)
(***************************************************************************)
process_yield(k) ==
    \E y \in {SetPCB(k, k.current, [k.pcb[k.current] EXCEPT !.time_slice = 0])} :
        schedule(y)

\* A NULL or wild object is outside the model: process_create has no check.
FreshProcess(k, p) ==
    list_add_tail([SetPCB(kmem_cache_alloc(k), Head(k.freelist), p)
                     EXCEPT !.next_pid = @ + 1], Head(k.freelist))

process_create(k) ==
    FreshProcess(k, [ZeroPCB EXCEPT !.pid = k.next_pid, !.priority = 100,
                                    !.time_slice = calculate_time_slice(100),
                                    !.esp = k.next_pid])

process_create_user(k) ==
    FreshProcess(k, [ZeroPCB EXCEPT !.pid = k.next_pid, !.esp = k.next_pid])

\* The child copies the parent's PCB, its saved stack pointer included.
process_fork(k) ==
    LET parent == kmem_cache_alloc(k).pcb[k.current]
    IN  FreshProcess(k, [parent EXCEPT !.pid = k.next_pid, !.state = READY,
                            !.time_slice = calculate_time_slice(parent.priority),
                            !.pending = {}])

\* vmm_clone_directory failed: the PCB goes back, the pid is spent.
ForkWithoutDirectory(k) ==
    LET child  == Head(k.freelist)
        parent == kmem_cache_alloc(k).pcb[k.current]
        copied == SetPCB(kmem_cache_alloc(k), child, [parent EXCEPT !.pid = k.next_pid])
    IN  [kmem_cache_free(copied, child) EXCEPT !.next_pid = @ + 1]

sys_exit(k) ==
    \E killed \in {process_kill(k, k.pcb[k.current].pid)} :
        IF killed.fault = "none" THEN schedule(killed) ELSE Become(killed)

process_set_priority(k, pid, priority) ==
    LET s == process_find_by_pid(k, pid)
    IN  SetPCB(k, s, [k.pcb[s] EXCEPT !.priority = priority,
                                      !.time_slice = calculate_time_slice(priority)])

process_block(k, pid) ==
    \E s \in {process_find_by_pid(k, pid)} :
    \E b \in {SetPCB(k, s, [k.pcb[s] EXCEPT !.state = BLOCKED])} :
        IF s = k.current THEN schedule(b) ELSE Become(b)

process_unblock(k, pid) ==
    LET s == process_find_by_pid(k, pid)
    IN  IF k.pcb[s].state = BLOCKED
        THEN SetPCB(k, s, [k.pcb[s] EXCEPT !.state = READY])
        ELSE k

send_signal(k, pid, sig) ==
    LET s == process_find_by_pid(k, pid)
    IN  SetPCB(k, s, [k.pcb[s] EXCEPT !.pending = @ \cup {sig}])

-----------------------------------------------------------------------------
(***************************************************************************)
(* Actions.  Except for the tick, each is a call made by the code that    *)
(* runs as the current process.                                           *)
(***************************************************************************)
Up == fault = "none"

\* The slab still has an object and a pid is left within the bound.
CanCreate == Up /\ freelist # <<>> /\ next_pid <= MaxPid

\* timer_handler on a tick divisible by 10.
Tick == Up /\ schedule(Kernel)

\* process_yield, and process_wait, which only yields.
Yield == Up /\ process_yield(Kernel)

Create == CanCreate /\ Head(freelist) # Wild /\ Become(process_create(Kernel))

CreateUser == CanCreate /\ Head(freelist) # Wild /\ Become(process_create_user(Kernel))

Fork == CanCreate /\ Head(freelist) # Wild /\ Become(process_fork(Kernel))

ForkFails == CanCreate /\ Head(freelist) # Wild /\ Become(ForkWithoutDirectory(Kernel))

\* An allocation returns the stack pointer that switch_to_task wrote over the link.
AllocWild ==
    /\ Up
    /\ freelist # <<>> /\ Head(freelist) = Wild
    /\ fault' = "wild_alloc"
    /\ UNCHANGED <<pcb, ready_queue, current_process, freelist, next_pid, cpu_stack>>

Kill(pid) == Up /\ Queued(Kernel, pid) /\ Become(process_kill(Kernel, pid))

Exit == Up /\ sys_exit(Kernel)

SetPriority(pid, priority) ==
    /\ Up /\ Queued(Kernel, pid)
    /\ Become(process_set_priority(Kernel, pid, priority))

Block(pid) == Up /\ Queued(Kernel, pid) /\ process_block(Kernel, pid)

Unblock(pid) == Up /\ Queued(Kernel, pid) /\ Become(process_unblock(Kernel, pid))

SendSignal(pid, sig) ==
    /\ Up /\ Queued(Kernel, pid)
    /\ Become(send_signal(Kernel, pid, sig))

\* sys_signal and sys_sigaction: SIGKILL and SIGSTOP cannot be caught.
SetHandler(sig, default) ==
    LET p == pcb[current_process]
    IN  /\ Up
        /\ sig \notin {SIGKILL, SIGSTOP}
        /\ Become(SetPCB(Kernel, current_process,
               [p EXCEPT !.handled = IF default THEN @ \ {sig} ELSE @ \cup {sig}]))

-----------------------------------------------------------------------------
\* After process_init.
KernelPCB == [ZeroPCB EXCEPT !.state = RUNNING, !.priority = 128]

Init ==
    /\ pcb = [s \in Slots |-> IF s = 1 THEN KernelPCB ELSE ZeroPCB]
    /\ ready_queue = <<1>>
    /\ current_process = 1
    /\ freelist = [i \in 1..NSlots - 1 |-> i + 1]
    /\ next_pid = 1
    /\ cpu_stack = 0
    /\ fault = "none"

Next ==
    \/ Tick
    \/ Yield
    \/ Create
    \/ CreateUser
    \/ Fork
    \/ ForkFails
    \/ AllocWild
    \/ Exit
    \/ \E pid \in Pids :
          \/ Kill(pid)
          \/ Block(pid)
          \/ Unblock(pid)
          \/ \E priority \in Priorities : SetPriority(pid, priority)
          \/ \E sig \in Signals : SendSignal(pid, sig)
    \/ \E sig \in Signals, default \in BOOLEAN : SetHandler(sig, default)

Spec == Init /\ [][Next]_vars

\* The timer interrupt keeps arriving: process code runs with interrupts enabled.
FairSpec == Spec /\ WF_vars(Tick)

-----------------------------------------------------------------------------
(***************************************************************************)
(* Properties.                                                            *)
(***************************************************************************)
QueueSet == {ready_queue[i] : i \in 1..Len(ready_queue)}
FreeSet  == {freelist[i] : i \in 1..Len(freelist)}

\* Every variable holds a value of its C type.
TypeOK ==
    /\ pcb \in [Slots -> PCB]
    /\ ready_queue \in Seq(Slots)
    /\ current_process \in Slots
    /\ freelist \in Seq(Slots \cup {Wild})
    /\ next_pid \in 0..MaxPid + 1
    /\ cpu_stack \in Pids \cup {NoStack}
    /\ fault \in Faults

(***************************************************************************)
(* Until switch_to_task writes through a freed PCB, the slots of          *)
(* process_cache are split between ready_queue and the free list, each    *)
(* slot in exactly one place: no PCB is freed while linked, linked twice  *)
(* or lost, although process_kill may free the running process.           *)
(***************************************************************************)
PcbsAccounted ==
    /\ Cardinality(QueueSet) = Len(ready_queue)
    /\ QueueSet \cap FreeSet = {}
    /\ Wild \notin FreeSet =>
          /\ Cardinality(FreeSet) = Len(freelist)
          /\ QueueSet \cup FreeSet = Slots

(***************************************************************************)
(* The kernel process (pid 0) heads the queue for ever: no kill, signal   *)
(* or exit removes it.  Behind it pids ascend, so process_find_by_pid,    *)
(* which stops at the first match, can only find one process.             *)
(***************************************************************************)
QueueAscending ==
    /\ ready_queue # <<>>
    /\ pcb[ready_queue[1]].pid = 0
    /\ \A i, j \in 1..Len(ready_queue) :
          i < j => pcb[ready_queue[i]].pid < pcb[ready_queue[j]].pid

(***************************************************************************)
(* While the machine is up, a queued process that is RUNNING is the       *)
(* current process (even when the current one was removed), so the        *)
(* RUNNING a search of schedule accepts never belongs to another process. *)
(***************************************************************************)
RunningIsCurrent ==
    Up => \A s \in QueueSet : pcb[s].state = RUNNING => s = current_process

(***************************************************************************)
(* Whoever calls schedule, the processor goes to the ready process with   *)
(* the next higher pid, or, past the highest, to the lowest ready one;    *)
(* a BLOCKED process is never given the processor.                        *)
(***************************************************************************)
RoundRobinStep ==
    LET ready  == {pcb[s].pid : s \in {t \in QueueSet \ {current_process} :
                                          pcb[t].state \in {READY, RUNNING}}}
        higher == {pid \in ready : pid > pcb[current_process].pid}
        turn   == IF higher # {} THEN higher ELSE ready
    IN  current_process' # current_process =>
            /\ pcb[current_process'].pid \in turn
            /\ \A pid \in turn : pcb[current_process'].pid <= pid

RoundRobinOrder == [][RoundRobinStep]_vars

IsReady(pid)  == \E s \in QueueSet : pcb[s].pid = pid /\ pcb[s].state = READY
IsBlocked(pid) == \E s \in QueueSet : pcb[s].pid = pid /\ pcb[s].state = BLOCKED
HasSignal(pid, sig) == \E s \in QueueSet : pcb[s].pid = pid /\ sig \in pcb[s].pending
Present(pid)  == \E s \in QueueSet : pcb[s].pid = pid

(***************************************************************************)
(* No starvation: a READY process gets the processor, unless it is        *)
(* killed or blocked first, or the machine stops.                         *)
(***************************************************************************)
ReadyRuns ==
    \A pid \in Pids :
        IsReady(pid) ~> \/ pcb[current_process].pid = pid
                       \/ ~IsReady(pid)
                       \/ ~Up

(***************************************************************************)
(* SIGKILL takes effect: its target leaves the process table, unless it   *)
(* is blocked (do_signal never runs for it), it is alone ready (schedule  *)
(* never switches), or the machine stops.                                 *)
(***************************************************************************)
KillTakesEffect ==
    \A pid \in Pids \ {0} :
        HasSignal(pid, SIGKILL) ~>
            \/ ~Present(pid)
            \/ IsBlocked(pid)
            \/ \A other \in Pids \ {pid} : Present(other) => IsBlocked(other)
            \/ ~Up

(***************************************************************************)
(* What sys_exit says of schedule, "Never returns" (syscall.c:15), and    *)
(* process_kill of killing the running process: the processor never goes  *)
(* on running a process that was removed.                                 *)
(***************************************************************************)
ExitNeverReturns == Up => current_process \in QueueSet

=============================================================================
