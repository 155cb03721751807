------------------------------- MODULE Timers -------------------------------
(***************************************************************************)
(* The timer interrupt: drivers/timer.c (tick, periodic callbacks,         *)
(* timer_wait) and kernel/ktimer.c (one-shot kernel timers).               *)
(*                                                                         *)
(* All their calls run in process context with interrupts enabled: each of *)
(* their loads and stores of shared memory is one step, and the interrupt  *)
(* may come between any two.  The interrupt itself is not interrupted (its *)
(* gate clears IF); its walk over timer_list takes a step per timer.  A    *)
(* timer's function runs inside the walk and may arm or delete timers, its *)
(* own or another; a periodic callback touches neither timers nor slots.   *)
(*                                                                         *)
(* A tick may also switch to another process.  Callers are the processes   *)
(* that use timer.c, interleaved store by store.  Of the ktimer calls one  *)
(* is followed through, proc; that another process makes one before proc's *)
(* call is over can happen at any point of it, and damages the list.       *)
(*                                                                         *)
(* tick and jiffies are unsigned 32-bit counters: here they wrap at        *)
(* Modulus.  schedule, every tenth tick, is in Sched.                      *)
(***************************************************************************)
EXTENDS Integers, FiniteSets, Sequences, SequencesExt

CONSTANTS
    Timers,         \* struct ktimer_list objects, ktimer_setup done
    timer_list,     \* the list head
    NULL,
    Delays,         \* timers are armed for jiffies + a delay
    Slots,          \* the MAX_CALLBACKS slots
    Intervals,      \* of periodic callbacks
    Callers,        \* processes that call timer.c
    Waits,          \* ticks given to timer_wait
    Modulus         \* 2^32

ASSUME TimersAssumption ==
    /\ timer_list \notin Timers /\ NULL \notin Timers \cup {timer_list}
    /\ Timers \cap Slots = {} /\ Callers \cap (Timers \cup Slots) = {}
    /\ "proc" \notin Timers \cup Slots \cup Callers
    /\ Modulus \in Nat \ {0}
    /\ Delays \subseteq 1..Modulus - 1 /\ Waits \subseteq 0..Modulus - 1
    /\ Intervals \subseteq 1..Modulus - 1

VARIABLES
    links,      \* next and prev of timer_list and of every timer
    timer,      \* by timer: active, expires
    count,      \* active_timer_count
    clock,      \* tick and jiffies
    slots,      \* callbacks[]: active, callback (set or not), interval, next_tick
    walk,       \* ktimer_run: on, pos, tmp
    proc,       \* the ktimer call in progress in process context
    callers,    \* the timer.c call in progress, by process
    due,        \* history: ticks left of what was asked
    wrapped,    \* history: deadlines past the counters' end
    harm        \* history: "raced", "moved", "preempted", "null" (see below)

vars == <<links, timer, count, clock, slots, walk, proc, callers, due, wrapped, harm>>

Nodes == Timers \cup {timer_list}
L == INSTANCE ListHead

Plus(a, b) == (a + b) % Modulus
Wraps(a, b) == a + b >= Modulus

Idle == [pc |-> "idle", t |-> NULL, before |-> NULL, after |-> NULL, count |-> 0,
         mod |-> FALSE, expires |-> 0]

NoCallback == [active |-> FALSE, callback |-> FALSE, interval |-> 0, next_tick |-> 0]

\* A process that is in none of timer.c's calls.
Quiet == [pc |-> "idle", slot |-> NULL, interval |-> 0, until |-> 0]

Deadlines == Timers \cup Slots \cup Callers \cup {"proc"}

NoWalk == [on |-> FALSE, pos |-> timer_list, tmp |-> timer_list]

-----------------------------------------------------------------------------
(***************************************************************************)
(* The calls as they run inside the interrupt, whole.  A state s holds     *)
(* links, timer, count, due and wrapped.                                   *)
(***************************************************************************)
\* An expired timer leaves the list before its function is called.
Unlink(s, t) ==
    [s EXCEPT !.links = L!list_del(@, t), !.timer[t].active = FALSE, !.count = @ - 1,
              !.due[t] = 0, !.wrapped = @ \ {t}]

Add(s, t) ==
    IF s.timer[t].active THEN s
    ELSE [s EXCEPT !.links = L!list_add_tail(@, t, timer_list), !.timer[t].active = TRUE,
                   !.count = @ + 1]

Del(s, t) ==
    IF ~s.timer[t].active THEN s
    ELSE Unlink(s, t)

\* timer->expires = jiffies + delay.
Arm(s, t, delay) ==
    [s EXCEPT !.timer[t].expires = Plus(clock.jiffies, delay),
              !.due[t] = delay,
              !.wrapped = IF Wraps(clock.jiffies, delay) THEN @ \cup {t} ELSE @ \ {t}]

Mod(s, t, delay) == Add(Arm(Del(s, t), t, delay), t)

\* What a timer's function may do, and to which timer: nothing, arm, delete.
Calls(s) ==
    {[on |-> NULL, s |-> s]}
      \cup {[on |-> u, s |-> Mod(s, u, d)] : u \in Timers, d \in Delays}
      \cup {[on |-> u, s |-> Del(s, u)] : u \in Timers}

-----------------------------------------------------------------------------
\* Mutant of Due: one tick late.
DueLate(deadline, now) == deadline < now

\* Mutant of Due: the comparison is reversed.
DueReversed(deadline, now) == deadline >= now

\* timer->expires <= jiffies, tick >= next_tick.
Due(deadline, now) == deadline <= now

\* Each active callback that is due is called and given its next tick.
RunCallback(slot, now) ==
    IF slot.active /\ Due(slot.next_tick, now)
    THEN [slot EXCEPT !.next_tick = Plus(now, slot.interval)]
    ELSE slot

Ticks(x) == IF x > 0 THEN x - 1 ELSE 0

\* The deadlines the tick leaves behind when it wraps.
Overrun == IF Wraps(clock.tick, 1) THEN {x \in Slots \cup Callers : due[x] = 0} ELSE {}

\* timer_handler: tick, the periodic callbacks, jiffies, and the walk begins.
timer_handler ==
    /\ ~walk.on
    /\ clock' = [tick |-> Plus(clock.tick, 1), jiffies |-> Plus(clock.jiffies, 1)]
    /\ LET now == clock'.tick
           ran == {i \in Slots : slots[i].active /\ Due(slots[i].next_tick, now)}
       IN  /\ slots' = [i \in Slots |-> RunCallback(slots[i], now)]
           /\ wrapped' = ((wrapped \cup Overrun) \ ran) \cup {i \in ran : Wraps(now, slots[i].interval)}
           /\ due' = [x \in DOMAIN due |-> IF x \in ran THEN slots[x].interval ELSE Ticks(due[x])]
           /\ harm' = harm \cup {h \in {"null"} : \E i \in ran : ~slots[i].callback}
    /\ walk' = [on |-> TRUE, pos |-> L!NextOf(links, timer_list),
                tmp |-> L!NextOf(links, L!NextOf(links, timer_list))]
    /\ UNCHANGED <<links, timer, count, proc, callers>>

Advance(m) == [walk EXCEPT !.pos = walk.tmp, !.tmp = L!NextOf(m, walk.tmp)]

Skip ==
    /\ walk.on /\ walk.pos \in Timers
    /\ ~Due(timer[walk.pos].expires, clock.jiffies)
    /\ walk' = Advance(links)
    /\ UNCHANGED <<links, timer, count, clock, slots, proc, callers, due, wrapped, harm>>

(***************************************************************************)
(* list_for_each_entry_safe has saved the next timer: the function must    *)
(* not delete or move that one ("moved").  A process that was interrupted  *)
(* in the middle of a list operation finds the list changed ("raced").     *)
(***************************************************************************)
Expire ==
    /\ walk.on /\ walk.pos \in Timers
    /\ Due(timer[walk.pos].expires, clock.jiffies)
    /\ LET s == [links |-> links, timer |-> timer, count |-> count,
                 due |-> due, wrapped |-> wrapped]
           u == Unlink(s, walk.pos)
       IN  \E call \in Calls(u) :
              /\ links' = call.s.links /\ timer' = call.s.timer /\ count' = call.s.count
              /\ due' = call.s.due /\ wrapped' = call.s.wrapped
              /\ walk' = Advance(call.s.links)
              /\ harm' = harm \cup {h \in {"raced", "moved"} :
                                     IF h = "raced" THEN proc.t \in Timers
                                     ELSE /\ call.on = walk.tmp
                                          /\ L!NextOf(call.s.links, walk.tmp) # L!NextOf(u.links, walk.tmp)}
    /\ UNCHANGED <<clock, slots, proc, callers>>

Return ==
    /\ walk.on /\ walk.pos = timer_list
    /\ walk' = NoWalk
    /\ UNCHANGED <<links, timer, count, clock, slots, proc, callers, due, wrapped, harm>>

-----------------------------------------------------------------------------
(***************************************************************************)
(* Process context: one load or store at a time.                           *)
(***************************************************************************)
Exec(from, to, p) ==
    /\ ~walk.on /\ proc.pc = from
    /\ proc' = IF to = "idle" THEN Idle ELSE [p EXCEPT !.pc = to]
    /\ UNCHANGED <<clock, slots, walk, callers, harm>>

StoreLink(from, to, m) ==
    Exec(from, to, proc) /\ links' = m /\ UNCHANGED <<timer, count, due, wrapped>>

Load(from, to, p) ==
    Exec(from, to, p) /\ UNCHANGED <<links, timer, count, due, wrapped>>

StoreActive(from, to, value) ==
    /\ Exec(from, to, proc)
    /\ timer' = [timer EXCEPT ![proc.t].active = value]
    /\ due' = IF value THEN due ELSE [due EXCEPT ![proc.t] = 0]
    /\ wrapped' = IF value THEN wrapped ELSE wrapped \ {proc.t}
    /\ UNCHANGED <<links, count>>

StoreCount(from, to, value) ==
    Exec(from, to, proc) /\ count' = value /\ UNCHANGED <<links, timer, due, wrapped>>

ktimer_add(t) == Load("idle", "add", [Idle EXCEPT !.t = t])

ktimer_del(t) == Load("idle", "del", [Idle EXCEPT !.t = t])

\* ktimer_mod(t, jiffies + delay).
ktimer_mod(t, delay) ==
    /\ Exec("idle", IF timer[t].active THEN "del" ELSE "arm",
            [Idle EXCEPT !.t = t, !.mod = TRUE, !.expires = Plus(clock.jiffies, delay)])
    /\ due' = [due EXCEPT !["proc"] = delay]
    /\ wrapped' = IF Wraps(clock.jiffies, delay) THEN wrapped \cup {"proc"} ELSE wrapped \ {"proc"}
    /\ UNCHANGED <<links, timer, count>>

DelSteps ==
    \/ /\ timer[proc.t].active
       /\ Load("del", "del_next", [proc EXCEPT !.after = links.next[proc.t]])
    \/ ~timer[proc.t].active /\ Load("del", IF proc.mod THEN "arm" ELSE "idle", proc)
    \/ Load("del_next", "del_prev", [proc EXCEPT !.before = links.prev[proc.t]])
    \/ StoreLink("del_prev", "del_bypass", L!SetPrev(links, proc.after, proc.before))
    \/ StoreLink("del_bypass", "null_next", L!SetNext(links, proc.before, proc.after))
    \/ StoreLink("null_next", "null_prev", L!SetNext(links, proc.t, NULL))
    \/ StoreLink("null_prev", "inactive", L!SetPrev(links, proc.t, NULL))
    \/ StoreActive("inactive", "dec_load", FALSE)
    \/ Load("dec_load", "dec", [proc EXCEPT !.count = count])
    \/ StoreCount("dec", IF proc.mod THEN "arm" ELSE "idle", proc.count - 1)

\* timer->expires = expires, then ktimer_add tests active again.
ArmStep ==
    /\ Exec("arm", "add", proc)
    /\ timer' = [timer EXCEPT ![proc.t].expires = proc.expires]
    /\ due' = [due EXCEPT ![proc.t] = due["proc"], !["proc"] = 0]
    /\ wrapped' = IF "proc" \in wrapped THEN (wrapped \ {"proc"}) \cup {proc.t} ELSE wrapped \ {proc.t}
    /\ UNCHANGED <<links, count>>

\* Mutant of AddSteps: the new timer is linked in before its own links are set.
AddStepsLinkFirst ==
    \/ timer[proc.t].active /\ Load("add", "idle", proc)
    \/ ~timer[proc.t].active /\ Load("add", "add_load", proc)
    \/ Load("add_load", "add_prev", [proc EXCEPT !.before = links.prev[timer_list]])
    \/ StoreLink("add_prev", "add_next", L!SetPrev(links, timer_list, proc.t))
    \/ StoreLink("new_next", "new_prev", L!SetNext(links, proc.t, timer_list))
    \/ StoreLink("new_prev", "active", L!SetPrev(links, proc.t, proc.before))
    \/ StoreLink("add_next", "new_next", L!SetNext(links, proc.before, proc.t))
    \/ StoreActive("active", "inc_load", TRUE)
    \/ Load("inc_load", "inc", [proc EXCEPT !.count = count])
    \/ StoreCount("inc", "idle", proc.count + 1)

AddSteps ==
    \/ timer[proc.t].active /\ Load("add", "idle", proc)
    \/ ~timer[proc.t].active /\ Load("add", "add_load", proc)
    \/ Load("add_load", "add_prev", [proc EXCEPT !.before = links.prev[timer_list]])
    \/ StoreLink("add_prev", "new_next", L!SetPrev(links, timer_list, proc.t))
    \/ StoreLink("new_next", "new_prev", L!SetNext(links, proc.t, timer_list))
    \/ StoreLink("new_prev", "add_next", L!SetPrev(links, proc.t, proc.before))
    \/ StoreLink("add_next", "active", L!SetNext(links, proc.before, proc.t))
    \/ StoreActive("active", "inc_load", TRUE)
    \/ Load("inc_load", "inc", [proc EXCEPT !.count = count])
    \/ StoreCount("inc", "idle", proc.count + 1)

Process ==
    \/ \E t \in Timers : \/ ktimer_add(t) \/ ktimer_del(t)
                        \/ \E delay \in Delays : ktimer_mod(t, delay)
    \/ proc.t \in Timers /\ (DelSteps \/ ArmStep \/ AddSteps)

\* A tick's schedule has put another process into one of these calls.
Preempted ==
    /\ ~walk.on /\ proc.t \in Timers
    /\ harm' = harm \cup {"preempted"}
    /\ UNCHANGED <<links, timer, count, clock, slots, walk, proc, callers, due, wrapped>>

-----------------------------------------------------------------------------
(***************************************************************************)
(* Periodic callbacks and busy waiting, by any number of processes at      *)
(* once.  Between the test that finds slot i free and the store that makes *)
(* it active another process may find it too, and a slot's old owner may   *)
(* clear its callback: then the handler calls address 0 ("null").          *)
(***************************************************************************)
Call(c, from, to, r) ==
    /\ ~walk.on /\ callers[c].pc = from
    /\ callers' = [callers EXCEPT ![c] = IF to = "idle" THEN Quiet ELSE [r EXCEPT !.pc = to]]
    /\ UNCHANGED <<links, timer, count, clock, walk, proc, harm>>

StoreSlot(c, from, to, slot) ==
    /\ Call(c, from, to, callers[c])
    /\ slots' = [slots EXCEPT ![callers[c].slot] = slot]
    /\ UNCHANGED <<due, wrapped>>

\* tick + ticks, by process c.
Deadline(c, ticks) ==
    /\ due' = [due EXCEPT ![c] = ticks]
    /\ wrapped' = IF Wraps(clock.tick, ticks) THEN wrapped \cup {c} ELSE wrapped \ {c}
    /\ UNCHANGED slots

\* The search has come to a free slot.
timer_register_callback(c, i, interval) ==
    /\ ~slots[i].active
    /\ Call(c, "idle", "callback", [Quiet EXCEPT !.slot = i, !.interval = interval])
    /\ UNCHANGED <<slots, due, wrapped>>

StoreNextTick(c) ==
    LET i == callers[c].slot
    IN  /\ Call(c, "next_tick", "active", callers[c])
        /\ slots' = [slots EXCEPT ![i].next_tick = callers[c].until]
        /\ due' = [due EXCEPT ![i] = due[c], ![c] = 0]
        /\ wrapped' = IF c \in wrapped THEN (wrapped \ {c}) \cup {i} ELSE wrapped \ {i}

RegisterSteps(c) ==
    LET slot == slots[callers[c].slot]
        interval == callers[c].interval
    IN  \/ StoreSlot(c, "callback", "interval", [slot EXCEPT !.callback = TRUE])
        \/ StoreSlot(c, "interval", "tick", [slot EXCEPT !.interval = interval])
        \/ /\ Call(c, "tick", "next_tick", [callers[c] EXCEPT !.until = Plus(clock.tick, interval)])
           /\ Deadline(c, interval)
        \/ StoreNextTick(c)
        \/ StoreSlot(c, "active", "idle", [slot EXCEPT !.active = TRUE])

\* Any slot: the caller's own, or one it no longer owns.
timer_unregister_callback(c, i) ==
    /\ Call(c, "idle", "clear", [Quiet EXCEPT !.slot = i])
    /\ slots' = [slots EXCEPT ![i].active = FALSE]
    /\ UNCHANGED <<due, wrapped>>

ClearCallback(c) ==
    StoreSlot(c, "clear", "idle", [slots[callers[c].slot] EXCEPT !.callback = FALSE])

timer_wait(c, ticks) ==
    /\ Call(c, "idle", "wait", [Quiet EXCEPT !.until = Plus(clock.tick, ticks)])
    /\ Deadline(c, ticks)

\* Mutant of WaitOver: the wait ends a tick before its deadline.
WaitOverSoon(c) == ~(clock.tick + 1 < callers[c].until)

\* while (tick < eticks);
WaitOver(c) == ~(clock.tick < callers[c].until)

WaitReturns(c) ==
    /\ WaitOver(c) /\ Call(c, "wait", "idle", Quiet)
    /\ due' = [due EXCEPT ![c] = 0] /\ wrapped' = wrapped \ {c}
    /\ UNCHANGED slots

CallSteps(c) ==
    \/ \E i \in Slots : \/ \E interval \in Intervals : timer_register_callback(c, i, interval)
                       \/ timer_unregister_callback(c, i)
    \/ callers[c].slot \in Slots /\ (RegisterSteps(c) \/ ClearCallback(c))
    \/ \E ticks \in Waits : timer_wait(c, ticks)
    \/ WaitReturns(c)

-----------------------------------------------------------------------------
\* init_timer, ktimer_subsystem_init and a ktimer_setup for every timer.
Init ==
    /\ links = L!INIT_LIST_HEAD
    /\ timer = [t \in Timers |-> [active |-> FALSE, expires |-> 0]]
    /\ count = 0
    /\ clock = [tick |-> 0, jiffies |-> 0]
    /\ slots = [i \in Slots |-> NoCallback]
    /\ walk = NoWalk
    /\ proc = Idle
    /\ callers = [c \in Callers |-> Quiet]
    /\ due = [x \in Deadlines |-> 0]
    /\ wrapped = {} /\ harm = {}

\* Once the kernel may be damaged the model says nothing more.
Damaged == harm # {} /\ UNCHANGED vars

Handler == harm = {} /\ (timer_handler \/ Skip \/ Expire \/ Return)

Next ==
    \/ Handler
    \/ Damaged
    \/ harm = {} /\ (Process \/ Preempted \/ \E c \in Callers : CallSteps(c))

\* Ticks keep coming and the interrupt is never itself interrupted.
Spec == Init /\ [][Next]_vars /\ WF_vars(Handler)

-----------------------------------------------------------------------------
(***************************************************************************)
(* Properties.                                                             *)
(***************************************************************************)
Active == {t \in Timers : timer[t].active}

(***************************************************************************)
(* Against the interrupt ktimer_add, ktimer_del and ktimer_mod keep the    *)
(* list without a lock: no walk, even one that starts between two of their *)
(* stores, meets a NULL link, and between calls the links spell a ring of  *)
(* exactly the active timers, which active_timer_count counts.  This holds *)
(* until a timer expires in the middle of such a call ("raced"), a         *)
(* function moves the timer the walk had saved ("moved"), or a process     *)
(* makes such a call while another is in one ("preempted"): the code rules *)
(* out none of the three.                                                  *)
(***************************************************************************)
TimerListSound ==
    harm = {} =>
        /\ walk.pos \in Nodes
        /\ proc.pc = "idle" =>
              /\ \E s \in SetToSeqs(Active) : L!Spells(links, timer_list, s)
              /\ count = Cardinality(Active)

(***************************************************************************)
(* A walk that has come to its end leaves no timer that is due, and a      *)
(* timer it is about to run was armed at least its delay ago, unless the   *)
(* deadline was computed past the end of jiffies.  The timer a process is  *)
(* changing at that moment is left out.                                    *)
(***************************************************************************)
TimersPunctual ==
    harm = {} /\ walk.on =>
        /\ walk.pos = timer_list =>
              \A t \in Active \ wrapped :
                  t # proc.t => timer[t].expires > clock.jiffies
        /\ walk.pos \in Active \ wrapped /\ timer[walk.pos].expires <= clock.jiffies =>
              due[walk.pos] = 0

(***************************************************************************)
(* However ticks and processes come between the stores that register a     *)
(* callback, next_tick is what was asked for until its time has come, and  *)
(* the handler passes over no callback whose time has come: one that was   *)
(* registered too late for its first tick is called at the next one.       *)
(* timer_wait returns after at least its ticks.  All this unless the       *)
(* deadline, or the tick before it was met, wrapped around.                *)
(***************************************************************************)
DeadlinesKept ==
    /\ \A i \in Slots \ wrapped : slots[i].active =>
          /\ due[i] > 0 => slots[i].next_tick = clock.tick + due[i]
          /\ walk.on => due[i] > 0
    /\ \A c \in Callers \ wrapped : callers[c].pc = "wait" /\ WaitOver(c) => due[c] = 0

(***************************************************************************)
(* Functions that arm timers into the future, their own included, cannot   *)
(* keep ktimer_run from ending - until a deadline wraps: then two timers   *)
(* that re-arm themselves are due again and again in the same walk.        *)
(***************************************************************************)
WalkEnds == walk.on ~> (~walk.on \/ harm # {} \/ wrapped \cap Timers # {})

=============================================================================
