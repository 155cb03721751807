------------------------- MODULE DeferredWorkProofs -------------------------
(***************************************************************************)
(* Proofs about the two ways the kernel puts work off: the kernel timers,  *)
(* with the interrupt that runs them, and the work queue.  For any timers, *)
(* callback slots, delays and intervals, any width of the tick counter and *)
(* any works.  Both modules have a list of list.h at their heart; the      *)
(* timers keep theirs a ring, the work queue cannot.                       *)
(***************************************************************************)
EXTENDS Timers, WorkQueue, SequenceTheorems, FiniteSetTheorems, TLAPS

Times == 0..Modulus - 1
Addrs == Nodes \cup {NULL}
Links == [next: [Nodes -> Addrs], prev: [Nodes -> Addrs]]
TimerRecs == [active: BOOLEAN, expires: Times]

PCs == {"idle", "del", "del_next", "del_prev", "del_bypass", "null_next", "null_prev",
        "inactive", "dec_load", "dec", "arm", "add", "add_load", "add_prev", "new_next",
        "new_prev", "add_next", "active", "inc_load", "inc"}

Procs == [pc: PCs, t: Timers \cup {NULL}, before: Addrs, after: Addrs, count: Int,
          mod: BOOLEAN, expires: Times]

SlotRecs == [active: BOOLEAN, callback: BOOLEAN, interval: Intervals \cup {0}, next_tick: Times]

CallRecs == [pc: {"idle", "callback", "interval", "tick", "next_tick", "active", "clear", "wait"},
             slot: Slots \cup {NULL}, interval: Intervals \cup {0}, until: Times]

\* The states the calls inside the interrupt work on.
MemStates == [links: Links, timer: [Timers -> TimerRecs], count: Int,
              due: [Deadlines -> Nat], wrapped: SUBSET Deadlines]

Mem == [links |-> links, timer |-> timer, count |-> count, due |-> due, wrapped |-> wrapped]

TypeOK ==
    /\ Mem \in MemStates
    /\ clock \in [tick: Times, jiffies: Times] /\ clock.tick = clock.jiffies
    /\ slots \in [Slots -> SlotRecs] /\ callers \in [Callers -> CallRecs]
    /\ walk \in [on: BOOLEAN, pos: Addrs, tmp: Addrs]
    /\ proc \in Procs /\ (proc.pc # "idle" => proc.t \in Timers)

-----------------------------------------------------------------------------
(***************************************************************************)
(* The clock.                                                              *)
(***************************************************************************)
LEMMA PlusFacts ==
    ASSUME NEW a \in Times, NEW b \in 0..Modulus - 1
    PROVE  /\ Plus(a, b) \in Times
           /\ ~Wraps(a, b) => Plus(a, b) = a + b
<1>1. Modulus \in Nat \ {0} /\ a + b \in Nat
  BY TimersAssumption DEF Times
<1>2. (a + b) % Modulus \in 0..Modulus - 1
  BY <1>1
<1>3. a + b < Modulus => (a + b) % Modulus = a + b
  BY <1>1
<1>4. ~Wraps(a, b) => a + b < Modulus
  BY <1>1 DEF Wraps
<1> QED
  BY <1>2, <1>3, <1>4 DEF Plus, Times

\* One tick on is a tick, and the successor unless the counter wraps.
LEMMA TickFacts ==
    ASSUME NEW a \in Times
    PROVE  /\ Plus(a, 1) \in Times
           /\ a + 1 < Modulus => Plus(a, 1) = a + 1
<1>1. Modulus \in Nat \ {0} /\ a + 1 \in Nat
  BY TimersAssumption DEF Times
<1>2. (a + 1) % Modulus \in 0..Modulus - 1
  BY <1>1
<1>3. a + 1 < Modulus => (a + 1) % Modulus = a + 1
  BY <1>1
<1> QED
  BY <1>2, <1>3 DEF Plus, Times

-----------------------------------------------------------------------------
(***************************************************************************)
(* The calls inside the interrupt, field by field.                         *)
(***************************************************************************)
LEMMA LinkTypes ==
    ASSUME NEW m \in Links, NEW n \in Addrs, NEW to \in Addrs
    PROVE  L!SetNext(m, n, to) \in Links /\ L!SetPrev(m, n, to) \in Links
BY DEF L!SetNext, L!SetPrev, Links

\* A pointer read from a list node is an address.
LEMMA ReadTypes ==
    ASSUME NEW m \in Links, NEW n
    PROVE  L!NextOf(m, n) \in Addrs /\ L!PrevOf(m, n) \in Addrs
BY DEF L!NextOf, L!PrevOf, Links, Addrs

\* list_del and list_add_tail leave a list of addresses.
LEMMA ListTypes ==
    ASSUME NEW m \in Links, NEW t \in Timers
    PROVE  L!list_del(m, t) \in Links /\ L!list_add_tail(m, t, timer_list) \in Links
<1> DEFINE b == L!PrevOf(m, t)
<1> DEFINE a == L!NextOf(m, t)
<1> DEFINE c == L!PrevOf(m, timer_list)
<1>1. a \in Addrs /\ b \in Addrs /\ c \in Addrs
  BY ReadTypes
<1>2. t \in Addrs /\ timer_list \in Addrs /\ NULL \in Addrs
  BY DEF Addrs, Nodes
<1> HIDE DEF a, b, c
<1>3. L!Bypass(m, b, a) \in Links
  BY <1>1, LinkTypes DEF L!Bypass
<1>4. L!SetPrev(L!SetNext(L!Bypass(m, b, a), t, NULL), t, NULL) \in Links
  BY <1>2, <1>3, LinkTypes
<1>5. L!AddBetween(m, t, c, timer_list) \in Links
  <2>1. L!SetPrev(m, timer_list, t) \in Links
    BY <1>2, LinkTypes
  <2>2. L!SetNext(L!SetPrev(m, timer_list, t), t, timer_list) \in Links
    BY <2>1, <1>2, LinkTypes
  <2>3. L!SetPrev(L!SetNext(L!SetPrev(m, timer_list, t), t, timer_list), t, c) \in Links
    BY <2>2, <1>1, <1>2, LinkTypes
  <2> QED
    BY <2>3, <1>1, <1>2, LinkTypes DEF L!AddBetween
<1> QED
  BY <1>4, <1>5 DEF L!list_del, L!list_add_tail, a, b, c

\* What del_timer changes.
LEMMA UnlinkFields ==
    ASSUME NEW s \in MemStates, NEW t \in Timers
    PROVE  /\ Unlink(s, t) \in MemStates
           /\ Unlink(s, t).links = L!list_del(s.links, t)
           /\ ~Unlink(s, t).timer[t].active
           /\ \A u \in Timers \ {t} : Unlink(s, t).timer[u] = s.timer[u]
           /\ Unlink(s, t).count = s.count - 1
           /\ Unlink(s, t).due[t] = 0
           /\ \A x \in Deadlines \ {t} : Unlink(s, t).due[x] = s.due[x]
           /\ Unlink(s, t).wrapped = s.wrapped \ {t}
<1> DEFINE l == L!list_del(s.links, t)
<1> DEFINE a == [s.timer EXCEPT ![t].active = FALSE]
<1> DEFINE d == [s.due EXCEPT ![t] = 0]
<1> DEFINE c == s.count - 1
<1> DEFINE w == s.wrapped \ {t}
<1>1. l \in Links
  BY ListTypes DEF MemStates
<1>2. Unlink(s, t) = [s EXCEPT !.links = l, !.timer = a, !.count = c, !.due = d, !.wrapped = w]
  BY DEF Unlink, MemStates
<1>3. /\ a \in [Timers -> TimerRecs] /\ ~a[t].active
      /\ \A u \in Timers \ {t} : a[u] = s.timer[u]
  BY DEF MemStates, TimerRecs
<1>4. /\ d \in [Deadlines -> Nat] /\ c \in Int /\ w \in SUBSET Deadlines
      /\ d[t] = 0 /\ \A x \in Deadlines \ {t} : d[x] = s.due[x]
  BY DEF MemStates, Deadlines
<1> HIDE DEF l, a, d, c, w
<1>5. /\ Unlink(s, t) \in MemStates
      /\ Unlink(s, t).links = l /\ Unlink(s, t).timer = a /\ Unlink(s, t).count = c
      /\ Unlink(s, t).due = d /\ Unlink(s, t).wrapped = w
  BY <1>1, <1>2, <1>3, <1>4 DEF MemStates
<1> QED
  BY <1>3, <1>4, <1>5 DEF l, c, w

\* What add_timer changes for a timer that is not active.
LEMMA AddFields ==
    ASSUME NEW s \in MemStates, NEW t \in Timers, ~s.timer[t].active
    PROVE  /\ Add(s, t) \in MemStates
           /\ Add(s, t).links = L!list_add_tail(s.links, t, timer_list)
           /\ Add(s, t).timer[t].active
           /\ Add(s, t).timer[t].expires = s.timer[t].expires
           /\ \A u \in Timers \ {t} : Add(s, t).timer[u] = s.timer[u]
           /\ Add(s, t).count = s.count + 1
           /\ Add(s, t).due = s.due
           /\ Add(s, t).wrapped = s.wrapped
<1> DEFINE l == L!list_add_tail(s.links, t, timer_list)
<1> DEFINE a == [s.timer EXCEPT ![t].active = TRUE]
<1> DEFINE c == s.count + 1
<1>1. l \in Links
  BY ListTypes DEF MemStates
<1>2. Add(s, t) = [s EXCEPT !.links = l, !.timer = a, !.count = c]
  BY DEF Add, MemStates
<1>3. /\ a \in [Timers -> TimerRecs] /\ a[t].active /\ a[t].expires = s.timer[t].expires
      /\ \A u \in Timers \ {t} : a[u] = s.timer[u]
  BY DEF MemStates, TimerRecs
<1>4. c \in Int
  BY DEF MemStates
<1> HIDE DEF l, a, c
<1>5. /\ Add(s, t) \in MemStates
      /\ Add(s, t).links = l /\ Add(s, t).timer = a /\ Add(s, t).count = c
      /\ Add(s, t).due = s.due /\ Add(s, t).wrapped = s.wrapped
  BY <1>1, <1>2, <1>3, <1>4 DEF MemStates
<1> QED
  BY <1>3, <1>5 DEF l, c

\* What setting the expiry changes.
LEMMA ArmFields ==
    ASSUME NEW s \in MemStates, NEW t \in Timers, NEW d \in Delays, clock.jiffies \in Times
    PROVE  /\ Arm(s, t, d) \in MemStates
           /\ Arm(s, t, d).links = s.links
           /\ Arm(s, t, d).timer[t].expires = Plus(clock.jiffies, d)
           /\ (Arm(s, t, d).timer[t].active <=> s.timer[t].active)
           /\ \A u \in Timers \ {t} : Arm(s, t, d).timer[u] = s.timer[u]
           /\ Arm(s, t, d).count = s.count
           /\ Arm(s, t, d).due[t] = d
           /\ \A x \in Deadlines \ {t} : Arm(s, t, d).due[x] = s.due[x]
           /\ t \in Arm(s, t, d).wrapped <=> Wraps(clock.jiffies, d)
           /\ \A x \in Deadlines \ {t} : x \in Arm(s, t, d).wrapped <=> x \in s.wrapped
<1> DEFINE e == Plus(clock.jiffies, d)
<1> DEFINE w == IF Wraps(clock.jiffies, d) THEN s.wrapped \cup {t} ELSE s.wrapped \ {t}
<1> DEFINE a == [s.timer EXCEPT ![t].expires = e]
<1> DEFINE b == [s.due EXCEPT ![t] = d]
<1>1. t \in Deadlines /\ d \in 0..Modulus - 1 /\ d \in Nat
  BY TimersAssumption DEF Deadlines
<1>2. /\ e \in Times /\ w \in SUBSET Deadlines
      /\ t \in w <=> Wraps(clock.jiffies, d)
      /\ \A x \in Deadlines \ {t} : x \in w <=> x \in s.wrapped
  BY <1>1, PlusFacts DEF MemStates
<1>3. Arm(s, t, d) = [s EXCEPT !.timer = a, !.due = b, !.wrapped = w]
  BY DEF Arm, MemStates
<1> HIDE DEF e, w
<1>4. /\ a \in [Timers -> TimerRecs] /\ a[t].expires = e /\ (a[t].active <=> s.timer[t].active)
      /\ \A u \in Timers \ {t} : a[u] = s.timer[u]
  BY <1>2 DEF MemStates, TimerRecs
<1>5. /\ b \in [Deadlines -> Nat] /\ b[t] = d
      /\ \A x \in Deadlines \ {t} : b[x] = s.due[x]
  BY <1>1 DEF MemStates
<1> HIDE DEF a, b
<1>6. /\ Arm(s, t, d) \in MemStates
      /\ Arm(s, t, d).links = s.links /\ Arm(s, t, d).timer = a /\ Arm(s, t, d).count = s.count
      /\ Arm(s, t, d).due = b /\ Arm(s, t, d).wrapped = w
  BY <1>2, <1>3, <1>4, <1>5 DEF MemStates
<1> QED
  BY <1>2, <1>4, <1>5, <1>6 DEF e

\* What a call from a timer's function does to the state: it deletes, or it
\* deletes if active, arms and adds.
LEMMA CallTypes ==
    ASSUME NEW s \in MemStates, clock.jiffies \in Times, NEW t \in Timers, NEW d \in Delays
    PROVE  Del(s, t) \in MemStates /\ Mod(s, t, d) \in MemStates
<1> DEFINE e == Del(s, t)
<1>1. e \in MemStates /\ ~e.timer[t].active
  <2>1. CASE s.timer[t].active
    <3>1. e = Unlink(s, t)
      BY <2>1 DEF Del
    <3> QED
      BY <3>1, UnlinkFields
  <2>2. CASE ~s.timer[t].active
    BY <2>2 DEF Del
  <2> QED
    BY <2>1, <2>2
<1> HIDE DEF e
<1> DEFINE a == Arm(e, t, d)
<1>2. a \in MemStates /\ (a.timer[t].active <=> e.timer[t].active)
  BY <1>1, ArmFields
<1> HIDE DEF a
<1>3. ~a.timer[t].active
  BY <1>1, <1>2
<1>4. Add(a, t) \in MemStates
  BY <1>2, <1>3, AddFields
<1> QED
  BY <1>1, <1>4 DEF Mod, e, a

\* A step of the process moves its program counter and keeps the timer it works on.
LEMMA ExecFacts ==
    ASSUME NEW from, NEW to \in PCs, NEW p \in Procs, to # "idle" => p.t \in Timers,
           Exec(from, to, p)
    PROVE  /\ proc' \in Procs /\ proc'.pc = to
           /\ proc'.pc # "idle" => proc'.t \in Timers
           /\ to # "idle" => /\ proc'.t = p.t /\ proc'.before = p.before /\ proc'.after = p.after
                             /\ proc'.count = p.count /\ proc'.mod = p.mod /\ proc'.expires = p.expires
           /\ to = "idle" => proc' = Idle
           /\ ~walk.on /\ proc.pc = from /\ UNCHANGED <<clock, slots, walk, callers, harm>>
<1>0. ~walk.on /\ proc.pc = from /\ UNCHANGED <<clock, slots, walk, callers, harm>>
  BY DEF Exec
<1>1. CASE to = "idle"
  <2>1. proc' = Idle
    BY <1>1 DEF Exec
  <2>2. Idle \in Procs /\ Idle.pc = "idle"
    BY TimersAssumption DEF Idle, Procs, PCs, Addrs, Nodes, Times
  <2> QED
    BY <1>0, <1>1, <2>1, <2>2
<1>2. CASE to # "idle"
  <2>1. proc' = [p EXCEPT !.pc = to]
    BY <1>2 DEF Exec
  <2> QED
    BY <1>0, <1>2, <2>1 DEF Procs
<1> QED
  BY <1>1, <1>2

\* The type invariant, field by field.
LEMMA StateTypes ==
    ASSUME TypeOK
    PROVE  /\ links \in Links /\ timer \in [Timers -> TimerRecs] /\ count \in Int
           /\ due \in [Deadlines -> Nat] /\ wrapped \in SUBSET Deadlines
           /\ clock \in [tick: Times, jiffies: Times] /\ clock.tick = clock.jiffies
           /\ clock.tick \in Times /\ clock.jiffies \in Times
           /\ proc \in Procs /\ walk \in [on: BOOLEAN, pos: Addrs, tmp: Addrs]
           /\ Mem \in MemStates
BY DEF TypeOK, Mem, MemStates

\* The types of what a step of process context leaves.
LEMMA ExecTypes ==
    ASSUME TypeOK, NEW from, NEW to \in PCs, NEW p \in Procs,
           to # "idle" => p.t \in Timers, Exec(from, to, p),
           links' \in Links, timer' \in [Timers -> TimerRecs], count' \in Int,
           due' \in [Deadlines -> Nat], wrapped' \in SUBSET Deadlines
    PROVE  TypeOK'
<1>1. /\ proc' \in Procs /\ (proc'.pc # "idle" => proc'.t \in Timers)
      /\ UNCHANGED <<clock, slots, walk, callers, harm>>
  BY ExecFacts
<1>2. Mem' \in MemStates
  BY DEF Mem, MemStates
<1> QED
  BY <1>1, <1>2 DEF TypeOK


-----------------------------------------------------------------------------
(***************************************************************************)
(* Deadlines.                                                              *)
(***************************************************************************)
(***************************************************************************)
(* What was asked for is what the code has stored, as long as the deadline *)
(* has not gone past the end of the counter: left ticks are left until e,  *)
(* or e has come.  A timer's time that has come stays so while the counter *)
(* runs on and wraps.                                                      *)
(***************************************************************************)
Met(e, left, now) == IF left > 0 THEN e = now + left ELSE e <= now

\* The slots and their owners: a slot that the handler has been over, and that
\* is active, has its time ahead.
CallbacksOnTime ==
    /\ \A i \in Slots : i \notin wrapped => Met(slots[i].next_tick, due[i], clock.tick)
    /\ \A i \in Slots : slots[i].active => slots[i].interval \in Intervals
    /\ \A i \in Slots : slots[i].active /\ walk.on /\ i \notin wrapped => due[i] > 0
    /\ \A c \in Callers : callers[c].pc \in {"next_tick", "wait"} /\ c \notin wrapped =>
          Met(callers[c].until, due[c], clock.tick)
    /\ \A c \in Callers : callers[c].pc \in {"callback", "interval", "tick", "next_tick"} =>
          callers[c].interval \in Intervals
    /\ \A c \in Callers : callers[c].pc \in {"tick", "next_tick", "active"} =>
          callers[c].slot \in Slots /\ slots[callers[c].slot].interval \in Intervals

OnTime ==
    /\ CallbacksOnTime
    /\ \A t \in Timers : t \notin wrapped =>
          due[t] = 0 \/ timer[t].expires = clock.tick + due[t]
    /\ proc.mod /\ "proc" \notin wrapped =>
          due["proc"] = 0 \/ proc.expires = clock.tick + due["proc"]
    /\ proc.pc = "arm" => proc.mod

TInv == TypeOK /\ OnTime

\* Timers, slots, callers and the process have different names.
LEMMA Names ==
    /\ \A t \in Timers : t \notin Slots /\ t # "proc" /\ t \in Deadlines /\ t \in Nodes /\ t # timer_list
    /\ \A x \in Slots \cup Callers : x \notin Timers /\ x # "proc" /\ x \in Deadlines
    /\ Slots \cap Callers = {}
    /\ "proc" \in Deadlines
    /\ timer_list \in Nodes /\ NULL \notin Nodes
BY TimersAssumption DEF Deadlines, Nodes

\* A step that leaves the slots, their owners and their deadlines alone.
LEMMA CallbacksKept ==
    ASSUME CallbacksOnTime, UNCHANGED <<clock, slots, callers>>, walk'.on => walk.on,
           \A x \in Slots \cup Callers : due'[x] = due[x] /\ (x \in wrapped' <=> x \in wrapped)
    PROVE  CallbacksOnTime'
BY DEF CallbacksOnTime

\* A store of ktimer_add, ktimer_del or ktimer_mod that arms no timer.
LEMMA StoreKeeps ==
    ASSUME TInv, NEW from, NEW to \in PCs, NEW p \in Procs, Exec(from, to, p),
           p.t \in Timers, p.mod <=> proc.mod, p.expires = proc.expires, to = "arm" => proc.mod,
           links' \in Links, timer' \in [Timers -> TimerRecs], count' \in Int,
           \A t \in Timers : timer'[t].expires = timer[t].expires,
           due' \in [Deadlines -> Nat], wrapped' \in SUBSET Deadlines,
           \A x \in Deadlines : (due'[x] = due[x] /\ (x \in wrapped' <=> x \in wrapped))
                                   \/ (x \in Timers /\ due'[x] = 0)
    PROVE  TInv'
<1>1. TypeOK'
  BY ExecTypes DEF TInv
<1>2. /\ to # "idle" => proc'.mod = p.mod /\ proc'.expires = p.expires
      /\ to = "idle" => proc' = Idle
      /\ proc'.pc = to /\ UNCHANGED <<clock, slots, callers, walk>>
  BY ExecFacts
<1>3. Idle.pc = "idle" /\ ~Idle.mod
  BY DEF Idle
<1>4. CallbacksOnTime'
  <2>1. \A x \in Slots \cup Callers : due'[x] = due[x] /\ (x \in wrapped' <=> x \in wrapped)
    BY Names
  <2> QED
    BY <1>2, <2>1, CallbacksKept DEF TInv, OnTime
<1>5. \A t \in Timers : t \notin wrapped' => due'[t] = 0 \/ timer'[t].expires = clock'.tick + due'[t]
  BY <1>2, Names DEF TInv, OnTime
<1>6. proc'.mod /\ "proc" \notin wrapped' =>
          due'["proc"] = 0 \/ proc'.expires = clock'.tick + due'["proc"]
  <2>1. due'["proc"] = due["proc"] /\ ("proc" \in wrapped' <=> "proc" \in wrapped)
    BY Names
  <2>2. CASE to = "idle"
    BY <2>2, <1>2, <1>3
  <2>3. CASE to # "idle"
    <3>1. (proc'.mod <=> proc.mod) /\ proc'.expires = proc.expires
      BY <2>3, <1>2
    <3> QED
      BY <2>1, <3>1, <1>2 DEF TInv, OnTime
  <2> QED
    BY <2>2, <2>3
<1>7. proc'.pc = "arm" => proc'.mod
  BY <1>2
<1> QED
  BY <1>1, <1>4, <1>5, <1>6, <1>7 DEF TInv, OnTime

\* Such a store that leaves timers and deadlines alone.
LEMMA LinkKeeps ==
    ASSUME TInv, NEW from, NEW to \in PCs, NEW p \in Procs, Exec(from, to, p),
           p.t \in Timers, p.mod <=> proc.mod, p.expires = proc.expires, to = "arm" => proc.mod,
           links' \in Links, count' \in Int, UNCHANGED <<timer, due, wrapped>>
    PROVE  TInv'
<1>1. /\ timer \in [Timers -> TimerRecs] /\ due \in [Deadlines -> Nat]
      /\ wrapped \in SUBSET Deadlines
  BY StateTypes DEF TInv
<1>2. /\ timer' \in [Timers -> TimerRecs] /\ due' \in [Deadlines -> Nat]
      /\ wrapped' \in SUBSET Deadlines
      /\ \A t \in Timers : timer'[t].expires = timer[t].expires
      /\ \A x \in Deadlines : due'[x] = due[x] /\ (x \in wrapped' <=> x \in wrapped)
  BY <1>1
<1> QED
  BY <1>2, StoreKeeps


\* ktimer_del, step by step.
LEMMA DelKeeps ==
    ASSUME TInv, proc.t \in Timers, DelSteps
    PROVE  TInv'
<1>0. /\ links \in Links /\ count \in Int /\ proc \in Procs /\ proc.count \in Int
      /\ proc.before \in Addrs /\ proc.after \in Addrs /\ proc.t \in Addrs /\ NULL \in Addrs
      /\ timer \in [Timers -> TimerRecs] /\ due \in [Deadlines -> Nat] /\ wrapped \in SUBSET Deadlines
  BY StateTypes, Names DEF TInv, Procs, Addrs
<1>1. links.next[proc.t] \in Addrs /\ links.prev[proc.t] \in Addrs
  BY <1>0, Names DEF Links
<1>2. ASSUME NEW from, NEW to \in PCs, NEW p \in Procs, Load(from, to, p),
             p.t \in Timers, p.mod <=> proc.mod, p.expires = proc.expires, to = "arm" => proc.mod
      PROVE  TInv'
  <2>1. Exec(from, to, p) /\ links' \in Links /\ count' \in Int /\ UNCHANGED <<timer, due, wrapped>>
    BY <1>0, <1>2 DEF Load
  <2> QED
    BY <2>1, <1>2, LinkKeeps
<1>3. ASSUME NEW from, NEW to \in PCs \ {"arm"}, NEW m \in Links, StoreLink(from, to, m)
      PROVE  TInv'
  <2>1. Exec(from, to, proc) /\ links' \in Links /\ count' \in Int /\ UNCHANGED <<timer, due, wrapped>>
    BY <1>0, <1>3 DEF StoreLink
  <2> QED
    BY <2>1, <1>0, LinkKeeps
<1>4. ASSUME timer[proc.t].active, Load("del", "del_next", [proc EXCEPT !.after = links.next[proc.t]])
      PROVE  TInv'
  <2> DEFINE p == [proc EXCEPT !.after = links.next[proc.t]]
  <2>1. p \in Procs /\ p.t \in Timers /\ (p.mod <=> proc.mod) /\ p.expires = proc.expires
    BY <1>0, <1>1 DEF Procs
  <2> HIDE DEF p
  <2>2. Load("del", "del_next", p)
    BY <1>4 DEF p
  <2> QED
    BY <1>2, <2>1, <2>2 DEF PCs
<1>5. ASSUME Load("del", IF proc.mod THEN "arm" ELSE "idle", proc) PROVE TInv'
  <2>1. (IF proc.mod THEN "arm" ELSE "idle") \in PCs
    BY DEF PCs
  <2>2. (IF proc.mod THEN "arm" ELSE "idle") = "arm" => proc.mod
    OBVIOUS
  <2> QED
    BY <1>0, <1>2, <1>5, <2>1, <2>2
<1>6. ASSUME Load("del_next", "del_prev", [proc EXCEPT !.before = links.prev[proc.t]]) PROVE TInv'
  <2> DEFINE p == [proc EXCEPT !.before = links.prev[proc.t]]
  <2>1. p \in Procs /\ p.t \in Timers /\ (p.mod <=> proc.mod) /\ p.expires = proc.expires
    BY <1>0, <1>1 DEF Procs
  <2> HIDE DEF p
  <2>2. Load("del_next", "del_prev", p)
    BY <1>6 DEF p
  <2> QED
    BY <1>2, <2>1, <2>2 DEF PCs
<1>7. /\ L!SetPrev(links, proc.after, proc.before) \in Links
      /\ L!SetNext(links, proc.before, proc.after) \in Links
      /\ L!SetNext(links, proc.t, NULL) \in Links
      /\ L!SetPrev(links, proc.t, NULL) \in Links
  BY <1>0, LinkTypes
<1>8. ASSUME StoreActive("inactive", "dec_load", FALSE) PROVE TInv'
  <2> DEFINE a == [timer EXCEPT ![proc.t].active = FALSE]
  <2> DEFINE d == [due EXCEPT ![proc.t] = 0]
  <2>1. /\ Exec("inactive", "dec_load", proc) /\ timer' = a /\ due' = d
        /\ wrapped' = wrapped \ {proc.t} /\ UNCHANGED <<links, count>>
    BY <1>8 DEF StoreActive
  <2>2. a \in [Timers -> TimerRecs] /\ \A t \in Timers : a[t].expires = timer[t].expires
    BY <1>0 DEF TimerRecs
  <2>3. d \in [Deadlines -> Nat] /\ d[proc.t] = 0 /\ \A x \in Deadlines \ {proc.t} : d[x] = due[x]
    BY <1>0, Names
  <2> HIDE DEF a, d
  <2>4. /\ timer' \in [Timers -> TimerRecs] /\ \A t \in Timers : timer'[t].expires = timer[t].expires
        /\ due' \in [Deadlines -> Nat] /\ wrapped' \in SUBSET Deadlines
        /\ links' \in Links /\ count' \in Int
    BY <1>0, <2>1, <2>2, <2>3
  <2>5. \A x \in Deadlines : (due'[x] = due[x] /\ (x \in wrapped' <=> x \in wrapped))
                                \/ (x \in Timers /\ due'[x] = 0)
    BY <2>1, <2>3
  <2>6. "dec_load" \in PCs /\ "dec_load" # "arm"
    BY DEF PCs
  <2> QED
    BY <1>0, <2>1, <2>4, <2>5, <2>6, StoreKeeps
<1>9. ASSUME Load("dec_load", "dec", [proc EXCEPT !.count = count]) PROVE TInv'
  <2> DEFINE p == [proc EXCEPT !.count = count]
  <2>1. p \in Procs /\ p.t \in Timers /\ (p.mod <=> proc.mod) /\ p.expires = proc.expires
    BY <1>0 DEF Procs
  <2> HIDE DEF p
  <2>2. Load("dec_load", "dec", p)
    BY <1>9 DEF p
  <2> QED
    BY <1>2, <2>1, <2>2 DEF PCs
<1>10. ASSUME StoreCount("dec", IF proc.mod THEN "arm" ELSE "idle", proc.count - 1) PROVE TInv'
  <2> DEFINE to == IF proc.mod THEN "arm" ELSE "idle"
  <2>1. to \in PCs /\ (to = "arm" => proc.mod)
    BY DEF PCs
  <2> HIDE DEF to
  <2>2. Exec("dec", to, proc) /\ links' \in Links /\ count' \in Int /\ UNCHANGED <<timer, due, wrapped>>
    BY <1>0, <1>10 DEF StoreCount, to
  <2> QED
    BY <1>0, <2>1, <2>2, LinkKeeps
<1> QED
  BY <1>3, <1>4, <1>5, <1>6, <1>7, <1>8, <1>9, <1>10 DEF DelSteps, PCs

\* ktimer_add, step by step.
LEMMA AddKeeps ==
    ASSUME TInv, proc.t \in Timers, AddSteps
    PROVE  TInv'
<1>0. /\ links \in Links /\ count \in Int /\ proc \in Procs /\ proc.count \in Int
      /\ proc.before \in Addrs /\ proc.after \in Addrs /\ proc.t \in Addrs /\ timer_list \in Addrs
      /\ timer \in [Timers -> TimerRecs] /\ due \in [Deadlines -> Nat] /\ wrapped \in SUBSET Deadlines
  BY StateTypes, Names DEF TInv, Procs, Addrs
<1>1. links.prev[timer_list] \in Addrs
  BY <1>0, Names DEF Links
<1>2. ASSUME NEW from, NEW to \in PCs \ {"arm"}, NEW p \in Procs, Load(from, to, p),
             p.t \in Timers, p.mod <=> proc.mod, p.expires = proc.expires
      PROVE  TInv'
  <2>1. Exec(from, to, p) /\ links' \in Links /\ count' \in Int /\ UNCHANGED <<timer, due, wrapped>>
    BY <1>0, <1>2 DEF Load
  <2> QED
    BY <2>1, <1>2, LinkKeeps
<1>3. ASSUME NEW from, NEW to \in PCs \ {"arm"}, NEW m \in Links, StoreLink(from, to, m)
      PROVE  TInv'
  <2>1. Exec(from, to, proc) /\ links' \in Links /\ count' \in Int /\ UNCHANGED <<timer, due, wrapped>>
    BY <1>0, <1>3 DEF StoreLink
  <2> QED
    BY <2>1, <1>0, LinkKeeps
<1>4. ASSUME Load("add_load", "add_prev", [proc EXCEPT !.before = links.prev[timer_list]]) PROVE TInv'
  <2> DEFINE p == [proc EXCEPT !.before = links.prev[timer_list]]
  <2>1. p \in Procs /\ p.t \in Timers /\ (p.mod <=> proc.mod) /\ p.expires = proc.expires
    BY <1>0, <1>1 DEF Procs
  <2> HIDE DEF p
  <2>2. Load("add_load", "add_prev", p)
    BY <1>4 DEF p
  <2> QED
    BY <1>2, <2>1, <2>2 DEF PCs
<1>5. /\ L!SetPrev(links, timer_list, proc.t) \in Links
      /\ L!SetNext(links, proc.t, timer_list) \in Links
      /\ L!SetPrev(links, proc.t, proc.before) \in Links
      /\ L!SetNext(links, proc.before, proc.t) \in Links
  BY <1>0, LinkTypes
<1>6. ASSUME StoreActive("active", "inc_load", TRUE) PROVE TInv'
  <2> DEFINE a == [timer EXCEPT ![proc.t].active = TRUE]
  <2>1. /\ Exec("active", "inc_load", proc) /\ timer' = a
        /\ UNCHANGED <<links, count, due, wrapped>>
    BY <1>6 DEF StoreActive
  <2>2. a \in [Timers -> TimerRecs] /\ \A t \in Timers : a[t].expires = timer[t].expires
    BY <1>0 DEF TimerRecs
  <2> HIDE DEF a
  <2>3. /\ timer' \in [Timers -> TimerRecs] /\ \A t \in Timers : timer'[t].expires = timer[t].expires
        /\ due' \in [Deadlines -> Nat] /\ wrapped' \in SUBSET Deadlines
        /\ links' \in Links /\ count' \in Int
        /\ \A x \in Deadlines : due'[x] = due[x] /\ (x \in wrapped' <=> x \in wrapped)
    BY <1>0, <2>1, <2>2
  <2>4. "inc_load" \in PCs /\ "inc_load" # "arm"
    BY DEF PCs
  <2> QED
    BY <1>0, <2>1, <2>3, <2>4, StoreKeeps
<1>7. ASSUME Load("inc_load", "inc", [proc EXCEPT !.count = count]) PROVE TInv'
  <2> DEFINE p == [proc EXCEPT !.count = count]
  <2>1. p \in Procs /\ p.t \in Timers /\ (p.mod <=> proc.mod) /\ p.expires = proc.expires
    BY <1>0 DEF Procs
  <2> HIDE DEF p
  <2>2. Load("inc_load", "inc", p)
    BY <1>7 DEF p
  <2> QED
    BY <1>2, <2>1, <2>2 DEF PCs
<1>8. ASSUME StoreCount("inc", "idle", proc.count + 1) PROVE TInv'
  <2>1. Exec("inc", "idle", proc) /\ links' \in Links /\ count' \in Int /\ UNCHANGED <<timer, due, wrapped>>
    BY <1>0, <1>8 DEF StoreCount
  <2>2. "idle" \in PCs /\ "idle" # "arm"
    BY DEF PCs
  <2> QED
    BY <1>0, <2>1, <2>2, LinkKeeps
<1>9. ASSUME Load("add", "idle", proc) \/ Load("add", "add_load", proc) PROVE TInv'
  BY <1>0, <1>2, <1>9 DEF PCs
<1> QED
  BY <1>3, <1>4, <1>5, <1>6, <1>7, <1>8, <1>9 DEF AddSteps, PCs


\* The part of OnTime about timers, on a state of the interrupt; m leaves
\* the other deadlines of s alone.
TimersOnTime(s) ==
    \A t \in Timers : t \notin s.wrapped => s.due[t] = 0 \/ s.timer[t].expires = clock.tick + s.due[t]

SameOthers(s, m) ==
    \A x \in Slots \cup Callers \cup {"proc"} : m.due[x] = s.due[x] /\ (x \in m.wrapped <=> x \in s.wrapped)

\* Deleting a timer leaves the deadlines of the others.
LEMMA UnlinkOnTime ==
    ASSUME NEW s \in MemStates, NEW t \in Timers, TimersOnTime(s)
    PROVE  TimersOnTime(Unlink(s, t)) /\ SameOthers(s, Unlink(s, t))
<1> DEFINE u == Unlink(s, t)
<1>1. /\ \A v \in Timers \ {t} : u.timer[v] = s.timer[v]
      /\ u.due[t] = 0
      /\ \A x \in Deadlines \ {t} : u.due[x] = s.due[x]
      /\ u.wrapped = s.wrapped \ {t}
  BY UnlinkFields
<1> HIDE DEF u
<1>2. TimersOnTime(u)
  <2> SUFFICES ASSUME NEW v \in Timers, v \notin u.wrapped
               PROVE  u.due[v] = 0 \/ u.timer[v].expires = clock.tick + u.due[v]
    BY DEF TimersOnTime
  <2>1. CASE v = t
    BY <2>1, <1>1
  <2>2. CASE v # t
    <3>1. u.due[v] = s.due[v] /\ u.timer[v] = s.timer[v] /\ v \notin s.wrapped
      BY <2>2, <1>1, Names
    <3> QED
      BY <3>1 DEF TimersOnTime
  <2> QED
    BY <2>1, <2>2
<1>3. SameOthers(s, u)
  <2> SUFFICES ASSUME NEW x \in Slots \cup Callers \cup {"proc"}
               PROVE  u.due[x] = s.due[x] /\ (x \in u.wrapped <=> x \in s.wrapped)
    BY DEF SameOthers
  <2>1. x \in Deadlines \ {t}
    BY Names
  <2> QED
    BY <2>1, <1>1
<1> QED
  BY <1>2, <1>3 DEF u

\* Setting an expiry keeps it in step with the timer's deadline.
LEMMA ArmOnTime ==
    ASSUME NEW s \in MemStates, NEW t \in Timers, NEW d \in Delays, TimersOnTime(s),
           clock.jiffies \in Times, clock.tick = clock.jiffies
    PROVE  TimersOnTime(Arm(s, t, d)) /\ SameOthers(s, Arm(s, t, d))
<1> DEFINE u == Arm(s, t, d)
<1>1. /\ u.timer[t].expires = Plus(clock.jiffies, d)
      /\ \A v \in Timers \ {t} : u.timer[v] = s.timer[v]
      /\ u.due[t] = d
      /\ \A x \in Deadlines \ {t} : u.due[x] = s.due[x]
      /\ t \in u.wrapped <=> Wraps(clock.jiffies, d)
      /\ \A x \in Deadlines \ {t} : x \in u.wrapped <=> x \in s.wrapped
  BY ArmFields
<1>2. ~Wraps(clock.jiffies, d) => Plus(clock.jiffies, d) = clock.jiffies + d
  BY PlusFacts, TimersAssumption
<1> HIDE DEF u
<1>3. TimersOnTime(u)
  <2> SUFFICES ASSUME NEW v \in Timers, v \notin u.wrapped
               PROVE  u.due[v] = 0 \/ u.timer[v].expires = clock.tick + u.due[v]
    BY DEF TimersOnTime
  <2>1. CASE v = t
    BY <2>1, <1>1, <1>2
  <2>2. CASE v # t
    <3>1. u.due[v] = s.due[v] /\ u.timer[v] = s.timer[v] /\ v \notin s.wrapped
      BY <2>2, <1>1, Names
    <3> QED
      BY <3>1 DEF TimersOnTime
  <2> QED
    BY <2>1, <2>2
<1>4. SameOthers(s, u)
  <2> SUFFICES ASSUME NEW x \in Slots \cup Callers \cup {"proc"}
               PROVE  u.due[x] = s.due[x] /\ (x \in u.wrapped <=> x \in s.wrapped)
    BY DEF SameOthers
  <2>1. x \in Deadlines \ {t}
    BY Names
  <2> QED
    BY <2>1, <1>1
<1> QED
  BY <1>3, <1>4 DEF u

\* Adding a timer keeps the deadlines.
LEMMA AddOnTime ==
    ASSUME NEW s \in MemStates, NEW t \in Timers, TimersOnTime(s), ~s.timer[t].active
    PROVE  TimersOnTime(Add(s, t)) /\ SameOthers(s, Add(s, t))
<1> DEFINE u == Add(s, t)
<1>1. /\ u.timer[t].expires = s.timer[t].expires
      /\ \A v \in Timers \ {t} : u.timer[v] = s.timer[v]
      /\ u.due = s.due /\ u.wrapped = s.wrapped
  BY AddFields
<1> HIDE DEF u
<1>2. \A v \in Timers : u.timer[v].expires = s.timer[v].expires
  BY <1>1
<1> QED
  BY <1>1, <1>2 DEF TimersOnTime, SameOthers, u

\* What a timer's function does to the state the interrupt has left.
LEMMA CallsOnTime ==
    ASSUME NEW s \in MemStates, TimersOnTime(s), clock.jiffies \in Times, clock.tick = clock.jiffies,
           NEW call \in Calls(s)
    PROVE  call.s \in MemStates /\ TimersOnTime(call.s) /\ SameOthers(s, call.s)
<1>1. ASSUME NEW t \in Timers
      PROVE  /\ Del(s, t) \in MemStates /\ TimersOnTime(Del(s, t)) /\ SameOthers(s, Del(s, t))
             /\ ~Del(s, t).timer[t].active
  <2>1. CASE s.timer[t].active
    <3>1. Del(s, t) = Unlink(s, t)
      BY <2>1 DEF Del
    <3> QED
      BY <3>1, UnlinkFields, UnlinkOnTime
  <2>2. CASE ~s.timer[t].active
    BY <2>2 DEF Del, SameOthers
  <2> QED
    BY <2>1, <2>2
<1>2. ASSUME NEW t \in Timers, NEW d \in Delays
      PROVE  /\ Mod(s, t, d) \in MemStates /\ TimersOnTime(Mod(s, t, d))
             /\ SameOthers(s, Mod(s, t, d))
  <2> DEFINE e == Del(s, t)
  <2> DEFINE a == Arm(e, t, d)
  <2>1. e \in MemStates /\ TimersOnTime(e) /\ SameOthers(s, e) /\ ~e.timer[t].active
    BY <1>1
  <2> HIDE DEF e
  <2>2. a \in MemStates /\ (a.timer[t].active <=> e.timer[t].active)
    BY <2>1, ArmFields
  <2>3. TimersOnTime(a) /\ SameOthers(e, a)
    BY <2>1, ArmOnTime
  <2> HIDE DEF a
  <2>4. Add(a, t) \in MemStates
    BY <2>1, <2>2, AddFields
  <2>5. TimersOnTime(Add(a, t)) /\ SameOthers(a, Add(a, t))
    BY <2>1, <2>2, <2>3, AddOnTime
  <2>6. Mod(s, t, d) = Add(a, t)
    BY DEF Mod, a, e
  <2> QED
    BY <2>1, <2>3, <2>4, <2>5, <2>6 DEF SameOthers
<1>3. CASE call = [on |-> NULL, s |-> s]
  BY <1>3 DEF SameOthers
<1>4. ASSUME NEW t \in Timers, NEW d \in Delays, call = [on |-> t, s |-> Mod(s, t, d)]
      PROVE  call.s \in MemStates /\ TimersOnTime(call.s) /\ SameOthers(s, call.s)
  <2>1. call.s = Mod(s, t, d)
    BY <1>4
  <2> QED
    BY <1>2, <2>1
<1>5. ASSUME NEW t \in Timers, call = [on |-> t, s |-> Del(s, t)]
      PROVE  call.s \in MemStates /\ TimersOnTime(call.s) /\ SameOthers(s, call.s)
  <2>1. call.s = Del(s, t)
    BY <1>5
  <2> QED
    BY <1>1, <2>1
<1> QED
  BY <1>3, <1>4, <1>5 DEF Calls


\* The calls that begin in process context, and the store of a new deadline.
LEMMA BeginKeeps ==
    ASSUME TInv, NEW t \in Timers,
           ktimer_add(t) \/ ktimer_del(t) \/ \E delay \in Delays : ktimer_mod(t, delay)
    PROVE  TInv'
<1>0. /\ links \in Links /\ count \in Int /\ timer \in [Timers -> TimerRecs]
      /\ due \in [Deadlines -> Nat] /\ wrapped \in SUBSET Deadlines
      /\ clock.jiffies \in Times /\ clock.tick = clock.jiffies
  BY StateTypes DEF TInv
<1>1. Idle \in Procs
  BY TimersAssumption DEF Idle, Procs, PCs, Addrs, Nodes, Times
<1>2. ASSUME ktimer_add(t) \/ ktimer_del(t) PROVE TInv'
  <2> DEFINE p == [Idle EXCEPT !.t = t]
  <2>1. p \in Procs /\ p.t = t /\ ~p.mod
    BY <1>1 DEF Procs, Idle
  <2> HIDE DEF p
  <2>2. PICK to \in {"add", "del"} :
           Exec("idle", to, p) /\ UNCHANGED <<links, timer, count, due, wrapped>>
    BY <1>2 DEF ktimer_add, ktimer_del, Load, p
  <2>3. to \in PCs /\ to # "idle" /\ to # "arm"
    BY DEF PCs
  <2>4. /\ proc'.pc = to /\ proc'.mod = p.mod /\ UNCHANGED <<clock, slots, callers, walk>>
    BY <2>1, <2>2, <2>3, ExecFacts
  <2>5. TypeOK'
    BY <1>0, <2>1, <2>2, <2>3, ExecTypes DEF TInv
  <2>6. CallbacksOnTime'
    BY <2>2, <2>4, CallbacksKept DEF TInv, OnTime
  <2> QED
    BY <2>1, <2>2, <2>3, <2>4, <2>5, <2>6 DEF TInv, OnTime
<1>3. ASSUME NEW delay \in Delays, ktimer_mod(t, delay) PROVE TInv'
  <2> DEFINE e == Plus(clock.jiffies, delay)
  <2> DEFINE p == [Idle EXCEPT !.t = t, !.mod = TRUE, !.expires = e]
  <2> DEFINE to == IF timer[t].active THEN "del" ELSE "arm"
  <2> DEFINE d == [due EXCEPT !["proc"] = delay]
  <2>1. /\ e \in Times /\ (~Wraps(clock.jiffies, delay) => e = clock.tick + delay) /\ delay \in Nat
    BY <1>0, PlusFacts, TimersAssumption
  <2>2. Exec("idle", to, p) /\ due' = d /\ UNCHANGED <<links, timer, count>>
    BY <1>3 DEF ktimer_mod
  <2>3. wrapped' = IF Wraps(clock.jiffies, delay) THEN wrapped \cup {"proc"} ELSE wrapped \ {"proc"}
    BY <1>3 DEF ktimer_mod
  <2> HIDE DEF e
  <2>4. p \in Procs /\ p.t = t /\ p.mod /\ p.expires = e
    BY <1>1, <2>1 DEF Procs, Idle
  <2>5. d \in [Deadlines -> Nat] /\ d["proc"] = delay /\ \A x \in Deadlines \ {"proc"} : d[x] = due[x]
    BY <1>0, <2>1, Names
  <2>6. to \in PCs /\ to \in {"del", "arm"}
    BY DEF PCs
  <2> HIDE DEF p, to, d
  <2>7. TypeOK'
    BY <1>0, <2>2, <2>3, <2>4, <2>5, <2>6, ExecTypes, Names DEF TInv
  <2>8. proc'.pc \in {"del", "arm"} /\ proc'.mod /\ proc'.expires = e
        /\ UNCHANGED <<clock, slots, callers, walk>>
    BY <2>2, <2>4, <2>6, ExecFacts
  <2>9. "proc" \notin wrapped' => ~Wraps(clock.jiffies, delay)
    BY <2>3
  <2>10. \A x \in Deadlines \ {"proc"} : due'[x] = due[x] /\ (x \in wrapped' <=> x \in wrapped)
    BY <2>2, <2>3, <2>5
  <2>11. CallbacksOnTime'
    <3>1. \A x \in Slots \cup Callers : due'[x] = due[x] /\ (x \in wrapped' <=> x \in wrapped)
      BY <2>10, Names
    <3> QED
      BY <2>8, <3>1, CallbacksKept DEF TInv, OnTime
  <2>12. \A v \in Timers : v \notin wrapped' => due'[v] = 0 \/ timer'[v].expires = clock'.tick + due'[v]
    BY <2>2, <2>8, <2>10, Names DEF TInv, OnTime
  <2>13. "proc" \notin wrapped' => proc'.expires = clock'.tick + due'["proc"]
    BY <2>1, <2>2, <2>5, <2>8, <2>9
  <2> QED
    BY <2>7, <2>8, <2>11, <2>12, <2>13 DEF TInv, OnTime
<1> QED
  BY <1>2, <1>3

\* ktimer_mod stores the deadline it was given.
LEMMA ArmKeeps ==
    ASSUME TInv, proc.t \in Timers, ArmStep
    PROVE  TInv'
<1>0. /\ links \in Links /\ count \in Int /\ timer \in [Timers -> TimerRecs]
      /\ due \in [Deadlines -> Nat] /\ wrapped \in SUBSET Deadlines /\ proc \in Procs
      /\ proc.expires \in Times
  BY StateTypes DEF TInv, Procs
<1> DEFINE t == proc.t
<1> DEFINE a == [timer EXCEPT ![t].expires = proc.expires]
<1> DEFINE d == [due EXCEPT ![t] = due["proc"], !["proc"] = 0]
<1>1. Exec("arm", "add", proc) /\ timer' = a /\ due' = d /\ UNCHANGED <<links, count>>
  BY DEF ArmStep
<1>2. wrapped' = IF "proc" \in wrapped THEN (wrapped \ {"proc"}) \cup {t} ELSE wrapped \ {t}
  BY DEF ArmStep
<1>3. a \in [Timers -> TimerRecs] /\ a[t].expires = proc.expires
      /\ \A v \in Timers \ {t} : a[v].expires = timer[v].expires
  BY <1>0 DEF TimerRecs
<1>4. /\ d \in [Deadlines -> Nat] /\ d[t] = due["proc"] /\ d["proc"] = 0
      /\ \A x \in Deadlines \ {t, "proc"} : d[x] = due[x]
  BY <1>0, Names
<1> HIDE DEF a, d
<1>5. wrapped' \in SUBSET Deadlines
  BY <1>0, <1>2, Names
<1>6. TypeOK'
  BY <1>0, <1>1, <1>3, <1>4, <1>5, ExecTypes DEF TInv, PCs
<1>7. proc.pc = "arm" /\ proc'.pc = "add" /\ UNCHANGED <<clock, slots, callers, walk>>
  BY <1>0, <1>1, ExecFacts DEF PCs
<1>8. \A x \in Deadlines \ {t, "proc"} : due'[x] = due[x] /\ (x \in wrapped' <=> x \in wrapped)
  BY <1>1, <1>2, <1>4
<1>9. CallbacksOnTime'
  <2>1. \A x \in Slots \cup Callers : due'[x] = due[x] /\ (x \in wrapped' <=> x \in wrapped)
    BY <1>8, Names
  <2> QED
    BY <1>7, <2>1, CallbacksKept DEF TInv, OnTime
<1>10. t \notin wrapped' => due'[t] = 0 \/ timer'[t].expires = clock'.tick + due'[t]
  <2>1. t \notin wrapped' => "proc" \notin wrapped
    BY <1>2
  <2>2. proc.mod /\ "proc" \notin wrapped =>
          due["proc"] = 0 \/ proc.expires = clock.tick + due["proc"]
    BY DEF TInv, OnTime
  <2>3. proc.mod
    BY <1>7 DEF TInv, OnTime
  <2> QED
    BY <1>1, <1>3, <1>4, <1>7, <2>1, <2>2, <2>3
<1>11. \A v \in Timers \ {t} : v \notin wrapped' => due'[v] = 0 \/ timer'[v].expires = clock'.tick + due'[v]
  BY <1>1, <1>3, <1>7, <1>8, Names DEF TInv, OnTime
<1>12. due'["proc"] = 0
  BY <1>1, <1>4
<1> QED
  BY <1>6, <1>7, <1>9, <1>10, <1>11, <1>12 DEF TInv, OnTime

\* The tick: a deadline that is not reached comes one tick nearer.
LEMMA TickKeeps ==
    ASSUME TInv, timer_handler
    PROVE  TInv'
<1>0. /\ links \in Links /\ count \in Int /\ timer \in [Timers -> TimerRecs]
      /\ due \in [Deadlines -> Nat] /\ wrapped \in SUBSET Deadlines /\ proc \in Procs
      /\ clock.tick \in Times /\ clock.jiffies \in Times /\ clock.tick = clock.jiffies
      /\ slots \in [Slots -> SlotRecs] /\ callers \in [Callers -> CallRecs]
      /\ \A i \in Slots : slots[i].active => slots[i].interval \in Intervals
      /\ (proc.pc # "idle" => proc.t \in Timers) /\ Modulus \in Nat \ {0}
  BY StateTypes, TimersAssumption DEF TInv, TypeOK, OnTime, CallbacksOnTime
<1> DEFINE now == clock'.tick
<1> DEFINE ran == {i \in Slots : slots[i].active /\ Due(slots[i].next_tick, now)}
<1>1. /\ clock' = [tick |-> Plus(clock.tick, 1), jiffies |-> Plus(clock.jiffies, 1)]
      /\ slots' = [i \in Slots |-> RunCallback(slots[i], now)]
      /\ wrapped' = ((wrapped \cup Overrun) \ ran) \cup {i \in ran : Wraps(now, slots[i].interval)}
      /\ due' = [x \in DOMAIN due |-> IF x \in ran THEN slots[x].interval ELSE Ticks(due[x])]
      /\ walk' = [on |-> TRUE, pos |-> L!NextOf(links, timer_list),
                  tmp |-> L!NextOf(links, L!NextOf(links, timer_list))]
      /\ UNCHANGED <<links, timer, count, proc, callers>>
  BY DEF timer_handler
<1>2. /\ now \in Times /\ clock' \in [tick: Times, jiffies: Times] /\ clock'.tick = clock'.jiffies
      /\ clock.tick + 1 < Modulus => now = clock.tick + 1
  BY <1>0, <1>1, TickFacts
<1> HIDE DEF now
<1>3. ASSUME NEW i \in Slots
      PROVE  /\ slots'[i] \in SlotRecs /\ slots'[i].interval = slots[i].interval
             /\ slots'[i].active <=> slots[i].active
             /\ i \in ran => slots'[i].next_tick = Plus(now, slots[i].interval)
             /\ i \notin ran => slots'[i] = slots[i]
  <2>1. slots'[i] = RunCallback(slots[i], now) /\ slots[i] \in SlotRecs
    BY <1>0, <1>1
  <2>2. CASE i \in ran
    <3>1. slots[i].active /\ slots'[i] = [slots[i] EXCEPT !.next_tick = Plus(now, slots[i].interval)]
      BY <2>1, <2>2 DEF RunCallback
    <3>2. slots[i].interval \in 0..Modulus - 1
      BY <1>0, <3>1, TimersAssumption
    <3>3. Plus(now, slots[i].interval) \in Times
      BY <1>2, <3>2, PlusFacts
    <3> HIDE DEF ran
    <3> QED
      BY <2>1, <2>2, <3>1, <3>3 DEF SlotRecs
  <2>3. CASE i \notin ran
    <3>1. slots'[i] = slots[i]
      BY <2>1, <2>3 DEF RunCallback
    <3> QED
      BY <3>1, <2>1, <2>3
  <2> QED
    BY <2>2, <2>3
<1>4. \A x \in Deadlines : /\ x \in ran => due'[x] = slots[x].interval
                           /\ x \notin ran => due'[x] = Ticks(due[x])
  BY <1>0, <1>1
<1>5. \A i \in ran : i \in Slots /\ slots[i].active /\ slots[i].interval \in 1..Modulus - 1
  BY <1>0, TimersAssumption
<1>6. \A i \in Slots \ ran : slots[i].active => now < slots[i].next_tick
  <2> SUFFICES ASSUME NEW i \in Slots \ ran, slots[i].active PROVE now < slots[i].next_tick
    OBVIOUS
  <2>1. ~(slots[i].next_tick <= now)
    BY DEF Due
  <2>2. slots[i].next_tick \in Times
    BY <1>0 DEF SlotRecs
  <2> QED
    BY <1>2, <2>1, <2>2 DEF Times
<1>7. \A x \in Deadlines : /\ x \in ran => (x \in wrapped' <=> Wraps(now, slots[x].interval))
                           /\ x \notin ran => (x \in wrapped' <=> x \in wrapped \cup Overrun)
  BY <1>1
<1>8. Overrun \subseteq Slots \cup Callers /\ wrapped' \in SUBSET Deadlines
  BY <1>0, <1>1, Names DEF Overrun
<1>9. slots' = [i \in Slots |-> slots'[i]] /\ due' = [x \in Deadlines |-> due'[x]]
  BY <1>0, <1>1
<1> HIDE DEF ran
<1>10. \A x \in Deadlines : due'[x] \in Nat
  BY <1>0, <1>4, <1>5 DEF Ticks
<1>11. due' \in [Deadlines -> Nat]
  BY <1>9, <1>10
<1>12. slots' \in [Slots -> SlotRecs]
  BY <1>3, <1>9
<1>13. walk' \in [on: BOOLEAN, pos: Addrs, tmp: Addrs]
  BY <1>0, <1>1, ReadTypes
<1>14. Mem' \in MemStates
  BY <1>0, <1>1, <1>8, <1>11 DEF Mem, MemStates
<1>15. TypeOK'
  BY <1>0, <1>1, <1>2, <1>12, <1>13, <1>14 DEF TypeOK
\* A deadline that lies ahead comes nearer: the counter cannot wrap before it.
<1>16. ASSUME NEW e \in Times, NEW x \in Deadlines, x \notin ran, due[x] = 0 \/ e = clock.tick + due[x]
       PROVE  due'[x] = 0 \/ e = now + due'[x]
  <2>1. due[x] \in Nat /\ due'[x] = Ticks(due[x])
    BY <1>0, <1>4, <1>16
  <2>2. CASE due[x] = 0
    BY <2>1, <2>2 DEF Ticks
  <2>3. CASE due[x] > 0
    <3>1. e = clock.tick + due[x] /\ due'[x] = due[x] - 1
      BY <2>1, <2>3, <1>16 DEF Ticks
    <3>2. clock.tick + 1 < Modulus
      BY <1>0, <2>1, <2>3, <3>1 DEF Times
    <3> QED
      BY <1>0, <1>2, <2>1, <3>1, <3>2 DEF Times
  <2> QED
    BY <2>1, <2>2, <2>3
\* One that has passed stays so, unless the counter wraps.
<1>17. ASSUME NEW e \in Times, NEW x \in Slots \cup Callers, x \notin ran, x \notin wrapped',
              Met(e, due[x], clock.tick)
       PROVE  Met(e, due'[x], now) /\ (due'[x] = 0 => e <= now) /\ x \notin wrapped
  <2>0. x \in Deadlines /\ due[x] \in Nat /\ due'[x] = Ticks(due[x]) /\ due'[x] \in Nat
    BY <1>0, <1>4, <1>10, <1>17, Names
  <2>1. x \notin wrapped /\ x \notin Overrun
    BY <1>7, <1>17, <2>0
  <2>2. CASE due[x] = 0
    <3>1. ~Wraps(clock.tick, 1)
      BY <2>1, <2>2 DEF Overrun
    <3>2. clock.tick + 1 < Modulus /\ e <= clock.tick /\ due'[x] = 0
      BY <1>0, <1>17, <2>0, <2>2, <3>1 DEF Wraps, Met, Times, Ticks
    <3> QED
      BY <1>0, <1>2, <2>1, <3>2 DEF Met, Times
  <2>3. CASE due[x] > 0
    <3>1. e = clock.tick + due[x] /\ due'[x] = due[x] - 1
      BY <2>0, <2>3, <1>17 DEF Ticks, Met
    <3>2. clock.tick + 1 < Modulus
      BY <1>0, <2>0, <2>3, <3>1 DEF Times
    <3> QED
      BY <1>0, <1>2, <2>0, <2>1, <3>1, <3>2 DEF Met, Times
  <2> QED
    BY <2>0, <2>2, <2>3
<1>18. ASSUME NEW i \in Slots, i \notin wrapped'
       PROVE  Met(slots'[i].next_tick, due'[i], now) /\ (slots'[i].active => due'[i] > 0)
  <2>0. i \in Deadlines
    BY Names
  <2>1. CASE i \in ran
    <3>1. ~Wraps(now, slots[i].interval) /\ slots[i].interval \in 1..Modulus - 1
      BY <1>5, <1>7, <1>18, <2>0, <2>1
    <3>2. Plus(now, slots[i].interval) = now + slots[i].interval
      BY <1>2, <3>1, PlusFacts
    <3>3. due'[i] = slots[i].interval /\ slots'[i].next_tick = now + slots[i].interval
      BY <1>3, <1>4, <2>0, <2>1, <3>2
    <3> QED
      BY <3>1, <3>3 DEF Met
  <2>2. CASE i \notin ran
    <3>0. slots[i].next_tick \in Times /\ i \in Slots \cup Callers
      BY <1>0 DEF SlotRecs
    <3>1. i \notin wrapped => Met(slots[i].next_tick, due[i], clock.tick)
      BY DEF TInv, OnTime, CallbacksOnTime
    <3>2. i \notin wrapped
      BY <1>7, <1>18, <2>0, <2>2
    <3>3. Met(slots[i].next_tick, due'[i], now) /\ (due'[i] = 0 => slots[i].next_tick <= now)
      BY <1>17, <1>18, <2>2, <3>0, <3>1, <3>2
    <3>4. slots'[i] = slots[i] /\ (slots[i].active => now < slots[i].next_tick)
      BY <1>3, <1>6, <2>2
    <3>5. due'[i] \in Nat /\ now \in Int /\ slots[i].next_tick \in Int
      BY <1>2, <1>10, <2>0, <3>0 DEF Times
    <3> QED
      BY <3>3, <3>4, <3>5
  <2> QED
    BY <2>1, <2>2
<1>19. ASSUME NEW c \in Callers, callers'[c].pc \in {"next_tick", "wait"}, c \notin wrapped'
       PROVE  Met(callers'[c].until, due'[c], now)
  <2>1. c \in Deadlines /\ c \notin ran /\ callers'[c] = callers[c]
    BY <1>1, <1>5, Names
  <2>2. c \notin wrapped
    BY <1>7, <1>19, <2>1
  <2>3. Met(callers[c].until, due[c], clock.tick)
    BY <1>19, <2>1, <2>2 DEF TInv, OnTime, CallbacksOnTime
  <2>4. callers[c].until \in Times
    BY <1>0 DEF CallRecs
  <2> QED
    BY <1>17, <1>19, <2>1, <2>3, <2>4
<1>20. CallbacksOnTime'
  <2>1. \A i \in Slots : slots'[i].active => slots'[i].interval \in Intervals
    BY <1>0, <1>3
  <2>2. \A c \in Callers : callers'[c].pc \in {"callback", "interval", "tick", "next_tick"} =>
            callers'[c].interval \in Intervals
    BY <1>1 DEF TInv, OnTime, CallbacksOnTime
  <2>3. ASSUME NEW c \in Callers, callers'[c].pc \in {"tick", "next_tick", "active"}
        PROVE  callers'[c].slot \in Slots /\ slots'[callers'[c].slot].interval \in Intervals
    <3>1. callers'[c] = callers[c] /\ slots[callers[c].slot].interval \in Intervals
      BY <1>1, <2>3 DEF TInv, OnTime, CallbacksOnTime
    <3>2. callers[c].slot \in Slots
      BY <1>1, <2>3 DEF TInv, OnTime, CallbacksOnTime
    <3> QED
      BY <1>3, <3>1, <3>2
  <2> QED
    BY <1>18, <1>19, <2>1, <2>2, <2>3 DEF CallbacksOnTime, now
<1>21. ASSUME NEW t \in Timers, t \notin wrapped'
       PROVE  due'[t] = 0 \/ timer'[t].expires = now + due'[t]
  <2>1. t \in Deadlines /\ t \notin ran
    BY <1>5, Names
  <2>2. t \notin wrapped /\ timer[t].expires \in Times
    BY <1>0, <1>7, <1>21, <2>1 DEF TimerRecs
  <2>3. due[t] = 0 \/ timer[t].expires = clock.tick + due[t]
    BY <2>2 DEF TInv, OnTime
  <2> QED
    BY <1>1, <1>16, <2>1, <2>2, <2>3
<1>22. ASSUME proc'.mod, "proc" \notin wrapped'
       PROVE  due'["proc"] = 0 \/ proc'.expires = now + due'["proc"]
  <2>1. "proc" \in Deadlines /\ "proc" \notin ran
    BY <1>5, Names
  <2>2. "proc" \notin wrapped /\ proc.expires \in Times
    BY <1>0, <1>7, <1>22, <2>1 DEF Procs
  <2>3. due["proc"] = 0 \/ proc.expires = clock.tick + due["proc"]
    BY <1>1, <1>22, <2>2 DEF TInv, OnTime
  <2> QED
    BY <1>1, <1>16, <2>1, <2>2, <2>3
<1>23. proc'.pc = "arm" => proc'.mod
  BY <1>1 DEF TInv, OnTime
<1> QED
  BY <1>15, <1>20, <1>21, <1>22, <1>23 DEF TInv, OnTime, now

\* A timer that is due is unlinked and its function is called.
LEMMA ExpireKeeps ==
    ASSUME TInv, Expire
    PROVE  TInv'
<1>0. /\ Mem \in MemStates /\ clock.jiffies \in Times /\ clock.tick = clock.jiffies
      /\ walk \in [on: BOOLEAN, pos: Addrs, tmp: Addrs] /\ links \in Links
  BY StateTypes DEF TInv
<1> DEFINE u == Unlink(Mem, walk.pos)
<1>1. walk.pos \in Timers /\ walk.on /\ UNCHANGED <<clock, slots, proc, callers>>
  BY DEF Expire
<1>2. PICK call \in Calls(u) :
        /\ links' = call.s.links /\ timer' = call.s.timer /\ count' = call.s.count
        /\ due' = call.s.due /\ wrapped' = call.s.wrapped
        /\ walk' = Advance(call.s.links)
  BY DEF Expire, Mem
<1>3. TimersOnTime(Mem)
  BY DEF TInv, OnTime, TimersOnTime, Mem
<1>4. u \in MemStates
  BY <1>0, <1>1, UnlinkFields
<1>5. TimersOnTime(u) /\ SameOthers(Mem, u)
  BY <1>0, <1>1, <1>3, UnlinkOnTime
<1> HIDE DEF u
<1> DEFINE m == call.s
<1>6. m \in MemStates /\ TimersOnTime(m) /\ SameOthers(u, m)
  BY <1>0, <1>4, <1>5, CallsOnTime
<1> HIDE DEF m
<1>7. /\ links' = m.links /\ timer' = m.timer /\ count' = m.count
      /\ due' = m.due /\ wrapped' = m.wrapped /\ walk' = Advance(m.links)
  BY <1>2 DEF m
<1>8. Mem' = m
  BY <1>6, <1>7 DEF Mem, MemStates
<1>9. m.links \in Links
  BY <1>6 DEF MemStates
<1>10. walk' \in [on: BOOLEAN, pos: Addrs, tmp: Addrs]
  BY <1>0, <1>7, <1>9, ReadTypes DEF Advance
<1>11. TypeOK'
  BY <1>1, <1>6, <1>8, <1>10 DEF TInv, TypeOK
<1>12. \A x \in Slots \cup Callers \cup {"proc"} : due'[x] = due[x] /\ (x \in wrapped' <=> x \in wrapped)
  BY <1>5, <1>6, <1>7 DEF SameOthers, Mem
<1>13. \A t \in Timers : t \notin wrapped' => due'[t] = 0 \/ timer'[t].expires = clock'.tick + due'[t]
  BY <1>1, <1>6, <1>7 DEF TimersOnTime
<1>14. CallbacksOnTime'
  BY <1>1, <1>12, CallbacksKept DEF TInv, OnTime
<1>15. proc'.mod /\ "proc" \notin wrapped' =>
          due'["proc"] = 0 \/ proc'.expires = clock'.tick + due'["proc"]
  BY <1>1, <1>12 DEF TInv, OnTime
<1> QED
  BY <1>1, <1>11, <1>13, <1>14, <1>15 DEF TInv, OnTime

\* The stores of timer.c: one slot, one caller, and their deadlines at most.
LEMMA CallTypesKept ==
    ASSUME TInv, NEW c \in Callers, NEW r \in CallRecs, callers' = [callers EXCEPT ![c] = r],
           slots' \in [Slots -> SlotRecs], due' \in [Deadlines -> Nat], wrapped' \in SUBSET Deadlines,
           UNCHANGED <<links, timer, count, clock, walk, proc, harm>>,
           \A t \in Timers \cup {"proc"} : due'[t] = due[t] /\ (t \in wrapped' <=> t \in wrapped),
           CallbacksOnTime'
    PROVE  TInv'
<1>1. Mem' \in MemStates
  BY StateTypes DEF TInv, Mem, MemStates
<1>2. callers' \in [Callers -> CallRecs]
  BY DEF TInv, TypeOK
<1>3. TypeOK'
  BY <1>1, <1>2 DEF TInv, TypeOK
<1>4. \A t \in Timers : t \notin wrapped' => due'[t] = 0 \/ timer'[t].expires = clock'.tick + due'[t]
  BY DEF TInv, OnTime
<1> QED
  BY <1>3, <1>4 DEF TInv, OnTime

\* Periodic callbacks and timer_wait keep their deadlines, store by store.
LEMMA CallbackKeeps ==
    ASSUME TInv, NEW c \in Callers, CallSteps(c)
    PROVE  TInv'
<1>0. /\ due \in [Deadlines -> Nat] /\ wrapped \in SUBSET Deadlines
      /\ clock.tick \in Times /\ clock.tick \in Int
      /\ slots \in [Slots -> SlotRecs] /\ callers \in [Callers -> CallRecs]
      /\ CallbacksOnTime /\ c \in Deadlines /\ c \notin Timers /\ c # "proc"
  BY StateTypes, Names DEF TInv, TypeOK, OnTime, Times
<1>1. Quiet \in CallRecs /\ Quiet.pc = "idle"
  BY TimersAssumption DEF Quiet, CallRecs, Times
<1>2. /\ callers[c].slot \in Slots \cup {NULL} /\ callers[c].interval \in Intervals \cup {0}
      /\ callers[c].until \in Times
  BY <1>0 DEF CallRecs
\* A step of c to a record r, that leaves deadlines alone; the slots' intervals
\* are kept or stored from an interval.
<1>3. ASSUME NEW r \in CallRecs, callers' = [callers EXCEPT ![c] = r],
             r.pc \in {"idle", "callback", "interval", "tick", "active", "clear"},
             r.pc \in {"callback", "interval", "tick"} => r.interval \in Intervals,
             r.pc \in {"tick", "active"} => r.slot \in Slots /\ slots'[r.slot].interval \in Intervals,
             slots' \in [Slots -> SlotRecs],
             \A i \in Slots : /\ slots'[i].next_tick = slots[i].next_tick
                              /\ slots[i].interval \in Intervals => slots'[i].interval \in Intervals
                              /\ slots'[i].active =>
                                    slots[i].active \/ slots[i].interval \in Intervals,
             ~walk.on, UNCHANGED <<links, timer, count, clock, walk, proc, harm, due, wrapped>>
      PROVE  TInv'
  <2>1. \A d \in Callers \ {c} : callers'[d] = callers[d]
    BY <1>3
  <2>2. callers'[c] = r
    BY <1>0, <1>3
  <2>3. \A d \in Callers : callers'[d].pc \in {"next_tick", "wait"} /\ d \notin wrapped' =>
            Met(callers'[d].until, due'[d], clock'.tick)
    BY <1>0, <1>3, <2>1, <2>2 DEF CallbacksOnTime
  <2>4. \A d \in Callers : callers'[d].pc \in {"callback", "interval", "tick", "next_tick"} =>
            callers'[d].interval \in Intervals
    BY <1>0, <1>3, <2>1, <2>2 DEF CallbacksOnTime
  <2>5. ASSUME NEW d \in Callers, callers'[d].pc \in {"tick", "next_tick", "active"}
        PROVE  callers'[d].slot \in Slots /\ slots'[callers'[d].slot].interval \in Intervals
    <3>1. CASE d = c
      BY <1>3, <2>2, <2>5, <3>1
    <3>2. CASE d # c
      <4>1. callers'[d] = callers[d] /\ slots[callers[d].slot].interval \in Intervals
            /\ callers[d].slot \in Slots
        BY <1>0, <2>1, <2>5, <3>2 DEF CallbacksOnTime
      <4> QED
        BY <1>3, <4>1
    <3> QED
      BY <3>1, <3>2
  <2>6. CallbacksOnTime'
    BY <1>0, <1>3, <2>3, <2>4, <2>5 DEF CallbacksOnTime
  <2> QED
    BY <1>0, <1>3, <2>6, CallTypesKept
\* A new deadline of c: tick + ticks.
<1>4. ASSUME NEW ticks \in 0..Modulus - 1, Deadline(c, ticks)
      PROVE  /\ Plus(clock.tick, ticks) \in Times
             /\ due' \in [Deadlines -> Nat] /\ wrapped' \in SUBSET Deadlines
             /\ \A x \in Deadlines \ {c} : due'[x] = due[x] /\ (x \in wrapped' <=> x \in wrapped)
             /\ c \notin wrapped' => Met(Plus(clock.tick, ticks), due'[c], clock.tick)
             /\ slots' = slots
  <2>1. /\ due' = [due EXCEPT ![c] = ticks] /\ slots' = slots
        /\ wrapped' = IF Wraps(clock.tick, ticks) THEN wrapped \cup {c} ELSE wrapped \ {c}
    BY <1>4 DEF Deadline
  <2>2. /\ Plus(clock.tick, ticks) \in Times
        /\ ~Wraps(clock.tick, ticks) => Plus(clock.tick, ticks) = clock.tick + ticks
    BY <1>0, PlusFacts
  <2>3. /\ due'[c] = ticks /\ ticks \in Nat /\ due' \in [Deadlines -> Nat]
        /\ \A x \in Deadlines \ {c} : due'[x] = due[x]
    BY <1>0, <2>1
  <2> QED
    BY <1>0, <2>1, <2>2, <2>3 DEF Met
\* A step of c to a record r whose deadline has been noted.
<1>5. ASSUME NEW r \in CallRecs, callers' = [callers EXCEPT ![c] = r],
             r.pc \in {"idle", "next_tick", "wait"},
             r.pc = "next_tick" => r.interval \in Intervals /\ r.slot \in Slots
                                  /\ slots[r.slot].interval \in Intervals,
             slots' = slots, ~walk.on,
             due' \in [Deadlines -> Nat], wrapped' \in SUBSET Deadlines,
             \A x \in Deadlines \ {c} : due'[x] = due[x] /\ (x \in wrapped' <=> x \in wrapped),
             r.pc # "idle" /\ c \notin wrapped' => Met(r.until, due'[c], clock.tick),
             UNCHANGED <<links, timer, count, clock, walk, proc, harm>>
      PROVE  TInv'
  <2>1. \A d \in Callers \ {c} : callers'[d] = callers[d]
    BY <1>5
  <2>2. callers'[c] = r
    BY <1>0, <1>5
  <2>3. \A x \in Timers \cup Slots \cup {"proc"} : due'[x] = due[x] /\ (x \in wrapped' <=> x \in wrapped)
    BY <1>0, <1>5, Names
  <2>4. \A d \in Callers \ {c} : due'[d] = due[d] /\ (d \in wrapped' <=> d \in wrapped)
    BY <1>5, Names
  <2>5. ASSUME NEW d \in Callers
        PROVE  /\ callers'[d].pc \in {"next_tick", "wait"} /\ d \notin wrapped' =>
                      Met(callers'[d].until, due'[d], clock'.tick)
               /\ callers'[d].pc \in {"callback", "interval", "tick", "next_tick"} =>
                      callers'[d].interval \in Intervals
               /\ callers'[d].pc \in {"tick", "next_tick", "active"} =>
                      callers'[d].slot \in Slots /\ slots'[callers'[d].slot].interval \in Intervals
    <3>1. CASE d = c
      BY <1>5, <2>2, <3>1
    <3>2. CASE d # c
      BY <1>0, <1>5, <2>1, <2>4, <3>2 DEF CallbacksOnTime
    <3> QED
      BY <3>1, <3>2
  <2>6. CallbacksOnTime'
    BY <1>0, <1>5, <2>3, <2>5 DEF CallbacksOnTime
  <2> QED
    BY <1>0, <1>5, <2>3, <2>6, CallTypesKept
\* The record after a step of Call.
<1>6. ASSUME NEW from, NEW to, NEW r, Call(c, from, to, r)
      PROVE  /\ ~walk.on /\ callers[c].pc = from
             /\ callers' = [callers EXCEPT ![c] = IF to = "idle" THEN Quiet ELSE [r EXCEPT !.pc = to]]
             /\ UNCHANGED <<links, timer, count, clock, walk, proc, harm>>
  BY <1>6 DEF Call
<1>7. ASSUME NEW i \in Slots, NEW interval \in Intervals, timer_register_callback(c, i, interval)
      PROVE  TInv'
  <2> DEFINE r == [[Quiet EXCEPT !.slot = i, !.interval = interval] EXCEPT !.pc = "callback"]
  <2>1. Call(c, "idle", "callback", [Quiet EXCEPT !.slot = i, !.interval = interval])
        /\ UNCHANGED <<slots, due, wrapped>>
    BY <1>7 DEF timer_register_callback
  <2>2. callers' = [callers EXCEPT ![c] = r]
    BY <1>6, <2>1
  <2>3. r \in CallRecs /\ r.pc = "callback" /\ r.interval = interval
    BY <1>1 DEF CallRecs
  <2> HIDE DEF r
  <2>4. ~walk.on /\ UNCHANGED <<links, timer, count, clock, walk, proc, harm>>
    BY <2>1 DEF Call
  <2> QED
    BY <1>0, <1>3, <2>1, <2>2, <2>3, <2>4
<1>8. ASSUME NEW i \in Slots, timer_unregister_callback(c, i)
      PROVE  TInv'
  <2> DEFINE r == [[Quiet EXCEPT !.slot = i] EXCEPT !.pc = "clear"]
  <2>1. Call(c, "idle", "clear", [Quiet EXCEPT !.slot = i])
        /\ slots' = [slots EXCEPT ![i].active = FALSE] /\ UNCHANGED <<due, wrapped>>
    BY <1>8 DEF timer_unregister_callback
  <2>2. callers' = [callers EXCEPT ![c] = r]
    BY <1>6, <2>1
  <2>3. r \in CallRecs /\ r.pc = "clear"
    BY <1>1 DEF CallRecs
  <2> HIDE DEF r
  <2>4. ~walk.on /\ UNCHANGED <<links, timer, count, clock, walk, proc, harm>>
    BY <2>1 DEF Call
  <2>5. /\ slots' \in [Slots -> SlotRecs]
        /\ \A j \in Slots : /\ slots'[j].next_tick = slots[j].next_tick
                            /\ slots'[j].interval = slots[j].interval
                            /\ slots'[j].active => slots[j].active
    BY <1>0, <2>1 DEF SlotRecs
  <2> QED
    BY <1>3, <2>1, <2>2, <2>3, <2>4, <2>5
\* A store to the slot of a caller.
<1>9. ASSUME NEW from, NEW to, NEW slot, StoreSlot(c, from, to, slot)
      PROVE  /\ ~walk.on /\ callers[c].pc = from
             /\ callers' = [callers EXCEPT ![c] = IF to = "idle" THEN Quiet
                                                 ELSE [callers[c] EXCEPT !.pc = to]]
             /\ slots' = [slots EXCEPT ![callers[c].slot] = slot]
             /\ UNCHANGED <<links, timer, count, clock, walk, proc, harm, due, wrapped>>
  BY <1>9 DEF StoreSlot, Call
<1> DEFINE i == callers[c].slot
<1>10. ASSUME i \in Slots, StoreSlot(c, "callback", "interval", [slots[i] EXCEPT !.callback = TRUE])
       PROVE  TInv'
  <2> DEFINE r == [callers[c] EXCEPT !.pc = "interval"]
  <2>1. /\ ~walk.on /\ callers[c].pc = "callback" /\ callers' = [callers EXCEPT ![c] = r]
        /\ slots' = [slots EXCEPT ![i] = [slots[i] EXCEPT !.callback = TRUE]]
        /\ UNCHANGED <<links, timer, count, clock, walk, proc, harm, due, wrapped>>
    BY <1>9, <1>10
  <2>2. r \in CallRecs /\ r.pc = "interval" /\ r.interval = callers[c].interval
    BY <1>0 DEF CallRecs
  <2>3. r.interval \in Intervals
    BY <1>0, <2>1, <2>2 DEF CallbacksOnTime
  <2>4. /\ slots' \in [Slots -> SlotRecs]
        /\ \A j \in Slots : /\ slots'[j].next_tick = slots[j].next_tick
                            /\ slots'[j].interval = slots[j].interval
                            /\ slots'[j].active => slots[j].active
    BY <1>0, <1>10, <2>1 DEF SlotRecs
  <2> HIDE DEF r
  <2> QED
    BY <1>3, <2>1, <2>2, <2>3, <2>4
<1>11. ASSUME i \in Slots,
              StoreSlot(c, "interval", "tick", [slots[i] EXCEPT !.interval = callers[c].interval])
       PROVE  TInv'
  <2> DEFINE r == [callers[c] EXCEPT !.pc = "tick"]
  <2>1. /\ ~walk.on /\ callers[c].pc = "interval" /\ callers' = [callers EXCEPT ![c] = r]
        /\ slots' = [slots EXCEPT ![i] = [slots[i] EXCEPT !.interval = callers[c].interval]]
        /\ UNCHANGED <<links, timer, count, clock, walk, proc, harm, due, wrapped>>
    BY <1>9, <1>11
  <2>2. r \in CallRecs /\ r.pc = "tick" /\ r.interval = callers[c].interval /\ r.slot = i
    BY <1>0 DEF CallRecs
  <2>3. callers[c].interval \in Intervals
    BY <1>0, <2>1 DEF CallbacksOnTime
  <2>4. /\ slots' \in [Slots -> SlotRecs] /\ slots'[i].interval = callers[c].interval
        /\ \A j \in Slots : /\ slots'[j].next_tick = slots[j].next_tick
                            /\ slots'[j].interval \in {slots[j].interval, callers[c].interval}
                            /\ slots'[j].active => slots[j].active
    BY <1>0, <1>11, <2>1, <2>3 DEF SlotRecs
  <2> HIDE DEF r
  <2>5. r.interval \in Intervals /\ r.slot \in Slots /\ slots'[r.slot].interval \in Intervals
    BY <1>11, <2>2, <2>3, <2>4
  <2>6. \A j \in Slots : /\ slots'[j].next_tick = slots[j].next_tick
                         /\ slots[j].interval \in Intervals => slots'[j].interval \in Intervals
                         /\ slots'[j].active => slots[j].active \/ slots[j].interval \in Intervals
    BY <2>3, <2>4
  <2> QED
    BY <1>3, <2>1, <2>2, <2>4, <2>5, <2>6
<1>12. ASSUME i \in Slots,
              Call(c, "tick", "next_tick",
                   [callers[c] EXCEPT !.until = Plus(clock.tick, callers[c].interval)]),
              Deadline(c, callers[c].interval)
       PROVE  TInv'
  <2> DEFINE e == Plus(clock.tick, callers[c].interval)
  <2> DEFINE r == [[callers[c] EXCEPT !.until = e] EXCEPT !.pc = "next_tick"]
  <2>1. /\ ~walk.on /\ callers[c].pc = "tick" /\ callers' = [callers EXCEPT ![c] = r]
        /\ UNCHANGED <<links, timer, count, clock, walk, proc, harm>>
    BY <1>6, <1>12
  <2>2. callers[c].interval \in Intervals /\ slots[i].interval \in Intervals
    BY <1>0, <2>1 DEF CallbacksOnTime
  <2>3. callers[c].interval \in 0..Modulus - 1
    <3>1. \A n \in Intervals : n \in 0..Modulus - 1
      BY TimersAssumption
    <3> QED
      BY <2>2, <3>1
  <2>4. /\ e \in Times /\ due' \in [Deadlines -> Nat] /\ wrapped' \in SUBSET Deadlines
        /\ \A x \in Deadlines \ {c} : due'[x] = due[x] /\ (x \in wrapped' <=> x \in wrapped)
        /\ c \notin wrapped' => Met(e, due'[c], clock.tick)
        /\ slots' = slots
    BY <1>4, <1>12, <2>3
  <2> HIDE DEF e
  <2>5. r \in CallRecs /\ r.pc = "next_tick" /\ r.until = e /\ r.slot = i /\ r.interval = callers[c].interval
    BY <1>0, <2>4 DEF CallRecs
  <2> HIDE DEF r
  <2>6. r.interval \in Intervals /\ r.slot \in Slots /\ slots[r.slot].interval \in Intervals
    BY <1>12, <2>2, <2>5
  <2>7. r.pc # "idle" /\ c \notin wrapped' => Met(r.until, due'[c], clock.tick)
    BY <2>4, <2>5
  <2> QED
    BY <1>5, <2>1, <2>4, <2>5, <2>6, <2>7
<1>13. ASSUME i \in Slots, StoreNextTick(c)
       PROVE  TInv'
  <2> DEFINE r == [callers[c] EXCEPT !.pc = "active"]
  <2> DEFINE w == IF c \in wrapped THEN (wrapped \ {c}) \cup {i} ELSE wrapped \ {i}
  <2>1. Call(c, "next_tick", "active", callers[c])
    BY <1>13 DEF StoreNextTick
  <2>2. /\ slots' = [slots EXCEPT ![i].next_tick = callers[c].until]
        /\ due' = [due EXCEPT ![i] = due[c], ![c] = 0] /\ wrapped' = w
    BY <1>13 DEF StoreNextTick
  <2>3. /\ ~walk.on /\ callers[c].pc = "next_tick" /\ callers' = [callers EXCEPT ![c] = r]
        /\ UNCHANGED <<links, timer, count, clock, walk, proc, harm>>
    BY <1>6, <2>1
  <2>4. r \in CallRecs /\ r.pc = "active" /\ r.slot = i
    BY <1>0 DEF CallRecs
  <2> HIDE DEF r
  <2>5. /\ slots' \in [Slots -> SlotRecs] /\ slots'[i].next_tick = callers[c].until
        /\ \A j \in Slots \ {i} : slots'[j] = slots[j]
        /\ \A j \in Slots : slots'[j].interval = slots[j].interval /\ (slots'[j].active <=> slots[j].active)
    BY <1>0, <1>2, <1>13, <2>2 DEF SlotRecs
  <2>6. i # c /\ i \in Deadlines /\ i \notin Timers /\ i # "proc" /\ c \notin Slots
    BY <1>13, Names
  <2>7. /\ due' \in [Deadlines -> Nat] /\ due'[i] = due[c]
        /\ \A x \in Deadlines \ {i, c} : due'[x] = due[x]
    BY <1>0, <2>2, <2>6
  <2>8. /\ wrapped' \in SUBSET Deadlines /\ (i \in wrapped' <=> c \in wrapped)
        /\ \A x \in Deadlines \ {i, c} : x \in wrapped' <=> x \in wrapped
    BY <1>0, <2>2, <2>6
  <2> HIDE DEF w
  <2>9. ASSUME NEW j \in Slots
        PROVE  /\ j \notin wrapped' => Met(slots'[j].next_tick, due'[j], clock'.tick)
               /\ slots'[j].active => slots'[j].interval \in Intervals
    <3>1. CASE j = i
      <4>1. c \notin wrapped => Met(callers[c].until, due[c], clock.tick)
        BY <1>0, <2>3 DEF CallbacksOnTime
      <4> QED
        BY <1>0, <2>3, <2>5, <2>7, <2>8, <3>1, <4>1 DEF CallbacksOnTime
    <3>2. CASE j # i
      <4>1. j \in Deadlines \ {i, c}
        BY <2>6, <3>2, Names
      <4> QED
        BY <1>0, <2>3, <2>5, <2>7, <2>8, <3>2, <4>1 DEF CallbacksOnTime
    <3> QED
      BY <3>1, <3>2
  <2>10. ASSUME NEW d \in Callers
         PROVE  /\ callers'[d].pc \in {"next_tick", "wait"} /\ d \notin wrapped' =>
                       Met(callers'[d].until, due'[d], clock'.tick)
                /\ callers'[d].pc \in {"callback", "interval", "tick", "next_tick"} =>
                       callers'[d].interval \in Intervals
                /\ callers'[d].pc \in {"tick", "next_tick", "active"} =>
                       callers'[d].slot \in Slots /\ slots'[callers'[d].slot].interval \in Intervals
    <3>1. CASE d = c
      <4>1. callers'[d] = r
        BY <1>0, <2>3, <3>1
      <4>2. slots[i].interval \in Intervals
        BY <1>0, <2>3 DEF CallbacksOnTime
      <4> QED
        BY <1>13, <2>4, <2>5, <4>1, <4>2
    <3>2. CASE d # c
      <4>1. callers'[d] = callers[d]
        BY <1>0, <2>3, <3>2
      <4>2. d \in Deadlines \ {i, c}
        BY <1>13, <3>2, Names
      <4>3. due'[d] = due[d] /\ (d \in wrapped' <=> d \in wrapped)
        BY <2>7, <2>8, <4>2
      <4>4. callers[d].pc \in {"tick", "next_tick", "active"} =>
                callers[d].slot \in Slots /\ slots[callers[d].slot].interval \in Intervals
        BY <1>0 DEF CallbacksOnTime
      <4> QED
        BY <1>0, <2>3, <2>5, <4>1, <4>3, <4>4 DEF CallbacksOnTime
    <3> QED
      BY <3>1, <3>2
  <2>11. CallbacksOnTime'
    BY <2>3, <2>9, <2>10 DEF CallbacksOnTime
  <2>12. \A t \in Timers \cup {"proc"} : due'[t] = due[t] /\ (t \in wrapped' <=> t \in wrapped)
    BY <1>0, <2>6, <2>7, <2>8, Names
  <2> QED
    BY <2>3, <2>4, <2>5, <2>7, <2>8, <2>11, <2>12, CallTypesKept
<1>14. ASSUME i \in Slots, StoreSlot(c, "active", "idle", [slots[i] EXCEPT !.active = TRUE])
       PROVE  TInv'
  <2>1. /\ ~walk.on /\ callers[c].pc = "active" /\ callers' = [callers EXCEPT ![c] = Quiet]
        /\ slots' = [slots EXCEPT ![i] = [slots[i] EXCEPT !.active = TRUE]]
        /\ UNCHANGED <<links, timer, count, clock, walk, proc, harm, due, wrapped>>
    BY <1>9, <1>14
  <2>2. slots[i].interval \in Intervals
    BY <1>0, <2>1 DEF CallbacksOnTime
  <2>3. /\ slots' \in [Slots -> SlotRecs]
        /\ \A j \in Slots : /\ slots'[j].next_tick = slots[j].next_tick
                            /\ slots'[j].interval = slots[j].interval
                            /\ slots'[j].active => slots[j].active \/ j = i
    BY <1>0, <1>14, <2>1 DEF SlotRecs
  <2> QED
    BY <1>1, <1>3, <2>1, <2>2, <2>3
<1>15. ASSUME i \in Slots, ClearCallback(c)
       PROVE  TInv'
  <2>1. StoreSlot(c, "clear", "idle", [slots[i] EXCEPT !.callback = FALSE])
    BY <1>15 DEF ClearCallback
  <2>2. /\ ~walk.on /\ callers' = [callers EXCEPT ![c] = Quiet]
        /\ slots' = [slots EXCEPT ![i] = [slots[i] EXCEPT !.callback = FALSE]]
        /\ UNCHANGED <<links, timer, count, clock, walk, proc, harm, due, wrapped>>
    BY <1>9, <2>1
  <2>3. /\ slots' \in [Slots -> SlotRecs]
        /\ \A j \in Slots : /\ slots'[j].next_tick = slots[j].next_tick
                            /\ slots'[j].interval = slots[j].interval
                            /\ slots'[j].active => slots[j].active
    BY <1>0, <1>15, <2>2 DEF SlotRecs
  <2> QED
    BY <1>1, <1>3, <2>2, <2>3
<1>16. ASSUME NEW ticks \in Waits, timer_wait(c, ticks)
       PROVE  TInv'
  <2> DEFINE e == Plus(clock.tick, ticks)
  <2> DEFINE r == [[Quiet EXCEPT !.until = e] EXCEPT !.pc = "wait"]
  <2>1. Call(c, "idle", "wait", [Quiet EXCEPT !.until = e]) /\ Deadline(c, ticks)
    BY <1>16 DEF timer_wait
  <2>2. /\ callers' = [callers EXCEPT ![c] = r]
        /\ ~walk.on /\ UNCHANGED <<links, timer, count, clock, walk, proc, harm>>
    BY <1>6, <2>1
  <2>3. ticks \in 0..Modulus - 1
    BY TimersAssumption
  <2>4. /\ e \in Times /\ due' \in [Deadlines -> Nat] /\ wrapped' \in SUBSET Deadlines
        /\ \A x \in Deadlines \ {c} : due'[x] = due[x] /\ (x \in wrapped' <=> x \in wrapped)
        /\ c \notin wrapped' => Met(e, due'[c], clock.tick)
        /\ slots' = slots
    BY <1>4, <2>1, <2>3
  <2> HIDE DEF e
  <2>5. r \in CallRecs /\ r.pc = "wait" /\ r.until = e
    BY <1>1, <2>4 DEF CallRecs
  <2> HIDE DEF r
  <2> QED
    BY <1>5, <2>2, <2>4, <2>5
<1>17. ASSUME WaitReturns(c)
       PROVE  TInv'
  <2>1. Call(c, "wait", "idle", Quiet) /\ due' = [due EXCEPT ![c] = 0] /\ wrapped' = wrapped \ {c}
        /\ slots' = slots
    BY <1>17 DEF WaitReturns
  <2>2. /\ callers' = [callers EXCEPT ![c] = Quiet]
        /\ ~walk.on /\ UNCHANGED <<links, timer, count, clock, walk, proc, harm>>
    BY <2>1 DEF Call
  <2>3. /\ due' \in [Deadlines -> Nat] /\ wrapped' \in SUBSET Deadlines
        /\ \A x \in Deadlines \ {c} : due'[x] = due[x] /\ (x \in wrapped' <=> x \in wrapped)
    BY <1>0, <2>1
  <2> QED
    BY <1>1, <1>5, <2>1, <2>2, <2>3
<1> HIDE DEF i
<1>18. ASSUME i \in Slots, RegisterSteps(c) PROVE TInv'
  BY <1>10, <1>11, <1>12, <1>13, <1>14, <1>18 DEF RegisterSteps, i
<1> QED
  BY <1>7, <1>8, <1>15, <1>16, <1>17, <1>18 DEF CallSteps, i

\* Init and every step.
LEMMA InitTInv == Init => TInv
<1> SUFFICES ASSUME Init PROVE TInv
  OBVIOUS
<1>1. /\ links = L!INIT_LIST_HEAD /\ timer = [t \in Timers |-> [active |-> FALSE, expires |-> 0]]
      /\ count = 0 /\ clock = [tick |-> 0, jiffies |-> 0] /\ slots = [i \in Slots |-> NoCallback]
      /\ walk = NoWalk /\ proc = Idle /\ callers = [c \in Callers |-> Quiet] /\ due = [x \in Deadlines |-> 0] /\ wrapped = {}
  BY DEF Init
<1>2. L!INIT_LIST_HEAD \in Links
  BY DEF L!INIT_LIST_HEAD, Links, Addrs
<1>3. 0 \in Times
  BY TimersAssumption DEF Times
<1>4. Mem \in MemStates
  BY <1>1, <1>2, <1>3 DEF Mem, MemStates, TimerRecs
<1>5. Idle \in Procs /\ Idle.pc = "idle" /\ ~Idle.mod
  BY TimersAssumption DEF Idle, Procs, PCs, Addrs, Nodes, Times
<1>6. NoWalk \in [on: BOOLEAN, pos: Addrs, tmp: Addrs]
  BY DEF NoWalk, Addrs, Nodes
<1>7. NoCallback \in SlotRecs /\ ~NoCallback.active /\ NoCallback.next_tick = 0
  BY <1>3 DEF NoCallback, SlotRecs
<1>8. clock \in [tick: Times, jiffies: Times] /\ clock.tick = 0 /\ clock.jiffies = 0
  BY <1>1, <1>3
<1>9. /\ slots \in [Slots -> SlotRecs]
      /\ \A i \in Slots : ~slots[i].active /\ slots[i].next_tick = 0
  BY <1>1, <1>7
<1>9a. Quiet \in CallRecs /\ Quiet.pc = "idle"
  BY <1>3 DEF Quiet, CallRecs
<1>9b. callers \in [Callers -> CallRecs] /\ \A c \in Callers : callers[c].pc = "idle"
  BY <1>1, <1>9a
<1>10. TypeOK
  BY <1>1, <1>4, <1>5, <1>6, <1>8, <1>9, <1>9b DEF TypeOK
<1>11. \A x \in Deadlines : due[x] = 0
  BY <1>1
<1>12. CallbacksOnTime
  BY <1>8, <1>9, <1>9b, <1>11, Names DEF CallbacksOnTime, Met
<1>13. \A t \in Timers : due[t] = 0
  BY <1>11, Names
<1> QED
  BY <1>1, <1>5, <1>10, <1>12, <1>13 DEF TInv, OnTime

\* Every step keeps the deadlines in step with the clock.
LEMMA StepTInv == TInv /\ [Next]_vars => TInv'
<1> SUFFICES ASSUME TInv, [Next]_vars PROVE TInv'
  OBVIOUS
<1>1. CASE timer_handler
  BY <1>1, TickKeeps
<1>2. CASE Skip \/ Return
  <2>0. walk \in [on: BOOLEAN, pos: Addrs, tmp: Addrs] /\ links \in Links
    BY StateTypes DEF TInv
  <2>1. walk' \in [on: BOOLEAN, pos: Addrs, tmp: Addrs]
    <3>1. CASE Skip
      <4>1. walk' = [walk EXCEPT !.pos = walk.tmp, !.tmp = L!NextOf(links, walk.tmp)]
        BY <3>1 DEF Skip, Advance
      <4>2. L!NextOf(links, walk.tmp) \in Addrs
        BY <2>0, ReadTypes
      <4> QED
        BY <2>0, <4>1, <4>2
    <3>2. CASE Return
      <4>1. timer_list \in Addrs
        BY Names DEF Addrs
      <4> QED
        BY <3>2, <4>1 DEF Return, NoWalk
    <3> QED
      BY <1>2, <3>1, <3>2
  <2>2. UNCHANGED <<links, timer, count, clock, slots, proc, callers, due, wrapped, harm>>
        /\ walk.on
    BY <1>2 DEF Skip, Return
  <2>3. TypeOK'
    BY <2>1, <2>2 DEF TInv, TypeOK, Mem
  <2>4. CallbacksOnTime'
    BY <2>2, CallbacksKept DEF TInv, OnTime
  <2> QED
    BY <2>2, <2>3, <2>4 DEF TInv, OnTime
<1>3. CASE Expire
  BY <1>3, ExpireKeeps
<1>4. CASE UNCHANGED vars \/ Preempted
  <2>1. UNCHANGED <<links, timer, count, clock, slots, walk, proc, callers, due, wrapped>>
    BY <1>4 DEF vars, Preempted
  <2>2. CallbacksOnTime'
    BY <2>1, CallbacksKept DEF TInv, OnTime
  <2> QED
    BY <2>1, <2>2 DEF TInv, TypeOK, OnTime, Mem
<1>5. CASE Process
  BY <1>5, BeginKeeps, DelKeeps, ArmKeeps, AddKeeps DEF Process
<1>6. ASSUME NEW c \in Callers, CallSteps(c) PROVE TInv'
  BY <1>6, CallbackKeeps
<1> QED
  BY <1>1, <1>2, <1>3, <1>4, <1>5, <1>6 DEF Next, Handler, Damaged

\* The deadlines are in step with the clock in every state.
LEMMA TimersInvariant == Spec => []TInv
BY InitTInv, StepTInv, PTL DEF Spec

(***************************************************************************)
(* timer_handler, timer_register_callback and timer_wait keep their        *)
(* deadlines, whatever ticks, other processes and the timers' functions do *)
(* between two stores: an active callback is due exactly its remaining     *)
(* ticks from now, the handler passes over none that is due, however late  *)
(* it was registered, and timer_wait does not return early, unless the     *)
(* deadline or the tick wrapped.                                           *)
(***************************************************************************)
THEOREM TimersDeadlinesKept == Spec => []DeadlinesKept
<1>1. TInv => DeadlinesKept
  <2> SUFFICES ASSUME TInv PROVE DeadlinesKept
    OBVIOUS
  <2>0. CallbacksOnTime /\ due \in [Deadlines -> Nat] /\ clock.tick \in Int
        /\ callers \in [Callers -> CallRecs]
    BY StateTypes DEF TInv, OnTime, Times, TypeOK
  <2>1. ASSUME NEW i \in Slots \ wrapped, slots[i].active
        PROVE  /\ due[i] > 0 => slots[i].next_tick = clock.tick + due[i]
               /\ walk.on => due[i] > 0
    BY <2>0, <2>1 DEF CallbacksOnTime, Met
  <2>2. ASSUME NEW c \in Callers \ wrapped, callers[c].pc = "wait", WaitOver(c) PROVE due[c] = 0
    <3>1. Met(callers[c].until, due[c], clock.tick)
      BY <2>0, <2>2 DEF CallbacksOnTime
    <3>2. due[c] \in Nat
      BY <2>0, Names
    <3>3. callers[c].until \in Int
      BY <2>0 DEF CallRecs, Times
    <3> QED
      BY <2>0, <2>2, <3>1, <3>2, <3>3 DEF WaitOver, Met
  <2> QED
    BY <2>1, <2>2 DEF DeadlinesKept
<1> QED
  BY <1>1, TimersInvariant, PTL

-----------------------------------------------------------------------------
(***************************************************************************)
(* The list of timers.                                                     *)
(***************************************************************************)
\* A ring of nodes: the list head is r[0], the timers r[1] to r[n] follow.
IsRing(n, r) ==
    /\ n \in Nat /\ r \in [0..n -> Nodes] /\ r[0] = timer_list
    /\ \A i, j \in 0..n : r[i] = r[j] => i = j

After(n, r, i) == IF i = n THEN timer_list ELSE r[i + 1]
NextRing(f, n, r) == \A i \in 0..n : f[r[i]] = After(n, r, i)
PrevRing(f, n, r) == \A i \in 0..n : f[After(n, r, i)] = r[i]
Members(n, r) == {r[i] : i \in 1..n}

\* Where the call in progress has taken its timer out, is linking it in.
Unlinked == {"null_next", "null_prev", "inactive"}
Linking == {"new_next", "new_prev", "add_next"}

\* prev follows the ring, but for the store that is still to come.
PrevPart(n, r) ==
    /\ proc.pc \notin Linking \cup {"del_bypass"} => PrevRing(links.prev, n, r)
    /\ proc.pc = "del_bypass" =>
          /\ \A i \in 0..n : r[i] # proc.t => links.prev[After(n, r, i)] = r[i]
          /\ links.prev[proc.after] = proc.before
    /\ proc.pc \in Linking =>
          /\ \A i \in 0..n - 1 : links.prev[r[i + 1]] = r[i]
          /\ links.prev[timer_list] = proc.t

\* The ring holds the active timers, but for the one a call is changing.
MemberPart(n, r) ==
    /\ \A t \in Timers : t # proc.t \/ proc.pc \notin Unlinked \cup {"active"} =>
          (timer[t].active <=> t \in Members(n, r))
    /\ proc.pc \in Unlinked => proc.t \notin Members(n, r)
    /\ proc.pc \in {"del_next", "del_prev", "del_bypass", "active"} => proc.t \in Members(n, r)
    /\ proc.pc \in {"add_load", "add_prev"} \cup Linking => proc.t \notin Members(n, r)

\* What the call in progress has read and stored.
CallPart(n, r) ==
    /\ proc.pc = "idle" => proc.t = NULL
    /\ proc.pc \in {"del_next", "del_prev", "del_bypass"} => proc.after = links.next[proc.t]
    /\ proc.pc \in {"del_prev", "del_bypass"} => proc.before = links.prev[proc.t]
    /\ proc.pc \in {"add_prev"} \cup Linking => proc.before = r[n]
    /\ proc.pc \in {"new_prev", "add_next"} => links.next[proc.t] = timer_list
    /\ proc.pc = "add_next" => links.prev[proc.t] = proc.before

\* active_timer_count, but for the increment or decrement to come.
CountPart(n) ==
    /\ count = CASE proc.pc \in Unlinked \cup {"dec_load", "dec"} -> n + 1
                 [] proc.pc \in {"active", "inc_load", "inc"} -> n - 1
                 [] OTHER -> n
    /\ proc.pc \in {"dec", "inc"} => proc.count = count

\* The timers the walk, now at r[k], has passed are not due.
Late(s, t) == t \in s.wrapped \/ t = proc.t \/ s.timer[t].expires > clock.jiffies
Passed(s, n, r, k) == \A i \in 1..n : k = 0 \/ i < k => Late(s, r[i])

WalkPart(n, r) ==
    /\ ~walk.on => walk.pos = timer_list
    /\ walk.on => \E k \in 0..n : walk.pos = r[k] /\ walk.tmp = After(n, r, k) /\ Passed(Mem, n, r, k)

RingInv(n, r) ==
    /\ IsRing(n, r) /\ NextRing(links.next, n, r) /\ PrevPart(n, r)
    /\ MemberPart(n, r) /\ CallPart(n, r) /\ CountPart(n) /\ WalkPart(n, r)

ListInv == harm = {} => \E n \in Nat : \E r \in [0..n -> Nodes] : RingInv(n, r)

Drop(n, r, k) == [i \in 0..n - 1 |-> IF i < k THEN r[i] ELSE r[i + 1]]
Push(n, r, t) == [i \in 0..n + 1 |-> IF i = n + 1 THEN t ELSE r[i]]

\* The neighbours on a ring are nodes of it.
LEMMA RingFacts ==
    ASSUME NEW n, NEW r, IsRing(n, r)
    PROVE  /\ n \in Nat /\ r \in [0..n -> Nodes] /\ r[0] = timer_list /\ DOMAIN r = 0..n
           /\ \A i \in 0..n : r[i] \in Nodes /\ After(n, r, i) \in Nodes
           /\ \A i \in 1..n : r[i] \in Timers
           /\ \A i, j \in 0..n : r[i] = r[j] => i = j
           /\ \A i, j \in 0..n : After(n, r, i) = After(n, r, j) => i = j
           /\ \A t \in Members(n, r) : t \in Timers /\ \E k \in 1..n : r[k] = t
           /\ \A k \in 1..n : r[k] \in Members(n, r)
<1>1. n \in Nat /\ r \in [0..n -> Nodes] /\ r[0] = timer_list
      /\ \A i, j \in 0..n : r[i] = r[j] => i = j
  BY DEF IsRing
<1>2. \A i \in 1..n : i \in 0..n /\ r[i] \in Nodes /\ r[i] # timer_list
  BY <1>1
<1>3. \A i \in 1..n : r[i] \in Timers
  BY <1>2 DEF Nodes
<1>4. \A i \in 0..n : After(n, r, i) \in Nodes
  BY <1>1, <1>2, Names DEF After
<1>5. ASSUME NEW i \in 0..n, NEW j \in 0..n, After(n, r, i) = After(n, r, j)
      PROVE  i = j
  <2>1. i # n => i + 1 \in 1..n /\ After(n, r, i) = r[i + 1]
    BY <1>1 DEF After
  <2>2. j # n => j + 1 \in 1..n /\ After(n, r, j) = r[j + 1]
    BY <1>1 DEF After
  <2>3. CASE i = n \/ j = n
    BY <1>2, <1>5, <2>1, <2>2, <2>3 DEF After
  <2>4. CASE i # n /\ j # n
    <3>1. i + 1 = j + 1
      BY <1>1, <1>2, <1>5, <2>1, <2>2, <2>4
    <3> QED
      BY <3>1, <1>1
  <2> QED
    BY <2>3, <2>4
<1> QED
  BY <1>1, <1>2, <1>3, <1>4, <1>5 DEF Members

\* A ring without its k-th node, and its links.
LEMMA DropRing ==
    ASSUME NEW n, NEW r, IsRing(n, r), NEW k \in 1..n
    PROVE  /\ n - 1 \in Nat /\ Drop(n, r, k) \in [0..n - 1 -> Nodes]
           /\ IsRing(n - 1, Drop(n, r, k))
           /\ Members(n - 1, Drop(n, r, k)) = Members(n, r) \ {r[k]}
           /\ \A i \in 0..n - 1 : /\ i < k => Drop(n, r, k)[i] = r[i]
                                  /\ i >= k => Drop(n, r, k)[i] = r[i + 1]
           /\ \A i \in 0..n - 1 : After(n - 1, Drop(n, r, k), i) =
                 IF i = k - 1 THEN After(n, r, k)
                 ELSE IF i < k THEN After(n, r, i) ELSE After(n, r, i + 1)
<1> DEFINE q == Drop(n, r, k)
<1>1. n \in Nat /\ n - 1 \in Nat /\ k \in Int /\ 1 <= k /\ k <= n /\ r \in [0..n -> Nodes] /\ r[0] = timer_list
      /\ \A i, j \in 0..n : r[i] = r[j] => i = j
  BY DEF IsRing
<1>2. \A i \in 0..n - 1 : i \in 0..n /\ i + 1 \in 0..n /\ q[i] = IF i < k THEN r[i] ELSE r[i + 1]
  BY <1>1 DEF Drop
<1>3. q \in [0..n - 1 -> Nodes]
  BY <1>1 DEF Drop
<1> HIDE DEF q
<1>4. IsRing(n - 1, q)
  <2>1. q[0] = timer_list
    BY <1>1, <1>2
  <2>2. ASSUME NEW i \in 0..n - 1, NEW j \in 0..n - 1, q[i] = q[j] PROVE i = j
    <3> DEFINE a == IF i < k THEN i ELSE i + 1
    <3> DEFINE b == IF j < k THEN j ELSE j + 1
    <3>1. a \in 0..n /\ b \in 0..n /\ q[i] = r[a] /\ q[j] = r[b]
      BY <1>1, <1>2
    <3>2. a = b
      BY <1>1, <2>2, <3>1
    <3> QED
      BY <1>1, <3>2
  <2> QED
    BY <1>1, <1>3, <2>1, <2>2 DEF IsRing
<1>5. Members(n - 1, q) = Members(n, r) \ {r[k]}
  <2>1. ASSUME NEW i \in 1..n - 1 PROVE q[i] \in Members(n, r) /\ q[i] # r[k]
    <3> DEFINE a == IF i < k THEN i ELSE i + 1
    <3>1. a \in 1..n /\ a # k /\ a \in 0..n /\ k \in 0..n
      BY <1>1
    <3>2. q[i] = r[a]
      BY <1>1, <1>2
    <3> HIDE DEF a
    <3> QED
      BY <1>1, <3>1, <3>2 DEF Members
  <2>2. ASSUME NEW i \in 1..n, r[i] # r[k] PROVE r[i] \in Members(n - 1, q)
    <3> DEFINE a == IF i < k THEN i ELSE i - 1
    <3>1. a \in 1..n - 1 /\ a \in 0..n - 1 /\ (a < k => i = a) /\ (~(a < k) => i = a + 1)
      BY <1>1, <2>2
    <3>2. q[a] = r[i]
      BY <1>2, <3>1
    <3> HIDE DEF a
    <3> QED
      BY <3>1, <3>2 DEF Members
  <2> QED
    BY <2>1, <2>2 DEF Members
<1>6. ASSUME NEW i \in 0..n - 1
      PROVE  After(n - 1, q, i) =
                 IF i = k - 1 THEN After(n, r, k)
                 ELSE IF i < k THEN After(n, r, i) ELSE After(n, r, i + 1)
  <2>1. i # n - 1 => i + 1 \in 0..n - 1
    BY <1>1
  <2>2. i # n - 1 => q[i + 1] = IF i + 1 < k THEN r[i + 1] ELSE r[i + 1 + 1]
    BY <1>2, <2>1
  <2> QED
    BY <1>1, <2>1, <2>2 DEF After
<1> QED
  BY <1>1, <1>2, <1>3, <1>4, <1>5, <1>6 DEF q

\* A ring with one more node at its end, and its links.
LEMMA PushRing ==
    ASSUME NEW n, NEW r, IsRing(n, r), NEW t \in Timers, t \notin Members(n, r)
    PROVE  /\ n + 1 \in Nat /\ Push(n, r, t) \in [0..n + 1 -> Nodes]
           /\ IsRing(n + 1, Push(n, r, t))
           /\ Members(n + 1, Push(n, r, t)) = Members(n, r) \cup {t}
           /\ \A i \in 0..n : Push(n, r, t)[i] = r[i]
           /\ Push(n, r, t)[n + 1] = t
           /\ \A i \in 0..n - 1 : After(n + 1, Push(n, r, t), i) = After(n, r, i)
           /\ After(n + 1, Push(n, r, t), n) = t
           /\ After(n + 1, Push(n, r, t), n + 1) = timer_list
<1> DEFINE q == Push(n, r, t)
<1>1. n \in Nat /\ n + 1 \in Nat /\ r \in [0..n -> Nodes] /\ r[0] = timer_list
      /\ \A i, j \in 0..n : r[i] = r[j] => i = j
  BY DEF IsRing
<1>2. (\A i \in 0..n : q[i] = r[i]) /\ q[n + 1] = t
  BY <1>1 DEF Push
<1>3. q \in [0..n + 1 -> Nodes]
  BY <1>1, Names DEF Push
<1>4. \A i \in 0..n : r[i] # t
  <2>1. r[0] # t
    BY <1>1, Names
  <2>2. \A i \in 1..n : r[i] # t
    BY DEF Members
  <2> QED
    BY <1>1, <2>1, <2>2
<1> HIDE DEF q
<1>5. IsRing(n + 1, q)
  <2>1. ASSUME NEW i \in 0..n + 1, NEW j \in 0..n + 1, q[i] = q[j] PROVE i = j
    <3>1. (i = n + 1 \/ i \in 0..n) /\ (j = n + 1 \/ j \in 0..n)
      BY <1>1
    <3> QED
      BY <1>1, <1>2, <1>4, <2>1, <3>1
  <2>2. q[0] = timer_list
    BY <1>1, <1>2
  <2> QED
    BY <1>1, <1>3, <2>1, <2>2 DEF IsRing
<1>6. Members(n + 1, q) = Members(n, r) \cup {t}
  <2>1. \A i \in 1..n + 1 : q[i] \in Members(n, r) \cup {t}
    <3> TAKE i \in 1..n + 1
    <3>1. i = n + 1 \/ (i \in 1..n /\ i \in 0..n)
      BY <1>1
    <3> QED
      BY <1>2, <3>1 DEF Members
  <2>2. \A i \in 1..n : i \in 1..n + 1 /\ q[i] = r[i]
    BY <1>1, <1>2
  <2>3. n + 1 \in 1..n + 1
    BY <1>1
  <2> QED
    BY <1>2, <2>1, <2>2, <2>3 DEF Members
<1>7. \A i \in 0..n - 1 : After(n + 1, q, i) = After(n, r, i)
  <2> TAKE i \in 0..n - 1
  <2>1. i # n + 1 /\ i # n /\ i + 1 \in 0..n
    BY <1>1
  <2> QED
    BY <1>2, <2>1 DEF After
<1>8. After(n + 1, q, n) = t /\ After(n + 1, q, n + 1) = timer_list
  BY <1>1, <1>2 DEF After
<1> QED
  BY <1>1, <1>2, <1>3, <1>5, <1>6, <1>7, <1>8 DEF q

\* Links of the ring without r[k], from links that bypass it.
LEMMA DropLinks ==
    ASSUME NEW n, NEW r, IsRing(n, r), NEW k \in 1..n, NEW f, NEW p
    PROVE  /\ /\ f[r[k - 1]] = After(n, r, k)
              /\ \A i \in 0..n \ {k - 1, k} : f[r[i]] = After(n, r, i)
              => NextRing(f, n - 1, Drop(n, r, k))
           /\ /\ p[After(n, r, k)] = r[k - 1]
              /\ \A i \in 0..n \ {k - 1, k} : p[After(n, r, i)] = r[i]
              => PrevRing(p, n - 1, Drop(n, r, k))
<1> DEFINE q == Drop(n, r, k)
<1>1. n \in Nat /\ n - 1 \in Nat /\ k \in Int /\ 1 <= k /\ k <= n /\ k - 1 \in 0..n
  BY RingFacts
<1>2. ASSUME NEW i \in 0..n - 1
      PROVE  \/ i = k - 1 /\ q[i] = r[k - 1] /\ After(n - 1, q, i) = After(n, r, k)
             \/ i \in 0..n \ {k - 1, k} /\ q[i] = r[i] /\ After(n - 1, q, i) = After(n, r, i)
             \/ i + 1 \in 0..n \ {k - 1, k} /\ q[i] = r[i + 1] /\ After(n - 1, q, i) = After(n, r, i + 1)
  <2>1. /\ i < k => q[i] = r[i]
        /\ i >= k => q[i] = r[i + 1]
        /\ After(n - 1, q, i) =
                 IF i = k - 1 THEN After(n, r, k)
                 ELSE IF i < k THEN After(n, r, i) ELSE After(n, r, i + 1)
    BY DropRing
  <2> HIDE DEF q
  <2>2. CASE i = k - 1
    BY <1>1, <2>1, <2>2
  <2>3. CASE i < k /\ i # k - 1
    BY <1>1, <2>1, <2>3
  <2>4. CASE i >= k
    BY <1>1, <2>1, <2>4
  <2> QED
    BY <1>1, <2>2, <2>3, <2>4
<1> HIDE DEF q
<1>3. ASSUME f[r[k - 1]] = After(n, r, k),
             \A i \in 0..n \ {k - 1, k} : f[r[i]] = After(n, r, i)
      PROVE  NextRing(f, n - 1, q)
  BY <1>2, <1>3 DEF NextRing
<1>4. ASSUME p[After(n, r, k)] = r[k - 1],
             \A i \in 0..n \ {k - 1, k} : p[After(n, r, i)] = r[i]
      PROVE  PrevRing(p, n - 1, q)
  BY <1>2, <1>4 DEF PrevRing
<1> QED
  BY <1>3, <1>4 DEF q

\* Links of the ring with t at its end.
LEMMA PushLinks ==
    ASSUME NEW n, NEW r, IsRing(n, r), NEW t \in Timers, t \notin Members(n, r), NEW f, NEW p
    PROVE  /\ /\ f[r[n]] = t /\ f[t] = timer_list
              /\ \A i \in 0..n - 1 : f[r[i]] = After(n, r, i)
              => NextRing(f, n + 1, Push(n, r, t))
           /\ /\ p[timer_list] = t /\ p[t] = r[n]
              /\ \A i \in 0..n - 1 : p[After(n, r, i)] = r[i]
              => PrevRing(p, n + 1, Push(n, r, t))
<1> DEFINE q == Push(n, r, t)
<1>1. n \in Nat
  BY RingFacts
<1>2. /\ \A i \in 0..n : q[i] = r[i]
      /\ q[n + 1] = t
      /\ \A i \in 0..n - 1 : After(n + 1, q, i) = After(n, r, i)
      /\ After(n + 1, q, n) = t
      /\ After(n + 1, q, n + 1) = timer_list
  BY PushRing
<1>3. \A i \in 0..n + 1 : i = n + 1 \/ i = n \/ (i \in 0..n - 1 /\ i \in 0..n)
  BY <1>1
<1>4. n \in 0..n
  BY <1>1
<1> HIDE DEF q
<1>5. ASSUME f[r[n]] = t, f[t] = timer_list, \A i \in 0..n - 1 : f[r[i]] = After(n, r, i)
      PROVE  NextRing(f, n + 1, q)
  BY <1>2, <1>3, <1>4, <1>5 DEF NextRing
<1>6. ASSUME p[timer_list] = t, p[t] = r[n], \A i \in 0..n - 1 : p[After(n, r, i)] = r[i]
      PROVE  PrevRing(p, n + 1, q)
  BY <1>2, <1>3, <1>4, <1>6 DEF PrevRing
<1> QED
  BY <1>5, <1>6 DEF q

\* One store to a link.
LEMMA LinkStores ==
    ASSUME NEW m \in Links, NEW x, NEW to
    PROVE  /\ L!SetNext(m, x, to).prev = m.prev /\ L!SetPrev(m, x, to).next = m.next
           /\ \A y \in Nodes : /\ L!SetNext(m, x, to).next[y] = IF y = x THEN to ELSE m.next[y]
                               /\ L!SetPrev(m, x, to).prev[y] = IF y = x THEN to ELSE m.prev[y]
BY DEF L!SetNext, L!SetPrev, Links

\* list_del and list_add_tail on a ring, whole, as the interrupt runs them.
LEMMA DelLinks ==
    ASSUME NEW m \in Links, NEW n, NEW r, IsRing(n, r),
           NextRing(m.next, n, r), PrevRing(m.prev, n, r), NEW k \in 1..n
    PROVE  LET d == L!list_del(m, r[k])
           IN  /\ NextRing(d.next, n - 1, Drop(n, r, k)) /\ PrevRing(d.prev, n - 1, Drop(n, r, k))
               /\ d.next[r[k]] = NULL
<1> DEFINE t == r[k]
<1> DEFINE b == r[k - 1]
<1> DEFINE a == After(n, r, k)
<1> DEFINE m1 == L!SetPrev(m, a, b)
<1> DEFINE m2 == L!SetNext(m1, b, a)
<1> DEFINE m3 == L!SetNext(m2, t, NULL)
<1> DEFINE m4 == L!SetPrev(m3, t, NULL)
<1>1. /\ n \in Nat /\ k \in 0..n /\ k - 1 \in 0..n /\ k # k - 1
      /\ \A i \in 0..n : r[i] \in Nodes /\ After(n, r, i) \in Nodes
      /\ \A i, j \in 0..n : r[i] = r[j] => i = j
      /\ \A i, j \in 0..n : After(n, r, i) = After(n, r, j) => i = j
  BY RingFacts
<1>2. After(n, r, k - 1) = t
  BY <1>1 DEF After
<1>3. L!NextOf(m, t) = a /\ L!PrevOf(m, t) = b
  BY <1>1, <1>2 DEF L!NextOf, L!PrevOf, NextRing, PrevRing
<1>4. L!list_del(m, t) = m4
  BY <1>3 DEF L!list_del, L!Bypass
<1>5. t \in Addrs /\ a \in Addrs /\ b \in Addrs /\ NULL \in Addrs /\ t \in Nodes /\ a \in Nodes /\ b \in Nodes
  BY <1>1 DEF Addrs
<1>6. a # t
  BY <1>1, <1>2
<1>7. b # t
  BY <1>1
<1>20. \A i \in 0..n \ {k - 1, k} : r[i] # b /\ r[i] # t /\ After(n, r, i) # a /\ After(n, r, i) # t
  BY <1>1, <1>2
<1>21. \A i \in 0..n : m.next[r[i]] = After(n, r, i) /\ m.prev[After(n, r, i)] = r[i]
  BY DEF NextRing, PrevRing
<1> HIDE DEF t, a, b
<1>8. m1 \in Links
  BY <1>5, LinkTypes
<1>9. m1.next = m.next /\ \A y \in Nodes : m1.prev[y] = IF y = a THEN b ELSE m.prev[y]
  BY <1>5, LinkStores
<1> HIDE DEF m1
<1>10. m2 \in Links
  BY <1>5, <1>8, LinkTypes
<1>11. m2.prev = m1.prev /\ \A y \in Nodes : m2.next[y] = IF y = b THEN a ELSE m1.next[y]
  BY <1>8, LinkStores
<1> HIDE DEF m2
<1>12. m3 \in Links
  BY <1>5, <1>10, LinkTypes
<1>13. m3.prev = m2.prev /\ \A y \in Nodes : m3.next[y] = IF y = t THEN NULL ELSE m2.next[y]
  BY <1>10, LinkStores
<1> HIDE DEF m3
<1>14. m4.next = m3.next /\ \A y \in Nodes : m4.prev[y] = IF y = t THEN NULL ELSE m3.prev[y]
  BY <1>12, LinkStores
<1> HIDE DEF m4
<1>15. m4.next[b] = a /\ m4.prev[a] = b /\ m4.next[t] = NULL
  BY <1>5, <1>6, <1>7, <1>9, <1>11, <1>13, <1>14
<1>16. \A i \in 0..n \ {k - 1, k} : m4.next[r[i]] = After(n, r, i) /\ m4.prev[After(n, r, i)] = r[i]
  BY <1>1, <1>9, <1>11, <1>13, <1>14, <1>20, <1>21
<1>17. NextRing(m4.next, n - 1, Drop(n, r, k)) /\ PrevRing(m4.prev, n - 1, Drop(n, r, k))
  BY <1>15, <1>16, DropLinks DEF a, b
<1> QED
  BY <1>4, <1>15, <1>17 DEF t

\* list_add_tail makes the ring one node longer at its end.
LEMMA AddLinks ==
    ASSUME NEW m \in Links, NEW n, NEW r, IsRing(n, r),
           NextRing(m.next, n, r), PrevRing(m.prev, n, r), NEW t \in Timers, t \notin Members(n, r)
    PROVE  LET d == L!list_add_tail(m, t, timer_list)
           IN  NextRing(d.next, n + 1, Push(n, r, t)) /\ PrevRing(d.prev, n + 1, Push(n, r, t))
<1> DEFINE b == r[n]
<1> DEFINE m1 == L!SetPrev(m, timer_list, t)
<1> DEFINE m2 == L!SetNext(m1, t, timer_list)
<1> DEFINE m3 == L!SetPrev(m2, t, b)
<1> DEFINE m4 == L!SetNext(m3, b, t)
<1>1. /\ n \in Nat /\ n \in 0..n /\ r[0] = timer_list
      /\ \A i \in 0..n : r[i] \in Nodes /\ After(n, r, i) \in Nodes
      /\ \A i, j \in 0..n : r[i] = r[j] => i = j
      /\ \A i, j \in 0..n : After(n, r, i) = After(n, r, j) => i = j
  BY RingFacts
<1>2. After(n, r, n) = timer_list
  BY <1>1 DEF After
<1>3. L!PrevOf(m, timer_list) = b
  BY <1>1, <1>2, Names DEF L!PrevOf, PrevRing
<1>4. L!list_add_tail(m, t, timer_list) = m4
  BY <1>3 DEF L!list_add_tail, L!AddBetween
<1>5. /\ t \in Addrs /\ timer_list \in Addrs /\ b \in Addrs
      /\ t \in Nodes /\ timer_list \in Nodes /\ b \in Nodes /\ t # timer_list
  BY <1>1, Names DEF Addrs
<1>6. \A i \in 0..n : r[i] # t
  <2>1. \A i \in 1..n : r[i] # t
    BY DEF Members
  <2> QED
    BY <1>1, <1>5, <2>1
<1>7. \A i \in 0..n - 1 : i \in 0..n /\ r[i] # b /\ r[i] # t /\ After(n, r, i) # timer_list /\ After(n, r, i) # t
  <2> TAKE i \in 0..n - 1
  <2>1. i \in 0..n /\ i + 1 \in 0..n /\ i # n
    BY <1>1
  <2>2. After(n, r, i) = r[i + 1]
    BY <2>1 DEF After
  <2> QED
    BY <1>1, <1>2, <1>6, <2>1, <2>2
<1>8. \A i \in 0..n : m.next[r[i]] = After(n, r, i) /\ m.prev[After(n, r, i)] = r[i]
  BY DEF NextRing, PrevRing
<1>9. b # t
  BY <1>1, <1>6
<1> HIDE DEF b
<1>10. m1 \in Links
  BY <1>5, LinkTypes
<1>11. m1.next = m.next /\ \A y \in Nodes : m1.prev[y] = IF y = timer_list THEN t ELSE m.prev[y]
  BY <1>5, LinkStores
<1> HIDE DEF m1
<1>12. m2 \in Links
  BY <1>5, <1>10, LinkTypes
<1>13. m2.prev = m1.prev /\ \A y \in Nodes : m2.next[y] = IF y = t THEN timer_list ELSE m1.next[y]
  BY <1>10, LinkStores
<1> HIDE DEF m2
<1>14. m3 \in Links
  BY <1>5, <1>12, LinkTypes
<1>15. m3.next = m2.next /\ \A y \in Nodes : m3.prev[y] = IF y = t THEN b ELSE m2.prev[y]
  BY <1>12, LinkStores
<1> HIDE DEF m3
<1>16. m4.prev = m3.prev /\ \A y \in Nodes : m4.next[y] = IF y = b THEN t ELSE m3.next[y]
  BY <1>14, LinkStores
<1> HIDE DEF m4
<1>17. m4.next[b] = t /\ m4.next[t] = timer_list /\ m4.prev[timer_list] = t /\ m4.prev[t] = b
  BY <1>5, <1>9, <1>11, <1>13, <1>15, <1>16
<1>18. \A i \in 0..n - 1 : m4.next[r[i]] = After(n, r, i) /\ m4.prev[After(n, r, i)] = r[i]
  BY <1>1, <1>7, <1>8, <1>11, <1>13, <1>15, <1>16
<1>19. NextRing(m4.next, n + 1, Push(n, r, t)) /\ PrevRing(m4.prev, n + 1, Push(n, r, t))
  BY <1>17, <1>18, PushLinks DEF b
<1> QED
  BY <1>4, <1>19

\* A state of the interrupt whose links spell the ring r of its active timers.
GoodRing(s, n, r) ==
    /\ IsRing(n, r) /\ NextRing(s.links.next, n, r) /\ PrevRing(s.links.prev, n, r)
    /\ s.count = n
    /\ \A t \in Timers : s.timer[t].active <=> t \in Members(n, r)

\* del_timer on a sound list leaves a sound list, one node shorter.
LEMMA UnlinkGood ==
    ASSUME NEW s \in MemStates, NEW n, NEW r, GoodRing(s, n, r), NEW k \in 1..n
    PROVE  GoodRing(Unlink(s, r[k]), n - 1, Drop(n, r, k))
<1> DEFINE u == Unlink(s, r[k])
<1> DEFINE q == Drop(n, r, k)
<1>1. IsRing(n, r) /\ NextRing(s.links.next, n, r) /\ PrevRing(s.links.prev, n, r) /\ s.count = n
      /\ s.links \in Links
  BY DEF GoodRing, MemStates
<1>2. r[k] \in Timers /\ n \in Nat /\ \A x \in Members(n, r) : x \in Timers
  BY <1>1, RingFacts
<1>3. /\ u.links = L!list_del(s.links, r[k]) /\ ~u.timer[r[k]].active
      /\ \A t \in Timers \ {r[k]} : u.timer[t] = s.timer[t]
      /\ u.count = s.count - 1
  BY <1>2, UnlinkFields
<1>4. IsRing(n - 1, q) /\ Members(n - 1, q) = Members(n, r) \ {r[k]}
  BY <1>1, DropRing
<1>5. NextRing(u.links.next, n - 1, q) /\ PrevRing(u.links.prev, n - 1, q)
  BY <1>1, <1>3, DelLinks
<1> HIDE DEF u, q
<1>6. \A t \in Timers : u.timer[t].active <=> t \in Members(n - 1, q)
  BY <1>3, <1>4 DEF GoodRing
<1>7. u.count = n - 1
  BY <1>1, <1>3
<1> QED
  BY <1>4, <1>5, <1>6, <1>7 DEF GoodRing, u, q

\* add_timer on a sound list leaves a sound list, one node longer.
LEMMA AddGood ==
    ASSUME NEW s \in MemStates, NEW n, NEW r, GoodRing(s, n, r), NEW t \in Timers, ~s.timer[t].active
    PROVE  /\ GoodRing(Add(s, t), n + 1, Push(n, r, t))
           /\ t \notin Members(n, r)
<1> DEFINE u == Add(s, t)
<1> DEFINE q == Push(n, r, t)
<1>1. IsRing(n, r) /\ NextRing(s.links.next, n, r) /\ PrevRing(s.links.prev, n, r) /\ s.count = n
      /\ s.links \in Links /\ t \notin Members(n, r)
  BY DEF GoodRing, MemStates
<1>2. /\ u.links = L!list_add_tail(s.links, t, timer_list) /\ u.timer[t].active
      /\ \A v \in Timers \ {t} : u.timer[v] = s.timer[v]
      /\ u.count = s.count + 1
  BY AddFields
<1>3. IsRing(n + 1, q) /\ Members(n + 1, q) = Members(n, r) \cup {t}
  BY <1>1, PushRing
<1>4. NextRing(u.links.next, n + 1, q) /\ PrevRing(u.links.prev, n + 1, q)
  BY <1>1, <1>2, AddLinks
<1> HIDE DEF u, q
<1>5. \A v \in Timers : u.timer[v].active <=> v \in Members(n + 1, q)
  BY <1>2, <1>3 DEF GoodRing
<1>6. u.count = n + 1
  BY <1>1, <1>2
<1> QED
  BY <1>1, <1>3, <1>4, <1>5, <1>6 DEF GoodRing, u, q

\* Setting an expiry leaves the list, and no timer becomes due by it.
LEMMA ArmGood ==
    ASSUME NEW s \in MemStates, NEW n, NEW r, GoodRing(s, n, r), NEW t \in Timers, NEW d \in Delays,
           clock.jiffies \in Times
    PROVE  /\ GoodRing(Arm(s, t, d), n, r)
           /\ Late(Arm(s, t, d), t)
           /\ \A v \in Timers : Late(s, v) => Late(Arm(s, t, d), v)
<1> DEFINE u == Arm(s, t, d)
<1>1. /\ u.links = s.links /\ u.count = s.count
      /\ u.timer[t].expires = Plus(clock.jiffies, d)
      /\ (u.timer[t].active <=> s.timer[t].active)
      /\ \A v \in Timers \ {t} : u.timer[v] = s.timer[v]
      /\ t \in u.wrapped <=> Wraps(clock.jiffies, d)
      /\ \A x \in Deadlines \ {t} : x \in u.wrapped <=> x \in s.wrapped
  BY ArmFields
<1>2. d \in 1..Modulus - 1 /\ d \in 0..Modulus - 1
  BY TimersAssumption
<1>3. ~Wraps(clock.jiffies, d) => Plus(clock.jiffies, d) = clock.jiffies + d
  BY <1>2, PlusFacts
<1> HIDE DEF u
<1>4. GoodRing(u, n, r)
  BY <1>1 DEF GoodRing
<1>5. Late(u, t)
  <2>1. clock.jiffies \in Int /\ d \in Int /\ d > 0
    BY <1>2 DEF Times
  <2>2. ~Wraps(clock.jiffies, d) => u.timer[t].expires > clock.jiffies
    BY <1>1, <1>3, <2>1
  <2> QED
    BY <1>1, <2>2 DEF Late
<1>6. ASSUME NEW v \in Timers, Late(s, v) PROVE Late(u, v)
  <2>1. CASE v = t
    BY <1>5, <2>1
  <2>2. CASE v # t
    <3>1. v \in Deadlines \ {t} /\ u.timer[v] = s.timer[v]
      BY <1>1, <2>2, Names
    <3> QED
      BY <1>1, <1>6, <3>1 DEF Late
  <2> QED
    BY <2>1, <2>2
<1> QED
  BY <1>4, <1>5, <1>6 DEF u

\* A timer leaves the list: the walk, at r[j], keeps its place.
LEMMA UnlinkPassed ==
    ASSUME NEW s \in MemStates, NEW n, NEW r, IsRing(n, r), NEW k \in 1..n, NEW j \in 0..n, j # k,
           \A i \in 1..n : i # k /\ (j = 0 \/ i < j) => Late(s, r[i])
    PROVE  \E h \in 0..n - 1 : /\ Drop(n, r, k)[h] = r[j]
                               /\ Passed(Unlink(s, r[k]), n - 1, Drop(n, r, k), h)
                               /\ j = 0 => h = 0
<1> DEFINE u == Unlink(s, r[k])
<1> DEFINE q == Drop(n, r, k)
<1> DEFINE h == IF j > k THEN j - 1 ELSE j
<1>1. n \in Nat /\ (\A i \in 1..n : r[i] \in Timers) /\ \A i, l \in 0..n : r[i] = r[l] => i = l
  BY RingFacts
<1>2. \A i \in 0..n - 1 : (i < k => q[i] = r[i]) /\ (i >= k => q[i] = r[i + 1])
  BY DropRing
<1>3. u.wrapped = s.wrapped \ {r[k]} /\ \A v \in Timers \ {r[k]} : u.timer[v] = s.timer[v]
  BY <1>1, UnlinkFields
<1> HIDE DEF u, q
<1>4. h \in 0..n - 1 /\ q[h] = r[j]
  BY <1>1, <1>2
<1>5. ASSUME NEW i \in 1..n, i # k, Late(s, r[i]) PROVE Late(u, r[i])
  <2>1. i \in 0..n /\ k \in 0..n
    BY <1>1
  <2>2. r[i] # r[k] /\ r[i] \in Timers
    BY <1>1, <1>5, <2>1
  <2> QED
    BY <1>3, <1>5, <2>2 DEF Late
<1>6. ASSUME NEW i \in 1..n - 1, h = 0 \/ i < h PROVE Late(u, q[i])
  <2> DEFINE a == IF i < k THEN i ELSE i + 1
  <2>1. a \in 1..n /\ a # k /\ (j = 0 \/ a < j) /\ i \in 0..n - 1
    BY <1>1, <1>6
  <2>2. q[i] = r[a]
    BY <1>1, <1>2, <2>1
  <2> HIDE DEF a
  <2> QED
    BY <1>5, <2>1, <2>2
<1>7. Passed(u, n - 1, q, h)
  BY <1>6 DEF Passed
<1>8. j = 0 => h = 0
  OBVIOUS
<1> HIDE DEF h
<1> QED
  BY <1>4, <1>7, <1>8 DEF u, q

\* A timer joins the list at its end.
LEMMA AddPassed ==
    ASSUME NEW s \in MemStates, NEW n, NEW r, IsRing(n, r), NEW t \in Timers, ~s.timer[t].active,
           t \notin Members(n, r), NEW j \in 0..n, Passed(s, n, r, j), j = 0 => Late(s, t)
    PROVE  /\ j \in 0..n + 1 /\ Push(n, r, t)[j] = r[j]
           /\ Passed(Add(s, t), n + 1, Push(n, r, t), j)
<1> DEFINE u == Add(s, t)
<1> DEFINE q == Push(n, r, t)
<1>1. n \in Nat /\ \A i \in 1..n : r[i] \in Timers
  BY RingFacts
<1>2. (\A i \in 0..n : q[i] = r[i]) /\ q[n + 1] = t
  BY PushRing
<1>3. /\ u.timer[t].expires = s.timer[t].expires
      /\ \A v \in Timers \ {t} : u.timer[v] = s.timer[v]
      /\ u.wrapped = s.wrapped
  BY AddFields
<1> HIDE DEF u, q
<1>4. \A v \in Timers : Late(s, v) => Late(u, v)
  BY <1>3 DEF Late
<1>5. ASSUME NEW i \in 1..n + 1, j = 0 \/ i < j PROVE Late(u, q[i])
  <2>1. i = n + 1 \/ (i \in 1..n /\ i \in 0..n)
    BY <1>1
  <2>2. CASE i = n + 1
    <3>1. j = 0
      BY <1>1, <1>5, <2>2
    <3> QED
      BY <1>2, <1>4, <2>2, <3>1
  <2>3. CASE i \in 1..n /\ i \in 0..n
    BY <1>1, <1>2, <1>4, <1>5, <2>3 DEF Passed
  <2> QED
    BY <2>1, <2>2, <2>3
<1>6. Passed(u, n + 1, q, j)
  BY <1>5 DEF Passed
<1>7. j \in 0..n + 1 /\ q[j] = r[j]
  BY <1>1, <1>2
<1> QED
  BY <1>6, <1>7 DEF u, q

\* The links of s are sound and the walk may go on at the node saved.
Placed(s, saved) ==
    \E n \in Nat : \E r \in [0..n -> Nodes] :
        GoodRing(s, n, r) /\ \E j \in 0..n : r[j] = saved /\ Passed(s, n, r, j)

\* A timer's function deletes one that the walk has not saved.
LEMMA DelPlaced ==
    ASSUME NEW s \in MemStates, NEW saved, Placed(s, saved), NEW t \in Timers, t # saved
    PROVE  Placed(Del(s, t), saved)
<1>0. PICK n \in Nat : \E r \in [0..n -> Nodes] :
        GoodRing(s, n, r) /\ \E j \in 0..n : r[j] = saved /\ Passed(s, n, r, j)
  BY DEF Placed
<1>1. PICK r \in [0..n -> Nodes] :
        GoodRing(s, n, r) /\ \E j \in 0..n : r[j] = saved /\ Passed(s, n, r, j)
  BY <1>0
<1>2. PICK j \in 0..n : r[j] = saved /\ Passed(s, n, r, j)
  BY <1>1
<1>3. IsRing(n, r)
  BY <1>1 DEF GoodRing
<1>4. CASE ~s.timer[t].active
  BY <1>4 DEF Del
<1>5. CASE s.timer[t].active
  <2>1. t \in Members(n, r)
    BY <1>1, <1>5 DEF GoodRing
  <2>2. PICK k \in 1..n : r[k] = t
    BY <1>3, <2>1, RingFacts
  <2>3. Del(s, t) = Unlink(s, r[k]) /\ j # k
    BY <1>2, <1>5, <2>2 DEF Del
  <2>4. GoodRing(Unlink(s, r[k]), n - 1, Drop(n, r, k))
    BY <1>1, UnlinkGood
  <2>5. \A i \in 1..n : i # k /\ (j = 0 \/ i < j) => Late(s, r[i])
    BY <1>2 DEF Passed
  <2>6. PICK h \in 0..n - 1 : /\ Drop(n, r, k)[h] = r[j]
                              /\ Passed(Unlink(s, r[k]), n - 1, Drop(n, r, k), h)
    BY <1>3, <2>3, <2>5, UnlinkPassed, ZenonT(60)
  <2>7. n - 1 \in Nat /\ Drop(n, r, k) \in [0..n - 1 -> Nodes]
    BY <1>3, DropRing
  <2> QED
    BY <1>2, <2>3, <2>4, <2>6, <2>7 DEF Placed
<1> QED
  BY <1>4, <1>5

\* A timer's function arms an inactive timer.
LEMMA ArmPlaced ==
    ASSUME NEW s \in MemStates, NEW saved, Placed(s, saved), NEW t \in Timers, NEW d \in Delays,
           ~s.timer[t].active, clock.jiffies \in Times
    PROVE  Placed(Add(Arm(s, t, d), t), saved)
<1> DEFINE u == Arm(s, t, d)
<1>0. PICK n \in Nat : \E r \in [0..n -> Nodes] :
        GoodRing(s, n, r) /\ \E j \in 0..n : r[j] = saved /\ Passed(s, n, r, j)
  BY DEF Placed
<1>1. PICK r \in [0..n -> Nodes] :
        GoodRing(s, n, r) /\ \E j \in 0..n : r[j] = saved /\ Passed(s, n, r, j)
  BY <1>0
<1>2. PICK j \in 0..n : r[j] = saved /\ Passed(s, n, r, j)
  BY <1>1
<1>3. IsRing(n, r) /\ \A i \in 1..n : r[i] \in Timers
  BY <1>1, RingFacts DEF GoodRing
<1>4. u \in MemStates /\ (u.timer[t].active <=> s.timer[t].active)
  BY ArmFields
<1>5. GoodRing(u, n, r) /\ Late(u, t) /\ \A v \in Timers : Late(s, v) => Late(u, v)
  BY <1>1, ArmGood
<1> HIDE DEF u
<1>6. Passed(u, n, r, j)
  BY <1>2, <1>3, <1>5 DEF Passed
<1>7. ~u.timer[t].active
  BY <1>4
<1>8. GoodRing(Add(u, t), n + 1, Push(n, r, t)) /\ t \notin Members(n, r)
  BY <1>4, <1>5, <1>7, AddGood
<1>9. /\ j \in 0..n + 1 /\ Push(n, r, t)[j] = r[j]
      /\ Passed(Add(u, t), n + 1, Push(n, r, t), j)
  BY <1>3, <1>4, <1>5, <1>6, <1>7, <1>8, AddPassed
<1>10. n + 1 \in Nat /\ Push(n, r, t) \in [0..n + 1 -> Nodes]
  BY <1>3, <1>8, PushRing
<1> QED
  BY <1>2, <1>8, <1>9, <1>10 DEF Placed, u

\* It moves the saved timer, which was the last and is the last again.
LEMMA MovePlaced ==
    ASSUME NEW s \in MemStates, NEW t \in Timers, Placed(s, t), NEW d \in Delays, clock.jiffies \in Times,
           s.timer[t].active,
           L!NextOf(Mod(s, t, d).links, t) = L!NextOf(s.links, t)
    PROVE  Placed(Mod(s, t, d), t)
<1>0. PICK n \in Nat : \E r \in [0..n -> Nodes] :
        GoodRing(s, n, r) /\ \E j \in 0..n : r[j] = t /\ Passed(s, n, r, j)
  BY DEF Placed
<1>1. PICK r \in [0..n -> Nodes] :
        GoodRing(s, n, r) /\ \E j \in 0..n : r[j] = t /\ Passed(s, n, r, j)
  BY <1>0
<1>2. PICK k \in 0..n : r[k] = t /\ Passed(s, n, r, k)
  BY <1>1
<1>3. IsRing(n, r) /\ NextRing(s.links.next, n, r)
  BY <1>1 DEF GoodRing
<1>4. k \in 1..n /\ n \in 0..n
  BY <1>2, <1>3, RingFacts, Names
<1> DEFINE e == Unlink(s, t)
<1> DEFINE q == Drop(n, r, k)
<1> DEFINE a == Arm(e, t, d)
<1> DEFINE z == Push(n - 1, q, t)
<1>5. Mod(s, t, d) = Add(a, t)
  BY DEF Mod, Del
<1>6. e \in MemStates /\ ~e.timer[t].active
  BY UnlinkFields
<1>7. GoodRing(e, n - 1, q)
  BY <1>1, <1>2, <1>4, UnlinkGood
<1>8. IsRing(n - 1, q) /\ \A i \in 1..n - 1 : q[i] \in Timers
  BY <1>7, RingFacts DEF GoodRing
<1>9. a \in MemStates /\ (a.timer[t].active <=> e.timer[t].active)
  BY <1>6, ArmFields
<1>10. GoodRing(a, n - 1, q) /\ Late(a, t) /\ \A v \in Timers : Late(e, v) => Late(a, v)
  BY <1>6, <1>7, ArmGood
<1>11. GoodRing(Add(a, t), n - 1 + 1, z) /\ t \notin Members(n - 1, q)
  BY <1>6, <1>9, <1>10, AddGood
<1>12. n - 1 + 1 = n
  BY <1>4
<1>13. z[n] = t /\ After(n, z, n) = timer_list
  BY <1>8, <1>11, <1>12, PushRing
<1>14. GoodRing(Add(a, t), n, z)
  BY <1>11, <1>12
\* Its successor is the list head, before and after.
<1>15. Add(a, t).links.next[t] = timer_list
  <2>1. NextRing(Add(a, t).links.next, n, z)
    BY <1>14 DEF GoodRing
  <2> HIDE DEF z, a
  <2> QED
    BY <1>4, <1>13, <2>1 DEF NextRing
<1>16. s.links.next[t] = After(n, r, k)
  BY <1>2, <1>3 DEF NextRing
<1>17. After(n, r, k) = timer_list
  BY <1>5, <1>15, <1>16, Names DEF L!NextOf
<1>18. k = n
  <2>1. k # n => k + 1 \in 1..n /\ After(n, r, k) = r[k + 1]
    BY <1>4 DEF After
  <2> QED
    BY <1>3, <1>17, <2>1, RingFacts, Names
<1>19. \A i \in 1..n : i # k => Late(s, r[i])
  BY <1>2, <1>18 DEF Passed
<1>20. 0 \in 0..n /\ 0 # k
  BY <1>4
<1>21. PICK h \in 0..n - 1 : Passed(e, n - 1, q, h) /\ h = 0
  BY <1>2, <1>3, <1>4, <1>19, <1>20, UnlinkPassed
<1> HIDE DEF e, q, a, z
<1>22. Passed(a, n - 1, q, 0)
  BY <1>8, <1>10, <1>21 DEF Passed
<1>23. 0 \in 0..n - 1
  BY <1>4
<1>24. Passed(Add(a, t), n - 1 + 1, z, 0)
  BY <1>6, <1>8, <1>9, <1>10, <1>11, <1>22, <1>23, AddPassed DEF z
<1>25. Passed(Add(a, t), n, z, n)
  BY <1>12, <1>24 DEF Passed
<1>26. z \in [0..n -> Nodes]
  BY <1>14 DEF GoodRing, IsRing
<1> QED
  BY <1>4, <1>5, <1>13, <1>14, <1>25, <1>26 DEF Placed

\* Whatever a timer's function does short of moving the saved timer.
LEMMA CallPlaced ==
    ASSUME NEW s \in MemStates, NEW saved, Placed(s, saved), NEW call \in Calls(s),
           clock.jiffies \in Times,
           ~(call.on = saved /\ L!NextOf(call.s.links, saved) # L!NextOf(s.links, saved))
    PROVE  Placed(call.s, saved)
<1>1. CASE call = [on |-> NULL, s |-> s]
  BY <1>1
<1>2. ASSUME NEW t \in Timers, call = [on |-> t, s |-> Del(s, t)] PROVE Placed(call.s, saved)
  <2>1. call.on = t /\ call.s = Del(s, t)
    BY <1>2
  <2>2. CASE t # saved
    BY <2>1, <2>2, DelPlaced
  <2>3. CASE t = saved
    <3>0. PICK n \in Nat : \E r \in [0..n -> Nodes] :
            GoodRing(s, n, r) /\ \E j \in 0..n : r[j] = saved /\ Passed(s, n, r, j)
      BY DEF Placed
    <3>1. PICK r \in [0..n -> Nodes] :
            GoodRing(s, n, r) /\ \E j \in 0..n : r[j] = saved /\ Passed(s, n, r, j)
      BY <3>0
    <3>2. PICK k \in 0..n : r[k] = t
      BY <2>3, <3>1
    <3>3. IsRing(n, r) /\ NextRing(s.links.next, n, r) /\ PrevRing(s.links.prev, n, r) /\ s.links \in Links
      BY <3>1 DEF GoodRing, MemStates
    <3>4. k \in 1..n
      BY <3>2, <3>3, RingFacts, Names
    <3>5. s.timer[t].active
      BY <3>1, <3>2, <3>3, <3>4, RingFacts DEF GoodRing
    <3>6. Del(s, t).links = L!list_del(s.links, r[k])
      BY <3>2, <3>5, UnlinkFields DEF Del
    <3>7. Del(s, t).links.next[t] = NULL
      BY <3>2, <3>3, <3>4, <3>6, DelLinks
    <3>8. s.links.next[t] \in Nodes
      BY <3>2, <3>3, RingFacts DEF NextRing
    <3>9. L!NextOf(call.s.links, saved) # L!NextOf(s.links, saved)
      BY <2>1, <2>3, <3>7, <3>8, Names DEF L!NextOf
    <3> QED
      BY <2>1, <2>3, <3>9
  <2> QED
    BY <2>2, <2>3
<1>3. ASSUME NEW t \in Timers, NEW d \in Delays, call = [on |-> t, s |-> Mod(s, t, d)]
      PROVE  Placed(call.s, saved)
  <2>1. call.on = t /\ call.s = Mod(s, t, d)
    BY <1>3
  <2>2. CASE t = saved /\ s.timer[t].active
    BY <2>1, <2>2, MovePlaced
  <2>3. CASE t # saved \/ ~s.timer[t].active
    <3> DEFINE e == Del(s, t)
    <3>1. e \in MemStates /\ ~e.timer[t].active
      <4>1. CASE s.timer[t].active
        BY <4>1, UnlinkFields DEF Del
      <4>2. CASE ~s.timer[t].active
        BY <4>2 DEF Del
      <4> QED
        BY <4>1, <4>2
    <3>2. Placed(e, saved)
      BY <2>3, DelPlaced DEF Del
    <3> HIDE DEF e
    <3>3. Placed(Add(Arm(e, t, d), t), saved)
      BY <3>1, <3>2, ArmPlaced
    <3> QED
      BY <2>1, <3>3 DEF Mod, e
  <2> QED
    BY <2>2, <2>3
<1> QED
  BY <1>1, <1>2, <1>3 DEF Calls

\* A ring is what the invariant asks for.
LEMMA ListIntro ==
    ASSUME NEW n, NEW r, RingInv(n, r)'
    PROVE  ListInv'
<1>1. n \in Nat /\ r \in [0..n -> Nodes]
  BY DEF RingInv, IsRing
<1> QED
  BY <1>1 DEF ListInv

\* What a step that leaves the list and the call in progress alone keeps.
LEMMA WalkOnly ==
    ASSUME NEW n, NEW r, RingInv(n, r), UNCHANGED <<links, timer, count, proc>>, WalkPart(n, r)'
    PROVE  RingInv(n, r)'
<1>1. PrevPart(n, r)' /\ MemberPart(n, r)' /\ CallPart(n, r)' /\ CountPart(n)'
  BY DEF RingInv, PrevPart, MemberPart, CallPart, CountPart
<1>2. IsRing(n, r)' /\ NextRing(links.next, n, r)'
  BY DEF RingInv
<1> QED
  BY <1>1, <1>2 DEF RingInv

\* The interrupt begins, and goes over a timer that is not due.
LEMMA WalkList ==
    ASSUME TInv, ListInv, harm = {}, timer_handler \/ Skip \/ Return
    PROVE  ListInv'
<1>0. PICK n \in Nat : \E r \in [0..n -> Nodes] : RingInv(n, r)
  BY DEF ListInv
<1>1. PICK r \in [0..n -> Nodes] : RingInv(n, r)
  BY <1>0
<1>2. IsRing(n, r) /\ NextRing(links.next, n, r) /\ WalkPart(n, r)
  BY <1>1 DEF RingInv
<1>3. ASSUME NEW i \in 0..n PROVE L!NextOf(links, r[i]) = After(n, r, i)
  BY <1>2, RingFacts DEF L!NextOf, NextRing
<1>4. CASE timer_handler
  <2> DEFINE k == IF n = 0 THEN 0 ELSE 1
  <2>1. 0 \in 0..n /\ k \in 0..n /\ r[0] = timer_list
    BY <1>2, RingFacts
  <2>2. After(n, r, 0) = r[k]
    BY <2>1 DEF After
  <2>3. walk'.on /\ walk'.pos = r[k] /\ walk'.tmp = After(n, r, k)
    BY <1>3, <1>4, <2>1, <2>2 DEF timer_handler
  <2>4. Passed(Mem, n, r, k)'
    BY DEF Passed
  <2> HIDE DEF k
  <2>5. WalkPart(n, r)'
    BY <2>1, <2>3, <2>4 DEF WalkPart
  <2>6. UNCHANGED <<links, timer, count, proc>>
    BY <1>4 DEF timer_handler
  <2> QED
    BY <1>1, <2>5, <2>6, WalkOnly, ListIntro
<1>5. CASE Skip
  <2>0. walk \in [on: BOOLEAN, pos: Addrs, tmp: Addrs] /\ timer \in [Timers -> TimerRecs]
        /\ clock.jiffies \in Times
    BY StateTypes DEF TInv
  <2>1. /\ walk.on /\ walk.pos \in Timers /\ ~Due(timer[walk.pos].expires, clock.jiffies)
        /\ walk' = [walk EXCEPT !.pos = walk.tmp, !.tmp = L!NextOf(links, walk.tmp)]
        /\ UNCHANGED <<links, timer, count, clock, slots, proc, due, wrapped, harm>>
    BY <1>5 DEF Skip, Advance
  <2>2. PICK k \in 0..n : walk.pos = r[k] /\ walk.tmp = After(n, r, k) /\ Passed(Mem, n, r, k)
    BY <1>2, <2>1 DEF WalkPart
  <2>3. k \in 1..n
    BY <1>2, <2>1, <2>2, RingFacts, Names
  <2> DEFINE j == IF k = n THEN 0 ELSE k + 1
  <2>4. j \in 0..n /\ r[j] = After(n, r, k)
    BY <1>2, <2>3, RingFacts DEF After
  <2>5. walk'.on /\ walk'.pos = r[j] /\ walk'.tmp = After(n, r, j)
    <3> HIDE DEF j
    <3> QED
      BY <1>3, <2>0, <2>1, <2>2, <2>4
  <2>6. timer[r[k]].expires > clock.jiffies
    <3>1. timer[r[k]].expires \in Times
      BY <2>0, <2>1, <2>2 DEF TimerRecs
    <3> QED
      BY <2>0, <2>1, <2>2, <3>1 DEF Due, Times
  <2>7. Late(Mem, r[k])
    BY <2>6 DEF Late, Mem
  <2>8. Passed(Mem, n, r, j)
    <3> SUFFICES ASSUME NEW i \in 1..n, j = 0 \/ i < j PROVE Late(Mem, r[i])
      BY DEF Passed
    <3>1. i = k \/ i < k
      BY <2>3
    <3> QED
      BY <2>2, <2>3, <2>7, <3>1 DEF Passed
  <2>9. Passed(Mem, n, r, j)'
    BY <2>1, <2>8 DEF Passed, Late, Mem
  <2> HIDE DEF j
  <2>10. WalkPart(n, r)'
    BY <2>4, <2>5, <2>9 DEF WalkPart
  <2> QED
    BY <1>1, <2>1, <2>10, WalkOnly, ListIntro
<1>6. CASE Return
  <2>1. WalkPart(n, r)'
    BY <1>6 DEF Return, NoWalk, WalkPart
  <2>2. UNCHANGED <<links, timer, count, proc>>
    BY <1>6 DEF Return
  <2> QED
    BY <1>1, <2>1, <2>2, WalkOnly, ListIntro
<1> QED
  BY <1>4, <1>5, <1>6

\* A timer expires between two calls, and its function moves no saved timer.
LEMMA ExpireList ==
    ASSUME TInv, ListInv, harm = {}, Expire
    PROVE  ListInv'
<1> SUFFICES ASSUME harm' = {} PROVE ListInv'
  BY DEF ListInv
<1>0. PICK n \in Nat : \E r \in [0..n -> Nodes] : RingInv(n, r)
  BY DEF ListInv
<1>1. PICK r \in [0..n -> Nodes] : RingInv(n, r)
  BY <1>0
<1>2. IsRing(n, r) /\ NextRing(links.next, n, r) /\ WalkPart(n, r) /\ PrevPart(n, r)
      /\ MemberPart(n, r) /\ CallPart(n, r) /\ CountPart(n)
  BY <1>1 DEF RingInv
<1>3. /\ Mem \in MemStates /\ clock.jiffies \in Times /\ links \in Links
      /\ walk \in [on: BOOLEAN, pos: Addrs, tmp: Addrs] /\ proc \in Procs
  BY StateTypes DEF TInv
<1> DEFINE u == Unlink(Mem, walk.pos)
<1>4. walk.on /\ walk.pos \in Timers /\ UNCHANGED <<clock, slots, proc>>
  BY DEF Expire
<1>5. PICK call \in Calls(u) :
        /\ links' = call.s.links /\ timer' = call.s.timer /\ count' = call.s.count
        /\ due' = call.s.due /\ wrapped' = call.s.wrapped
        /\ walk' = Advance(call.s.links)
        /\ harm' = harm \cup {h \in {"raced", "moved"} :
                                 IF h = "raced" THEN proc.t \in Timers
                                 ELSE /\ call.on = walk.tmp
                                      /\ L!NextOf(call.s.links, walk.tmp) # L!NextOf(u.links, walk.tmp)}
  BY DEF Expire, Mem
<1>6. proc.t \notin Timers
  BY <1>5
<1>7. ~(call.on = walk.tmp /\ L!NextOf(call.s.links, walk.tmp) # L!NextOf(u.links, walk.tmp))
  <2> DEFINE moved == call.on = walk.tmp /\ L!NextOf(call.s.links, walk.tmp) # L!NextOf(u.links, walk.tmp)
  <2>1. harm' = harm \cup {h \in {"raced", "moved"} : IF h = "raced" THEN proc.t \in Timers ELSE moved}
    BY <1>5
  <2> HIDE DEF moved
  <2>2. moved => "moved" \in harm'
    BY <2>1
  <2>3. ~moved
    BY <2>2
  <2> QED
    BY <2>3 DEF moved
<1>8. proc.pc = "idle"
  BY <1>6 DEF TInv, TypeOK
<1>9. GoodRing(Mem, n, r)
  <2>1. PrevRing(links.prev, n, r)
    BY <1>2, <1>8 DEF PrevPart, Linking
  <2>2. \A t \in Timers : timer[t].active <=> t \in Members(n, r)
    BY <1>2, <1>6 DEF MemberPart
  <2>3. count = n
    BY <1>2, <1>8 DEF CountPart, Unlinked
  <2> QED
    BY <1>2, <2>1, <2>2, <2>3 DEF GoodRing, Mem
<1>10. PICK k \in 0..n : walk.pos = r[k] /\ walk.tmp = After(n, r, k) /\ Passed(Mem, n, r, k)
  BY <1>2, <1>4 DEF WalkPart
<1>11. k \in 1..n
  BY <1>2, <1>4, <1>10, RingFacts, Names
<1> DEFINE j == IF k = n THEN 0 ELSE k + 1
<1>12. j \in 0..n /\ j # k /\ r[j] = walk.tmp
  BY <1>2, <1>10, <1>11, RingFacts DEF After
<1>13. \A i \in 1..n : i # k /\ (j = 0 \/ i < j) => Late(Mem, r[i])
  <2> TAKE i \in 1..n
  <2> HAVE i # k /\ (j = 0 \/ i < j)
  <2>1. i < k
    BY <1>11
  <2> QED
    BY <1>10, <2>1 DEF Passed
<1>14. u \in MemStates
  BY <1>3, <1>4, UnlinkFields
<1>15. Placed(u, walk.tmp)
  <2>1. GoodRing(u, n - 1, Drop(n, r, k))
    BY <1>3, <1>9, <1>10, <1>11, UnlinkGood
  <2> HIDE DEF j
  <2>2. \E h \in 0..n - 1 : /\ Drop(n, r, k)[h] = r[j]
                            /\ Passed(Unlink(Mem, r[k]), n - 1, Drop(n, r, k), h)
    BY <1>2, <1>3, <1>11, <1>12, <1>13, UnlinkPassed
  <2>3. n - 1 \in Nat /\ Drop(n, r, k) \in [0..n - 1 -> Nodes]
    BY <1>2, <1>11, DropRing
  <2> QED
    BY <1>10, <1>12, <2>1, <2>2, <2>3 DEF Placed
<1> HIDE DEF u, j
<1> DEFINE m == call.s
<1>16. Placed(m, walk.tmp)
  BY <1>3, <1>7, <1>14, <1>15, CallPlaced
<1>17. m \in MemStates
  <2>1. TimersOnTime(Mem)
    BY DEF TInv, OnTime, TimersOnTime, Mem
  <2>2. TimersOnTime(u)
    BY <1>3, <1>4, <2>1, UnlinkOnTime DEF u
  <2>3. clock.tick = clock.jiffies
    BY StateTypes DEF TInv
  <2> QED
    BY <1>3, <1>14, <2>2, <2>3, CallsOnTime
<1> HIDE DEF m
<1>18. links' = m.links /\ timer' = m.timer /\ count' = m.count /\ due' = m.due /\ wrapped' = m.wrapped
       /\ walk' = [walk EXCEPT !.pos = walk.tmp, !.tmp = L!NextOf(m.links, walk.tmp)]
  BY <1>5 DEF m, Advance
<1>19. Mem' = m
  BY <1>17, <1>18 DEF Mem, MemStates
<1>20. PICK p \in Nat : \E q \in [0..p -> Nodes] :
          GoodRing(m, p, q) /\ \E h \in 0..p : q[h] = walk.tmp /\ Passed(m, p, q, h)
  BY <1>16 DEF Placed
<1>21. PICK q \in [0..p -> Nodes] :
          GoodRing(m, p, q) /\ \E h \in 0..p : q[h] = walk.tmp /\ Passed(m, p, q, h)
  BY <1>20
<1>22. PICK h \in 0..p : q[h] = walk.tmp /\ Passed(m, p, q, h)
  BY <1>21
<1>23. /\ IsRing(p, q) /\ NextRing(m.links.next, p, q) /\ PrevRing(m.links.prev, p, q) /\ m.count = p
       /\ \A t \in Timers : m.timer[t].active <=> t \in Members(p, q)
  BY <1>21 DEF GoodRing
<1>24. walk'.on /\ walk'.pos = q[h] /\ walk'.tmp = After(p, q, h)
  <2>1. L!NextOf(m.links, q[h]) = After(p, q, h)
    BY <1>23, RingFacts DEF L!NextOf, NextRing
  <2> QED
    BY <1>3, <1>4, <1>18, <1>22, <2>1
<1>25. Passed(Mem, p, q, h)'
  BY <1>4, <1>19, <1>22 DEF Passed, Late
<1>26. WalkPart(p, q)'
  BY <1>24, <1>25 DEF WalkPart
<1>27. PrevPart(p, q)'
  BY <1>4, <1>8, <1>18, <1>23 DEF PrevPart, Linking
<1>28. MemberPart(p, q)'
  BY <1>4, <1>8, <1>18, <1>23 DEF MemberPart, Linking, Unlinked
<1>29. CallPart(p, q)'
  BY <1>2, <1>4, <1>8 DEF CallPart, Linking
<1>30. CountPart(p)'
  BY <1>4, <1>8, <1>18, <1>23 DEF CountPart, Unlinked
<1>31. RingInv(p, q)'
  BY <1>18, <1>23, <1>26, <1>27, <1>28, <1>29, <1>30 DEF RingInv, IsRing, NextRing
<1> QED
  BY <1>31, ListIntro

\* The list and what a call knows of it between its stores to links.
Plain == PCs \ (Unlinked \cup Linking \cup {"del_bypass", "active"})

\* A step that stores to no link and changes no timer's active.
LEMMA PlainList ==
    ASSUME NEW n, NEW r, RingInv(n, r), proc.pc \in Plain, proc'.pc \in Plain,
           ~walk.on, UNCHANGED <<links, walk>>,
           \A t \in Timers : timer'[t].active <=> timer[t].active,
           proc'.pc \in {"del_next", "del_prev"} => proc'.t \in Timers /\ timer[proc'.t].active,
           proc'.pc \in {"add_load", "add_prev"} => proc'.t \in Timers /\ ~timer[proc'.t].active,
           CallPart(n, r)', CountPart(n)'
    PROVE  ListInv'
<1>1. IsRing(n, r) /\ NextRing(links.next, n, r) /\ PrevPart(n, r) /\ MemberPart(n, r) /\ WalkPart(n, r)
  BY DEF RingInv
<1>2. PrevPart(n, r)'
  BY <1>1 DEF PrevPart, Plain
<1>3. \A t \in Timers : timer[t].active <=> t \in Members(n, r)
  BY <1>1 DEF MemberPart, Plain
<1>4. MemberPart(n, r)'
  BY <1>3 DEF MemberPart, Plain, Linking, Unlinked
<1>5. WalkPart(n, r)'
  BY <1>1 DEF WalkPart
<1>6. IsRing(n, r)' /\ NextRing(links.next, n, r)'
  BY <1>1
<1> QED
  BY <1>2, <1>4, <1>5, <1>6, ListIntro DEF RingInv

\* A step of a call changes the list only between interrupts.
LEMMA ExecWalk ==
    ASSUME NEW n, NEW r, NEW q, NEW p, RingInv(n, r), ~walk.on, UNCHANGED walk
    PROVE  WalkPart(p, q)'
BY DEF RingInv, WalkPart

\* Between two calls the active timers are the nodes of the ring.
LEMMA RingMembers ==
    ASSUME NEW n, NEW r, RingInv(n, r), proc.pc \in Plain
    PROVE  \A t \in Timers : timer[t].active <=> t \in Members(n, r)
BY DEF RingInv, MemberPart, Plain

\* A timer outside the ring is no node of it.
LEMMA Outside ==
    ASSUME NEW n, NEW r, IsRing(n, r), NEW t \in Timers, t \notin Members(n, r)
    PROVE  \A i \in 0..n : r[i] # t /\ After(n, r, i) # t
<1>1. n \in Nat /\ r[0] = timer_list /\ \A i \in 1..n : r[i] # t
  BY RingFacts DEF Members
<1>2. \A i \in 0..n : r[i] # t
  BY <1>1, Names
<1>3. \A i \in 0..n : i # n => i + 1 \in 0..n
  BY <1>1
<1> QED
  BY <1>2, <1>3, Names DEF After

\* Loads, tests and the stores of count and expires.
LEMMA BeginList ==
    ASSUME TInv, ListInv, harm = {}, NEW t \in Timers,
           ktimer_add(t) \/ ktimer_del(t) \/ \E delay \in Delays : ktimer_mod(t, delay)
    PROVE  ListInv'
<1>0. PICK n \in Nat : \E r \in [0..n -> Nodes] : RingInv(n, r)
  BY DEF ListInv
<1>1. PICK r \in [0..n -> Nodes] : RingInv(n, r)
  BY <1>0
<1>2. CountPart(n)
  BY <1>1 DEF RingInv
<1>3. /\ ~walk.on /\ proc.pc = "idle" /\ proc'.pc \in {"add", "del", "arm"}
      /\ UNCHANGED <<links, walk, timer, count>>
  <2>1. CASE ktimer_add(t) \/ ktimer_del(t)
    BY <2>1 DEF ktimer_add, ktimer_del, Load, Exec, Idle
  <2>2. ASSUME NEW delay \in Delays, ktimer_mod(t, delay)
        PROVE  /\ ~walk.on /\ proc.pc = "idle" /\ proc'.pc \in {"add", "del", "arm"}
               /\ UNCHANGED <<links, walk, timer, count>>
    BY <2>2 DEF ktimer_mod, Exec, Idle
  <2> QED
    BY <2>1, <2>2
<1>4. proc.pc \in Plain /\ proc'.pc \in Plain
  BY <1>3 DEF Plain, PCs, Linking, Unlinked
<1>5. CallPart(n, r)'
  BY <1>3 DEF CallPart, Linking
<1>6. CountPart(n)'
  BY <1>2, <1>3 DEF CountPart, Unlinked
<1> QED
  BY <1>1, <1>3, <1>4, <1>5, <1>6, PlainList

\* What the loads and tests of ktimer_del and ktimer_add find.
LoadCase(from, to, p) ==
    \/ from = "del" /\ to \in {"arm", "idle"}
    \/ from = "del" /\ to = "del_next" /\ timer[proc.t].active /\ p.after = links.next[proc.t]
    \/ from = "del_next" /\ to = "del_prev" /\ p.after = proc.after /\ p.before = links.prev[proc.t]
    \/ from = "dec_load" /\ to = "dec" /\ p.count = count
    \/ from = "add" /\ to = "idle"
    \/ from = "add" /\ to = "add_load" /\ ~timer[proc.t].active
    \/ from = "add_load" /\ to = "add_prev" /\ p.before = links.prev[timer_list]
    \/ from = "inc_load" /\ to = "inc" /\ p.count = count

\* Reading a pointer or the count leaves the list sound.
LEMMA LoadList ==
    ASSUME TInv, ListInv, harm = {}, proc.t \in Timers, NEW from, NEW to, NEW p, Load(from, to, p),
           p \in Procs, p.t = proc.t,
           LoadCase(from, to, p)
    PROVE  ListInv'
<1>0. PICK n \in Nat : \E r \in [0..n -> Nodes] : RingInv(n, r)
  BY DEF ListInv
<1>1. PICK r \in [0..n -> Nodes] : RingInv(n, r)
  BY <1>0
<1>2. IsRing(n, r) /\ CountPart(n) /\ CallPart(n, r) /\ MemberPart(n, r) /\ PrevPart(n, r)
  BY <1>1 DEF RingInv
<1>3. Exec(from, to, p) /\ UNCHANGED <<links, timer, count>>
  BY DEF Load
<1>4. to \in PCs /\ p.t \in Timers
  BY DEF PCs, LoadCase
<1>5. /\ proc'.pc = to /\ ~walk.on /\ proc.pc = from /\ UNCHANGED walk
      /\ to # "idle" => /\ proc'.t = p.t /\ proc'.before = p.before /\ proc'.after = p.after
                        /\ proc'.count = p.count
      /\ to = "idle" => proc' = Idle
  BY <1>3, <1>4, ExecFacts
<1>6. proc.pc \in Plain /\ proc'.pc \in Plain
  BY <1>4, <1>5 DEF LoadCase, Plain, PCs, Linking, Unlinked
<1>7. \A t \in Timers : timer[t].active <=> t \in Members(n, r)
  BY <1>1, <1>6, RingMembers
<1>8. from = "add_load" => links.prev[timer_list] = r[n]
  <2>1. n \in 0..n /\ After(n, r, n) = timer_list
    BY <1>2, RingFacts DEF After
  <2> QED
    BY <1>2, <1>5, <2>1 DEF PrevPart, PrevRing, Linking
<1>9. CallPart(n, r)'
  BY <1>2, <1>3, <1>5, <1>8 DEF LoadCase, CallPart, Linking, Idle
<1>10. CountPart(n)'
  BY <1>2, <1>3, <1>5 DEF LoadCase, CountPart, Unlinked
<1>11. proc'.pc \in {"del_next", "del_prev"} => proc'.t \in Timers /\ timer[proc'.t].active
  BY <1>2, <1>5, <1>7 DEF LoadCase, MemberPart
<1>12. proc'.pc \in {"add_load", "add_prev"} => proc'.t \in Timers /\ ~timer[proc'.t].active
  BY <1>2, <1>5, <1>7 DEF LoadCase, MemberPart
<1> QED
  BY <1>1, <1>3, <1>5, <1>6, <1>9, <1>10, <1>11, <1>12, PlainList

\* Storing timer_count, and the store of the expiry, keep the invariant.
LEMMA CountList ==
    ASSUME TInv, ListInv, harm = {}, proc.t \in Timers,
           \/ StoreCount("dec", IF proc.mod THEN "arm" ELSE "idle", proc.count - 1)
           \/ StoreCount("inc", "idle", proc.count + 1)
           \/ ArmStep
    PROVE  ListInv'
<1>0. PICK n \in Nat : \E r \in [0..n -> Nodes] : RingInv(n, r)
  BY DEF ListInv
<1>1. PICK r \in [0..n -> Nodes] : RingInv(n, r)
  BY <1>0
<1>2. CountPart(n) /\ proc \in Procs /\ timer \in [Timers -> TimerRecs]
  BY <1>1, StateTypes DEF RingInv, TInv
<1>3. ASSUME NEW from \in {"dec", "inc", "arm"}, NEW to \in {"arm", "idle", "add"}, Exec(from, to, proc),
             UNCHANGED links, \A t \in Timers : timer'[t].active <=> timer[t].active,
             from \in {"dec", "inc"} => to \in {"arm", "idle"},
             count' = IF from = "dec" THEN proc.count - 1 ELSE IF from = "inc" THEN proc.count + 1 ELSE count
      PROVE  ListInv'
  <2>1. to \in PCs
    BY DEF PCs
  <2>2. /\ proc'.pc = to /\ ~walk.on /\ proc.pc = from /\ UNCHANGED walk
        /\ to = "idle" => proc' = Idle
    BY <1>2, <1>3, <2>1, ExecFacts
  <2>3. proc.pc \in Plain /\ proc'.pc \in Plain
    BY <1>3, <2>2 DEF Plain, PCs, Linking, Unlinked
  <2>4. CallPart(n, r)'
    BY <1>3, <2>2 DEF CallPart, Linking, Idle
  <2>5. count' = n
    <3>1. proc.pc \in {"dec", "inc"} => proc.count = count
      BY <1>2 DEF CountPart
    <3>2. CASE from = "dec"
      <4>1. count = n + 1
        BY <1>2, <2>2, <3>2 DEF CountPart
      <4> QED
        BY <1>3, <2>2, <3>1, <3>2, <4>1
    <3>3. CASE from = "inc"
      <4>1. count = n - 1
        BY <1>2, <2>2, <3>3 DEF CountPart, Unlinked
      <4> QED
        BY <1>3, <2>2, <3>1, <3>3, <4>1
    <3>4. CASE from = "arm"
      <4>1. count = n
        BY <1>2, <2>2, <3>4 DEF CountPart, Unlinked
      <4> QED
        BY <1>3, <3>4, <4>1
    <3> QED
      BY <1>3, <3>2, <3>3, <3>4
  <2>6. CountPart(n)'
    BY <1>3, <2>2, <2>5 DEF CountPart, Unlinked
  <2> QED
    BY <1>1, <1>3, <2>2, <2>3, <2>4, <2>6, PlainList
<1>4. CASE StoreCount("dec", IF proc.mod THEN "arm" ELSE "idle", proc.count - 1)
  <2> DEFINE to == IF proc.mod THEN "arm" ELSE "idle"
  <2>1. to \in {"arm", "idle"}
    OBVIOUS
  <2>2. Exec("dec", to, proc) /\ count' = proc.count - 1 /\ UNCHANGED <<links, timer>>
    BY <1>4 DEF StoreCount
  <2> HIDE DEF to
  <2> QED
    BY <1>3, <2>1, <2>2
<1>5. CASE StoreCount("inc", "idle", proc.count + 1)
  <2>1. Exec("inc", "idle", proc) /\ count' = proc.count + 1 /\ UNCHANGED <<links, timer>>
    BY <1>5 DEF StoreCount
  <2> QED
    BY <1>3, <2>1
<1>6. CASE ArmStep
  <2>1. /\ Exec("arm", "add", proc) /\ timer' = [timer EXCEPT ![proc.t].expires = proc.expires]
        /\ UNCHANGED <<links, count>>
    BY <1>6 DEF ArmStep
  <2>2. \A t \in Timers : timer'[t].active <=> timer[t].active
    BY <1>2, <2>1 DEF TimerRecs
  <2> QED
    BY <1>3, <2>1, <2>2
<1> QED
  BY <1>4, <1>5, <1>6

\* What a step of a call that stores to links leaves: the same call, further on.
LEMMA StoreFacts ==
    ASSUME TInv, proc.t \in Timers, NEW from, NEW to \in PCs \ {"idle"}, Exec(from, to, proc)
    PROVE  /\ proc.pc = from /\ proc'.pc = to /\ proc'.t = proc.t /\ proc'.before = proc.before
           /\ proc'.after = proc.after /\ proc'.count = proc.count /\ ~walk.on /\ UNCHANGED walk
<1>1. proc \in Procs
  BY StateTypes DEF TInv
<1> QED
  BY <1>1, ExecFacts

\* __list_del: next->prev = prev.
LEMMA DelPrevList ==
    ASSUME TInv, ListInv, harm = {}, proc.t \in Timers,
           StoreLink("del_prev", "del_bypass", L!SetPrev(links, proc.after, proc.before))
    PROVE  ListInv'
<1>0. PICK n \in Nat : \E r \in [0..n -> Nodes] : RingInv(n, r)
  BY DEF ListInv
<1>1. PICK r \in [0..n -> Nodes] : RingInv(n, r)
  BY <1>0
<1>2. IsRing(n, r) /\ NextRing(links.next, n, r) /\ CountPart(n) /\ CallPart(n, r) /\ MemberPart(n, r)
      /\ PrevPart(n, r)
  BY <1>1 DEF RingInv
<1>3. /\ Exec("del_prev", "del_bypass", proc) /\ links' = L!SetPrev(links, proc.after, proc.before)
      /\ UNCHANGED <<timer, count>>
  BY DEF StoreLink
<1>4. /\ proc.pc = "del_prev" /\ proc'.pc = "del_bypass" /\ proc'.t = proc.t /\ proc'.before = proc.before
      /\ proc'.after = proc.after /\ ~walk.on /\ UNCHANGED walk
  BY <1>3, StoreFacts DEF PCs
<1>5. /\ links'.next = links.next
      /\ \A y \in Nodes : links'.prev[y] = IF y = proc.after THEN proc.before ELSE links.prev[y]
  BY <1>3, LinkStores, StateTypes DEF TInv
<1>6. PICK k \in 1..n : r[k] = proc.t
  BY <1>2, <1>4, RingFacts DEF MemberPart
<1>7. /\ k \in 0..n /\ k - 1 \in 0..n /\ k - 1 # k
      /\ \A i \in 0..n : r[i] \in Nodes /\ After(n, r, i) \in Nodes
      /\ \A i, j \in 0..n : After(n, r, i) = After(n, r, j) => i = j
  BY <1>2, RingFacts
<1>8. After(n, r, k - 1) = proc.t
  BY <1>6 DEF After
<1>9. proc.after = After(n, r, k) /\ proc.after \in Nodes /\ proc.after # proc.t /\ proc.t \in Nodes
  BY <1>2, <1>4, <1>6, <1>7, <1>8 DEF CallPart, NextRing
<1>10. \A i \in 0..n : links.prev[After(n, r, i)] = r[i]
  BY <1>2, <1>4 DEF PrevPart, PrevRing, Linking
<1>11. \A i \in 0..n : r[i] # proc.t => links'.prev[After(n, r, i)] = r[i]
  <2> TAKE i \in 0..n
  <2> HAVE r[i] # proc.t
  <2>1. i # k
    BY <1>6
  <2>2. After(n, r, i) # proc.after /\ After(n, r, i) \in Nodes
    BY <1>7, <1>9, <2>1
  <2> QED
    BY <1>5, <1>10, <2>2
<1>12. PrevPart(n, r)'
  BY <1>4, <1>5, <1>9, <1>11 DEF PrevPart, Linking
<1>13. CallPart(n, r)'
  BY <1>2, <1>4, <1>5, <1>9 DEF CallPart, Linking
<1>14. MemberPart(n, r)' /\ CountPart(n)'
  BY <1>2, <1>3, <1>4 DEF MemberPart, CountPart, Linking, Unlinked
<1>15. WalkPart(n, r)'
  BY <1>1, <1>4, ExecWalk
<1> QED
  BY <1>2, <1>5, <1>12, <1>13, <1>14, <1>15, ListIntro DEF RingInv

\* __list_del: prev->next = next, and the timer is off the list.
LEMMA DelBypassList ==
    ASSUME TInv, ListInv, harm = {}, proc.t \in Timers,
           StoreLink("del_bypass", "null_next", L!SetNext(links, proc.before, proc.after))
    PROVE  ListInv'
<1>0. PICK n \in Nat : \E r \in [0..n -> Nodes] : RingInv(n, r)
  BY DEF ListInv
<1>1. PICK r \in [0..n -> Nodes] : RingInv(n, r)
  BY <1>0
<1>2. IsRing(n, r) /\ NextRing(links.next, n, r) /\ CountPart(n) /\ CallPart(n, r) /\ MemberPart(n, r)
      /\ PrevPart(n, r)
  BY <1>1 DEF RingInv
<1>3. /\ Exec("del_bypass", "null_next", proc) /\ links' = L!SetNext(links, proc.before, proc.after)
      /\ UNCHANGED <<timer, count>>
  BY DEF StoreLink
<1>4. /\ proc.pc = "del_bypass" /\ proc'.pc = "null_next" /\ proc'.t = proc.t /\ ~walk.on /\ UNCHANGED walk
  BY <1>3, StoreFacts DEF PCs
<1>5. /\ links'.prev = links.prev
      /\ \A y \in Nodes : links'.next[y] = IF y = proc.before THEN proc.after ELSE links.next[y]
  BY <1>3, LinkStores, StateTypes DEF TInv
<1>6. PICK k \in 1..n : r[k] = proc.t
  BY <1>2, <1>4, RingFacts DEF MemberPart
<1>7. /\ n \in Nat /\ k \in 0..n /\ k - 1 \in 0..n /\ k - 1 # k
      /\ \A i \in 0..n : r[i] \in Nodes /\ After(n, r, i) \in Nodes
      /\ \A i, j \in 0..n : r[i] = r[j] => i = j
  BY <1>2, RingFacts
<1>8. After(n, r, k - 1) = proc.t /\ r[k - 1] # proc.t
  BY <1>6, <1>7 DEF After
<1>9. proc.after = After(n, r, k) /\ links.prev[proc.after] = proc.before /\ proc.before = links.prev[proc.t]
  BY <1>2, <1>4, <1>6, <1>7 DEF CallPart, PrevPart, NextRing
<1>10. \A i \in 0..n : r[i] # proc.t => links.prev[After(n, r, i)] = r[i]
  BY <1>2, <1>4 DEF PrevPart
<1>11. proc.before = r[k - 1]
  BY <1>7, <1>8, <1>9, <1>10
<1>12. links'.next[r[k - 1]] = After(n, r, k) /\ links'.prev[After(n, r, k)] = r[k - 1]
  BY <1>5, <1>7, <1>9, <1>11
<1>13. \A i \in 0..n \ {k - 1, k} : links'.next[r[i]] = After(n, r, i) /\ links'.prev[After(n, r, i)] = r[i]
  <2> TAKE i \in 0..n \ {k - 1, k}
  <2>1. r[i] # r[k - 1] /\ r[i] # proc.t /\ r[i] \in Nodes
    BY <1>6, <1>7
  <2>2. links.next[r[i]] = After(n, r, i)
    BY <1>2 DEF NextRing
  <2> QED
    BY <1>5, <1>10, <1>11, <2>1, <2>2
<1> DEFINE q == Drop(n, r, k)
<1>14. NextRing(links'.next, n - 1, q) /\ PrevRing(links'.prev, n - 1, q)
  BY <1>2, <1>12, <1>13, DropLinks
<1>15. IsRing(n - 1, q) /\ Members(n - 1, q) = Members(n, r) \ {proc.t}
  BY <1>2, <1>6, DropRing
<1> HIDE DEF q
<1>16. PrevPart(n - 1, q)'
  BY <1>4, <1>14 DEF PrevPart, Linking
<1>17. CallPart(n - 1, q)'
  BY <1>4 DEF CallPart, Linking
<1>18. MemberPart(n - 1, q)'
  BY <1>2, <1>3, <1>4, <1>15 DEF MemberPart, Linking, Unlinked
<1>19. CountPart(n - 1)'
  BY <1>2, <1>3, <1>4, <1>7 DEF CountPart, Unlinked
<1>20. WalkPart(n - 1, q)'
  BY <1>1, <1>4, ExecWalk
<1>21. RingInv(n - 1, q)'
  BY <1>14, <1>15, <1>16, <1>17, <1>18, <1>19, <1>20 DEF RingInv
<1> QED
  BY <1>21, ListIntro

\* list_del clears the links of the timer that is off the list.
LEMMA NullList ==
    ASSUME TInv, ListInv, harm = {}, proc.t \in Timers,
           \/ StoreLink("null_next", "null_prev", L!SetNext(links, proc.t, NULL))
           \/ StoreLink("null_prev", "inactive", L!SetPrev(links, proc.t, NULL))
    PROVE  ListInv'
<1>0. PICK n \in Nat : \E r \in [0..n -> Nodes] : RingInv(n, r)
  BY DEF ListInv
<1>1. PICK r \in [0..n -> Nodes] : RingInv(n, r)
  BY <1>0
<1>2. IsRing(n, r) /\ NextRing(links.next, n, r) /\ CountPart(n) /\ MemberPart(n, r) /\ PrevPart(n, r)
  BY <1>1 DEF RingInv
<1>3. /\ proc.pc \in {"null_next", "null_prev"} /\ proc'.pc \in {"null_prev", "inactive"}
      /\ proc'.t = proc.t /\ ~walk.on /\ UNCHANGED <<walk, timer, count>>
  <2>1. CASE StoreLink("null_next", "null_prev", L!SetNext(links, proc.t, NULL))
    BY <2>1, StoreFacts DEF StoreLink, PCs
  <2>2. CASE StoreLink("null_prev", "inactive", L!SetPrev(links, proc.t, NULL))
    BY <2>2, StoreFacts DEF StoreLink, PCs
  <2> QED
    BY <2>1, <2>2
<1>4. proc.t \notin Members(n, r) /\ PrevRing(links.prev, n, r)
  BY <1>2, <1>3 DEF MemberPart, PrevPart, Unlinked, Linking
<1>5. \A y \in Nodes \ {proc.t} : links'.next[y] = links.next[y] /\ links'.prev[y] = links.prev[y]
  BY LinkStores, StateTypes DEF TInv, StoreLink
<1>6. \A i \in 0..n : r[i] \in Nodes \ {proc.t} /\ After(n, r, i) \in Nodes \ {proc.t}
  BY <1>2, <1>4, Outside, RingFacts
<1>7. NextRing(links'.next, n, r) /\ PrevRing(links'.prev, n, r)
  BY <1>2, <1>4, <1>5, <1>6 DEF NextRing, PrevRing
<1>8. PrevPart(n, r)'
  BY <1>3, <1>7 DEF PrevPart, Linking
<1>9. CallPart(n, r)'
  BY <1>3 DEF CallPart, Linking
<1>10. MemberPart(n, r)' /\ CountPart(n)'
  BY <1>2, <1>3 DEF MemberPart, CountPart, Linking, Unlinked
<1>11. WalkPart(n, r)'
  BY <1>1, <1>3, ExecWalk
<1> QED
  BY <1>2, <1>7, <1>8, <1>9, <1>10, <1>11, ListIntro DEF RingInv

\* __list_add: the stores before prev->next = new touch no link of the ring
\* but the head's prev.
LEMMA LinkingList ==
    ASSUME TInv, ListInv, harm = {}, proc.t \in Timers,
           \/ StoreLink("add_prev", "new_next", L!SetPrev(links, timer_list, proc.t))
           \/ StoreLink("new_next", "new_prev", L!SetNext(links, proc.t, timer_list))
           \/ StoreLink("new_prev", "add_next", L!SetPrev(links, proc.t, proc.before))
    PROVE  ListInv'
<1>0. PICK n \in Nat : \E r \in [0..n -> Nodes] : RingInv(n, r)
  BY DEF ListInv
<1>1. PICK r \in [0..n -> Nodes] : RingInv(n, r)
  BY <1>0
<1>2. IsRing(n, r) /\ NextRing(links.next, n, r) /\ CountPart(n) /\ CallPart(n, r) /\ MemberPart(n, r)
      /\ PrevPart(n, r) /\ links \in Links
  BY <1>1, StateTypes DEF RingInv, TInv
<1> DEFINE S1 == StoreLink("add_prev", "new_next", L!SetPrev(links, timer_list, proc.t))
<1> DEFINE S2 == StoreLink("new_next", "new_prev", L!SetNext(links, proc.t, timer_list))
<1> DEFINE S3 == StoreLink("new_prev", "add_next", L!SetPrev(links, proc.t, proc.before))
<1>3. /\ proc.pc \in {"add_prev"} \cup Linking /\ proc'.pc \in Linking
      /\ proc'.t = proc.t /\ proc'.before = proc.before /\ ~walk.on /\ UNCHANGED <<walk, timer, count>>
  <2>1. CASE S1
    BY <2>1, StoreFacts DEF StoreLink, PCs, Linking
  <2>2. CASE S2
    BY <2>2, StoreFacts DEF StoreLink, PCs, Linking
  <2>3. CASE S3
    BY <2>3, StoreFacts DEF StoreLink, PCs, Linking
  <2> QED
    BY <2>1, <2>2, <2>3
<1>4. proc.t \notin Members(n, r) /\ proc.before = r[n]
  BY <1>2, <1>3 DEF MemberPart, CallPart, Linking
<1>5. \A i \in 0..n : r[i] \in Nodes \ {proc.t}
  BY <1>2, <1>4, Outside, RingFacts
<1>6. \A i \in 0..n - 1 : i + 1 \in 0..n /\ i \in 0..n /\ r[i + 1] # timer_list /\ After(n, r, i) = r[i + 1]
  <2> TAKE i \in 0..n - 1
  <2>1. i + 1 \in 0..n /\ i \in 0..n /\ i # n /\ i + 1 # 0 /\ 0 \in 0..n
    OBVIOUS
  <2> QED
    BY <1>2, <2>1, RingFacts DEF After
<1>7. \A i \in 0..n - 1 : links.prev[r[i + 1]] = r[i]
  <2>1. CASE proc.pc \in Linking
    BY <1>2, <2>1 DEF PrevPart
  <2>2. CASE proc.pc = "add_prev"
    <3>1. PrevRing(links.prev, n, r)
      BY <1>2, <2>2 DEF PrevPart, Linking
    <3> QED
      BY <1>6, <3>1 DEF PrevRing
  <2> QED
    BY <1>3, <2>1, <2>2
<1>8. /\ \A y \in Nodes \ {proc.t} : links'.next[y] = links.next[y]
      /\ \A y \in Nodes \ {proc.t, timer_list} : links'.prev[y] = links.prev[y]
  BY <1>2, LinkStores DEF StoreLink
<1>9. links'.prev[timer_list] = proc.t
  <2>1. CASE S1
    BY <1>2, <2>1, LinkStores, Names DEF StoreLink
  <2>2. CASE S2
    <3>1. links.prev[timer_list] = proc.t
      BY <1>2, <2>2, StoreFacts DEF StoreLink, PCs, PrevPart, Linking
    <3> QED
      BY <1>2, <2>2, <3>1, LinkStores DEF StoreLink
  <2>3. CASE S3
    <3>1. links.prev[timer_list] = proc.t
      BY <1>2, <2>3, StoreFacts DEF StoreLink, PCs, PrevPart, Linking
    <3> QED
      BY <1>2, <2>3, <3>1, LinkStores, Names DEF StoreLink
  <2> QED
    BY <2>1, <2>2, <2>3
<1>10. NextRing(links'.next, n, r)
  BY <1>2, <1>5, <1>8 DEF NextRing
<1>11. \A i \in 0..n - 1 : links'.prev[r[i + 1]] = r[i]
  BY <1>5, <1>6, <1>7, <1>8
<1>12. PrevPart(n, r)'
  BY <1>3, <1>9, <1>11 DEF PrevPart, Linking
<1>13. CallPart(n, r)'
  <2>1. CASE S1
    <3>1. proc'.pc = "new_next"
      BY <2>1, StoreFacts DEF StoreLink, PCs
    <3> QED
      BY <1>3, <1>4, <3>1 DEF CallPart, Linking
  <2>2. CASE S2
    <3>1. proc'.pc = "new_prev"
      BY <2>2, StoreFacts DEF StoreLink, PCs
    <3>2. links'.next[proc.t] = timer_list
      BY <1>2, <2>2, LinkStores, Names DEF StoreLink
    <3> QED
      BY <1>3, <1>4, <3>1, <3>2 DEF CallPart, Linking
  <2>3. CASE S3
    <3>1. proc'.pc = "add_next" /\ proc.pc = "new_prev"
      BY <2>3, StoreFacts DEF StoreLink, PCs
    <3>2. links.next[proc.t] = timer_list
      BY <1>2, <3>1 DEF CallPart
    <3>3. links'.next[proc.t] = timer_list /\ links'.prev[proc.t] = proc.before
      BY <1>2, <2>3, <3>2, LinkStores, Names DEF StoreLink
    <3> QED
      BY <1>3, <1>4, <3>1, <3>3 DEF CallPart, Linking
  <2> QED
    BY <2>1, <2>2, <2>3
<1>14. MemberPart(n, r)' /\ CountPart(n)'
  BY <1>2, <1>3, <1>4 DEF MemberPart, CountPart, Linking, Unlinked
<1>15. WalkPart(n, r)'
  BY <1>1, <1>3, ExecWalk
<1> QED
  BY <1>2, <1>10, <1>12, <1>13, <1>14, <1>15, ListIntro DEF RingInv

\* __list_add: prev->next = new, and the timer is on the list.
LEMMA LinkedList ==
    ASSUME TInv, ListInv, harm = {}, proc.t \in Timers,
           StoreLink("add_next", "active", L!SetNext(links, proc.before, proc.t))
    PROVE  ListInv'
<1>0. PICK n \in Nat : \E r \in [0..n -> Nodes] : RingInv(n, r)
  BY DEF ListInv
<1>1. PICK r \in [0..n -> Nodes] : RingInv(n, r)
  BY <1>0
<1>2. IsRing(n, r) /\ NextRing(links.next, n, r) /\ CountPart(n) /\ CallPart(n, r) /\ MemberPart(n, r)
      /\ PrevPart(n, r)
  BY <1>1 DEF RingInv
<1>3. /\ Exec("add_next", "active", proc) /\ links' = L!SetNext(links, proc.before, proc.t)
      /\ UNCHANGED <<timer, count>>
  BY DEF StoreLink
<1>4. proc.pc = "add_next" /\ proc'.pc = "active" /\ proc'.t = proc.t /\ ~walk.on /\ UNCHANGED walk
  BY <1>3, StoreFacts DEF PCs
<1>5. /\ links'.prev = links.prev
      /\ \A y \in Nodes : links'.next[y] = IF y = proc.before THEN proc.t ELSE links.next[y]
  BY <1>3, LinkStores, StateTypes DEF TInv
<1>6. /\ proc.before = r[n] /\ links.next[proc.t] = timer_list /\ links.prev[proc.t] = proc.before
      /\ proc.t \notin Members(n, r) /\ links.prev[timer_list] = proc.t
      /\ \A i \in 0..n - 1 : links.prev[r[i + 1]] = r[i]
  BY <1>2, <1>4 DEF CallPart, MemberPart, PrevPart, Linking
<1>7. /\ n \in Nat /\ n \in 0..n
      /\ \A i \in 0..n : r[i] \in Nodes /\ r[i] # proc.t
      /\ \A i, j \in 0..n : r[i] = r[j] => i = j
  BY <1>2, <1>6, Outside, RingFacts, SMTT(30)
<1>8. links'.next[r[n]] = proc.t /\ links'.next[proc.t] = timer_list
  BY <1>5, <1>6, <1>7, Names
<1>9. \A i \in 0..n - 1 : links'.next[r[i]] = After(n, r, i) /\ links'.prev[After(n, r, i)] = r[i]
  <2> TAKE i \in 0..n - 1
  <2>1. i \in 0..n /\ i # n /\ After(n, r, i) = r[i + 1]
    BY <1>7 DEF After
  <2>2. r[i] # r[n] /\ r[i] \in Nodes /\ links.next[r[i]] = After(n, r, i)
    BY <1>2, <1>7, <2>1 DEF NextRing
  <2> QED
    BY <1>5, <1>6, <2>1, <2>2
<1>9a. PICK t \in Timers : t = proc.t
  OBVIOUS
<1> DEFINE q == Push(n, r, t)
<1>10. NextRing(links'.next, n + 1, q) /\ PrevRing(links'.prev, n + 1, q)
  BY <1>2, <1>5, <1>6, <1>8, <1>9, <1>9a, PushLinks
<1>11. IsRing(n + 1, q) /\ Members(n + 1, q) = Members(n, r) \cup {proc.t}
  BY <1>2, <1>6, <1>9a, PushRing
<1> HIDE DEF q
<1>12. PrevPart(n + 1, q)'
  BY <1>4, <1>10 DEF PrevPart, Linking
<1>13. CallPart(n + 1, q)'
  BY <1>4 DEF CallPart, Linking
<1>14. MemberPart(n + 1, q)'
  BY <1>2, <1>3, <1>4, <1>11 DEF MemberPart, Linking, Unlinked
<1>15. CountPart(n + 1)'
  BY <1>2, <1>3, <1>4, <1>7 DEF CountPart, Unlinked, Linking
<1>16. WalkPart(n + 1, q)'
  BY <1>1, <1>4, ExecWalk
<1>17. RingInv(n + 1, q)'
  BY <1>10, <1>11, <1>12, <1>13, <1>14, <1>15, <1>16 DEF RingInv
<1> QED
  BY <1>17, ListIntro

\* active follows the list.
LEMMA ActiveList ==
    ASSUME TInv, ListInv, harm = {}, proc.t \in Timers,
           \/ StoreActive("inactive", "dec_load", FALSE)
           \/ StoreActive("active", "inc_load", TRUE)
    PROVE  ListInv'
<1>0. PICK n \in Nat : \E r \in [0..n -> Nodes] : RingInv(n, r)
  BY DEF ListInv
<1>1. PICK r \in [0..n -> Nodes] : RingInv(n, r)
  BY <1>0
<1>2. IsRing(n, r) /\ NextRing(links.next, n, r) /\ CountPart(n) /\ MemberPart(n, r) /\ PrevPart(n, r)
      /\ timer \in [Timers -> TimerRecs]
  BY <1>1, StateTypes DEF RingInv, TInv
<1>3. ASSUME NEW from, NEW to, NEW value \in BOOLEAN, StoreActive(from, to, value),
             \/ from = "inactive" /\ to = "dec_load" /\ ~value
             \/ from = "active" /\ to = "inc_load" /\ value
      PROVE  RingInv(n, r)'
  <2>1. /\ Exec(from, to, proc) /\ timer' = [timer EXCEPT ![proc.t].active = value]
        /\ UNCHANGED <<links, count>>
    BY <1>3 DEF StoreActive
  <2>2. /\ proc.pc = from /\ proc'.pc = to /\ proc'.t = proc.t /\ ~walk.on /\ UNCHANGED walk
    BY <1>3, <2>1, StoreFacts DEF PCs
  <2>3. (timer'[proc.t].active <=> value) /\ \A t \in Timers \ {proc.t} : timer'[t] = timer[t]
    BY <1>2, <2>1 DEF TimerRecs
  <2>4. PrevPart(n, r)'
    BY <1>2, <1>3, <2>1, <2>2 DEF PrevPart, Linking
  <2>5. CallPart(n, r)'
    BY <1>3, <2>2 DEF CallPart, Linking
  <2>6. proc.t \in Members(n, r) <=> value
    BY <1>2, <1>3, <2>2 DEF MemberPart, Unlinked
  <2>7. \A t \in Timers \ {proc.t} : timer[t].active <=> t \in Members(n, r)
    BY <1>2 DEF MemberPart
  <2>8. \A t \in Timers : timer'[t].active <=> t \in Members(n, r)
    BY <2>3, <2>6, <2>7
  <2>9. MemberPart(n, r)'
    BY <1>3, <2>2, <2>8 DEF MemberPart, Linking, Unlinked
  <2>10. CountPart(n)'
    BY <1>2, <1>3, <2>1, <2>2 DEF CountPart, Unlinked
  <2>11. WalkPart(n, r)'
    BY <1>1, <2>2, ExecWalk
  <2> QED
    BY <1>2, <2>1, <2>4, <2>5, <2>9, <2>10, <2>11 DEF RingInv
<1> QED
  BY <1>3, ListIntro

\* The callbacks and timer_wait leave the list alone.
LEMMA CallbackList ==
    ASSUME TInv, ListInv, harm = {}, NEW c \in Callers, CallSteps(c)
    PROVE  ListInv'
<1>0. PICK n \in Nat : \E r \in [0..n -> Nodes] : RingInv(n, r)
  BY DEF ListInv
<1>1. PICK r \in [0..n -> Nodes] : RingInv(n, r)
  BY <1>0
<1>2. ASSUME NEW from, NEW to, NEW rec, Call(c, from, to, rec)
      PROVE  ~walk.on /\ UNCHANGED <<links, timer, count, clock, walk, proc>>
  BY <1>2 DEF Call
<1>3. ~walk.on /\ UNCHANGED <<links, timer, count, clock, walk, proc>>
  <2>1. ASSUME NEW i \in Slots, NEW interval \in Intervals, timer_register_callback(c, i, interval)
        PROVE  <1>3!:
    BY <1>2, <2>1 DEF timer_register_callback
  <2>2. ASSUME NEW i \in Slots, timer_unregister_callback(c, i)
        PROVE  <1>3!:
    BY <1>2, <2>2 DEF timer_unregister_callback
  <2>3. CASE RegisterSteps(c) \/ ClearCallback(c)
    BY <1>2, <2>3 DEF RegisterSteps, StoreNextTick, StoreSlot, ClearCallback
  <2>4. ASSUME NEW ticks \in Waits, timer_wait(c, ticks)
        PROVE  <1>3!:
    BY <1>2, <2>4 DEF timer_wait
  <2>5. CASE WaitReturns(c)
    BY <1>2, <2>5 DEF WaitReturns
  <2> QED
    BY <2>1, <2>2, <2>3, <2>4, <2>5 DEF CallSteps
<1>4. WalkPart(n, r)'
  BY <1>1, <1>3, ExecWalk
<1> QED
  BY <1>1, <1>3, <1>4, WalkOnly, ListIntro

\* Each store of the process's del_timer keeps the invariant.
LEMMA DelList ==
    ASSUME TInv, ListInv, harm = {}, proc.t \in Timers, DelSteps
    PROVE  ListInv'
<1>0. /\ proc \in Procs /\ links \in Links /\ count \in Int
      /\ links.next[proc.t] \in Addrs /\ links.prev[proc.t] \in Addrs
  BY StateTypes, Names DEF TInv, Links
<1>1. ASSUME timer[proc.t].active, Load("del", "del_next", [proc EXCEPT !.after = links.next[proc.t]])
      PROVE  ListInv'
  <2> DEFINE p == [proc EXCEPT !.after = links.next[proc.t]]
  <2>1. p \in Procs /\ p.t = proc.t /\ p.after = links.next[proc.t]
    BY <1>0 DEF Procs
  <2> HIDE DEF p
  <2>2. Load("del", "del_next", p)
    BY <1>1 DEF p
  <2>3. LoadCase("del", "del_next", p)
    BY <1>1, <2>1 DEF LoadCase
  <2> QED
    BY <2>1, <2>2, <2>3, LoadList
<1>2. ASSUME Load("del", IF proc.mod THEN "arm" ELSE "idle", proc) PROVE ListInv'
  <2> DEFINE to == IF proc.mod THEN "arm" ELSE "idle"
  <2>1. to \in {"arm", "idle"}
    OBVIOUS
  <2> HIDE DEF to
  <2>2. LoadCase("del", to, proc)
    BY <2>1 DEF LoadCase
  <2> QED
    BY <1>0, <1>2, <2>2, LoadList DEF to
<1>3. ASSUME Load("del_next", "del_prev", [proc EXCEPT !.before = links.prev[proc.t]]) PROVE ListInv'
  <2> DEFINE p == [proc EXCEPT !.before = links.prev[proc.t]]
  <2>1. p \in Procs /\ p.t = proc.t /\ p.after = proc.after /\ p.before = links.prev[proc.t]
    BY <1>0 DEF Procs
  <2> HIDE DEF p
  <2>2. Load("del_next", "del_prev", p)
    BY <1>3 DEF p
  <2>3. LoadCase("del_next", "del_prev", p)
    BY <2>1 DEF LoadCase
  <2> QED
    BY <2>1, <2>2, <2>3, LoadList
<1>4. ASSUME Load("dec_load", "dec", [proc EXCEPT !.count = count]) PROVE ListInv'
  <2> DEFINE p == [proc EXCEPT !.count = count]
  <2>1. p \in Procs /\ p.t = proc.t /\ p.count = count
    BY <1>0 DEF Procs
  <2> HIDE DEF p
  <2>2. Load("dec_load", "dec", p)
    BY <1>4 DEF p
  <2>3. LoadCase("dec_load", "dec", p)
    BY <2>1 DEF LoadCase
  <2> QED
    BY <2>1, <2>2, <2>3, LoadList
<1> QED
  BY <1>1, <1>2, <1>3, <1>4, DelPrevList, DelBypassList, NullList, ActiveList, CountList DEF DelSteps

\* Each store of the process's add_timer keeps the invariant.
LEMMA AddList ==
    ASSUME TInv, ListInv, harm = {}, proc.t \in Timers, AddSteps
    PROVE  ListInv'
<1>0. proc \in Procs /\ links \in Links /\ count \in Int /\ links.prev[timer_list] \in Addrs
  BY StateTypes, Names DEF TInv, Links
<1>1. ASSUME Load("add", "idle", proc) PROVE ListInv'
  BY <1>0, <1>1, LoadList DEF LoadCase
<1>2. ASSUME ~timer[proc.t].active, Load("add", "add_load", proc) PROVE ListInv'
  BY <1>0, <1>2, LoadList DEF LoadCase
<1>3. ASSUME Load("add_load", "add_prev", [proc EXCEPT !.before = links.prev[timer_list]]) PROVE ListInv'
  <2> DEFINE p == [proc EXCEPT !.before = links.prev[timer_list]]
  <2>1. p \in Procs /\ p.t = proc.t /\ p.before = links.prev[timer_list]
    BY <1>0 DEF Procs
  <2> HIDE DEF p
  <2>2. Load("add_load", "add_prev", p)
    BY <1>3 DEF p
  <2>3. LoadCase("add_load", "add_prev", p)
    BY <2>1 DEF LoadCase
  <2> QED
    BY <2>1, <2>2, <2>3, LoadList
<1>4. ASSUME Load("inc_load", "inc", [proc EXCEPT !.count = count]) PROVE ListInv'
  <2> DEFINE p == [proc EXCEPT !.count = count]
  <2>1. p \in Procs /\ p.t = proc.t /\ p.count = count
    BY <1>0 DEF Procs
  <2> HIDE DEF p
  <2>2. Load("inc_load", "inc", p)
    BY <1>4 DEF p
  <2>3. LoadCase("inc_load", "inc", p)
    BY <2>1 DEF LoadCase
  <2> QED
    BY <2>1, <2>2, <2>3, LoadList
<1> QED
  BY <1>1, <1>2, <1>3, <1>4, LinkingList, LinkedList, ActiveList, CountList DEF AddSteps

\* timer_init makes the empty ring.
LEMMA InitListInv == Init => ListInv
<1> SUFFICES ASSUME Init PROVE ListInv
  OBVIOUS
<1> DEFINE r == [i \in 0..0 |-> timer_list]
<1>1. /\ links = L!INIT_LIST_HEAD /\ timer = [t \in Timers |-> [active |-> FALSE, expires |-> 0]]
      /\ count = 0 /\ walk = NoWalk /\ proc = Idle
  BY DEF Init
<1>2. r \in [0..0 -> Nodes] /\ r[0] = timer_list /\ \A i \in 0..0 : i = 0
  BY Names
<1> HIDE DEF r
<1>3. IsRing(0, r)
  BY <1>2 DEF IsRing
<1>4. links.next[timer_list] = timer_list /\ links.prev[timer_list] = timer_list
  BY <1>1, Names DEF L!INIT_LIST_HEAD
<1>5. NextRing(links.next, 0, r) /\ PrevRing(links.prev, 0, r)
  BY <1>2, <1>4 DEF NextRing, PrevRing, After
<1>6. Members(0, r) = {}
  BY DEF Members
<1>7. proc.pc = "idle" /\ proc.t = NULL /\ ~walk.on /\ walk.pos = timer_list
  BY <1>1 DEF Idle, NoWalk
<1>8. PrevPart(0, r) /\ CallPart(0, r) /\ CountPart(0) /\ WalkPart(0, r)
  BY <1>1, <1>5, <1>7 DEF PrevPart, CallPart, CountPart, WalkPart, Linking, Unlinked
<1>9. \A t \in Timers : ~timer[t].active
  BY <1>1
<1>10. MemberPart(0, r)
  BY <1>6, <1>7, <1>9 DEF MemberPart, Linking, Unlinked
<1>11. RingInv(0, r)
  BY <1>3, <1>5, <1>8, <1>10 DEF RingInv
<1> QED
  BY <1>2, <1>11 DEF ListInv

\* Every step keeps the list's invariant.
LEMMA StepListInv == TInv /\ ListInv /\ [Next]_vars => ListInv'
<1> SUFFICES ASSUME TInv, ListInv, [Next]_vars PROVE ListInv'
  OBVIOUS
<1>1. CASE UNCHANGED vars
  <2>1. UNCHANGED <<links, timer, count, clock, walk, proc, wrapped, harm, due>>
    BY <1>1 DEF vars
  <2>2. CASE harm # {}
    BY <2>1, <2>2 DEF ListInv
  <2>3. CASE harm = {}
    <3>0. PICK n \in Nat : \E r \in [0..n -> Nodes] : RingInv(n, r)
      BY <2>3 DEF ListInv
    <3>1. PICK r \in [0..n -> Nodes] : RingInv(n, r)
      BY <3>0
    <3>2. WalkPart(n, r)'
      BY <2>1, <3>1 DEF RingInv, WalkPart, Passed, Late, Mem
    <3> QED
      BY <2>1, <3>1, <3>2, WalkOnly, ListIntro
  <2> QED
    BY <2>2, <2>3
<1>2. CASE Handler
  BY <1>2, WalkList, ExpireList DEF Handler
<1>3. CASE harm = {} /\ Process
  BY <1>3, BeginList, DelList, CountList, AddList DEF Process
<1>4. ASSUME harm = {}, NEW c \in Callers, CallSteps(c) PROVE ListInv'
  BY <1>4, CallbackList
<1>5. CASE Preempted
  <2>1. "preempted" \in harm'
    BY <1>5 DEF Preempted
  <2> QED
    BY <2>1 DEF ListInv
<1> QED
  BY <1>1, <1>2, <1>3, <1>4, <1>5 DEF Next, Damaged

\* The list's invariant holds of every state.
LEMMA ListInvariant == Spec => [](TInv /\ ListInv)
BY InitTInv, InitListInv, StepTInv, StepListInv, PTL DEF Spec

\* As many timers as places on the ring.
LEMMA CountMembers ==
    ASSUME NEW n, NEW r, IsRing(n, r)
    PROVE  Cardinality(Members(n, r)) = n
<1> DEFINE T == Members(n, r)
<1> DEFINE f == [i \in 1..n |-> r[i]]
<1>1. n \in Nat /\ \A i, j \in 0..n : r[i] = r[j] => i = j
  BY RingFacts
<1>2. \A i \in 1..n : i \in 0..n
  BY <1>1
<1>3. f \in Bijection(1..n, T)
  <2>1. f \in [1..n -> T] /\ \A t \in T : \E i \in 1..n : f[i] = t
    BY DEF Members
  <2>2. \A i, j \in 1..n : f[i] = f[j] => i = j
    BY <1>1, <1>2
  <2> QED
    BY <2>1, <2>2 DEF Bijection, Injection, Surjection, IsInjective
<1>4. ExistsBijection(1..n, T)
  BY <1>3 DEF ExistsBijection
<1>5. IsFiniteSet(1..n) /\ Cardinality(1..n) = n
  BY <1>1, FS_Interval
<1> QED
  BY <1>4, <1>5, FS_Bijection

\* A ring of nodes is what Spells says of the sequence of its timers.
LEMMA RingSpells ==
    ASSUME NEW n, NEW r, IsRing(n, r), NextRing(links.next, n, r), PrevRing(links.prev, n, r),
           NEW s, s = [i \in 1..n |-> r[i]]
    PROVE  L!Spells(links, timer_list, s)
<1>1. n \in Nat /\ r[0] = timer_list /\ \A i \in 1..n : r[i] \in Timers
  BY RingFacts
<1>2. s \in Seq(Nodes) /\ Len(s) = n
  BY <1>1 DEF Nodes
<1> DEFINE ring == <<timer_list>> \o s
<1>3. Len(ring) = n + 1 /\ \A i \in 1..n + 1 : ring[i] = IF i = 1 THEN timer_list ELSE s[i - 1]
  BY <1>1, <1>2
<1> HIDE DEF ring
<1>4. \A i \in 1..n + 1 : i - 1 \in 0..n /\ ring[i] = r[i - 1]
  BY <1>1, <1>3
<1>5. ASSUME NEW i \in 1..n + 1
      PROVE  ring[IF i = n + 1 THEN 1 ELSE i + 1] = After(n, r, i - 1)
  <2>1. CASE i = n + 1
    <3>1. ring[1] = timer_list
      BY <1>1, <1>3
    <3> QED
      BY <1>1, <2>1, <3>1 DEF After
  <2>2. CASE i # n + 1
    <3>1. i + 1 \in 1..n + 1 /\ i - 1 # n /\ i + 1 - 1 = i - 1 + 1
      BY <1>1, <2>2
    <3>2. ring[i + 1] = r[i - 1 + 1]
      BY <1>4, <3>1
    <3> QED
      BY <2>2, <3>1, <3>2 DEF After
  <2> QED
    BY <2>1, <2>2
<1>6. \A i \in 1..n + 1 :
        /\ links.next[ring[i]] = ring[IF i = n + 1 THEN 1 ELSE i + 1]
        /\ links.prev[ring[IF i = n + 1 THEN 1 ELSE i + 1]] = ring[i]
  BY <1>4, <1>5 DEF NextRing, PrevRing
<1> QED
  BY <1>3, <1>6, ZenonT(60) DEF L!Spells, ring

(***************************************************************************)
(* Whatever the order of the stores and the interrupts, until a timer      *)
(* expires inside a call, a function moves the saved timer or two          *)
(* processes' calls overlap (harm), the walk of ktimer_run meets only      *)
(* nodes, and between calls the links spell a ring of exactly the active   *)
(* timers, with active_timer_count their number.                           *)
(***************************************************************************)
THEOREM TimersListSound == Spec => []TimerListSound
<1>1. TInv /\ ListInv => TimerListSound
  <2> SUFFICES ASSUME TInv, ListInv, harm = {}
               PROVE  /\ walk.pos \in Nodes
                      /\ proc.pc = "idle" =>
                            /\ \E s \in SetToSeqs(Active) : L!Spells(links, timer_list, s)
                            /\ count = Cardinality(Active)
    BY DEF TimerListSound
  <2>0. PICK n \in Nat : \E r \in [0..n -> Nodes] : RingInv(n, r)
    BY DEF ListInv
  <2>1. PICK r \in [0..n -> Nodes] : RingInv(n, r)
    BY <2>0
  <2>2. IsRing(n, r) /\ NextRing(links.next, n, r) /\ PrevPart(n, r) /\ MemberPart(n, r)
        /\ CountPart(n) /\ WalkPart(n, r)
    BY <2>1 DEF RingInv
  <2>3. walk.pos \in Nodes
    BY <2>2, RingFacts, Names DEF WalkPart
  <2>4. ASSUME proc.pc = "idle"
        PROVE  /\ \E s \in SetToSeqs(Active) : L!Spells(links, timer_list, s)
               /\ count = Cardinality(Active)
    <3>1. proc.pc \in Plain
      BY <2>4 DEF Plain, PCs, Linking, Unlinked
    <3>2. Active = Members(n, r)
      BY <2>1, <2>2, <3>1, RingMembers, RingFacts DEF Active
    <3>3. count = n /\ PrevRing(links.prev, n, r)
      BY <2>2, <2>4 DEF CountPart, PrevPart, Linking, Unlinked
    <3>4. Cardinality(Active) = n
      BY <2>2, <3>2, CountMembers
    <3> DEFINE s == [i \in 1..n |-> r[i]]
    <3>5. L!Spells(links, timer_list, s)
      BY <2>2, <3>3, RingSpells
    <3>6. s \in SetToSeqs(Active)
      <4>1. s \in [1..n -> Active]
        BY <3>2 DEF Members
      <4>2. \A i, j \in 1..n : i # j => s[i] # s[j]
        <5>1. \A i \in 1..n : i \in 0..n
          OBVIOUS
        <5> QED
          BY <2>2, <5>1, RingFacts
      <4> QED
        BY <3>4, <4>1, <4>2 DEF SetToSeqs
    <3> QED
      BY <3>3, <3>4, <3>5, <3>6
  <2> QED
    BY <2>3, <2>4
<1> QED
  BY <1>1, ListInvariant, PTL

(***************************************************************************)
(* ktimer_run leaves no timer that is due behind it, and runs none before  *)
(* its delay is over, unless the deadline was computed past the end of     *)
(* jiffies.                                                                *)
(***************************************************************************)
THEOREM TimersArePunctual == Spec => []TimersPunctual
<1>1. TInv /\ ListInv => TimersPunctual
  <2> SUFFICES ASSUME TInv, ListInv, harm = {}, walk.on
               PROVE  /\ walk.pos = timer_list =>
                            \A t \in Active \ wrapped :
                                t # proc.t => timer[t].expires > clock.jiffies
                      /\ walk.pos \in Active \ wrapped /\ timer[walk.pos].expires <= clock.jiffies =>
                            due[walk.pos] = 0
    BY DEF TimersPunctual
  <2>0. PICK n \in Nat : \E r \in [0..n -> Nodes] : RingInv(n, r)
    BY DEF ListInv
  <2>1. PICK r \in [0..n -> Nodes] : RingInv(n, r)
    BY <2>0
  <2>2. IsRing(n, r) /\ MemberPart(n, r) /\ WalkPart(n, r)
    BY <2>1 DEF RingInv
  <2>3. PICK k \in 0..n : walk.pos = r[k] /\ Passed(Mem, n, r, k)
    BY <2>2 DEF WalkPart
  <2>4. ASSUME walk.pos = timer_list, NEW t \in Active \ wrapped, t # proc.t
        PROVE  timer[t].expires > clock.jiffies
    <3>0. r[0] = timer_list /\ 0 \in 0..n /\ \A i, j \in 0..n : r[i] = r[j] => i = j
      BY <2>2, RingFacts
    <3>1. k = 0
      BY <2>3, <2>4, <3>0
    <3>2. t \in Timers /\ t \in Members(n, r)
      BY <2>2, <2>4 DEF MemberPart, Active
    <3>3. PICK i \in 1..n : r[i] = t
      BY <3>2 DEF Members
    <3>4. Late(Mem, t)
      BY <2>3, <3>1, <3>3 DEF Passed
    <3> QED
      BY <2>4, <3>4 DEF Late, Mem
  <2>5. ASSUME walk.pos \in Active \ wrapped, timer[walk.pos].expires <= clock.jiffies
        PROVE  due[walk.pos] = 0
    <3>1. walk.pos \in Timers /\ walk.pos \notin wrapped
      BY <2>5 DEF Active
    <3>2. due[walk.pos] = 0 \/ timer[walk.pos].expires = clock.tick + due[walk.pos]
      BY <3>1 DEF TInv, OnTime
    <3>3. due[walk.pos] \in Nat /\ clock.tick = clock.jiffies /\ clock.tick \in Int
      BY <3>1, StateTypes, Names DEF TInv, Times
    <3> QED
      BY <2>5, <3>2, <3>3
  <2> QED
    BY <2>4, <2>5
<1> QED
  BY <1>1, ListInvariant, PTL

-----------------------------------------------------------------------------
(***************************************************************************)
(* The work queue.  Two threads may tear the list: works get lost.  What   *)
(* survives is that nothing points to a work that is not in the queue and  *)
(* linked, and that no two links point to the same work, so that the walk  *)
(* from the head meets each work once.                                     *)
(***************************************************************************)
Adding   == {"add_read", "add_head_prev", "add_next", "add_prev", "add_link"}
Reached  == Adding \cup {"set_pending"}
Removing == {"del_read_next", "del_read_prev", "del_prev", "del_next"}
Removed  == {"null_next", "null_prev", "clear_pending"}

Local == [pc : Labels, arg : Works \cup {Null}, work : Works \cup {Null},
          before : QueueNodes \cup {Null}, after : QueueNodes \cup {Null}, count : Int]

QueueMemory == [next : [QueueNodes -> QueueNodes \cup {Null}], prev : [QueueNodes -> QueueNodes \cup {Null}],
                pending : [Works -> BOOLEAN], count : Int]

QueueTypes ==
    /\ mem \in QueueMemory
    /\ local \in [Threads -> Local]
    /\ log \in [accepted : [Works -> Nat], dequeued : [Works -> Nat]]
    /\ local[Caller].pc \in Reached \cup {"inc_read", "inc_store", "idle", "flush"}
    /\ local[Worker].pc \in Labels \ {"idle", "flush"}

Within(t, places, w) == local[t].pc \in places /\ local[t].arg = w

QueuedWorks == {w \in Works : log.accepted[w] = log.dequeued[w] + 1}

\* Past the store that links it.
LinkedWorks == {w \in QueuedWorks : \A t \in Threads : ~Within(t, Adding, w)}

\* A work is in the queue at most once, and then it is pending or about to be.
Counted ==
    \A w \in Works :
        /\ w \notin QueuedWorks => log.accepted[w] = log.dequeued[w]
        /\ w \in QueuedWorks => mem.pending[w] \/ \E t \in Threads : Within(t, Reached, w)

AddSound ==
    \A t \in Threads :
        /\ local[t].pc \in Reached => local[t].arg \in Schedules[t]
        /\ local[t].pc \in Adding => local[t].arg \in QueuedWorks
        /\ local[t].pc \in Adding \ {"add_read"} => local[t].before \in QueueNodes
        /\ local[t].pc \in {"add_prev", "add_link"} =>
              mem.next[local[t].arg] \notin {Null, local[t].arg}
        /\ local[t].pc = "add_link" => mem.prev[local[t].arg] = local[t].before

HeadSound == mem.next[work_queue] # Null /\ mem.prev[work_queue] # Null

\* Nothing but INIT_WORK's own link leads to a work that is not linked.
PointsToLinked ==
    \A u \in QueueNodes : mem.next[u] \in Works /\ mem.next[u] # u => mem.next[u] \in LinkedWorks

LeadsOn == \A w \in LinkedWorks : mem.next[w] # Null

FirstSound == mem.next[work_queue] \in Works => mem.prev[mem.next[work_queue]] = work_queue

\* list_del copies a link before it clears the original.
OneLinkEach ==
    \A u, v \in QueueNodes :
        mem.next[u] = mem.next[v] /\ mem.next[u] \in LinkedWorks
        => u = v \/ (local[Worker].pc = "null_next" /\ local[Worker].work \in {u, v})

\* The work list_del takes out, and the neighbours it has read.
TakenSound ==
    local[Worker].pc \in Removing =>
        /\ local[Worker].work \in LinkedWorks
        /\ \A u \in QueueNodes \ {work_queue} : mem.next[u] # local[Worker].work

BeforeIsHead ==
    /\ local[Worker].pc \in {"del_read_next", "del_read_prev"} => mem.prev[local[Worker].work] = work_queue
    /\ local[Worker].pc \in {"del_prev", "del_next"} => local[Worker].before = work_queue

AfterSound ==
    /\ local[Worker].pc \in Removing \ {"del_read_next"} =>
          /\ local[Worker].after \in QueueNodes
          /\ local[Worker].after \in Works =>
                /\ local[Worker].after # local[Worker].work /\ local[Worker].after \in LinkedWorks
                /\ \A u \in QueueNodes \ {local[Worker].work} : mem.next[u] # local[Worker].after
    /\ local[Worker].pc = "del_next" /\ local[Worker].after \in Works =>
          mem.prev[local[Worker].after] = work_queue

RemovedOnce ==
    local[Worker].pc \in Removed =>
        /\ local[Worker].work \in Works \ QueuedWorks
        /\ mem.pending[local[Worker].work] \/ \E t \in Threads : Within(t, {"set_pending"}, local[Worker].work)

QInv ==
    /\ QueueTypes /\ Counted /\ AddSound
    /\ HeadSound /\ PointsToLinked /\ LeadsOn /\ FirstSound /\ OneLinkEach
    /\ TakenSound /\ BeforeIsHead /\ AfterSound /\ RemovedOnce

USE DEF Adding, Reached, Removing, Removed

\* One access: what it leaves in memory, and in the locals of the thread.
LEMMA AccessEffect ==
    ASSUME QueueTypes, NEW t \in Threads, NEW from, NEW to \in Labels, NEW m, NEW l \in Local,
           Access(t, from, to, m, l)
    PROVE  /\ local[t].pc = from /\ mem' = m
           /\ local' \in [Threads -> Local]
           /\ local'[t].pc = to /\ local'[t].arg = l.arg /\ local'[t].work = l.work
           /\ local'[t].before = l.before /\ local'[t].after = l.after
           /\ \A s \in Threads \ {t} : local'[s] = local[s]
<1>1. local[t].pc = from /\ mem' = m /\ local' = [local EXCEPT ![t] = [l EXCEPT !.pc = to]]
  BY DEF Access
<1>2. [l EXCEPT !.pc = to] \in Local
  BY DEF Local
<1>3. local \in [Threads -> Local]
  BY DEF QueueTypes
<1> QED
  BY <1>1, <1>2, <1>3 DEF Local

LEMMA StoreEffect ==
    ASSUME QueueTypes, NEW n \in QueueNodes \cup {Null}, NEW v \in QueueNodes \cup {Null}
    PROVE  /\ StoreNext(n, v) \in QueueMemory
           /\ \A x \in QueueNodes : StoreNext(n, v).next[x] = IF x = n THEN v ELSE mem.next[x]
           /\ StoreNext(n, v).prev = mem.prev /\ StoreNext(n, v).pending = mem.pending
           /\ StorePrev(n, v) \in QueueMemory
           /\ \A x \in QueueNodes : StorePrev(n, v).prev[x] = IF x = n THEN v ELSE mem.prev[x]
           /\ StorePrev(n, v).next = mem.next /\ StorePrev(n, v).pending = mem.pending
BY DEF QueueTypes, QueueMemory, StoreNext, StorePrev

LEMMA QueueFacts ==
    /\ work_queue \notin Works /\ Null \notin QueueNodes /\ Null \notin Works /\ Null # work_queue
    /\ QueueNodes = Works \cup {work_queue}
    /\ Caller # Worker /\ Threads = {Caller, Worker}
    /\ \A t \in Threads : Schedules[t] \subseteq Works
    /\ Schedules[Caller] \cap Schedules[Worker] = {}
BY WorkQueueAssumption DEF QueueNodes, Threads

\* A step that changes no link, no flag and no count of calls, at a place
\* where the thread has nothing in its hands.
LEMMA PlainStep ==
    ASSUME QInv, NEW t \in Threads, NEW to, NEW m, NEW l \in Local, Access(t, local[t].pc, to, m, l),
           log' = log, m \in QueueMemory, m.next = mem.next, m.prev = mem.prev, m.pending = mem.pending,
           {local[t].pc, to} \cap (Reached \cup Removing \cup Removed) = {},
           t = Caller => to \in {"inc_read", "inc_store", "idle", "flush"},
           t = Worker => to \in Labels \ {"idle", "flush"}
    PROVE  QInv'
<1>0. /\ QueueTypes /\ Counted /\ AddSound
      /\ HeadSound /\ PointsToLinked /\ LeadsOn /\ FirstSound /\ OneLinkEach
      /\ TakenSound /\ BeforeIsHead /\ AfterSound /\ RemovedOnce
  BY DEF QInv
<1>1. to \in Labels
  BY QueueFacts DEF Labels
<1>2. /\ mem' = m /\ local' \in [Threads -> Local] /\ local'[t].pc = to
      /\ \A s \in Threads \ {t} : local'[s] = local[s]
  BY <1>0, <1>1, AccessEffect
<1>3. QueueTypes'
  BY <1>0, <1>1, <1>2, QueueFacts DEF QueueTypes, Labels
<1>4. QueuedWorks' = QueuedWorks
  BY DEF QueuedWorks
<1>5. LinkedWorks' = LinkedWorks
  BY <1>2, <1>4 DEF LinkedWorks, Within
<1>6. Counted'
  <2>1. \A s \in Threads, w \in Works : Within(s, Reached, w) => Within(s, Reached, w)'
    BY <1>2 DEF Within
  <2>2. mem'.pending = mem.pending
    BY <1>2
  <2> QED
    BY <1>0, <1>4, <2>1, <2>2 DEF Counted
<1>7. AddSound'
  BY <1>0, <1>2, <1>4 DEF AddSound
<1>8. HeadSound' /\ PointsToLinked' /\ LeadsOn' /\ FirstSound'
  BY <1>0, <1>2, <1>5 DEF HeadSound, PointsToLinked, LeadsOn, FirstSound
<1>9. OneLinkEach'
  <2>1. (local'[Worker].pc = local[Worker].pc /\ local'[Worker].work = local[Worker].work)
        \/ local[Worker].pc # "null_next"
    BY <1>2, QueueFacts
  <2> QED
    BY <2>1, <1>0, <1>2, <1>5 DEF OneLinkEach
<1>10. TakenSound' /\ BeforeIsHead' /\ AfterSound' /\ RemovedOnce'
  <2>1. CASE t = Worker
    BY <2>1, <1>2 DEF TakenSound, BeforeIsHead, AfterSound, RemovedOnce
  <2>2. CASE t # Worker
    <3>1. local'[Worker] = local[Worker]
      BY <2>2, <1>2, QueueFacts
    <3>2. TakenSound' /\ BeforeIsHead'
      BY <3>1, <1>0, <1>2, <1>5 DEF TakenSound, BeforeIsHead
    <3>3. AfterSound'
      BY <3>1, <1>0, <1>2, <1>5 DEF AfterSound
    <3>4. RemovedOnce'
      BY <3>1, <1>0, <1>2, <1>4 DEF RemovedOnce, Within
    <3> QED
      BY <3>2, <3>3, <3>4
  <2> QED
    BY <2>1, <2>2
<1> QED
  BY <1>3, <1>6, <1>7, <1>8, <1>9, <1>10 DEF QInv

LEMMA AddReadKeeps == ASSUME QInv, NEW t \in Threads, AddRead(t) PROVE QInv'
<1>0. /\ QueueTypes /\ Counted /\ AddSound
      /\ HeadSound /\ PointsToLinked /\ LeadsOn /\ FirstSound /\ OneLinkEach
      /\ TakenSound /\ BeforeIsHead /\ AfterSound /\ RemovedOnce
  BY DEF QInv
<1>1. t \in Threads /\ local[t] \in Local /\ "add_head_prev" \in Labels
  BY <1>0, QueueFacts DEF QueueTypes, Labels
<1>b. local[t].arg \in Works /\ local[t].arg \in QueuedWorks /\ local[t].arg \notin LinkedWorks
  BY <1>0, <1>1, QueueFacts DEF AddRead, Access, LinkedWorks, Within, AddSound
<1>a. Access(t, "add_read", "add_head_prev", mem, [local[t] EXCEPT !.before = mem.prev[work_queue]]) /\ log' = log
  BY DEF AddRead
<1>l. [local[t] EXCEPT !.before = mem.prev[work_queue]] \in Local
  BY <1>0, <1>1, QueueFacts DEF Local, QueueTypes, QueueMemory
<1>2. /\ local[t].pc = "add_read" /\ mem' = mem
      /\ local' \in [Threads -> Local]
      /\ local'[t].pc = "add_head_prev" /\ local'[t].arg = local[t].arg /\ local'[t].work = local[t].work
      /\ local'[t].before = mem.prev[work_queue] /\ local'[t].after = local[t].after
      /\ \A s \in Threads \ {t} : local'[s] = local[s]
      /\ log' = log
  <2> DEFINE l == [local[t] EXCEPT !.before = mem.prev[work_queue]]
  <2>1. l \in Local /\ Access(t, "add_read", "add_head_prev", mem, l)
    BY <1>a, <1>l
  <2>2. l.arg = local[t].arg /\ l.work = local[t].work /\ l.before = mem.prev[work_queue] /\ l.after = local[t].after
    BY <1>1 DEF Local
  <2> HIDE DEF l
  <2> QED
    BY <1>0, <1>1, <1>a, <2>1, <2>2, AccessEffect
<1>4. mem' \in QueueMemory /\ mem'.next = mem.next /\ mem'.prev = mem.prev /\ mem'.pending = mem.pending
  BY <1>0, <1>2 DEF QueueTypes, QueueMemory
<1>5. QueueTypes'
  BY <1>0, <1>1, <1>2, <1>4, QueueFacts DEF QueueTypes, Labels
<1>6. QueuedWorks' = QueuedWorks
  BY <1>2 DEF QueuedWorks
<1>7. LinkedWorks' = LinkedWorks
  BY <1>1, <1>2, <1>6 DEF LinkedWorks, Within
<1>w. LinkedWorks \subseteq QueuedWorks /\ QueuedWorks \subseteq Works
  BY DEF LinkedWorks, QueuedWorks
<1>8. Counted'
  BY <1>0, <1>2, <1>4, <1>6, QueueFacts DEF Counted, Within
<1>9. AddSound'
  BY <1>0, <1>2, <1>4, <1>6, QueueFacts DEF AddSound, HeadSound, QueueTypes, QueueMemory
<1>10. HeadSound'
  BY <1>0, <1>2, <1>4, <1>7, <1>w, QueueFacts, <1>b DEF HeadSound
<1>11. PointsToLinked'
  BY <1>0, <1>2, <1>4, <1>7, <1>w, QueueFacts DEF PointsToLinked
<1>12. LeadsOn'
  BY <1>0, <1>2, <1>4, <1>7, <1>w, QueueFacts DEF LeadsOn
<1>13. FirstSound'
  BY <1>0, <1>2, <1>4, <1>7, <1>w, QueueFacts DEF FirstSound
<1>14. OneLinkEach'
  <2>1. (local'[Worker].pc = local[Worker].pc /\ local'[Worker].work = local[Worker].work)
        \/ local[Worker].pc # "null_next"
    BY <1>2, QueueFacts
  <2> QED
    BY <2>1, <1>0, <1>2, <1>4, <1>7 DEF OneLinkEach
<1>15. TakenSound'
  <2>1. CASE t = Worker
    BY <2>1, <1>2 DEF TakenSound
  <2>2. CASE t = Caller
    <3>1. local'[Worker] = local[Worker]
      BY <2>2, <1>2, QueueFacts
    <3> QED
      BY <3>1, <1>0, <1>2, <1>4, <1>6, <1>7, <1>b, <1>w, QueueFacts DEF TakenSound
  <2> QED
    BY <2>1, <2>2, QueueFacts
<1>16. BeforeIsHead'
  <2>1. CASE t = Worker
    BY <2>1, <1>2 DEF BeforeIsHead
  <2>2. CASE t = Caller
    <3>1. local'[Worker] = local[Worker]
      BY <2>2, <1>2, QueueFacts
    <3> QED
      BY <3>1, <1>0, <1>2, <1>4, <1>6, <1>7, <1>b, <1>w, QueueFacts DEF BeforeIsHead, TakenSound
  <2> QED
    BY <2>1, <2>2, QueueFacts
<1>17. AfterSound'
  <2>1. CASE t = Worker
    BY <2>1, <1>2 DEF AfterSound
  <2>2. CASE t = Caller
    <3>1. local'[Worker] = local[Worker]
      BY <2>2, <1>2, QueueFacts
    <3> QED
      BY <3>1, <1>0, <1>2, <1>4, <1>6, <1>7, <1>b, <1>w, QueueFacts DEF AfterSound
  <2> QED
    BY <2>1, <2>2, QueueFacts
<1>18. RemovedOnce'
  <2>1. CASE t = Worker
    BY <2>1, <1>2 DEF RemovedOnce
  <2>2. CASE t = Caller
    <3>1. local'[Worker] = local[Worker]
      BY <2>2, <1>2, QueueFacts
    <3> QED
      BY <3>1, <1>0, <1>2, <1>4, <1>6, <1>7, <1>b, <1>w, QueueFacts DEF RemovedOnce, Within
  <2> QED
    BY <2>1, <2>2, QueueFacts
<1> QED
  BY <1>5, <1>8, <1>9, <1>10, <1>11, <1>12, <1>13, <1>14, <1>15, <1>16, <1>17, <1>18 DEF QInv

LEMMA AddHeadPrevKeeps == ASSUME QInv, NEW t \in Threads, AddHeadPrev(t) PROVE QInv'
<1>0. /\ QueueTypes /\ Counted /\ AddSound
      /\ HeadSound /\ PointsToLinked /\ LeadsOn /\ FirstSound /\ OneLinkEach
      /\ TakenSound /\ BeforeIsHead /\ AfterSound /\ RemovedOnce
  BY DEF QInv
<1>1. t \in Threads /\ local[t] \in Local /\ "add_next" \in Labels
  BY <1>0, QueueFacts DEF QueueTypes, Labels
<1>b. local[t].arg \in Works /\ local[t].arg \in QueuedWorks /\ local[t].arg \notin LinkedWorks
  BY <1>0, <1>1, QueueFacts DEF AddHeadPrev, Access, LinkedWorks, Within, AddSound
<1>a. Access(t, "add_head_prev", "add_next", StorePrev(work_queue, local[t].arg), local[t]) /\ log' = log
  BY DEF AddHeadPrev
<1>2. /\ local[t].pc = "add_head_prev" /\ mem' = StorePrev(work_queue, local[t].arg)
      /\ local' \in [Threads -> Local]
      /\ local'[t].pc = "add_next" /\ local'[t].arg = local[t].arg /\ local'[t].work = local[t].work
      /\ local'[t].before = local[t].before /\ local'[t].after = local[t].after
      /\ \A s \in Threads \ {t} : local'[s] = local[s]
      /\ log' = log
  BY <1>0, <1>1, <1>a, AccessEffect
<1>4. /\ mem' \in QueueMemory /\ mem'.next = mem.next /\ mem'.pending = mem.pending
      /\ \A x \in QueueNodes : mem'.prev[x] = IF x = work_queue THEN local[t].arg ELSE mem.prev[x]
  BY <1>0, <1>2, <1>b, StoreEffect, QueueFacts
<1>5. QueueTypes'
  BY <1>0, <1>1, <1>2, <1>4, QueueFacts DEF QueueTypes, Labels
<1>6. QueuedWorks' = QueuedWorks
  BY <1>2 DEF QueuedWorks
<1>7. LinkedWorks' = LinkedWorks
  BY <1>1, <1>2, <1>6 DEF LinkedWorks, Within
<1>w. LinkedWorks \subseteq QueuedWorks /\ QueuedWorks \subseteq Works
  BY DEF LinkedWorks, QueuedWorks
<1>8. Counted'
  BY <1>0, <1>2, <1>4, <1>6, QueueFacts DEF Counted, Within
<1>9. AddSound'
  BY <1>0, <1>2, <1>4, <1>6, QueueFacts DEF AddSound
<1>10. HeadSound'
  BY <1>0, <1>2, <1>4, <1>7, <1>w, QueueFacts, <1>b DEF HeadSound
<1>11. PointsToLinked'
  BY <1>0, <1>2, <1>4, <1>7, <1>w, QueueFacts DEF PointsToLinked
<1>12. LeadsOn'
  BY <1>0, <1>2, <1>4, <1>7, <1>w, QueueFacts DEF LeadsOn
<1>13. FirstSound'
  BY <1>0, <1>2, <1>4, <1>7, <1>w, QueueFacts DEF FirstSound
<1>14. OneLinkEach'
  <2>1. (local'[Worker].pc = local[Worker].pc /\ local'[Worker].work = local[Worker].work)
        \/ local[Worker].pc # "null_next"
    BY <1>2, QueueFacts
  <2> QED
    BY <2>1, <1>0, <1>2, <1>4, <1>7 DEF OneLinkEach
<1>15. TakenSound'
  <2>1. CASE t = Worker
    BY <2>1, <1>2 DEF TakenSound
  <2>2. CASE t = Caller
    <3>1. local'[Worker] = local[Worker]
      BY <2>2, <1>2, QueueFacts
    <3> QED
      BY <3>1, <1>0, <1>2, <1>4, <1>6, <1>7, <1>b, <1>w, QueueFacts DEF TakenSound
  <2> QED
    BY <2>1, <2>2, QueueFacts
<1>16. BeforeIsHead'
  <2>1. CASE t = Worker
    BY <2>1, <1>2 DEF BeforeIsHead
  <2>2. CASE t = Caller
    <3>1. local'[Worker] = local[Worker]
      BY <2>2, <1>2, QueueFacts
    <3> QED
      BY <3>1, <1>0, <1>2, <1>4, <1>6, <1>7, <1>b, <1>w, QueueFacts DEF BeforeIsHead, TakenSound
  <2> QED
    BY <2>1, <2>2, QueueFacts
<1>17. AfterSound'
  <2>1. CASE t = Worker
    BY <2>1, <1>2 DEF AfterSound
  <2>2. CASE t = Caller
    <3>1. local'[Worker] = local[Worker]
      BY <2>2, <1>2, QueueFacts
    <3> QED
      BY <3>1, <1>0, <1>2, <1>4, <1>6, <1>7, <1>b, <1>w, QueueFacts DEF AfterSound
  <2> QED
    BY <2>1, <2>2, QueueFacts
<1>18. RemovedOnce'
  <2>1. CASE t = Worker
    BY <2>1, <1>2 DEF RemovedOnce
  <2>2. CASE t = Caller
    <3>1. local'[Worker] = local[Worker]
      BY <2>2, <1>2, QueueFacts
    <3> QED
      BY <3>1, <1>0, <1>2, <1>4, <1>6, <1>7, <1>b, <1>w, QueueFacts DEF RemovedOnce, Within
  <2> QED
    BY <2>1, <2>2, QueueFacts
<1> QED
  BY <1>5, <1>8, <1>9, <1>10, <1>11, <1>12, <1>13, <1>14, <1>15, <1>16, <1>17, <1>18 DEF QInv

LEMMA AddNextKeeps == ASSUME QInv, NEW t \in Threads, AddNext(t) PROVE QInv'
<1>0. /\ QueueTypes /\ Counted /\ AddSound
      /\ HeadSound /\ PointsToLinked /\ LeadsOn /\ FirstSound /\ OneLinkEach
      /\ TakenSound /\ BeforeIsHead /\ AfterSound /\ RemovedOnce
  BY DEF QInv
<1>1. t \in Threads /\ local[t] \in Local /\ "add_prev" \in Labels
  BY <1>0, QueueFacts DEF QueueTypes, Labels
<1>b. local[t].arg \in Works /\ local[t].arg \in QueuedWorks /\ local[t].arg \notin LinkedWorks
  BY <1>0, <1>1, QueueFacts DEF AddNext, Access, LinkedWorks, Within, AddSound
<1>a. Access(t, "add_next", "add_prev", StoreNext(local[t].arg, work_queue), local[t]) /\ log' = log
  BY DEF AddNext
<1>2. /\ local[t].pc = "add_next" /\ mem' = StoreNext(local[t].arg, work_queue)
      /\ local' \in [Threads -> Local]
      /\ local'[t].pc = "add_prev" /\ local'[t].arg = local[t].arg /\ local'[t].work = local[t].work
      /\ local'[t].before = local[t].before /\ local'[t].after = local[t].after
      /\ \A s \in Threads \ {t} : local'[s] = local[s]
      /\ log' = log
  BY <1>0, <1>1, <1>a, AccessEffect
<1>4. /\ mem' \in QueueMemory /\ mem'.prev = mem.prev /\ mem'.pending = mem.pending
      /\ \A x \in QueueNodes : mem'.next[x] = IF x = local[t].arg THEN work_queue ELSE mem.next[x]
  BY <1>0, <1>2, <1>b, StoreEffect, QueueFacts
<1>5. QueueTypes'
  BY <1>0, <1>1, <1>2, <1>4, QueueFacts DEF QueueTypes, Labels
<1>6. QueuedWorks' = QueuedWorks
  BY <1>2 DEF QueuedWorks
<1>7. LinkedWorks' = LinkedWorks
  BY <1>1, <1>2, <1>6 DEF LinkedWorks, Within
<1>w. LinkedWorks \subseteq QueuedWorks /\ QueuedWorks \subseteq Works
  BY DEF LinkedWorks, QueuedWorks
<1>8. Counted'
  BY <1>0, <1>2, <1>4, <1>6, QueueFacts DEF Counted, Within
<1>9. AddSound'
  BY <1>0, <1>2, <1>4, <1>6, <1>b, QueueFacts DEF AddSound
<1>10. HeadSound'
  BY <1>0, <1>2, <1>4, <1>7, <1>w, QueueFacts, <1>b DEF HeadSound
<1>11. PointsToLinked'
  BY <1>0, <1>2, <1>4, <1>7, <1>w, QueueFacts DEF PointsToLinked
<1>12. LeadsOn'
  BY <1>0, <1>2, <1>4, <1>7, <1>w, QueueFacts DEF LeadsOn
<1>13. FirstSound'
  BY <1>0, <1>2, <1>4, <1>7, <1>b, <1>w, QueueFacts DEF FirstSound, PointsToLinked
<1>14. OneLinkEach'
  <2>1. (local'[Worker].pc = local[Worker].pc /\ local'[Worker].work = local[Worker].work)
        \/ local[Worker].pc # "null_next"
    BY <1>2, QueueFacts
  <2> QED
    BY <2>1, <1>0, <1>2, <1>4, <1>7, <1>b, QueueFacts DEF OneLinkEach, LinkedWorks, QueuedWorks
<1>15. TakenSound'
  <2>1. CASE t = Worker
    BY <2>1, <1>2 DEF TakenSound
  <2>2. CASE t = Caller
    <3>1. local'[Worker] = local[Worker]
      BY <2>2, <1>2, QueueFacts
    <3> QED
      BY <3>1, <1>0, <1>2, <1>4, <1>6, <1>7, <1>b, <1>w, QueueFacts DEF TakenSound
  <2> QED
    BY <2>1, <2>2, QueueFacts
<1>16. BeforeIsHead'
  <2>1. CASE t = Worker
    BY <2>1, <1>2 DEF BeforeIsHead
  <2>2. CASE t = Caller
    <3>1. local'[Worker] = local[Worker]
      BY <2>2, <1>2, QueueFacts
    <3> QED
      BY <3>1, <1>0, <1>2, <1>4, <1>6, <1>7, <1>b, <1>w, QueueFacts DEF BeforeIsHead, TakenSound
  <2> QED
    BY <2>1, <2>2, QueueFacts
<1>17. AfterSound'
  <2>1. CASE t = Worker
    BY <2>1, <1>2 DEF AfterSound
  <2>2. CASE t = Caller
    <3>1. local'[Worker] = local[Worker]
      BY <2>2, <1>2, QueueFacts
    <3> QED
      BY <3>1, <1>0, <1>2, <1>4, <1>6, <1>7, <1>b, <1>w, QueueFacts DEF AfterSound
  <2> QED
    BY <2>1, <2>2, QueueFacts
<1>18. RemovedOnce'
  <2>1. CASE t = Worker
    BY <2>1, <1>2 DEF RemovedOnce
  <2>2. CASE t = Caller
    <3>1. local'[Worker] = local[Worker]
      BY <2>2, <1>2, QueueFacts
    <3> QED
      BY <3>1, <1>0, <1>2, <1>4, <1>6, <1>7, <1>b, <1>w, QueueFacts DEF RemovedOnce, Within
  <2> QED
    BY <2>1, <2>2, QueueFacts
<1> QED
  BY <1>5, <1>8, <1>9, <1>10, <1>11, <1>12, <1>13, <1>14, <1>15, <1>16, <1>17, <1>18 DEF QInv

LEMMA AddPrevKeeps == ASSUME QInv, NEW t \in Threads, AddPrev(t) PROVE QInv'
<1>0. /\ QueueTypes /\ Counted /\ AddSound
      /\ HeadSound /\ PointsToLinked /\ LeadsOn /\ FirstSound /\ OneLinkEach
      /\ TakenSound /\ BeforeIsHead /\ AfterSound /\ RemovedOnce
  BY DEF QInv
<1>1. t \in Threads /\ local[t] \in Local /\ "add_link" \in Labels
  BY <1>0, QueueFacts DEF QueueTypes, Labels
<1>b. local[t].arg \in Works /\ local[t].arg \in QueuedWorks /\ local[t].arg \notin LinkedWorks
  BY <1>0, <1>1, QueueFacts DEF AddPrev, Access, LinkedWorks, Within, AddSound
<1>a. Access(t, "add_prev", "add_link", StorePrev(local[t].arg, local[t].before), local[t]) /\ log' = log
  BY DEF AddPrev
<1>2. /\ local[t].pc = "add_prev" /\ mem' = StorePrev(local[t].arg, local[t].before)
      /\ local' \in [Threads -> Local]
      /\ local'[t].pc = "add_link" /\ local'[t].arg = local[t].arg /\ local'[t].work = local[t].work
      /\ local'[t].before = local[t].before /\ local'[t].after = local[t].after
      /\ \A s \in Threads \ {t} : local'[s] = local[s]
      /\ log' = log
  BY <1>0, <1>1, <1>a, AccessEffect
<1>4. /\ mem' \in QueueMemory /\ mem'.next = mem.next /\ mem'.pending = mem.pending
      /\ \A x \in QueueNodes : mem'.prev[x] = IF x = local[t].arg THEN local[t].before ELSE mem.prev[x]
  <2>1. local[t].before \in QueueNodes /\ local[t].arg \in QueueNodes
    BY <1>0, <1>1, <1>2, <1>b, QueueFacts DEF AddSound
  <2> QED
    BY <1>0, <1>2, <2>1, StoreEffect, QueueFacts
<1>5. QueueTypes'
  BY <1>0, <1>1, <1>2, <1>4, QueueFacts DEF QueueTypes, Labels
<1>6. QueuedWorks' = QueuedWorks
  BY <1>2 DEF QueuedWorks
<1>7. LinkedWorks' = LinkedWorks
  BY <1>1, <1>2, <1>6 DEF LinkedWorks, Within
<1>w. LinkedWorks \subseteq QueuedWorks /\ QueuedWorks \subseteq Works
  BY DEF LinkedWorks, QueuedWorks
<1>8. Counted'
  BY <1>0, <1>2, <1>4, <1>6, QueueFacts DEF Counted, Within
<1>9. AddSound'
  BY <1>0, <1>2, <1>4, <1>6, <1>b, QueueFacts DEF AddSound
<1>10. HeadSound'
  BY <1>0, <1>2, <1>4, <1>7, <1>w, QueueFacts, <1>b DEF HeadSound
<1>11. PointsToLinked'
  BY <1>0, <1>2, <1>4, <1>7, <1>w, QueueFacts DEF PointsToLinked
<1>12. LeadsOn'
  BY <1>0, <1>2, <1>4, <1>7, <1>w, QueueFacts DEF LeadsOn
<1>13. FirstSound'
  BY <1>0, <1>2, <1>4, <1>7, <1>b, <1>w, QueueFacts DEF FirstSound, PointsToLinked
<1>14. OneLinkEach'
  <2>1. (local'[Worker].pc = local[Worker].pc /\ local'[Worker].work = local[Worker].work)
        \/ local[Worker].pc # "null_next"
    BY <1>2, QueueFacts
  <2> QED
    BY <2>1, <1>0, <1>2, <1>4, <1>7 DEF OneLinkEach
<1>15. TakenSound'
  <2>1. CASE t = Worker
    BY <2>1, <1>2 DEF TakenSound
  <2>2. CASE t = Caller
    <3>1. local'[Worker] = local[Worker]
      BY <2>2, <1>2, QueueFacts
    <3> QED
      BY <3>1, <1>0, <1>2, <1>4, <1>6, <1>7, <1>b, <1>w, QueueFacts DEF TakenSound
  <2> QED
    BY <2>1, <2>2, QueueFacts
<1>16. BeforeIsHead'
  <2>1. CASE t = Worker
    BY <2>1, <1>2 DEF BeforeIsHead
  <2>2. CASE t = Caller
    <3>1. local'[Worker] = local[Worker]
      BY <2>2, <1>2, QueueFacts
    <3> QED
      BY <3>1, <1>0, <1>2, <1>4, <1>6, <1>7, <1>b, <1>w, QueueFacts DEF BeforeIsHead, TakenSound
  <2> QED
    BY <2>1, <2>2, QueueFacts
<1>17. AfterSound'
  <2>1. CASE t = Worker
    BY <2>1, <1>2 DEF AfterSound
  <2>2. CASE t = Caller
    <3>1. local'[Worker] = local[Worker]
      BY <2>2, <1>2, QueueFacts
    <3> QED
      BY <3>1, <1>0, <1>2, <1>4, <1>6, <1>7, <1>b, <1>w, QueueFacts DEF AfterSound
  <2> QED
    BY <2>1, <2>2, QueueFacts
<1>18. RemovedOnce'
  <2>1. CASE t = Worker
    BY <2>1, <1>2 DEF RemovedOnce
  <2>2. CASE t = Caller
    <3>1. local'[Worker] = local[Worker]
      BY <2>2, <1>2, QueueFacts
    <3> QED
      BY <3>1, <1>0, <1>2, <1>4, <1>6, <1>7, <1>b, <1>w, QueueFacts DEF RemovedOnce, Within
  <2> QED
    BY <2>1, <2>2, QueueFacts
<1> QED
  BY <1>5, <1>8, <1>9, <1>10, <1>11, <1>12, <1>13, <1>14, <1>15, <1>16, <1>17, <1>18 DEF QInv

LEMMA AddLinkKeeps == ASSUME QInv, NEW t \in Threads, AddLink(t) PROVE QInv'
<1>0. /\ QueueTypes /\ Counted /\ AddSound
      /\ HeadSound /\ PointsToLinked /\ LeadsOn /\ FirstSound /\ OneLinkEach
      /\ TakenSound /\ BeforeIsHead /\ AfterSound /\ RemovedOnce
  BY DEF QInv
<1>1. t \in Threads /\ local[t] \in Local /\ "set_pending" \in Labels
  BY <1>0, QueueFacts DEF QueueTypes, Labels
<1>b. local[t].arg \in Works /\ local[t].arg \in QueuedWorks /\ local[t].arg \notin LinkedWorks
  BY <1>0, <1>1, QueueFacts DEF AddLink, Access, LinkedWorks, Within, AddSound
<1>a. Access(t, "add_link", "set_pending", StoreNext(local[t].before, local[t].arg), local[t]) /\ log' = log
  BY DEF AddLink
<1>2. /\ local[t].pc = "add_link" /\ mem' = StoreNext(local[t].before, local[t].arg)
      /\ local' \in [Threads -> Local]
      /\ local'[t].pc = "set_pending" /\ local'[t].arg = local[t].arg /\ local'[t].work = local[t].work
      /\ local'[t].before = local[t].before /\ local'[t].after = local[t].after
      /\ \A s \in Threads \ {t} : local'[s] = local[s]
      /\ log' = log
  BY <1>0, <1>1, <1>a, AccessEffect
<1>4. /\ mem' \in QueueMemory /\ mem'.prev = mem.prev /\ mem'.pending = mem.pending
      /\ \A x \in QueueNodes : mem'.next[x] = IF x = local[t].before THEN local[t].arg ELSE mem.next[x]
      /\ local[t].before \in QueueNodes
  <2>1. local[t].before \in QueueNodes /\ local[t].arg \in QueueNodes
    BY <1>0, <1>1, <1>2, <1>b, QueueFacts DEF AddSound
  <2> QED
    BY <1>0, <1>2, <2>1, StoreEffect, QueueFacts
<1>5. QueueTypes'
  BY <1>0, <1>1, <1>2, <1>4, QueueFacts DEF QueueTypes, Labels
<1>6. QueuedWorks' = QueuedWorks
  BY <1>2 DEF QueuedWorks
<1>7. LinkedWorks' = LinkedWorks \cup {local[t].arg}
  <2>1. \A s \in Threads \ {t} : ~Within(s, Adding, local[t].arg)
    BY <1>0, <1>1, <1>2, QueueFacts DEF AddSound, Within
  <2> QED
    BY <2>1, <1>1, <1>2, <1>6, <1>b DEF LinkedWorks, Within
<1>c. \A u \in QueueNodes : mem.next[u] # local[t].arg
  BY <1>0, <1>1, <1>2, <1>b DEF AddSound, PointsToLinked
<1>w. LinkedWorks \subseteq QueuedWorks /\ QueuedWorks \subseteq Works
  BY DEF LinkedWorks, QueuedWorks
<1>8. Counted'
  BY <1>0, <1>2, <1>4, <1>6, QueueFacts DEF Counted, Within
<1>9. AddSound'
  BY <1>0, <1>2, <1>4, <1>6, <1>b, QueueFacts DEF AddSound
<1>10. HeadSound'
  BY <1>0, <1>2, <1>4, <1>7, <1>w, QueueFacts, <1>b DEF HeadSound
<1>11. PointsToLinked'
  BY <1>0, <1>2, <1>4, <1>7, <1>w, QueueFacts DEF PointsToLinked
<1>12. LeadsOn'
  BY <1>0, <1>1, <1>2, <1>4, <1>7, <1>b, <1>w, QueueFacts DEF LeadsOn, AddSound
<1>13. FirstSound'
  BY <1>0, <1>1, <1>2, <1>4, <1>7, <1>b, <1>w, QueueFacts DEF FirstSound, AddSound
<1>14. OneLinkEach'
  <2>1. (local'[Worker].pc = local[Worker].pc /\ local'[Worker].work = local[Worker].work)
        \/ local[Worker].pc # "null_next"
    BY <1>2, QueueFacts
  <2> SUFFICES ASSUME NEW u \in QueueNodes, NEW v \in QueueNodes, mem'.next[u] = mem'.next[v], mem'.next[u] \in LinkedWorks'
               PROVE  u = v \/ (local'[Worker].pc = "null_next" /\ local'[Worker].work \in {u, v})
    BY DEF OneLinkEach
  <2>2. CASE mem'.next[u] = local[t].arg
    BY <2>2, <1>4, <1>c
  <2>3. CASE mem'.next[u] # local[t].arg
    <3>1. mem.next[u] = mem.next[v] /\ mem.next[u] \in LinkedWorks
      BY <2>3, <1>4, <1>7
    <3> QED
      BY <2>1, <3>1, <1>0 DEF OneLinkEach
  <2> QED
    BY <2>2, <2>3
<1>15. TakenSound'
  <2>1. CASE t = Worker
    BY <2>1, <1>2 DEF TakenSound
  <2>2. CASE t = Caller
    <3>1. local'[Worker] = local[Worker]
      BY <2>2, <1>2, QueueFacts
    <3> QED
      BY <3>1, <1>0, <1>2, <1>4, <1>6, <1>7, <1>b, <1>w, QueueFacts DEF TakenSound
  <2> QED
    BY <2>1, <2>2, QueueFacts
<1>16. BeforeIsHead'
  <2>1. CASE t = Worker
    BY <2>1, <1>2 DEF BeforeIsHead
  <2>2. CASE t = Caller
    <3>1. local'[Worker] = local[Worker]
      BY <2>2, <1>2, QueueFacts
    <3> QED
      BY <3>1, <1>0, <1>2, <1>4, <1>6, <1>7, <1>b, <1>w, QueueFacts DEF BeforeIsHead, TakenSound
  <2> QED
    BY <2>1, <2>2, QueueFacts
<1>17. AfterSound'
  <2>1. CASE t = Worker
    BY <2>1, <1>2 DEF AfterSound
  <2>2. CASE t = Caller
    <3>1. local'[Worker] = local[Worker]
      BY <2>2, <1>2, QueueFacts
    <3> QED
      BY <3>1, <1>0, <1>2, <1>4, <1>6, <1>7, <1>b, <1>w, QueueFacts DEF AfterSound
  <2> QED
    BY <2>1, <2>2, QueueFacts
<1>18. RemovedOnce'
  <2>1. CASE t = Worker
    BY <2>1, <1>2 DEF RemovedOnce
  <2>2. CASE t = Caller
    <3>1. local'[Worker] = local[Worker]
      BY <2>2, <1>2, QueueFacts
    <3> QED
      BY <3>1, <1>0, <1>2, <1>4, <1>6, <1>7, <1>b, <1>w, QueueFacts DEF RemovedOnce, Within
  <2> QED
    BY <2>1, <2>2, QueueFacts
<1> QED
  BY <1>5, <1>8, <1>9, <1>10, <1>11, <1>12, <1>13, <1>14, <1>15, <1>16, <1>17, <1>18 DEF QInv

LEMMA SetPendingKeeps == ASSUME QInv, NEW t \in Threads, SetPending(t) PROVE QInv'
<1>0. /\ QueueTypes /\ Counted /\ AddSound
      /\ HeadSound /\ PointsToLinked /\ LeadsOn /\ FirstSound /\ OneLinkEach
      /\ TakenSound /\ BeforeIsHead /\ AfterSound /\ RemovedOnce
  BY DEF QInv
<1>1. t \in Threads /\ local[t] \in Local /\ "inc_read" \in Labels
  BY <1>0, QueueFacts DEF QueueTypes, Labels
<1>b. local[t].arg \in Works
  BY <1>0, <1>1, QueueFacts DEF SetPending, Access, AddSound
<1>a. Access(t, "set_pending", "inc_read", [mem EXCEPT !.pending[local[t].arg] = TRUE], local[t]) /\ log' = log
  BY DEF SetPending
<1>2. /\ local[t].pc = "set_pending" /\ mem' = [mem EXCEPT !.pending[local[t].arg] = TRUE]
      /\ local' \in [Threads -> Local]
      /\ local'[t].pc = "inc_read" /\ local'[t].arg = local[t].arg /\ local'[t].work = local[t].work
      /\ local'[t].before = local[t].before /\ local'[t].after = local[t].after
      /\ \A s \in Threads \ {t} : local'[s] = local[s]
      /\ log' = log
  BY <1>0, <1>1, <1>a, AccessEffect
<1>4. /\ mem' \in QueueMemory /\ mem'.next = mem.next /\ mem'.prev = mem.prev
      /\ \A w \in Works : mem'.pending[w] = (w = local[t].arg \/ mem.pending[w])
  BY <1>0, <1>2, <1>b DEF QueueTypes, QueueMemory
<1>5. QueueTypes'
  BY <1>0, <1>1, <1>2, <1>4, QueueFacts DEF QueueTypes, Labels
<1>6. QueuedWorks' = QueuedWorks
  BY <1>2 DEF QueuedWorks
<1>7. LinkedWorks' = LinkedWorks
  BY <1>1, <1>2, <1>6 DEF LinkedWorks, Within
<1>w. LinkedWorks \subseteq QueuedWorks /\ QueuedWorks \subseteq Works
  BY DEF LinkedWorks, QueuedWorks
<1>8. Counted'
  <2>1. \A s \in Threads, w \in Works : Within(s, Reached, w) => Within(s, Reached, w)' \/ w = local[t].arg
    BY <1>2 DEF Within
  <2> QED
    BY <2>1, <1>0, <1>2, <1>4, <1>6 DEF Counted
<1>9. AddSound'
  BY <1>0, <1>2, <1>4, <1>6, QueueFacts DEF AddSound
<1>10. HeadSound'
  BY <1>0, <1>2, <1>4, <1>7, <1>w, QueueFacts, <1>b DEF HeadSound
<1>11. PointsToLinked'
  BY <1>0, <1>2, <1>4, <1>7, <1>w, QueueFacts DEF PointsToLinked
<1>12. LeadsOn'
  BY <1>0, <1>2, <1>4, <1>7, <1>w, QueueFacts DEF LeadsOn
<1>13. FirstSound'
  BY <1>0, <1>2, <1>4, <1>7, <1>w, QueueFacts DEF FirstSound
<1>14. OneLinkEach'
  <2>1. (local'[Worker].pc = local[Worker].pc /\ local'[Worker].work = local[Worker].work)
        \/ local[Worker].pc # "null_next"
    BY <1>2, QueueFacts
  <2> QED
    BY <2>1, <1>0, <1>2, <1>4, <1>7 DEF OneLinkEach
<1>15. TakenSound'
  <2>1. CASE t = Worker
    BY <2>1, <1>2 DEF TakenSound
  <2>2. CASE t = Caller
    <3>1. local'[Worker] = local[Worker]
      BY <2>2, <1>2, QueueFacts
    <3> QED
      BY <3>1, <1>0, <1>2, <1>4, <1>6, <1>7, <1>b, <1>w, QueueFacts DEF TakenSound
  <2> QED
    BY <2>1, <2>2, QueueFacts
<1>16. BeforeIsHead'
  <2>1. CASE t = Worker
    BY <2>1, <1>2 DEF BeforeIsHead
  <2>2. CASE t = Caller
    <3>1. local'[Worker] = local[Worker]
      BY <2>2, <1>2, QueueFacts
    <3> QED
      BY <3>1, <1>0, <1>2, <1>4, <1>6, <1>7, <1>b, <1>w, QueueFacts DEF BeforeIsHead, TakenSound
  <2> QED
    BY <2>1, <2>2, QueueFacts
<1>17. AfterSound'
  <2>1. CASE t = Worker
    BY <2>1, <1>2 DEF AfterSound
  <2>2. CASE t = Caller
    <3>1. local'[Worker] = local[Worker]
      BY <2>2, <1>2, QueueFacts
    <3> QED
      BY <3>1, <1>0, <1>2, <1>4, <1>6, <1>7, <1>b, <1>w, QueueFacts DEF AfterSound
  <2> QED
    BY <2>1, <2>2, QueueFacts
<1>18. RemovedOnce'
  <2>1. \A s \in Threads, w \in Works : Within(s, {"set_pending"}, w) => Within(s, {"set_pending"}, w)' \/ w = local[t].arg
    BY <1>2 DEF Within
  <2>2. local'[Worker].work = local[Worker].work /\ (local'[Worker].pc \in Removed => local[Worker].pc \in Removed)
    BY <1>2, QueueFacts
  <2> QED
    BY <2>1, <2>2, <1>0, <1>4, <1>6 DEF RemovedOnce
<1> QED
  BY <1>5, <1>8, <1>9, <1>10, <1>11, <1>12, <1>13, <1>14, <1>15, <1>16, <1>17, <1>18 DEF QInv

LEMMA ScheduleAcceptsKeeps ==
    ASSUME QInv, NEW t \in Threads, NEW w \in Schedules[t], ScheduleAccepts(t, w)
    PROVE  QInv'
<1>0. /\ QueueTypes /\ Counted /\ AddSound
      /\ HeadSound /\ PointsToLinked /\ LeadsOn /\ FirstSound /\ OneLinkEach
      /\ TakenSound /\ BeforeIsHead /\ AfterSound /\ RemovedOnce
  BY DEF QInv
<1>1. w \in Works /\ local[t] \in Local /\ CallSite(t) \in {"idle", "func"} /\ "add_read" \in Labels
  BY <1>0, QueueFacts DEF QueueTypes, Labels, CallSite
<1>a. Access(t, CallSite(t), "add_read", mem, [local[t] EXCEPT !.arg = w])
  BY DEF ScheduleAccepts
<1>2. /\ local[t].pc \in {"idle", "func"} /\ mem' = mem
      /\ local' \in [Threads -> Local]
      /\ local'[t].pc = "add_read" /\ local'[t].arg = w
      /\ \A s \in Threads \ {t} : local'[s] = local[s]
  <2> DEFINE l == [local[t] EXCEPT !.arg = w]
             from == CallSite(t)
  <2>1. l \in Local /\ l.arg = w /\ from \in {"idle", "func"}
    BY <1>1 DEF Local
  <2>2. Access(t, from, "add_read", mem, l)
    BY <1>a
  <2> HIDE DEF l, from
  <2> QED
    BY <1>0, <1>1, <2>1, <2>2, AccessEffect
<1>3. w \notin QueuedWorks /\ ~mem.pending[w] /\ log.accepted[w] = log.dequeued[w]
  BY <1>0, <1>1, <1>2, QueueFacts DEF ScheduleAccepts, Counted, Within, AddSound
<1>4. /\ log' \in [accepted : [Works -> Nat], dequeued : [Works -> Nat]]
      /\ \A x \in Works : log'.accepted[x] = IF x = w THEN log.accepted[x] + 1 ELSE log.accepted[x]
      /\ log'.dequeued = log.dequeued
  BY <1>0, <1>1 DEF ScheduleAccepts, QueueTypes
<1>5. QueueTypes'
  BY <1>0, <1>1, <1>2, <1>4, QueueFacts DEF QueueTypes, Labels
<1>6. QueuedWorks' = QueuedWorks \cup {w}
  BY <1>0, <1>1, <1>3, <1>4 DEF QueuedWorks, QueueTypes
<1>7. LinkedWorks' = LinkedWorks
  <2>1. w \notin LinkedWorks' /\ w \notin LinkedWorks
    BY <1>2, <1>3 DEF LinkedWorks, Within
  <2>2. \A x \in Works \ {w}, s \in Threads : Within(s, Adding, x)' <=> Within(s, Adding, x)
    BY <1>2 DEF Within
  <2> QED
    BY <2>1, <2>2, <1>6 DEF LinkedWorks, QueuedWorks
<1>8. Counted'
  <2>1. Within(t, Reached, w)'
    BY <1>2 DEF Within
  <2>2. \A x \in Works, s \in Threads : Within(s, Reached, x) => Within(s, Reached, x)'
    BY <1>2 DEF Within
  <2>3. mem'.pending = mem.pending
    BY <1>2
  <2> QED
    BY <2>1, <2>2, <2>3, <1>0, <1>4, <1>6 DEF Counted
<1>9. AddSound'
  BY <1>0, <1>2, <1>6 DEF AddSound
<1>10. HeadSound' /\ PointsToLinked' /\ LeadsOn' /\ FirstSound'
  BY <1>0, <1>2, <1>7 DEF HeadSound, PointsToLinked, LeadsOn, FirstSound
<1>11. OneLinkEach'
  <2>1. (local'[Worker].pc = local[Worker].pc /\ local'[Worker].work = local[Worker].work)
        \/ local[Worker].pc # "null_next"
    BY <1>2, QueueFacts
  <2> QED
    BY <2>1, <1>0, <1>2, <1>7 DEF OneLinkEach
<1>12. TakenSound' /\ BeforeIsHead' /\ AfterSound' /\ RemovedOnce'
  <2>1. CASE t = Worker
    BY <2>1, <1>2 DEF TakenSound, BeforeIsHead, AfterSound, RemovedOnce
  <2>2. CASE t = Caller
    <3>1. local'[Worker] = local[Worker]
      BY <2>2, <1>2, QueueFacts
    <3>2. TakenSound' /\ BeforeIsHead' /\ AfterSound'
      BY <3>1, <1>0, <1>2, <1>7 DEF TakenSound, BeforeIsHead, AfterSound
    <3>3. local[Worker].pc \in Removed => mem.pending[local[Worker].work]
      BY <2>2, <1>0, <1>2, QueueFacts DEF RemovedOnce, Within
    <3>4. RemovedOnce'
      BY <3>1, <3>3, <1>0, <1>2, <1>3, <1>6 DEF RemovedOnce
    <3> QED
      BY <3>2, <3>4
  <2> QED
    BY <2>1, <2>2, QueueFacts
<1> QED
  BY <1>5, <1>8, <1>9, <1>10, <1>11, <1>12 DEF QInv

LEMMA TakeFirstKeeps == ASSUME QInv, TakeFirst PROVE QInv'
<1>0. /\ QueueTypes /\ Counted /\ AddSound
      /\ HeadSound /\ PointsToLinked /\ LeadsOn /\ FirstSound /\ OneLinkEach
      /\ TakenSound /\ BeforeIsHead /\ AfterSound /\ RemovedOnce
  BY DEF QInv
<1>1. Worker \in Threads /\ local[Worker] \in Local /\ "del_read_next" \in Labels
  BY <1>0, QueueFacts DEF QueueTypes, Labels
<1>b. mem.next[work_queue] \in Works /\ mem.next[work_queue] \in LinkedWorks
  BY <1>0, <1>1, QueueFacts DEF TakeFirst, HeadSound, PointsToLinked, QueueTypes, QueueMemory
<1>a. Access(Worker, "loop", "del_read_next", mem, [local[Worker] EXCEPT !.work = mem.next[work_queue]]) /\ log' = log
  BY DEF TakeFirst
<1>l. [local[Worker] EXCEPT !.work = mem.next[work_queue]] \in Local
  BY <1>0, <1>1, <1>b DEF Local
<1>2. /\ local[Worker].pc = "loop" /\ mem' = mem
      /\ local' \in [Threads -> Local]
      /\ local'[Worker].pc = "del_read_next" /\ local'[Worker].arg = local[Worker].arg /\ local'[Worker].work = mem.next[work_queue]
      /\ local'[Worker].before = local[Worker].before /\ local'[Worker].after = local[Worker].after
      /\ \A s \in Threads \ {Worker} : local'[s] = local[s]
      /\ log' = log
  <2> DEFINE l == [local[Worker] EXCEPT !.work = mem.next[work_queue]]
  <2>1. l \in Local /\ Access(Worker, "loop", "del_read_next", mem, l)
    BY <1>a, <1>l
  <2>2. l.arg = local[Worker].arg /\ l.work = mem.next[work_queue] /\ l.before = local[Worker].before /\ l.after = local[Worker].after
    BY <1>1 DEF Local
  <2> HIDE DEF l
  <2> QED
    BY <1>0, <1>1, <1>a, <2>1, <2>2, AccessEffect
<1>4. mem' \in QueueMemory /\ mem'.next = mem.next /\ mem'.prev = mem.prev /\ mem'.pending = mem.pending
  BY <1>0, <1>2 DEF QueueTypes, QueueMemory
<1>5. QueueTypes'
  BY <1>0, <1>1, <1>2, <1>4, QueueFacts DEF QueueTypes, Labels
<1>6. QueuedWorks' = QueuedWorks
  BY <1>2 DEF QueuedWorks
<1>7. LinkedWorks' = LinkedWorks
  BY <1>1, <1>2, <1>6 DEF LinkedWorks, Within
<1>w. LinkedWorks \subseteq QueuedWorks /\ QueuedWorks \subseteq Works
  BY DEF LinkedWorks, QueuedWorks
<1>8. Counted'
  BY <1>0, <1>2, <1>4, <1>6, QueueFacts DEF Counted, Within
<1>9. AddSound'
  BY <1>0, <1>2, <1>4, <1>6, QueueFacts DEF AddSound
<1>10. HeadSound'
  BY <1>0, <1>2, <1>4, <1>7, <1>w, QueueFacts, <1>b DEF HeadSound
<1>11. PointsToLinked'
  BY <1>0, <1>2, <1>4, <1>7, <1>w, QueueFacts DEF PointsToLinked
<1>12. LeadsOn'
  BY <1>0, <1>2, <1>4, <1>7, <1>w, QueueFacts DEF LeadsOn
<1>13. FirstSound'
  BY <1>0, <1>2, <1>4, <1>7, <1>w, QueueFacts DEF FirstSound
<1>14. OneLinkEach'
  <2>1. (local'[Worker].pc = local[Worker].pc /\ local'[Worker].work = local[Worker].work)
        \/ local[Worker].pc # "null_next"
    BY <1>2, QueueFacts
  <2> QED
    BY <2>1, <1>0, <1>2, <1>4, <1>7 DEF OneLinkEach
<1>15. TakenSound'
  BY <1>0, <1>2, <1>4, <1>7, <1>b, QueueFacts DEF TakenSound, OneLinkEach
<1>16. BeforeIsHead'
  BY <1>0, <1>2, <1>4, <1>b DEF BeforeIsHead, FirstSound
<1>17. AfterSound'
  BY <1>0, <1>2, <1>4, <1>7, <1>w, QueueFacts DEF AfterSound
<1>18. RemovedOnce'
  BY <1>0, <1>2, <1>4, <1>6, <1>7, <1>w, QueueFacts DEF RemovedOnce, Within
<1> QED
  BY <1>5, <1>8, <1>9, <1>10, <1>11, <1>12, <1>13, <1>14, <1>15, <1>16, <1>17, <1>18 DEF QInv

LEMMA DelReadNextKeeps == ASSUME QInv, DelReadNext PROVE QInv'
<1>0. /\ QueueTypes /\ Counted /\ AddSound
      /\ HeadSound /\ PointsToLinked /\ LeadsOn /\ FirstSound /\ OneLinkEach
      /\ TakenSound /\ BeforeIsHead /\ AfterSound /\ RemovedOnce
  BY DEF QInv
<1>1. Worker \in Threads /\ local[Worker] \in Local /\ "del_read_prev" \in Labels
  BY <1>0, QueueFacts DEF QueueTypes, Labels
<1>b. local[Worker].work \in LinkedWorks /\ local[Worker].work \in Works
  BY <1>0, <1>1, QueueFacts DEF DelReadNext, Access, LinkedWorks, QueuedWorks, TakenSound
<1>a. Access(Worker, "del_read_next", "del_read_prev", mem, [local[Worker] EXCEPT !.after = mem.next[Entry]]) /\ log' = log
  BY DEF DelReadNext
<1>l. [local[Worker] EXCEPT !.after = mem.next[Entry]] \in Local
  BY <1>0, <1>1, <1>b, QueueFacts DEF Local, QueueTypes, QueueMemory, Entry
<1>2. /\ local[Worker].pc = "del_read_next" /\ mem' = mem
      /\ local' \in [Threads -> Local]
      /\ local'[Worker].pc = "del_read_prev" /\ local'[Worker].arg = local[Worker].arg /\ local'[Worker].work = local[Worker].work
      /\ local'[Worker].before = local[Worker].before /\ local'[Worker].after = mem.next[local[Worker].work]
      /\ \A s \in Threads \ {Worker} : local'[s] = local[s]
      /\ log' = log
  <2> DEFINE l == [local[Worker] EXCEPT !.after = mem.next[Entry]]
  <2>1. l \in Local /\ Access(Worker, "del_read_next", "del_read_prev", mem, l)
    BY <1>a, <1>l
  <2>2. l.arg = local[Worker].arg /\ l.work = local[Worker].work /\ l.before = local[Worker].before /\ l.after = mem.next[local[Worker].work]
    BY <1>1 DEF Local, Entry
  <2> HIDE DEF l
  <2> QED
    BY <1>0, <1>1, <1>a, <2>1, <2>2, AccessEffect
<1>4. mem' \in QueueMemory /\ mem'.next = mem.next /\ mem'.prev = mem.prev /\ mem'.pending = mem.pending
  BY <1>0, <1>2 DEF QueueTypes, QueueMemory
<1>5. QueueTypes'
  BY <1>0, <1>1, <1>2, <1>4, QueueFacts DEF QueueTypes, Labels
<1>6. QueuedWorks' = QueuedWorks
  BY <1>2 DEF QueuedWorks
<1>7. LinkedWorks' = LinkedWorks
  BY <1>1, <1>2, <1>6 DEF LinkedWorks, Within
<1>w. LinkedWorks \subseteq QueuedWorks /\ QueuedWorks \subseteq Works
  BY DEF LinkedWorks, QueuedWorks
<1>8. Counted'
  BY <1>0, <1>2, <1>4, <1>6, QueueFacts DEF Counted, Within
<1>9. AddSound'
  BY <1>0, <1>2, <1>4, <1>6, QueueFacts DEF AddSound
<1>10. HeadSound'
  BY <1>0, <1>2, <1>4, <1>7, <1>w, QueueFacts, <1>b DEF HeadSound
<1>11. PointsToLinked'
  BY <1>0, <1>2, <1>4, <1>7, <1>w, QueueFacts DEF PointsToLinked
<1>12. LeadsOn'
  BY <1>0, <1>2, <1>4, <1>7, <1>w, QueueFacts DEF LeadsOn
<1>13. FirstSound'
  BY <1>0, <1>2, <1>4, <1>7, <1>w, QueueFacts DEF FirstSound
<1>14. OneLinkEach'
  <2>1. (local'[Worker].pc = local[Worker].pc /\ local'[Worker].work = local[Worker].work)
        \/ local[Worker].pc # "null_next"
    BY <1>2, QueueFacts
  <2> QED
    BY <2>1, <1>0, <1>2, <1>4, <1>7 DEF OneLinkEach
<1>15. TakenSound'
  BY <1>0, <1>2, <1>4, <1>7, <1>w, QueueFacts DEF TakenSound
<1>16. BeforeIsHead'
  BY <1>0, <1>2, <1>4, <1>7, <1>w, QueueFacts DEF BeforeIsHead
<1>17. AfterSound'
  <2>1. local[Worker].work \in QueueNodes \ {work_queue} /\ mem.next[local[Worker].work] \in QueueNodes
    BY <1>0, <1>b, QueueFacts DEF LeadsOn, QueueTypes, QueueMemory
  <2>2. mem.next[local[Worker].work] # local[Worker].work
    BY <2>1, <1>0, <1>2 DEF TakenSound
  <2>3. mem.next[local[Worker].work] \in Works => mem.next[local[Worker].work] \in LinkedWorks
    BY <2>1, <2>2, <1>0 DEF PointsToLinked
  <2> QED
    BY <2>1, <2>2, <2>3, <1>0, <1>2, <1>4, <1>7 DEF AfterSound, OneLinkEach
<1>18. RemovedOnce'
  BY <1>0, <1>2, <1>4, <1>6, <1>7, <1>w, QueueFacts DEF RemovedOnce, Within
<1> QED
  BY <1>5, <1>8, <1>9, <1>10, <1>11, <1>12, <1>13, <1>14, <1>15, <1>16, <1>17, <1>18 DEF QInv

LEMMA DelReadPrevKeeps == ASSUME QInv, DelReadPrev PROVE QInv'
<1>0. /\ QueueTypes /\ Counted /\ AddSound
      /\ HeadSound /\ PointsToLinked /\ LeadsOn /\ FirstSound /\ OneLinkEach
      /\ TakenSound /\ BeforeIsHead /\ AfterSound /\ RemovedOnce
  BY DEF QInv
<1>1. Worker \in Threads /\ local[Worker] \in Local /\ "del_prev" \in Labels
  BY <1>0, QueueFacts DEF QueueTypes, Labels
<1>b. local[Worker].work \in LinkedWorks /\ local[Worker].work \in Works
  BY <1>0, <1>1, QueueFacts DEF DelReadPrev, Access, LinkedWorks, QueuedWorks, TakenSound
<1>a. Access(Worker, "del_read_prev", "del_prev", mem, [local[Worker] EXCEPT !.before = mem.prev[Entry]]) /\ log' = log
  BY DEF DelReadPrev
<1>l. [local[Worker] EXCEPT !.before = mem.prev[Entry]] \in Local
  BY <1>0, <1>1, <1>b, QueueFacts DEF Local, QueueTypes, QueueMemory, Entry
<1>2. /\ local[Worker].pc = "del_read_prev" /\ mem' = mem
      /\ local' \in [Threads -> Local]
      /\ local'[Worker].pc = "del_prev" /\ local'[Worker].arg = local[Worker].arg /\ local'[Worker].work = local[Worker].work
      /\ local'[Worker].before = mem.prev[local[Worker].work] /\ local'[Worker].after = local[Worker].after
      /\ \A s \in Threads \ {Worker} : local'[s] = local[s]
      /\ log' = log
  <2> DEFINE l == [local[Worker] EXCEPT !.before = mem.prev[Entry]]
  <2>1. l \in Local /\ Access(Worker, "del_read_prev", "del_prev", mem, l)
    BY <1>a, <1>l
  <2>2. l.arg = local[Worker].arg /\ l.work = local[Worker].work /\ l.before = mem.prev[local[Worker].work] /\ l.after = local[Worker].after
    BY <1>1 DEF Local, Entry
  <2> HIDE DEF l
  <2> QED
    BY <1>0, <1>1, <1>a, <2>1, <2>2, AccessEffect
<1>4. mem' \in QueueMemory /\ mem'.next = mem.next /\ mem'.prev = mem.prev /\ mem'.pending = mem.pending
  BY <1>0, <1>2 DEF QueueTypes, QueueMemory
<1>5. QueueTypes'
  BY <1>0, <1>1, <1>2, <1>4, QueueFacts DEF QueueTypes, Labels
<1>6. QueuedWorks' = QueuedWorks
  BY <1>2 DEF QueuedWorks
<1>7. LinkedWorks' = LinkedWorks
  BY <1>1, <1>2, <1>6 DEF LinkedWorks, Within
<1>w. LinkedWorks \subseteq QueuedWorks /\ QueuedWorks \subseteq Works
  BY DEF LinkedWorks, QueuedWorks
<1>8. Counted'
  BY <1>0, <1>2, <1>4, <1>6, QueueFacts DEF Counted, Within
<1>9. AddSound'
  BY <1>0, <1>2, <1>4, <1>6, QueueFacts DEF AddSound
<1>10. HeadSound'
  BY <1>0, <1>2, <1>4, <1>7, <1>w, QueueFacts, <1>b DEF HeadSound
<1>11. PointsToLinked'
  BY <1>0, <1>2, <1>4, <1>7, <1>w, QueueFacts DEF PointsToLinked
<1>12. LeadsOn'
  BY <1>0, <1>2, <1>4, <1>7, <1>w, QueueFacts DEF LeadsOn
<1>13. FirstSound'
  BY <1>0, <1>2, <1>4, <1>7, <1>w, QueueFacts DEF FirstSound
<1>14. OneLinkEach'
  <2>1. (local'[Worker].pc = local[Worker].pc /\ local'[Worker].work = local[Worker].work)
        \/ local[Worker].pc # "null_next"
    BY <1>2, QueueFacts
  <2> QED
    BY <2>1, <1>0, <1>2, <1>4, <1>7 DEF OneLinkEach
<1>15. TakenSound'
  BY <1>0, <1>2, <1>4, <1>7, <1>w, QueueFacts DEF TakenSound
<1>16. BeforeIsHead'
  BY <1>0, <1>2, <1>4, <1>7, <1>w, QueueFacts DEF BeforeIsHead
<1>17. AfterSound'
  BY <1>0, <1>2, <1>4, <1>7, <1>w, QueueFacts DEF AfterSound
<1>18. RemovedOnce'
  BY <1>0, <1>2, <1>4, <1>6, <1>7, <1>w, QueueFacts DEF RemovedOnce, Within
<1> QED
  BY <1>5, <1>8, <1>9, <1>10, <1>11, <1>12, <1>13, <1>14, <1>15, <1>16, <1>17, <1>18 DEF QInv

LEMMA DelPrevKeeps == ASSUME QInv, DelPrev PROVE QInv'
<1>0. /\ QueueTypes /\ Counted /\ AddSound
      /\ HeadSound /\ PointsToLinked /\ LeadsOn /\ FirstSound /\ OneLinkEach
      /\ TakenSound /\ BeforeIsHead /\ AfterSound /\ RemovedOnce
  BY DEF QInv
<1>1. Worker \in Threads /\ local[Worker] \in Local /\ "del_next" \in Labels
  BY <1>0, QueueFacts DEF QueueTypes, Labels
<1>b. local[Worker].work \in LinkedWorks /\ local[Worker].work \in Works
  BY <1>0, <1>1, QueueFacts DEF DelPrev, Access, LinkedWorks, QueuedWorks, TakenSound
<1>a. Access(Worker, "del_prev", "del_next", StorePrev(local[Worker].after, local[Worker].before), local[Worker]) /\ log' = log
  BY DEF DelPrev
<1>2. /\ local[Worker].pc = "del_prev" /\ mem' = StorePrev(local[Worker].after, local[Worker].before)
      /\ local' \in [Threads -> Local]
      /\ local'[Worker].pc = "del_next" /\ local'[Worker].arg = local[Worker].arg /\ local'[Worker].work = local[Worker].work
      /\ local'[Worker].before = local[Worker].before /\ local'[Worker].after = local[Worker].after
      /\ \A s \in Threads \ {Worker} : local'[s] = local[s]
      /\ log' = log
  BY <1>0, <1>1, <1>a, AccessEffect
<1>4. /\ mem' \in QueueMemory /\ mem'.next = mem.next /\ mem'.pending = mem.pending
      /\ \A x \in QueueNodes : mem'.prev[x] = IF x = local[Worker].after THEN work_queue ELSE mem.prev[x]
      /\ local[Worker].after \in QueueNodes
  <2>1. local[Worker].before = work_queue /\ local[Worker].after \in QueueNodes
    BY <1>0, <1>2 DEF BeforeIsHead, AfterSound
  <2> QED
    BY <1>0, <1>2, <2>1, StoreEffect, QueueFacts
<1>5. QueueTypes'
  BY <1>0, <1>1, <1>2, <1>4, QueueFacts DEF QueueTypes, Labels
<1>6. QueuedWorks' = QueuedWorks
  BY <1>2 DEF QueuedWorks
<1>7. LinkedWorks' = LinkedWorks
  BY <1>1, <1>2, <1>6 DEF LinkedWorks, Within
<1>w. LinkedWorks \subseteq QueuedWorks /\ QueuedWorks \subseteq Works
  BY DEF LinkedWorks, QueuedWorks
<1>8. Counted'
  BY <1>0, <1>2, <1>4, <1>6, QueueFacts DEF Counted, Within
<1>9. AddSound'
  <2>1. \A s \in Threads : local[s].pc = "add_link" => local[s].arg \in QueueNodes /\ local[s].arg # local[Worker].after
    BY <1>0, <1>1, <1>2, QueueFacts DEF AddSound, AfterSound, LinkedWorks, Within
  <2> QED
    BY <2>1, <1>0, <1>2, <1>4, <1>6, QueueFacts DEF AddSound
<1>10. HeadSound'
  BY <1>0, <1>2, <1>4, <1>7, <1>w, QueueFacts, <1>b DEF HeadSound
<1>11. PointsToLinked'
  BY <1>0, <1>2, <1>4, <1>7, <1>w, QueueFacts DEF PointsToLinked
<1>12. LeadsOn'
  BY <1>0, <1>2, <1>4, <1>7, <1>w, QueueFacts DEF LeadsOn
<1>13. FirstSound'
  BY <1>0, <1>4, QueueFacts DEF FirstSound
<1>14. OneLinkEach'
  <2>1. (local'[Worker].pc = local[Worker].pc /\ local'[Worker].work = local[Worker].work)
        \/ local[Worker].pc # "null_next"
    BY <1>2, QueueFacts
  <2> QED
    BY <2>1, <1>0, <1>2, <1>4, <1>7 DEF OneLinkEach
<1>15. TakenSound'
  BY <1>0, <1>2, <1>4, <1>7, <1>w, QueueFacts DEF TakenSound
<1>16. BeforeIsHead'
  BY <1>0, <1>2, <1>4, <1>7, <1>w, QueueFacts DEF BeforeIsHead
<1>17. AfterSound'
  BY <1>0, <1>2, <1>4, <1>7, <1>w, QueueFacts DEF AfterSound
<1>18. RemovedOnce'
  BY <1>0, <1>2, <1>4, <1>6, <1>7, <1>w, QueueFacts DEF RemovedOnce, Within
<1> QED
  BY <1>5, <1>8, <1>9, <1>10, <1>11, <1>12, <1>13, <1>14, <1>15, <1>16, <1>17, <1>18 DEF QInv

LEMMA DelNextKeeps == ASSUME QInv, DelNext PROVE QInv'
<1>0. /\ QueueTypes /\ Counted /\ AddSound
      /\ HeadSound /\ PointsToLinked /\ LeadsOn /\ FirstSound /\ OneLinkEach
      /\ TakenSound /\ BeforeIsHead /\ AfterSound /\ RemovedOnce
  BY DEF QInv
<1>1. Worker \in Threads /\ local[Worker] \in Local /\ "null_next" \in Labels
  BY <1>0, QueueFacts DEF QueueTypes, Labels
<1>b. local[Worker].work \in LinkedWorks /\ local[Worker].work \in Works
  BY <1>0, <1>1, QueueFacts DEF DelNext, Access, LinkedWorks, QueuedWorks, TakenSound
<1>a. Access(Worker, "del_next", "null_next", StoreNext(local[Worker].before, local[Worker].after), local[Worker]) /\ log' = [log EXCEPT !.dequeued[Entry] = @ + 1]
  BY DEF DelNext
<1>2. /\ local[Worker].pc = "del_next" /\ mem' = StoreNext(local[Worker].before, local[Worker].after)
      /\ local' \in [Threads -> Local]
      /\ local'[Worker].pc = "null_next" /\ local'[Worker].arg = local[Worker].arg /\ local'[Worker].work = local[Worker].work
      /\ local'[Worker].before = local[Worker].before /\ local'[Worker].after = local[Worker].after
      /\ \A s \in Threads \ {Worker} : local'[s] = local[s]
      /\ log' = [log EXCEPT !.dequeued[Entry] = @ + 1]
  BY <1>0, <1>1, <1>a, AccessEffect
<1>4. /\ mem' \in QueueMemory /\ mem'.prev = mem.prev /\ mem'.pending = mem.pending
      /\ \A x \in QueueNodes : mem'.next[x] = IF x = work_queue THEN local[Worker].after ELSE mem.next[x]
      /\ local[Worker].after \in QueueNodes
  <2>1. local[Worker].before = work_queue /\ local[Worker].after \in QueueNodes
    BY <1>0, <1>2 DEF BeforeIsHead, AfterSound
  <2> QED
    BY <1>0, <1>2, <2>1, StoreEffect, QueueFacts
<1>c. /\ log' \in [accepted : [Works -> Nat], dequeued : [Works -> Nat]]
      /\ \A x \in Works : log'.dequeued[x] = IF x = local[Worker].work THEN log.dequeued[x] + 1 ELSE log.dequeued[x]
      /\ log'.accepted = log.accepted
  BY <1>0, <1>2, <1>b DEF Entry, QueueTypes
<1>d. log.accepted[local[Worker].work] = log.dequeued[local[Worker].work] + 1
  BY <1>b DEF LinkedWorks, QueuedWorks
<1>5. QueueTypes'
  BY <1>0, <1>1, <1>2, <1>4, <1>c, QueueFacts DEF QueueTypes, Labels
<1>6. QueuedWorks' = QueuedWorks \ {local[Worker].work}
  BY <1>0, <1>c, <1>d DEF QueuedWorks, QueueTypes
<1>7. LinkedWorks' = LinkedWorks \ {local[Worker].work}
  BY <1>1, <1>2, <1>6 DEF LinkedWorks, Within
<1>w. LinkedWorks \subseteq QueuedWorks /\ QueuedWorks \subseteq Works
  BY DEF LinkedWorks, QueuedWorks
<1>8. Counted'
  <2>1. \A s \in Threads, w \in Works : Within(s, Reached, w) => Within(s, Reached, w)'
    BY <1>2 DEF Within
  <2>2. log.accepted[local[Worker].work] \in Nat /\ log.dequeued[local[Worker].work] \in Nat
    BY <1>0, <1>b DEF QueueTypes
  <2> QED
    BY <2>1, <2>2, <1>0, <1>b, <1>c, <1>d, <1>4, <1>6 DEF Counted
<1>9. AddSound'
  <2>1. \A s \in Threads : local[s].pc \in Adding => local[s].arg \in Works /\ local[s].arg \in QueuedWorks \ {local[Worker].work}
    BY <1>0, <1>1, <1>2, <1>b, QueueFacts DEF AddSound, LinkedWorks, Within
  <2> QED
    BY <2>1, <1>0, <1>2, <1>4, <1>6, QueueFacts DEF AddSound
<1>10. HeadSound'
  BY <1>0, <1>2, <1>4, <1>7, <1>w, QueueFacts, <1>b DEF HeadSound
<1>11. PointsToLinked'
  <2>1. \A u \in QueueNodes \ {work_queue} : mem.next[u] # local[Worker].work
    BY <1>0, <1>2 DEF TakenSound
  <2> QED
    BY <2>1, <1>0, <1>2, <1>4, <1>7, QueueFacts DEF PointsToLinked, AfterSound
<1>12. LeadsOn'
  BY <1>0, <1>4, <1>7, <1>w, QueueFacts DEF LeadsOn
<1>13. FirstSound'
  BY <1>0, <1>2, <1>4, QueueFacts DEF FirstSound, AfterSound
<1>14. OneLinkEach'
  <2> SUFFICES ASSUME NEW u \in QueueNodes, NEW v \in QueueNodes, mem'.next[u] = mem'.next[v], mem'.next[u] \in LinkedWorks',
                      u # v, local[Worker].work \notin {u, v}
               PROVE  FALSE
    BY <1>2 DEF OneLinkEach
  <2>1. mem'.next[u] \in Works /\ mem'.next[u] \in LinkedWorks
    BY <1>7, <1>w
  <2>2. CASE u = work_queue \/ v = work_queue
    BY <2>1, <2>2, <1>0, <1>2, <1>4 DEF AfterSound
  <2>3. CASE u # work_queue /\ v # work_queue
    BY <2>1, <2>3, <1>0, <1>2, <1>4 DEF OneLinkEach
  <2> QED
    BY <2>2, <2>3
<1>15. TakenSound'
  BY <1>0, <1>2, <1>4, <1>7, <1>w, QueueFacts DEF TakenSound
<1>16. BeforeIsHead'
  BY <1>0, <1>2, <1>4, <1>7, <1>w, QueueFacts DEF BeforeIsHead
<1>17. AfterSound'
  BY <1>0, <1>2, <1>4, <1>7, <1>w, QueueFacts DEF AfterSound
<1>18. RemovedOnce'
  <2>1. local[Worker].work \in QueuedWorks /\ \A s \in Threads : ~Within(s, Adding, local[Worker].work)
    BY <1>b DEF LinkedWorks
  <2>2. mem.pending[local[Worker].work] \/ \E s \in Threads : Within(s, {"set_pending"}, local[Worker].work)
    BY <2>1, <1>0, <1>b DEF Counted, Within
  <2>3. \A s \in Threads : Within(s, {"set_pending"}, local[Worker].work) => Within(s, {"set_pending"}, local[Worker].work)'
    BY <1>2 DEF Within
  <2> QED
    BY <2>2, <2>3, <1>2, <1>4, <1>6, <1>b DEF RemovedOnce
<1> QED
  BY <1>5, <1>8, <1>9, <1>10, <1>11, <1>12, <1>13, <1>14, <1>15, <1>16, <1>17, <1>18 DEF QInv

LEMMA NullNextKeeps == ASSUME QInv, NullNext PROVE QInv'
<1>0. /\ QueueTypes /\ Counted /\ AddSound
      /\ HeadSound /\ PointsToLinked /\ LeadsOn /\ FirstSound /\ OneLinkEach
      /\ TakenSound /\ BeforeIsHead /\ AfterSound /\ RemovedOnce
  BY DEF QInv
<1>1. Worker \in Threads /\ local[Worker] \in Local /\ "null_prev" \in Labels
  BY <1>0, QueueFacts DEF QueueTypes, Labels
<1>b. local[Worker].work \in Works \ QueuedWorks /\ local[Worker].work \in QueueNodes \ {work_queue}
  BY <1>0, <1>1, QueueFacts DEF NullNext, Access, RemovedOnce
<1>a. Access(Worker, "null_next", "null_prev", StoreNext(Entry, Null), local[Worker]) /\ log' = log
  BY DEF NullNext
<1>2. /\ local[Worker].pc = "null_next" /\ mem' = StoreNext(Entry, Null)
      /\ local' \in [Threads -> Local]
      /\ local'[Worker].pc = "null_prev" /\ local'[Worker].arg = local[Worker].arg /\ local'[Worker].work = local[Worker].work
      /\ local'[Worker].before = local[Worker].before /\ local'[Worker].after = local[Worker].after
      /\ \A s \in Threads \ {Worker} : local'[s] = local[s]
      /\ log' = log
  BY <1>0, <1>1, <1>a, AccessEffect
<1>4. /\ mem' \in QueueMemory /\ mem'.prev = mem.prev /\ mem'.pending = mem.pending
      /\ \A x \in QueueNodes : mem'.next[x] = IF x = local[Worker].work THEN Null ELSE mem.next[x]
  BY <1>0, <1>2, <1>b, StoreEffect, QueueFacts DEF Entry
<1>5. QueueTypes'
  BY <1>0, <1>1, <1>2, <1>4, QueueFacts DEF QueueTypes, Labels
<1>6. QueuedWorks' = QueuedWorks
  BY <1>2 DEF QueuedWorks
<1>7. LinkedWorks' = LinkedWorks
  BY <1>1, <1>2, <1>6 DEF LinkedWorks, Within
<1>w. LinkedWorks \subseteq QueuedWorks /\ QueuedWorks \subseteq Works
  BY DEF LinkedWorks, QueuedWorks
<1>8. Counted'
  <2>1. \A s \in Threads, w \in Works : Within(s, Reached, w) => Within(s, Reached, w)'
    BY <1>2 DEF Within
  <2> QED
    BY <2>1, <1>0, <1>2, <1>4, <1>6, <1>b DEF Counted
<1>9. AddSound'
  <2>1. \A s \in Threads : local[s].pc \in Adding => local[s].arg \in QueueNodes \ {local[Worker].work}
    BY <1>0, <1>b, QueueFacts DEF AddSound, QueuedWorks
  <2> QED
    BY <2>1, <1>0, <1>2, <1>4, <1>6, QueueFacts DEF AddSound
<1>10. HeadSound'
  BY <1>0, <1>4, <1>b, QueueFacts DEF HeadSound
<1>11. PointsToLinked'
  BY <1>0, <1>4, <1>7, <1>w, QueueFacts DEF PointsToLinked
<1>12. LeadsOn'
  BY <1>0, <1>4, <1>7, <1>w, <1>b, QueueFacts DEF LeadsOn
<1>13. FirstSound'
  BY <1>0, <1>4, <1>b, QueueFacts DEF FirstSound
<1>14. OneLinkEach'
  <2> SUFFICES ASSUME NEW u \in QueueNodes, NEW v \in QueueNodes, mem'.next[u] = mem'.next[v], mem'.next[u] \in LinkedWorks'
               PROVE  u = v
    BY DEF OneLinkEach
  <2>1. u # local[Worker].work /\ v # local[Worker].work
    BY <1>4, <1>7, <1>w, QueueFacts
  <2> QED
    BY <2>1, <1>0, <1>4, <1>7 DEF OneLinkEach
<1>15. TakenSound'
  BY <1>0, <1>2, <1>4, <1>7, <1>w, QueueFacts DEF TakenSound
<1>16. BeforeIsHead'
  BY <1>0, <1>2, <1>4, <1>7, <1>w, QueueFacts DEF BeforeIsHead
<1>17. AfterSound'
  BY <1>0, <1>2, <1>4, <1>7, <1>w, QueueFacts DEF AfterSound
<1>18. RemovedOnce'
  <2>1. \A s \in Threads, w \in Works : Within(s, {"set_pending"}, w) => Within(s, {"set_pending"}, w)'
    BY <1>2 DEF Within
  <2> QED
    BY <2>1, <1>0, <1>2, <1>4, <1>6, <1>b DEF RemovedOnce
<1> QED
  BY <1>5, <1>8, <1>9, <1>10, <1>11, <1>12, <1>13, <1>14, <1>15, <1>16, <1>17, <1>18 DEF QInv

LEMMA NullPrevKeeps == ASSUME QInv, NullPrev PROVE QInv'
<1>0. /\ QueueTypes /\ Counted /\ AddSound
      /\ HeadSound /\ PointsToLinked /\ LeadsOn /\ FirstSound /\ OneLinkEach
      /\ TakenSound /\ BeforeIsHead /\ AfterSound /\ RemovedOnce
  BY DEF QInv
<1>1. Worker \in Threads /\ local[Worker] \in Local /\ "clear_pending" \in Labels
  BY <1>0, QueueFacts DEF QueueTypes, Labels
<1>b. local[Worker].work \in Works \ QueuedWorks /\ local[Worker].work \in QueueNodes \ {work_queue}
  BY <1>0, <1>1, QueueFacts DEF NullPrev, Access, RemovedOnce
<1>a. Access(Worker, "null_prev", "clear_pending", StorePrev(Entry, Null), local[Worker]) /\ log' = log
  BY DEF NullPrev
<1>2. /\ local[Worker].pc = "null_prev" /\ mem' = StorePrev(Entry, Null)
      /\ local' \in [Threads -> Local]
      /\ local'[Worker].pc = "clear_pending" /\ local'[Worker].arg = local[Worker].arg /\ local'[Worker].work = local[Worker].work
      /\ local'[Worker].before = local[Worker].before /\ local'[Worker].after = local[Worker].after
      /\ \A s \in Threads \ {Worker} : local'[s] = local[s]
      /\ log' = log
  BY <1>0, <1>1, <1>a, AccessEffect
<1>4. /\ mem' \in QueueMemory /\ mem'.next = mem.next /\ mem'.pending = mem.pending
      /\ \A x \in QueueNodes : mem'.prev[x] = IF x = local[Worker].work THEN Null ELSE mem.prev[x]
  BY <1>0, <1>2, <1>b, StoreEffect, QueueFacts DEF Entry
<1>5. QueueTypes'
  BY <1>0, <1>1, <1>2, <1>4, QueueFacts DEF QueueTypes, Labels
<1>6. QueuedWorks' = QueuedWorks
  BY <1>2 DEF QueuedWorks
<1>7. LinkedWorks' = LinkedWorks
  BY <1>1, <1>2, <1>6 DEF LinkedWorks, Within
<1>w. LinkedWorks \subseteq QueuedWorks /\ QueuedWorks \subseteq Works
  BY DEF LinkedWorks, QueuedWorks
<1>8. Counted'
  <2>1. \A s \in Threads, w \in Works : Within(s, Reached, w) => Within(s, Reached, w)'
    BY <1>2 DEF Within
  <2> QED
    BY <2>1, <1>0, <1>2, <1>4, <1>6, <1>b DEF Counted
<1>9. AddSound'
  <2>1. \A s \in Threads : local[s].pc \in Adding => local[s].arg \in QueueNodes \ {local[Worker].work}
    BY <1>0, <1>b, QueueFacts DEF AddSound, QueuedWorks
  <2> QED
    BY <2>1, <1>0, <1>2, <1>4, <1>6, QueueFacts DEF AddSound
<1>10. HeadSound'
  BY <1>0, <1>4, <1>b, QueueFacts DEF HeadSound
<1>11. PointsToLinked'
  BY <1>0, <1>2, <1>4, <1>7, <1>w, QueueFacts DEF PointsToLinked
<1>12. LeadsOn'
  BY <1>0, <1>2, <1>4, <1>7, <1>w, QueueFacts DEF LeadsOn
<1>13. FirstSound'
  <2>1. mem.next[work_queue] \in Works => mem.next[work_queue] \in QueueNodes \ {local[Worker].work}
    BY <1>0, <1>b, <1>w, QueueFacts DEF PointsToLinked
  <2> QED
    BY <2>1, <1>0, <1>4 DEF FirstSound
<1>14. OneLinkEach'
  <2>1. (local'[Worker].pc = local[Worker].pc /\ local'[Worker].work = local[Worker].work)
        \/ local[Worker].pc # "null_next"
    BY <1>2, QueueFacts
  <2> QED
    BY <2>1, <1>0, <1>2, <1>4, <1>7 DEF OneLinkEach
<1>15. TakenSound'
  BY <1>0, <1>2, <1>4, <1>7, <1>w, QueueFacts DEF TakenSound
<1>16. BeforeIsHead'
  BY <1>0, <1>2, <1>4, <1>7, <1>w, QueueFacts DEF BeforeIsHead
<1>17. AfterSound'
  BY <1>0, <1>2, <1>4, <1>7, <1>w, QueueFacts DEF AfterSound
<1>18. RemovedOnce'
  <2>1. \A s \in Threads, w \in Works : Within(s, {"set_pending"}, w) => Within(s, {"set_pending"}, w)'
    BY <1>2 DEF Within
  <2> QED
    BY <2>1, <1>0, <1>2, <1>4, <1>6, <1>b DEF RemovedOnce
<1> QED
  BY <1>5, <1>8, <1>9, <1>10, <1>11, <1>12, <1>13, <1>14, <1>15, <1>16, <1>17, <1>18 DEF QInv

LEMMA ClearPendingKeeps == ASSUME QInv, ClearPending PROVE QInv'
<1>0. /\ QueueTypes /\ Counted /\ AddSound
      /\ HeadSound /\ PointsToLinked /\ LeadsOn /\ FirstSound /\ OneLinkEach
      /\ TakenSound /\ BeforeIsHead /\ AfterSound /\ RemovedOnce
  BY DEF QInv
<1>1. Worker \in Threads /\ local[Worker] \in Local /\ "dec_read" \in Labels
  BY <1>0, QueueFacts DEF QueueTypes, Labels
<1>b. local[Worker].work \in Works \ QueuedWorks /\ local[Worker].work \in QueueNodes \ {work_queue}
  BY <1>0, <1>1, QueueFacts DEF ClearPending, Access, RemovedOnce
<1>a. Access(Worker, "clear_pending", "dec_read", [mem EXCEPT !.pending[Entry] = FALSE], local[Worker]) /\ log' = log
  BY DEF ClearPending
<1>2. /\ local[Worker].pc = "clear_pending" /\ mem' = [mem EXCEPT !.pending[Entry] = FALSE]
      /\ local' \in [Threads -> Local]
      /\ local'[Worker].pc = "dec_read" /\ local'[Worker].arg = local[Worker].arg /\ local'[Worker].work = local[Worker].work
      /\ local'[Worker].before = local[Worker].before /\ local'[Worker].after = local[Worker].after
      /\ \A s \in Threads \ {Worker} : local'[s] = local[s]
      /\ log' = log
  BY <1>0, <1>1, <1>a, AccessEffect
<1>4. /\ mem' \in QueueMemory /\ mem'.next = mem.next /\ mem'.prev = mem.prev
      /\ \A w \in Works : w # local[Worker].work => mem'.pending[w] = mem.pending[w]
  BY <1>0, <1>2, <1>b DEF QueueTypes, QueueMemory, Entry
<1>5. QueueTypes'
  BY <1>0, <1>1, <1>2, <1>4, QueueFacts DEF QueueTypes, Labels
<1>6. QueuedWorks' = QueuedWorks
  BY <1>2 DEF QueuedWorks
<1>7. LinkedWorks' = LinkedWorks
  BY <1>1, <1>2, <1>6 DEF LinkedWorks, Within
<1>w. LinkedWorks \subseteq QueuedWorks /\ QueuedWorks \subseteq Works
  BY DEF LinkedWorks, QueuedWorks
<1>8. Counted'
  <2>1. \A s \in Threads, w \in Works : Within(s, Reached, w) => Within(s, Reached, w)'
    BY <1>2 DEF Within
  <2> QED
    BY <2>1, <1>0, <1>2, <1>4, <1>6, <1>b DEF Counted
<1>9. AddSound'
  BY <1>0, <1>2, <1>4, <1>6, QueueFacts DEF AddSound
<1>10. HeadSound'
  BY <1>0, <1>2, <1>4, <1>7, <1>w, QueueFacts, <1>b DEF HeadSound
<1>11. PointsToLinked'
  BY <1>0, <1>2, <1>4, <1>7, <1>w, QueueFacts DEF PointsToLinked
<1>12. LeadsOn'
  BY <1>0, <1>2, <1>4, <1>7, <1>w, QueueFacts DEF LeadsOn
<1>13. FirstSound'
  BY <1>0, <1>2, <1>4, <1>7, <1>w, QueueFacts DEF FirstSound
<1>14. OneLinkEach'
  <2>1. (local'[Worker].pc = local[Worker].pc /\ local'[Worker].work = local[Worker].work)
        \/ local[Worker].pc # "null_next"
    BY <1>2, QueueFacts
  <2> QED
    BY <2>1, <1>0, <1>2, <1>4, <1>7 DEF OneLinkEach
<1>15. TakenSound'
  BY <1>0, <1>2, <1>4, <1>7, <1>w, QueueFacts DEF TakenSound
<1>16. BeforeIsHead'
  BY <1>0, <1>2, <1>4, <1>7, <1>w, QueueFacts DEF BeforeIsHead
<1>17. AfterSound'
  BY <1>0, <1>2, <1>4, <1>7, <1>w, QueueFacts DEF AfterSound
<1>18. RemovedOnce'
  BY <1>0, <1>2, <1>4, <1>6, <1>7, <1>w, QueueFacts DEF RemovedOnce, Within
<1> QED
  BY <1>5, <1>8, <1>9, <1>10, <1>11, <1>12, <1>13, <1>14, <1>15, <1>16, <1>17, <1>18 DEF QInv


-----------------------------------------------------------------------------
LEMMA QueueInitQInv == QueueInit => QInv
<1> SUFFICES ASSUME QueueInit PROVE QInv
  OBVIOUS
<1>1. /\ mem.next = [n \in QueueNodes |-> n] /\ mem.prev = [n \in QueueNodes |-> n]
      /\ log.accepted = [w \in Works |-> 0] /\ log.dequeued = [w \in Works |-> 0]
      /\ local[Caller].pc = "idle" /\ local[Worker].pc = "loop"
  BY QueueFacts DEF QueueInit
<1>2. QueueTypes
  BY <1>1, QueueFacts DEF QueueInit, QueueTypes, QueueMemory, Local, Labels
<1>3. QueuedWorks = {} /\ LinkedWorks = {}
  BY <1>1 DEF QueuedWorks, LinkedWorks
<1>4. Counted /\ AddSound /\ TakenSound /\ BeforeIsHead /\ AfterSound /\ RemovedOnce
  BY <1>1, <1>3, QueueFacts DEF Counted, AddSound, TakenSound, BeforeIsHead, AfterSound, RemovedOnce
<1>5. HeadSound /\ PointsToLinked /\ LeadsOn /\ FirstSound /\ OneLinkEach
  BY <1>1, <1>3, QueueFacts DEF HeadSound, PointsToLinked, LeadsOn, FirstSound, OneLinkEach
<1> QED
  BY <1>2, <1>4, <1>5 DEF QInv

\* schedule_work: the refusal, and the rest of a call that queues the work.
LEMMA ScheduleKeeps ==
    ASSUME QInv, NEW t \in Threads, ScheduleWork(t) \/ AddStep(t)
    PROVE  QInv'
<1>1. /\ mem \in QueueMemory /\ local[t] \in Local
      /\ ReturnTo(t) \in (IF t = Caller THEN {"idle"} ELSE {"func_end"})
      /\ CallSite(t) \in {"idle", "func"} /\ (t = Caller \/ t = Worker)
  BY QueueFacts DEF QInv, QueueTypes, ReturnTo, CallSite
<1>2. ASSUME NEW w \in Schedules[t], ScheduleRefuses(t, w) PROVE QInv'
  <2>1. Access(t, local[t].pc, ReturnTo(t), mem, local[t]) /\ log' = log /\ local[t].pc = CallSite(t)
    BY <1>2 DEF ScheduleRefuses, Access
  <2> QED
    BY <2>1, <1>1, QueueFacts, PlainStep DEF Labels
<1>3. CASE IncRead(t)
  <2> DEFINE l == [local[t] EXCEPT !.count = mem.count]
  <2>1. l \in Local
    BY <1>1 DEF Local, QueueMemory
  <2>2. Access(t, local[t].pc, "inc_store", mem, l) /\ log' = log /\ local[t].pc = "inc_read"
    BY <1>3 DEF IncRead, Access
  <2> HIDE DEF l
  <2> QED
    BY <2>1, <2>2, <1>1, QueueFacts, PlainStep DEF Labels
<1>4. CASE IncStore(t)
  <2> DEFINE m == [mem EXCEPT !.count = local[t].count + 1]
  <2>1. m \in QueueMemory /\ m.next = mem.next /\ m.prev = mem.prev /\ m.pending = mem.pending
    BY <1>1 DEF Local, QueueMemory
  <2>2. Access(t, local[t].pc, ReturnTo(t), m, local[t]) /\ log' = log /\ local[t].pc = "inc_store"
    BY <1>4 DEF IncStore, Access
  <2> HIDE DEF m
  <2> QED
    BY <2>1, <2>2, <1>1, QueueFacts, PlainStep DEF Labels
<1> QED
  BY <1>2, <1>3, <1>4, ScheduleAcceptsKeeps, AddReadKeeps, AddHeadPrevKeeps, AddNextKeeps,
     AddPrevKeeps, AddLinkKeeps, SetPendingKeeps DEF ScheduleWork, AddStep

LEMMA FlushKeeps ==
    ASSUME QInv, (\E w \in Works : FlushWork(w)) \/ FlushReturn
    PROVE  QInv'
<1>1. mem \in QueueMemory /\ local[Caller] \in Local /\ Caller \in Threads /\ Caller # Worker
  BY QueueFacts DEF QInv, QueueTypes
<1>2. ASSUME NEW w \in Works, FlushWork(w) PROVE QInv'
  <2> DEFINE l == [local[Caller] EXCEPT !.arg = w]
  <2>1. l \in Local
    BY <1>1 DEF Local
  <2>2. Access(Caller, local[Caller].pc, "flush", mem, l) /\ log' = log /\ local[Caller].pc = "idle"
    BY <1>2 DEF FlushWork, Access
  <2> HIDE DEF l
  <2> QED
    BY <2>1, <2>2, <1>1, PlainStep
<1>3. CASE FlushReturn
  <2>1. Access(Caller, local[Caller].pc, "idle", mem, local[Caller]) /\ log' = log /\ local[Caller].pc = "flush"
    BY <1>3 DEF FlushReturn, Access
  <2> QED
    BY <2>1, <1>1, PlainStep
<1> QED
  BY <1>2, <1>3

\* worker_thread: the counter, and the call of the work function.
LEMMA WorkerKeeps == ASSUME QInv, WorkerStep PROVE QInv'
<1>1. mem \in QueueMemory /\ local[Worker] \in Local /\ Worker \in Threads /\ Caller # Worker
  BY QueueFacts DEF QInv, QueueTypes
<1>2. CASE DecRead
  <2> DEFINE l == [local[Worker] EXCEPT !.count = mem.count]
  <2>1. l \in Local
    BY <1>1 DEF Local, QueueMemory
  <2>2. Access(Worker, local[Worker].pc, "dec_store", mem, l) /\ log' = log /\ local[Worker].pc = "dec_read"
    BY <1>2 DEF DecRead, Access
  <2> HIDE DEF l
  <2> QED
    BY <2>1, <2>2, <1>1, PlainStep DEF Labels
<1>3. CASE DecStore
  <2> DEFINE m == [mem EXCEPT !.count = local[Worker].count - 1]
  <2>1. m \in QueueMemory /\ m.next = mem.next /\ m.prev = mem.prev /\ m.pending = mem.pending
    BY <1>1 DEF Local, QueueMemory
  <2>2. Access(Worker, local[Worker].pc, "func", m, local[Worker]) /\ log' = log /\ local[Worker].pc = "dec_store"
    BY <1>3 DEF DecStore, Access
  <2> HIDE DEF m
  <2> QED
    BY <2>1, <2>2, <1>1, PlainStep DEF Labels
<1>4. CASE FuncReturn
  <2>1. /\ Access(Worker, local[Worker].pc, "loop", mem, local[Worker]) /\ log' = log
        /\ local[Worker].pc \in {"func", "func_end"}
    BY <1>4 DEF FuncReturn, Access
  <2> QED
    BY <2>1, <1>1, PlainStep DEF Labels
<1> QED
  BY <1>2, <1>3, <1>4, TakeFirstKeeps, DelReadNextKeeps, DelReadPrevKeeps, DelPrevKeeps, DelNextKeeps,
     NullNextKeeps, NullPrevKeeps, ClearPendingKeeps DEF WorkerStep

\* What two threads that tear the list cannot break, for every number of works
\* and every interleaving of their accesses (workqueue.c:10-68).
THEOREM TornQueue == QueueSpec => []QInv
<1>1. QInv /\ UNCHANGED queue_vars => QInv'
  <2> SUFFICES ASSUME QInv, UNCHANGED queue_vars PROVE QInv'
    OBVIOUS
  <2>1. mem' = mem /\ local' = local /\ log' = log
    BY DEF queue_vars
  <2>2. QueuedWorks' = QueuedWorks /\ LinkedWorks' = LinkedWorks
    BY <2>1 DEF QueuedWorks, LinkedWorks, Within
  <2>3. QueueTypes' /\ Counted' /\ AddSound'
    BY <2>1, <2>2 DEF QInv, QueueTypes, Counted, AddSound, Within
  <2>4. HeadSound' /\ PointsToLinked' /\ LeadsOn' /\ FirstSound' /\ OneLinkEach'
    BY <2>1, <2>2 DEF QInv, HeadSound, PointsToLinked, LeadsOn, FirstSound, OneLinkEach
  <2>5. TakenSound' /\ BeforeIsHead' /\ AfterSound' /\ RemovedOnce'
    BY <2>1, <2>2 DEF QInv, TakenSound, BeforeIsHead, AfterSound, RemovedOnce, Within
  <2> QED
    BY <2>3, <2>4, <2>5 DEF QInv
<1>2. QInv /\ [QueueNext]_queue_vars => QInv'
  BY <1>1, ScheduleKeeps, FlushKeeps, WorkerKeeps DEF QueueNext
<1> QED
  BY <1>2, QueueInitQInv, PTL DEF QueueSpec

\* worker_thread never meets a NULL link, whatever list_del has left behind in
\* the works that schedule_work is linking (workqueue.c:17-19, 54).
THEOREM WorkerNeverMeetsNull == QueueSpec => []WorkerMeetsNoNull
<1>1. QInv => WorkerMeetsNoNull
  <2> SUFFICES ASSUME QInv PROVE WorkerMeetsNoNull
    OBVIOUS
  <2>1. mem.next[work_queue] # Null
    BY DEF QInv, HeadSound
  <2>2. local[Worker].pc = "del_prev" => local[Worker].before # Null /\ local[Worker].after # Null
    BY QueueFacts DEF QInv, BeforeIsHead, AfterSound
  <2> QED
    BY <2>1, <2>2 DEF WorkerMeetsNoNull
<1> QED
  BY <1>1, TornQueue, PTL

\* No work is executed more often than schedule_work accepted it, however the
\* list is torn (workqueue.c:18-25, 49-58).
THEOREM NoExtraRun == QueueSpec => []RunsAtMostOncePerSchedule
<1>1. QInv => RunsAtMostOncePerSchedule
  <2> SUFFICES ASSUME QInv, NEW w \in Works PROVE log.dequeued[w] =< log.accepted[w]
    BY DEF RunsAtMostOncePerSchedule
  <2>1. log.dequeued[w] \in Nat /\ log.accepted[w] \in Nat
    BY DEF QInv, QueueTypes
  <2> QED
    BY <2>1 DEF QInv, Counted, QueuedWorks
<1> QED
  BY <1>1, TornQueue, PTL

\* flush_work does not return while a call its thread made is still in the
\* queue (workqueue.c:64-68).
THEOREM FlushWaits == QueueSpec => FlushSeesDequeue
<1>1. ASSUME QInv, FlushReturn, NEW w \in {local[Caller].arg} \cap Schedules[Caller]
      PROVE  log.dequeued[w] = log.accepted[w]
  <2>1. w \in Works /\ ~mem.pending[w] /\ local[Caller].pc = "flush"
    BY <1>1, QueueFacts DEF FlushReturn, Access
  <2>2. \A t \in Threads : ~Within(t, Reached, w)
    BY <2>1, <1>1, QueueFacts DEF QInv, AddSound, Within
  <2> QED
    BY <2>1, <2>2, <1>1 DEF QInv, Counted
<1>2. QInv /\ [QueueNext]_queue_vars
      => [FlushReturn => \A w \in {local[Caller].arg} \cap Schedules[Caller] :
                            log.dequeued[w] = log.accepted[w]]_queue_vars
  BY <1>1
<1> QED
  BY <1>2, TornQueue, PTL DEF QueueSpec, FlushSeesDequeue

=============================================================================
