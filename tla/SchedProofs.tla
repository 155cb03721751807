---------------------------- MODULE SchedProofs ----------------------------
(***************************************************************************)
(* Proofs about Sched, for every number of PCBs, pids, priorities, signals *)
(* and every length of the time slice.                                     *)
(***************************************************************************)
EXTENDS Sched, SequenceTheorems, FiniteSetTheorems, TLAPS

\* The kernel states the operators of Sched work on.
KernelState ==
    [pcb: [Slots -> PCB], queue: Seq(Slots), current: Slots,
     freelist: Seq(Slots \cup {Wild}), next_pid: 0..MaxPid + 1,
     stack: Pids \cup {NoStack}, fault: Faults]

NoRepeats(q) == \A i, j \in 1..Len(q) : q[i] = q[j] => i = j

-----------------------------------------------------------------------------
(***************************************************************************)
(* Sequences.                                                              *)
(***************************************************************************)
\* What list_del leaves of a queue.
LEMMA RemoveAtFacts ==
    ASSUME NEW S, NEW q \in Seq(S), NEW i \in 1..Len(q)
    PROVE  /\ RemoveAt(q, i) \in Seq(S)
           /\ Len(RemoveAt(q, i)) = Len(q) - 1
           /\ \A j \in 1..Len(q) - 1 : RemoveAt(q, i)[j] = IF j < i THEN q[j] ELSE q[j + 1]
<1> DEFINE a == SubSeq(q, 1, i - 1)
<1> DEFINE b == SubSeq(q, i + 1, Len(q))
<1>0. Len(q) \in Nat /\ i \in Int /\ i >= 1 /\ i <= Len(q)
  BY LenProperties
<1>1. /\ a \in Seq(S) /\ Len(a) = i - 1
      /\ \A j \in 1..i - 1 : a[j] = q[j]
  <2>1. \A j \in 1..i - 1 : q[j] \in S
    BY <1>0, ElementOfSeq
  <2>2. /\ a \in Seq(S)
        /\ Len(a) = IF 1 <= i - 1 THEN (i - 1) - 1 + 1 ELSE 0
        /\ \A j \in 1..(i - 1) - 1 + 1 : a[j] = q[1 + j - 1]
    BY <1>0, <2>1, SubSeqProperties
  <2> HIDE DEF a
  <2> QED
    BY <1>0, <2>2
<1>2. /\ b \in Seq(S) /\ Len(b) = Len(q) - i
      /\ \A j \in 1..Len(q) - i : b[j] = q[i + j]
  <2>1. \A j \in i + 1..Len(q) : q[j] \in S
    BY <1>0, ElementOfSeq
  <2>2. /\ b \in Seq(S)
        /\ Len(b) = IF i + 1 <= Len(q) THEN Len(q) - (i + 1) + 1 ELSE 0
        /\ \A j \in 1..Len(q) - (i + 1) + 1 : b[j] = q[(i + 1) + j - 1]
    BY <1>0, <2>1, SubSeqProperties
  <2> HIDE DEF b
  <2> QED
    BY <1>0, <2>2
<1>3. RemoveAt(q, i) = a \o b
  BY DEF RemoveAt
<1> HIDE DEF a, b
<1>4. /\ a \o b \in Seq(S)
      /\ Len(a \o b) = Len(a) + Len(b)
      /\ \A j \in 1..Len(a) + Len(b) : (a \o b)[j] = IF j <= Len(a) THEN a[j] ELSE b[j - Len(a)]
  BY <1>1, <1>2, ConcatProperties
<1> QED
  BY <1>0, <1>1, <1>2, <1>3, <1>4

\* What kmem_cache_free leaves of the free list.
LEMMA ConsFacts ==
    ASSUME NEW S, NEW q \in Seq(S), NEW x \in S
    PROVE  /\ <<x>> \o q \in Seq(S)
           /\ Len(<<x>> \o q) = Len(q) + 1
           /\ (<<x>> \o q)[1] = x
           /\ \A j \in 1..Len(q) : (<<x>> \o q)[j + 1] = q[j]
<1>1. <<x>> \in Seq(S) /\ Len(<<x>>) = 1 /\ <<x>>[1] = x
  OBVIOUS
<1>2. /\ <<x>> \o q \in Seq(S)
      /\ Len(<<x>> \o q) = Len(<<x>>) + Len(q)
      /\ \A j \in 1..Len(<<x>>) + Len(q) : (<<x>> \o q)[j] = IF j <= Len(<<x>>) THEN <<x>>[j] ELSE q[j - Len(<<x>>)]
  BY <1>1, ConcatProperties
<1> QED
  BY <1>1, <1>2, LenProperties

\* A sequence without repetitions has as many elements as its length.
LEMMA CountElements ==
    ASSUME NEW S, NEW q \in Seq(S), NoRepeats(q)
    PROVE  Cardinality({q[i] : i \in 1..Len(q)}) = Len(q)
<1> DEFINE T == {q[i] : i \in 1..Len(q)}
<1> DEFINE f == [i \in 1..Len(q) |-> q[i]]
<1>0. Len(q) \in Nat
  BY LenProperties
<1>1. f \in Bijection(1..Len(q), T)
  BY <1>0 DEF Bijection, Injection, Surjection, IsInjective, NoRepeats
<1>2. ExistsBijection(1..Len(q), T)
  BY <1>1 DEF ExistsBijection
<1>3. IsFiniteSet(1..Len(q)) /\ Cardinality(1..Len(q)) = Len(q)
  BY SMTT(30), <1>0, FS_Interval
<1> QED
  BY <1>0, <1>2, <1>3, FS_Bijection

-----------------------------------------------------------------------------
(***************************************************************************)
(* The inductive invariant, on a kernel state.                             *)
(***************************************************************************)
OnList(q, s) == \E i \in 1..Len(q) : q[i] = s

\* Every slot is on one list; behind a wild link the free list is lost.
SlotsSplit(k) ==
    /\ NoRepeats(k.queue) /\ NoRepeats(k.freelist)
    /\ \A i \in 1..Len(k.queue), j \in 1..Len(k.freelist) : k.queue[i] # k.freelist[j]
    /\ OnList(k.freelist, Wild) \/ \A s \in Slots : OnList(k.queue, s) \/ OnList(k.freelist, s)

\* Pids ascend from the kernel's 0, and the next one is new.
PidsAscend(k) ==
    /\ Len(k.queue) >= 1 /\ k.pcb[k.queue[1]].pid = 0
    /\ \A i, j \in 1..Len(k.queue) : i < j => k.pcb[k.queue[i]].pid < k.pcb[k.queue[j]].pid
    /\ \A i \in 1..Len(k.queue) : k.pcb[k.queue[i]].pid < k.next_pid

Shape(k) == k \in KernelState /\ SlotsSplit(k) /\ PidsAscend(k)

\* No process but the current one is RUNNING.
Quiet(k) ==
    \A i \in 1..Len(k.queue) : k.pcb[k.queue[i]].state = RUNNING => k.queue[i] = k.current

Sound(k) == Shape(k) /\ (k.fault = "none" => Quiet(k))

-----------------------------------------------------------------------------
(***************************************************************************)
(* The operators on kernel states.                                         *)
(***************************************************************************)
\* A PCB may change in everything but its pid.
LEMMA SetPCBFacts ==
    ASSUME NEW k, Shape(k), NEW s \in Slots, NEW p \in PCB, p.pid = k.pcb[s].pid
    PROVE  /\ Shape(SetPCB(k, s, p))
           /\ SetPCB(k, s, p).pcb = [k.pcb EXCEPT ![s] = p]
           /\ SetPCB(k, s, p).queue = k.queue
           /\ SetPCB(k, s, p).current = k.current
           /\ SetPCB(k, s, p).freelist = k.freelist
           /\ SetPCB(k, s, p).next_pid = k.next_pid
           /\ SetPCB(k, s, p).stack = k.stack
           /\ SetPCB(k, s, p).fault = k.fault
<1> DEFINE m == SetPCB(k, s, p)
<1>0. k \in KernelState /\ SlotsSplit(k) /\ PidsAscend(k)
  BY DEF Shape
<1>1. /\ m.pcb = [k.pcb EXCEPT ![s] = p]
      /\ m.queue = k.queue
      /\ m.current = k.current
      /\ m.freelist = k.freelist
      /\ m.next_pid = k.next_pid
      /\ m.stack = k.stack
      /\ m.fault = k.fault
  BY <1>0 DEF SetPCB, KernelState
<1>2. m \in KernelState
  BY <1>0 DEF SetPCB, KernelState
<1> HIDE DEF m
<1>3. SlotsSplit(m)
  BY <1>0, <1>1 DEF SlotsSplit, OnList
<1>4. \A t \in Slots : m.pcb[t].pid = k.pcb[t].pid
  BY <1>0, <1>1 DEF KernelState
<1>5. \A i \in 1..Len(k.queue) : k.queue[i] \in Slots
  BY <1>0, ElementOfSeq DEF KernelState
<1>6. PidsAscend(m)
  <2>1. Len(k.queue) \in Nat
    BY <1>0, LenProperties DEF KernelState
  <2> QED
    BY SMTT(30), <1>0, <1>1, <1>4, <1>5, <2>1 DEF PidsAscend
<1> QED
  BY <1>1, <1>2, <1>3, <1>6 DEF Shape, m

\* m differs from k in PCBs only.
SameLists(k, m) ==
    /\ m.queue = k.queue /\ m.current = k.current /\ m.freelist = k.freelist
    /\ m.next_pid = k.next_pid /\ m.stack = k.stack /\ m.fault = k.fault

\* What the definitions of k's fields say of them.
LEMMA KernelTypes ==
    ASSUME NEW k, Shape(k)
    PROVE  /\ k \in KernelState
           /\ k.current \in Slots
           /\ \A s \in Slots : k.pcb[s] \in PCB
           /\ k.queue \in Seq(Slots) /\ Len(k.queue) \in Nat
           /\ \A i \in 1..Len(k.queue) : k.queue[i] \in Slots
           /\ k.freelist \in Seq(Slots \cup {Wild}) /\ Len(k.freelist) \in Nat
           /\ \A i \in 1..Len(k.freelist) : k.freelist[i] \in Slots \cup {Wild}
<1>1. k \in KernelState
  BY DEF Shape
<1> QED
  BY <1>1, LenProperties, ElementOfSeq DEF KernelState

\* A time slice is a count of ticks.
LEMMA TimeSlice ==
    ASSUME NEW priority \in 0..255
    PROVE  calculate_time_slice(priority) \in Nat
BY SchedAssumption DEF calculate_time_slice

\* Charging a tick to the running process moves it between no lists and changes no state.
LEMMA ChargeFacts ==
    ASSUME NEW k, Shape(k)
    PROVE  /\ Shape(ChargeSlice(k)) /\ SameLists(k, ChargeSlice(k))
           /\ \A s \in Slots \ {k.current} : ChargeSlice(k).pcb[s] = k.pcb[s]
           /\ ChargeSlice(k).pcb[k.current].state = k.pcb[k.current].state
           /\ ChargeSlice(k).pcb[k.current].pid = k.pcb[k.current].pid
<1> DEFINE c == k.current
<1> DEFINE p == [k.pcb[c] EXCEPT !.time_slice = IF @ > 0 THEN @ - 1 ELSE @]
<1>1. c \in Slots /\ k.pcb[c] \in PCB /\ k \in KernelState
  BY SMTT(30), KernelTypes
<1>2. p \in PCB /\ p.pid = k.pcb[c].pid /\ p.state = k.pcb[c].state
  BY <1>1 DEF PCB
<1>3. ChargeSlice(k) = SetPCB(k, c, p)
  BY DEF ChargeSlice
<1> HIDE DEF c, p
<1>4. /\ Shape(SetPCB(k, c, p)) /\ SameLists(k, SetPCB(k, c, p))
      /\ SetPCB(k, c, p).pcb = [k.pcb EXCEPT ![c] = p]
  BY <1>1, <1>2, SetPCBFacts DEF SameLists
<1>5. k.pcb \in [Slots -> PCB]
  BY <1>1 DEF KernelState
<1> QED
  BY <1>1, <1>2, <1>3, <1>4, <1>5 DEF c

\* Marking the current process running touches its PCB only.
LEMMA RunFacts ==
    ASSUME NEW k, Shape(k)
    PROVE  /\ Shape(Run(k)) /\ SameLists(k, Run(k))
           /\ \A s \in Slots \ {k.current} : Run(k).pcb[s] = k.pcb[s]
<1> DEFINE c == k.current
<1> DEFINE p == [k.pcb[c] EXCEPT !.state = RUNNING]
<1>1. c \in Slots /\ k.pcb[c] \in PCB /\ k \in KernelState
  BY KernelTypes
<1>2. p \in PCB /\ p.pid = k.pcb[c].pid
  BY <1>1 DEF PCB, States
<1>3. Run(k) = SetPCB(k, c, p)
  BY DEF Run
<1> HIDE DEF c, p
<1>4. /\ Shape(SetPCB(k, c, p)) /\ SameLists(k, SetPCB(k, c, p))
      /\ SetPCB(k, c, p).pcb = [k.pcb EXCEPT ![c] = p]
  BY <1>1, <1>2, SetPCBFacts DEF SameLists
<1>5. k.pcb \in [Slots -> PCB]
  BY <1>1 DEF KernelState
<1> QED
  BY <1>1, <1>2, <1>3, <1>4, <1>5 DEF c

\* Refilling a slice touches one PCB, and not its pid.
LEMMA RefillFacts ==
    ASSUME NEW k, Shape(k), NEW s \in Slots, NEW state \in States
    PROVE  /\ Shape(Refill(k, s, state)) /\ SameLists(k, Refill(k, s, state))
           /\ \A t \in Slots \ {s} : Refill(k, s, state).pcb[t] = k.pcb[t]
           /\ Refill(k, s, state).pcb[s].state = state
           /\ Refill(k, s, state).pcb[s].pid = k.pcb[s].pid
<1> DEFINE p == [k.pcb[s] EXCEPT !.state = state,
                                 !.time_slice = calculate_time_slice(k.pcb[s].priority)]
<1>1. k.pcb[s] \in PCB /\ k \in KernelState
  BY KernelTypes
<1>2. k.pcb[s].priority \in 0..255
  BY <1>1 DEF PCB
<1>3. calculate_time_slice(k.pcb[s].priority) \in Nat
  BY <1>2, TimeSlice
<1>4. p \in PCB /\ p.pid = k.pcb[s].pid /\ p.state = state
  BY <1>1, <1>3 DEF PCB
<1>5. Refill(k, s, state) = SetPCB(k, s, p)
  BY DEF Refill
<1> HIDE DEF p
<1>6. /\ Shape(SetPCB(k, s, p)) /\ SameLists(k, SetPCB(k, s, p))
      /\ SetPCB(k, s, p).pcb = [k.pcb EXCEPT ![s] = p]
  BY <1>1, <1>4, SetPCBFacts DEF SameLists
<1>7. k.pcb \in [Slots -> PCB]
  BY <1>1 DEF KernelState
<1> QED
  BY <1>4, <1>5, <1>6, <1>7

\* Where a slot of the queue is, and that it is there once.
LEMMA PositionFacts ==
    ASSUME NEW k, Shape(k), NEW s, OnList(k.queue, s)
    PROVE  /\ Position(k, s) \in 1..Len(k.queue)
           /\ k.queue[Position(k, s)] = s
           /\ \A i \in 1..Len(k.queue) : k.queue[i] = s => i = Position(k, s)
<1>1. \E i \in 1..Len(k.queue) : k.queue[i] = s
  BY DEF OnList
<1>2. Position(k, s) \in 1..Len(k.queue) /\ k.queue[Position(k, s)] = s
  BY <1>1 DEF Position
<1> QED
  BY <1>2 DEF Shape, SlotsSplit, NoRepeats

\* process_find_by_pid finds the one process with that pid.
LEMMA FindFacts ==
    ASSUME NEW k, Shape(k), NEW pid, Queued(k, pid)
    PROVE  /\ process_find_by_pid(k, pid) \in Slots
           /\ OnList(k.queue, process_find_by_pid(k, pid))
           /\ k.pcb[process_find_by_pid(k, pid)].pid = pid
           /\ \A i \in 1..Len(k.queue) :
                 k.pcb[k.queue[i]].pid = pid => k.queue[i] = process_find_by_pid(k, pid)
<1> DEFINE at == {i \in 1..Len(k.queue) : k.pcb[k.queue[i]].pid = pid}
<1>0. PidsAscend(k) /\ \A i \in 1..Len(k.queue) : k.queue[i] \in Slots /\ k.pcb[k.queue[i]].pid \in Int
  BY KernelTypes DEF Shape, PCB, Pids
<1>1. PICK i \in 1..Len(k.queue) : k.pcb[k.queue[i]].pid = pid
  BY DEF Queued
<1>2. \A j \in at : j = i
  BY SMTT(30), <1>0, <1>1, KernelTypes DEF PidsAscend
<1>3. (CHOOSE j \in at : \A l \in at : j <= l) = i
  <2>1. i \in at /\ \A l \in at : i <= l
    BY <1>1, <1>2, KernelTypes
  <2> QED
    BY <1>2, <2>1
<1>4. process_find_by_pid(k, pid) = k.queue[i]
  BY <1>3 DEF process_find_by_pid
<1> QED
  BY <1>0, <1>1, <1>2, <1>4 DEF OnList

(***************************************************************************)
(* process_kill's two steps, list_del and kmem_cache_free: the slot goes   *)
(* from the queue to the head of the free list.                            *)
(***************************************************************************)
LEMMA RemoveFacts ==
    ASSUME NEW k, Shape(k), NEW s, OnList(k.queue, s), k.pcb[s].pid # 0
    PROVE  LET m == kmem_cache_free(list_del(k, s), s)
           IN  /\ Shape(m)
               /\ m.pcb = k.pcb /\ m.current = k.current /\ m.next_pid = k.next_pid
               /\ m.stack = k.stack /\ m.fault = k.fault
               /\ ~OnList(m.queue, s)
               /\ \A t : OnList(m.queue, t) => OnList(k.queue, t)
<1> DEFINE m == kmem_cache_free(list_del(k, s), s)
<1> DEFINE at == Position(k, s)
<1> DEFINE q == RemoveAt(k.queue, at)
<1> DEFINE f == <<s>> \o k.freelist
<1>0. k \in KernelState /\ SlotsSplit(k) /\ PidsAscend(k)
  BY DEF Shape
<1>1. /\ at \in 1..Len(k.queue) /\ k.queue[at] = s
      /\ \A i \in 1..Len(k.queue) : k.queue[i] = s => i = at
  BY PositionFacts
<1>2. s \in Slots /\ Len(k.queue) \in Nat
  BY <1>1, KernelTypes
<1> HIDE DEF at
<1> DEFINE src(j) == IF j < at THEN j ELSE j + 1
<1>3. /\ q \in Seq(Slots) /\ Len(q) = Len(k.queue) - 1
      /\ \A j \in 1..Len(q) : src(j) \in 1..Len(k.queue) /\ src(j) # at /\ q[j] = k.queue[src(j)]
      /\ \A i, j \in 1..Len(q) : i < j => src(i) < src(j)
  <2>1. k.queue \in Seq(Slots)
    BY <1>0 DEF KernelState
  <2>2. /\ q \in Seq(Slots) /\ Len(q) = Len(k.queue) - 1
        /\ \A j \in 1..Len(k.queue) - 1 : q[j] = IF j < at THEN k.queue[j] ELSE k.queue[j + 1]
    BY <2>1, <1>1, RemoveAtFacts
  <2> HIDE DEF q
  <2> QED
    BY <2>2, <1>1, <1>2
<1>4. /\ f \in Seq(Slots \cup {Wild}) /\ Len(f) = Len(k.freelist) + 1 /\ f[1] = s
      /\ \A j \in 1..Len(k.freelist) : f[j + 1] = k.freelist[j]
  BY <1>0, <1>2, ConsFacts DEF KernelState
<1>5. /\ m \in KernelState
      /\ m.queue = q /\ m.freelist = f
      /\ m.pcb = k.pcb /\ m.current = k.current /\ m.next_pid = k.next_pid
      /\ m.stack = k.stack /\ m.fault = k.fault
  <2> DEFINE l == list_del(k, s)
  <2>1. l = [k EXCEPT !.queue = q]
    BY DEF list_del, at
  <2> HIDE DEF l, q
  <2>2. /\ l \in KernelState /\ l.queue = q /\ l.freelist = k.freelist
        /\ l.pcb = k.pcb /\ l.current = k.current /\ l.next_pid = k.next_pid
        /\ l.stack = k.stack /\ l.fault = k.fault
    BY <2>1, <1>0, <1>3 DEF KernelState
  <2>3. m = [l EXCEPT !.freelist = f]
    BY <2>2 DEF kmem_cache_free, l
  <2> HIDE DEF m, f
  <2> QED
    BY <2>2, <2>3, <1>4 DEF KernelState
<1> HIDE DEF m, q, f, src
<1>7. \A j \in 1..Len(q) : \E i \in 1..Len(k.queue) : i # at /\ q[j] = k.queue[i]
  BY <1>3
<1>8. \A i \in 1..Len(k.queue) : i # at => \E j \in 1..Len(q) : q[j] = k.queue[i]
  <2> TAKE i \in 1..Len(k.queue)
  <2> HAVE i # at
  <2>1. CASE i < at
    <3>1. i \in 1..Len(q) /\ src(i) = i
      BY <2>1, <1>1, <1>2, <1>3 DEF src
    <3> QED
      BY <3>1, <1>3
  <2>2. CASE i > at
    <3>1. i - 1 \in 1..Len(q) /\ src(i - 1) = i
      BY <2>2, <1>1, <1>2, <1>3 DEF src
    <3> QED
      BY <3>1, <1>3
  <2> QED
    BY <2>1, <2>2, <1>1
<1>9. Len(k.freelist) \in Nat
  BY KernelTypes
<1>10. \A j \in 1..Len(f) : f[j] = s \/ \E i \in 1..Len(k.freelist) : j = i + 1 /\ f[j] = k.freelist[i]
  <2> TAKE j \in 1..Len(f)
  <2>1. CASE j = 1
    BY <2>1, <1>4
  <2>2. CASE j # 1
    <3>1. j - 1 \in 1..Len(k.freelist) /\ f[(j - 1) + 1] = k.freelist[j - 1]
      BY <2>2, <1>4, <1>9
    <3> QED
      BY <3>1
  <2> QED
    BY <2>1, <2>2
<1>11. SlotsSplit(m)
  <2>1. NoRepeats(q)
    <3>1. NoRepeats(k.queue)
      BY <1>0 DEF SlotsSplit
    <3> SUFFICES ASSUME NEW i \in 1..Len(q), NEW j \in 1..Len(q), i < j PROVE q[i] # q[j]
      BY <1>2, <1>3 DEF NoRepeats
    <3>2. /\ src(i) \in 1..Len(k.queue) /\ src(j) \in 1..Len(k.queue) /\ src(i) < src(j)
          /\ q[i] = k.queue[src(i)] /\ q[j] = k.queue[src(j)]
      BY <1>3
    <3>3. src(i) # src(j)
      BY <3>2, <1>2
    <3> QED
      BY <3>1, <3>2, <3>3 DEF NoRepeats
  <2>2. \A i \in 1..Len(k.freelist) : k.freelist[i] # s
    BY <1>0, <1>1 DEF SlotsSplit
  <2>3. NoRepeats(f)
    <3> SUFFICES ASSUME NEW i \in 1..Len(f), NEW j \in 1..Len(f), f[i] = f[j] PROVE i = j
      BY DEF NoRepeats
    <3>1. \A l \in 1..Len(f) : l # 1 => l - 1 \in 1..Len(k.freelist) /\ f[l] = k.freelist[l - 1]
      <4> TAKE l \in 1..Len(f)
      <4> HAVE l # 1
      <4>1. l - 1 \in 1..Len(k.freelist) /\ (l - 1) + 1 = l
        BY <1>4, <1>9
      <4> QED
        BY <4>1, <1>4
    <3>2. NoRepeats(k.freelist)
      BY <1>0 DEF SlotsSplit
    <3>3. CASE i = 1 \/ j = 1
      BY <3>1, <3>3, <2>2, <1>4
    <3>4. CASE i # 1 /\ j # 1
      <4>1. i - 1 = j - 1
        BY <3>1, <3>2, <3>4 DEF NoRepeats
      <4> QED
        BY <4>1, <1>4, <1>9
    <3> QED
      BY <3>3, <3>4
  <2>4. \A i \in 1..Len(q), j \in 1..Len(f) : q[i] # f[j]
    <3> SUFFICES ASSUME NEW i \in 1..Len(q), NEW j \in 1..Len(f) PROVE q[i] # f[j]
      OBVIOUS
    <3>1. PICK l \in 1..Len(k.queue) : l # at /\ q[i] = k.queue[l]
      BY <1>7
    <3>2. q[i] # s
      BY <3>1, <1>1
    <3> QED
      BY <3>1, <3>2, <1>10, <1>0 DEF SlotsSplit
  <2>5. ASSUME OnList(k.freelist, Wild) PROVE OnList(f, Wild)
    <3>1. PICK i \in 1..Len(k.freelist) : k.freelist[i] = Wild
      BY <2>5 DEF OnList
    <3>2. i + 1 \in 1..Len(f) /\ f[i + 1] = Wild
      BY <3>1, <1>4, <1>9
    <3> QED
      BY <3>2 DEF OnList
  <2>6. ASSUME \A t \in Slots : OnList(k.queue, t) \/ OnList(k.freelist, t), NEW t \in Slots
        PROVE  OnList(q, t) \/ OnList(f, t)
    <3>1. CASE t = s
      <4>1. 1 \in 1..Len(f)
        BY <1>4, <1>9
      <4> QED
        BY <3>1, <4>1, <1>4 DEF OnList
    <3>2. CASE t # s /\ OnList(k.queue, t)
      BY <3>2, <1>8, <1>1 DEF OnList
    <3>3. CASE OnList(k.freelist, t)
      <4>1. PICK i \in 1..Len(k.freelist) : k.freelist[i] = t
        BY <3>3 DEF OnList
      <4>2. i + 1 \in 1..Len(f) /\ f[i + 1] = t
        BY <4>1, <1>4, <1>9
      <4> QED
        BY <4>2 DEF OnList
    <3> QED
      BY <2>6, <3>1, <3>2, <3>3
  <2> QED
    BY <2>1, <2>3, <2>4, <2>5, <2>6, <1>0, <1>5 DEF SlotsSplit
<1>12. PidsAscend(m)
  <2>0. Len(k.queue) >= 1 /\ k.pcb[k.queue[1]].pid = 0
    BY <1>0 DEF PidsAscend
  <2>1. at # 1
    BY <2>0, <1>1
  <2>2. Len(q) >= 1 /\ q[1] = k.queue[1]
    <3>1. Len(q) >= 1 /\ src(1) = 1
      BY <2>1, <1>1, <1>2, <1>3 DEF src
    <3> QED
      BY <3>1, <1>3
  <2>3. \A i, j \in 1..Len(q) : i < j => k.pcb[q[i]].pid < k.pcb[q[j]].pid
    BY <1>0, <1>3 DEF PidsAscend
  <2>4. \A i \in 1..Len(q) : k.pcb[q[i]].pid < k.next_pid
    BY <1>0, <1>7 DEF PidsAscend
  <2> QED
    BY <2>0, <2>2, <2>3, <2>4, <1>5 DEF PidsAscend
<1>13. ~OnList(q, s) /\ \A t : OnList(q, t) => OnList(k.queue, t)
  BY <1>1, <1>7 DEF OnList
<1> QED
  BY <1>5, <1>11, <1>12, <1>13 DEF Shape, m

\* A slot taken from the free list is on no list.
LEMMA HeadFacts ==
    ASSUME NEW k, Shape(k), k.freelist # <<>>, Head(k.freelist) # Wild
    PROVE  LET h == Head(k.freelist)
               f == Tail(k.freelist)
           IN  /\ h \in Slots /\ ~OnList(k.queue, h) /\ ~OnList(f, h)
               /\ h = k.freelist[1] /\ Len(k.freelist) >= 1
               /\ f \in Seq(Slots \cup {Wild}) /\ Len(f) \in Nat /\ Len(f) = Len(k.freelist) - 1
               /\ \A i \in 1..Len(f) : f[i] = k.freelist[i + 1]
               /\ NoRepeats(f)
               /\ \A t : OnList(k.freelist, t) => t = h \/ OnList(f, t)
<1> DEFINE h == Head(k.freelist)
<1> DEFINE f == Tail(k.freelist)
<1>0. k \in KernelState /\ SlotsSplit(k) /\ k.freelist \in Seq(Slots \cup {Wild})
  BY KernelTypes DEF Shape
<1>1. /\ h \in Slots \cup {Wild} /\ h = k.freelist[1]
      /\ f \in Seq(Slots \cup {Wild}) /\ Len(f) = Len(k.freelist) - 1
      /\ \A i \in 1..Len(f) : f[i] = k.freelist[i + 1]
      /\ Len(k.freelist) \in Nat /\ Len(k.freelist) >= 1
  BY <1>0, HeadTailProperties, EmptySeq, LenProperties
<1> HIDE DEF h, f
<1>2. \A i \in 1..Len(f) : i + 1 \in 1..Len(k.freelist) /\ i + 1 # 1
  BY <1>1
<1>3. NoRepeats(k.freelist) /\ \A i \in 1..Len(k.queue) : k.queue[i] # h
  <2>1. 1 \in 1..Len(k.freelist)
    BY <1>1
  <2> QED
    BY <2>1, <1>0, <1>1 DEF SlotsSplit
<1>4. NoRepeats(f)
  <2> SUFFICES ASSUME NEW i \in 1..Len(f), NEW j \in 1..Len(f), f[i] = f[j] PROVE i = j
    BY DEF NoRepeats
  <2>1. i + 1 = j + 1
    BY <1>1, <1>2, <1>3 DEF NoRepeats
  <2> QED
    BY <2>1, <1>1
<1>5. ~OnList(f, h)
  <2> SUFFICES ASSUME NEW i \in 1..Len(f), f[i] = h PROVE FALSE
    BY DEF OnList
  <2>1. i + 1 \in 1..Len(k.freelist) /\ i + 1 # 1 /\ 1 \in 1..Len(k.freelist)
    BY <1>1, <1>2
  <2> QED
    BY <2>1, <1>1, <1>3 DEF NoRepeats
<1>6. ASSUME NEW t, OnList(k.freelist, t) PROVE t = h \/ OnList(f, t)
  <2>1. PICK i \in 1..Len(k.freelist) : k.freelist[i] = t
    BY <1>6 DEF OnList
  <2>2. CASE i = 1
    BY <2>1, <2>2, <1>1
  <2>3. CASE i # 1
    <3>1. i - 1 \in 1..Len(f) /\ (i - 1) + 1 = i
      BY <2>3, <1>1
    <3>2. f[i - 1] = t
      BY <3>1, <2>1, <1>1
    <3> QED
      BY <3>1, <3>2 DEF OnList
  <2> QED
    BY <2>2, <2>3
<1>7. h \in Slots
  BY <1>1 DEF h
<1>8. Len(f) \in Nat
  BY <1>1
<1>9. ~OnList(k.queue, h)
  BY <1>3 DEF OnList
<1> QED
  BY <1>1, <1>4, <1>5, <1>6, <1>7, <1>8, <1>9 DEF h, f

(***************************************************************************)
(* A new process: its slot goes from the head of the free list to the tail *)
(* of the queue, with a pid above all others.                              *)
(***************************************************************************)
LEMMA FreshFacts ==
    ASSUME NEW k, Shape(k), k.freelist # <<>>, Head(k.freelist) # Wild, k.next_pid <= MaxPid,
           NEW p \in PCB, p.pid = k.next_pid
    PROVE  LET m == FreshProcess(k, p)
               h == Head(k.freelist)
           IN  /\ Shape(m)
               /\ m.current = k.current /\ m.fault = k.fault
               /\ m.pcb[h] = p
               /\ \A s : OnList(m.queue, s) => s = h \/ (OnList(k.queue, s) /\ m.pcb[s] = k.pcb[s])
<1> DEFINE h == Head(k.freelist)
<1> DEFINE f == Tail(k.freelist)
<1> DEFINE q == Append(k.queue, h)
<1> DEFINE b == [[k.pcb EXCEPT ![h] = ZeroPCB] EXCEPT ![h] = p]
<1> DEFINE m == FreshProcess(k, p)
<1>0. k \in KernelState /\ SlotsSplit(k) /\ PidsAscend(k)
  BY DEF Shape
<1>1. /\ h \in Slots /\ ~OnList(k.queue, h) /\ ~OnList(f, h)
      /\ h = k.freelist[1] /\ Len(k.freelist) >= 1
      /\ f \in Seq(Slots \cup {Wild}) /\ Len(f) \in Nat /\ Len(f) = Len(k.freelist) - 1
      /\ \A i \in 1..Len(f) : f[i] = k.freelist[i + 1]
      /\ NoRepeats(f)
      /\ \A t : OnList(k.freelist, t) => t = h \/ OnList(f, t)
  BY HeadFacts
<1>2. m = [[[k EXCEPT !.freelist = f, !.pcb = [k.pcb EXCEPT ![h] = ZeroPCB]]
              EXCEPT !.pcb = [@ EXCEPT ![h] = p]]
              EXCEPT !.next_pid = @ + 1, !.queue = Append(@, h)]
  BY <1>0 DEF FreshProcess, SetPCB, kmem_cache_alloc, list_add_tail, KernelState
<1> HIDE DEF h, f, m
<1>3. /\ q \in Seq(Slots) /\ Len(q) = Len(k.queue) + 1 /\ q[Len(k.queue) + 1] = h
      /\ \A i \in 1..Len(k.queue) : q[i] = k.queue[i]
      /\ Len(k.queue) \in Nat
  BY <1>0, <1>1, KernelTypes, AppendProperties
<1> HIDE DEF q
<1>4. /\ b \in [Slots -> PCB] /\ b[h] = p
      /\ \A s \in Slots : s # h => b[s] = k.pcb[s]
  BY <1>0, <1>1 DEF KernelState
<1>5. k.next_pid + 1 \in 0..MaxPid + 1
  BY <1>0, SchedAssumption DEF KernelState
<1>6. /\ m \in KernelState /\ m.pcb = b /\ m.queue = q /\ m.freelist = f
      /\ m.next_pid = k.next_pid + 1 /\ m.current = k.current /\ m.fault = k.fault
  BY <1>0, <1>1, <1>2, <1>3, <1>4, <1>5 DEF KernelState, q
<1> HIDE DEF b
<1>7. \A i \in 1..Len(q) : i # Len(q) => i \in 1..Len(k.queue) /\ q[i] = k.queue[i] /\ q[i] # h
  BY <1>1, <1>3 DEF OnList
<1>8. SlotsSplit(m)
  <2>1. NoRepeats(k.queue) /\ NoRepeats(k.freelist)
    BY <1>0 DEF SlotsSplit
  <2>2. NoRepeats(q)
    BY <2>1, <1>3, <1>7 DEF NoRepeats
  <2>3. \A i \in 1..Len(q), j \in 1..Len(f) : q[i] # f[j]
    <3> SUFFICES ASSUME NEW i \in 1..Len(q), NEW j \in 1..Len(f), q[i] = f[j] PROVE FALSE
      OBVIOUS
    <3>1. j + 1 \in 1..Len(k.freelist) /\ f[j] = k.freelist[j + 1]
      BY <1>1
    <3>2. CASE i = Len(q)
      BY <3>1, <3>2, <1>1, <1>3 DEF OnList
    <3>3. CASE i # Len(q)
      BY <3>1, <3>3, <1>0, <1>7 DEF SlotsSplit
    <3> QED
      BY <3>2, <3>3
  <2>4. h # Wild
    BY DEF h
  <2>5. \A s : OnList(k.queue, s) => OnList(q, s)
    <3> SUFFICES ASSUME NEW i \in 1..Len(k.queue) PROVE OnList(q, k.queue[i])
      BY DEF OnList
    <3>1. i \in 1..Len(q)
      BY <1>3
    <3> QED
      BY <3>1, <1>3 DEF OnList
  <2>6. OnList(q, h)
    <3>1. Len(k.queue) + 1 \in 1..Len(q)
      BY <1>3
    <3> QED
      BY <3>1, <1>3 DEF OnList
  <2>7. OnList(f, Wild) \/ \A s \in Slots : OnList(q, s) \/ OnList(f, s)
    BY <2>4, <2>5, <2>6, <1>0, <1>1 DEF SlotsSplit
  <2> QED
    BY <2>2, <2>3, <2>7, <1>1, <1>6 DEF SlotsSplit
<1>9. \A i \in 1..Len(k.queue) : k.queue[i] \in Slots /\ b[k.queue[i]] = k.pcb[k.queue[i]]
  BY <1>1, <1>4, KernelTypes DEF OnList
<1>10. PidsAscend(m)
  <2>1. \A i \in 1..Len(k.queue) : b[q[i]].pid < k.next_pid /\ b[q[i]].pid = k.pcb[k.queue[i]].pid
    BY <1>0, <1>3, <1>9 DEF PidsAscend
  <2>2. b[q[Len(q)]].pid = k.next_pid
    BY <1>3, <1>4
  <2>3. k.next_pid \in Int /\ \A i \in 1..Len(k.queue) : k.pcb[k.queue[i]].pid \in Int
    BY SMTT(30), <1>0, <1>9, KernelTypes DEF KernelState, PCB, Pids
  <2>4. Len(q) >= 1 /\ b[q[1]].pid = 0
    BY <1>0, <1>3, <2>1 DEF PidsAscend
  <2>5. \A i, j \in 1..Len(q) : i < j => b[q[i]].pid < b[q[j]].pid
    <3> SUFFICES ASSUME NEW i \in 1..Len(q), NEW j \in 1..Len(q), i < j
                 PROVE  b[q[i]].pid < b[q[j]].pid
      OBVIOUS
    <3>1. i \in 1..Len(k.queue)
      BY <1>3
    <3>2. CASE j = Len(q)
      BY <3>1, <3>2, <2>1, <2>2
    <3>3. CASE j # Len(q)
      BY <3>1, <3>3, <2>1, <1>0, <1>7 DEF PidsAscend
    <3> QED
      BY <3>2, <3>3
  <2>6. \A i \in 1..Len(q) : b[q[i]].pid < k.next_pid + 1
    BY <2>1, <2>2, <2>3, <1>7
  <2> QED
    BY <2>4, <2>5, <2>6, <1>6 DEF PidsAscend
<1>11. ASSUME NEW s, OnList(q, s) PROVE s = h \/ (OnList(k.queue, s) /\ b[s] = k.pcb[s])
  BY <1>3, <1>7, <1>9, <1>11 DEF OnList
<1> QED
  BY <1>4, <1>6, <1>8, <1>10, <1>11 DEF Shape, m, h

\* schedule, called on a current process that is no longer linked.
LEMMA UnlinkedFacts ==
    ASSUME NEW k, Shape(k)
    PROVE  LET m == ScheduleUnlinked(k)
           IN  /\ Shape(m)
               /\ m.queue = k.queue /\ m.current = k.current /\ m.freelist = k.freelist
               /\ m.fault \in {k.fault, "null_walk"}
               /\ \A s \in Slots \ {k.current} : m.pcb[s] = k.pcb[s]
<1> DEFINE c == ChargeSlice(k)
<1> DEFINE m == ScheduleUnlinked(k)
<1>1. /\ Shape(c) /\ SameLists(k, c)
      /\ \A s \in Slots \ {k.current} : c.pcb[s] = k.pcb[s]
  BY ChargeFacts
<1> HIDE DEF c
<1>2. CASE KeepsCpu(c)
  <2>1. m = Run(c)
    BY <1>2 DEF ScheduleUnlinked, c
  <2>2. /\ Shape(Run(c)) /\ SameLists(c, Run(c))
        /\ \A s \in Slots \ {c.current} : Run(c).pcb[s] = c.pcb[s]
    BY <1>1, RunFacts
  <2> QED
    BY <1>1, <2>1, <2>2 DEF SameLists
<1>3. CASE ~KeepsCpu(c)
  <2>1. m = [c EXCEPT !.fault = "null_walk"]
    BY <1>3 DEF ScheduleUnlinked, NullWalk, c
  <2>2. c \in KernelState /\ SlotsSplit(c) /\ PidsAscend(c)
    BY <1>1 DEF Shape
  <2> HIDE DEF m
  <2>3. /\ m \in KernelState
        /\ m.queue = c.queue /\ m.current = c.current /\ m.freelist = c.freelist
        /\ m.pcb = c.pcb /\ m.next_pid = c.next_pid /\ m.fault = "null_walk"
    BY <2>1, <2>2 DEF KernelState, Faults
  <2>4. SlotsSplit(m) /\ PidsAscend(m)
    BY <2>2, <2>3 DEF SlotsSplit, PidsAscend
  <2> QED
    BY <1>1, <2>3, <2>4 DEF Shape, SameLists, m
<1> QED
  BY <1>2, <1>3

(***************************************************************************)
(* process_kill removes at most the process with that pid and leaves the   *)
(* PCBs on the queue alone.  When the process it was called for is still   *)
(* linked and has that pid, nothing was removed.                           *)
(***************************************************************************)
LEMMA KillFacts ==
    ASSUME NEW k, Shape(k), NEW pid
    PROVE  LET m == process_kill(k, pid)
           IN  /\ Shape(m)
               /\ m.current = k.current /\ m.fault \in {k.fault, "null_walk"}
               /\ \A s : OnList(m.queue, s) => OnList(k.queue, s) /\ m.pcb[s] = k.pcb[s]
               /\ OnList(m.queue, k.current) /\ pid = k.pcb[k.current].pid => m = k
<1> DEFINE m == process_kill(k, pid)
<1>1. CASE pid = 0 \/ ~Queued(k, pid)
  BY <1>1 DEF process_kill
<1>2. CASE ~(pid = 0 \/ ~Queued(k, pid))
  <2> DEFINE s == process_find_by_pid(k, pid)
  <2> DEFINE gone == kmem_cache_free(list_del(k, s), s)
  <2>1. /\ s \in Slots /\ OnList(k.queue, s) /\ k.pcb[s].pid = pid
        /\ \A i \in 1..Len(k.queue) : k.pcb[k.queue[i]].pid = pid => k.queue[i] = s
    BY <1>2, FindFacts
  <2>2. m = IF s = k.current THEN ScheduleUnlinked(gone) ELSE gone
    BY <1>2 DEF process_kill
  <2> HIDE DEF s
  <2>3. /\ Shape(gone)
        /\ gone.pcb = k.pcb /\ gone.current = k.current /\ gone.fault = k.fault
        /\ ~OnList(gone.queue, s)
        /\ \A t : OnList(gone.queue, t) => OnList(k.queue, t)
    BY <1>2, <2>1, RemoveFacts
  <2> HIDE DEF gone, m
  <2>4. ASSUME OnList(gone.queue, k.current), pid = k.pcb[k.current].pid PROVE FALSE
    <3>1. k.current = s
      BY <2>1, <2>3, <2>4 DEF OnList
    <3> QED
      BY <3>1, <2>3, <2>4
  <2>5. CASE s = k.current
    <3>1. /\ Shape(m)
          /\ m.queue = gone.queue /\ m.current = gone.current
          /\ m.fault \in {gone.fault, "null_walk"}
          /\ \A t \in Slots \ {gone.current} : m.pcb[t] = gone.pcb[t]
      BY <2>2, <2>3, <2>5, UnlinkedFacts
    <3>2. \A t : OnList(gone.queue, t) => t \in Slots \ {k.current}
      BY <2>3, <2>5, KernelTypes DEF OnList
    <3> QED
      BY <3>1, <3>2, <2>3, <2>4 DEF m
  <2>6. CASE s # k.current
    BY <2>2, <2>3, <2>4, <2>6 DEF m
  <2> QED
    BY <2>5, <2>6
<1> QED
  BY <1>1, <1>2

\* do_signal's bookkeeping keeps the pid and never makes a process RUNNING.
LEMMA TakeSignalsFacts ==
    ASSUME NEW p \in PCB
    PROVE  /\ TakeSignals(p) \in PCB /\ TakeSignals(p).pid = p.pid
           /\ p.state # RUNNING => TakeSignals(p).state # RUNNING
<1> DEFINE first == CHOOSE sig \in Deadly(p) : \A other \in Deadly(p) : sig <= other
<1> DEFINE resumed == IF SIGCONT \in p.pending \ p.handled /\ p.state = BLOCKED THEN READY ELSE p.state
<1> DEFINE st == IF SIGSTOP \in p.pending \ p.handled THEN BLOCKED ELSE resumed
<1>1. TakeSignals(p) = IF Deadly(p) # {}
                       THEN [p EXCEPT !.pending = {sig \in p.pending : sig > first}]
                       ELSE [p EXCEPT !.pending = {}, !.state = st]
  BY DEF TakeSignals
<1>2. st \in States /\ (p.state # RUNNING => st # RUNNING)
  BY DEF PCB, States, READY, BLOCKED, RUNNING
<1> HIDE DEF first, st
<1>3. CASE Deadly(p) # {}
  <2>1. {sig \in p.pending : sig > first} \in SUBSET Signals
    BY DEF PCB
  <2> QED
    BY <1>1, <1>3, <2>1 DEF PCB
<1>4. CASE Deadly(p) = {}
  <2>1. TakeSignals(p) = [[p EXCEPT !.pending = {}] EXCEPT !.state = st]
    BY <1>1, <1>4
  <2> DEFINE e == [p EXCEPT !.pending = {}]
  <2>2. e \in PCB /\ e.pid = p.pid
    BY DEF PCB
  <2> HIDE DEF e
  <2> QED
    BY <1>2, <2>1, <2>2 DEF PCB, e
<1> QED
  BY <1>3, <1>4

(***************************************************************************)
(* switch_to_task.  When it writes into a freed PCB, the free list is what *)
(* that write leaves: the slot, and a wild link.                           *)
(***************************************************************************)
LEMMA SwitchFacts ==
    ASSUME NEW k, Shape(k), NEW next \in Slots
    PROVE  LET m == switch_to_task(k, next)
           IN  /\ Shape(m)
               /\ m.queue = k.queue /\ m.current = next
               /\ \A s \in Slots : m.pcb[s].state = k.pcb[s].state
<1> DEFINE c == k.current
<1> DEFINE m == switch_to_task(k, next)
<1> DEFINE p == [k.pcb[c] EXCEPT !.esp = k.stack]
<1> DEFINE saved == IF Linked(k, c) THEN SetPCB(k, c, p)
                    ELSE [k EXCEPT !.freelist = <<c, Wild>>]
<1> DEFINE st == k.pcb[next].esp
<1> DEFINE flt == IF st = NoStack THEN "null_stack" ELSE saved.fault
<1>0. k \in KernelState /\ SlotsSplit(k) /\ PidsAscend(k) /\ c \in Slots /\ k.pcb[c] \in PCB
  BY KernelTypes DEF Shape
<1>1. m = [saved EXCEPT !.current = next, !.stack = st, !.fault = flt]
  BY DEF switch_to_task
<1> HIDE DEF c, m, flt
<1>2. /\ Shape(saved) /\ saved.queue = k.queue /\ saved.fault = k.fault
      /\ \A s \in Slots : saved.pcb[s].state = k.pcb[s].state
  <2>1. CASE Linked(k, c)
    <3>1. p \in PCB /\ p.pid = k.pcb[c].pid /\ p.state = k.pcb[c].state
      BY <1>0 DEF PCB, KernelState
    <3> HIDE DEF p
    <3>2. /\ Shape(SetPCB(k, c, p)) /\ SetPCB(k, c, p).queue = k.queue
          /\ SetPCB(k, c, p).fault = k.fault
          /\ SetPCB(k, c, p).pcb = [k.pcb EXCEPT ![c] = p]
      BY <1>0, <3>1, SetPCBFacts
    <3>3. k.pcb \in [Slots -> PCB]
      BY <1>0 DEF KernelState
    <3> QED
      BY <2>1, <3>1, <3>2, <3>3
  <2>2. CASE ~Linked(k, c)
    <3> DEFINE f == <<c, Wild>>
    <3>1. saved = [k EXCEPT !.freelist = f]
      BY <2>2
    <3>2. f \in Seq(Slots \cup {Wild}) /\ Len(f) = 2 /\ f[1] = c /\ f[2] = Wild
      BY <1>0
    <3> HIDE DEF f, saved
    <3>3. /\ saved \in KernelState /\ saved.freelist = f /\ saved.queue = k.queue
          /\ saved.pcb = k.pcb /\ saved.next_pid = k.next_pid /\ saved.fault = k.fault
      BY <3>1, <3>2, <1>0 DEF KernelState
    <3>4. c # Wild
      BY <1>0, SchedAssumption DEF Slots, Wild
    <3>5. NoRepeats(f) /\ OnList(f, Wild) /\ \A j \in 1..Len(f) : f[j] \in {c, Wild}
      BY <3>2, <3>4 DEF NoRepeats, OnList
    <3>6. \A i \in 1..Len(k.queue) : k.queue[i] # c /\ k.queue[i] # Wild
      BY <2>2, KernelTypes, SchedAssumption DEF Linked, Slots, Wild
    <3>7. SlotsSplit(saved)
      BY <1>0, <3>3, <3>5, <3>6 DEF SlotsSplit
    <3>8. PidsAscend(saved)
      BY <1>0, <3>3 DEF PidsAscend
    <3> QED
      BY <3>3, <3>7, <3>8 DEF Shape
  <2> QED
    BY <2>1, <2>2
<1>3. st \in Pids \cup {NoStack} /\ flt \in Faults
  BY <1>0, <1>2 DEF KernelState, PCB, Faults, flt
<1> HIDE DEF saved, st
<1>4. /\ m \in KernelState /\ m.queue = saved.queue /\ m.current = next
      /\ m.freelist = saved.freelist /\ m.pcb = saved.pcb /\ m.next_pid = saved.next_pid
  BY <1>1, <1>2, <1>3 DEF KernelState, Shape
<1>5. SlotsSplit(m) /\ PidsAscend(m)
  BY <1>2, <1>4 DEF SlotsSplit, PidsAscend, Shape
<1> QED
  BY <1>2, <1>4, <1>5 DEF Shape, m

\* The processor goes to next, which was chosen while nobody was RUNNING.
LEMMA DispatchFacts ==
    ASSUME NEW k, Shape(k), k.fault = "none",
           \A s : OnList(k.queue, s) => k.pcb[s].state # RUNNING,
           NEW next \in Slots, next # k.current, OnList(k.queue, k.current),
           Dispatch(k, next)
    PROVE  \E x : Become(x) /\ Sound(x) /\ x.current \in {k.current, next}
<1> DEFINE c == k.current
<1> DEFINE ready == Refill(k, next, RUNNING)
<1> DEFINE p == TakeSignals(ready.pcb[c])
<1> DEFINE taken == SetPCB(ready, c, p)
<1> DEFINE sig == do_signal(ready, taken)
<1> DEFINE x == IF sig.fault = "none" THEN switch_to_task(sig, next) ELSE sig
<1>0. Become(x)
  BY DEF Dispatch
<1>1. /\ Shape(ready) /\ SameLists(k, ready)
      /\ \A t \in Slots \ {next} : ready.pcb[t] = k.pcb[t]
  BY RefillFacts DEF States
<1>2. c \in Slots \ {next} /\ ready.pcb[c] = k.pcb[c] /\ k.pcb[c].state # RUNNING
  BY <1>1, KernelTypes
<1> HIDE DEF ready
<1>3. p \in PCB /\ p.pid = ready.pcb[c].pid /\ p.state # RUNNING
  BY <1>1, <1>2, KernelTypes, TakeSignalsFacts
<1> HIDE DEF p
<1>4. /\ Shape(taken) /\ SameLists(ready, taken)
      /\ taken.pcb = [ready.pcb EXCEPT ![c] = p]
  BY <1>1, <1>2, <1>3, SetPCBFacts DEF SameLists
<1>5. \A s : OnList(taken.queue, s) => s \in Slots /\ (taken.pcb[s].state = RUNNING => s = next)
  <2>1. ready.pcb \in [Slots -> PCB]
    BY <1>1 DEF Shape, KernelState
  <2>2. taken.queue = k.queue
    BY <1>1, <1>4 DEF SameLists
  <2> SUFFICES ASSUME NEW s, OnList(k.queue, s)
               PROVE  s \in Slots /\ (taken.pcb[s].state = RUNNING => s = next)
    BY <2>2
  <2>3. s \in Slots
    BY KernelTypes DEF OnList
  <2> QED
    BY <1>1, <1>2, <1>3, <1>4, <2>1, <2>3
<1> HIDE DEF taken
<1>6. /\ Shape(sig) /\ sig.current = c
      /\ \A s : OnList(sig.queue, s) => OnList(taken.queue, s) /\ sig.pcb[s] = taken.pcb[s]
  <2>1. taken.current = c
    BY <1>1, <1>4 DEF SameLists
  <2>2. sig = taken \/ sig = process_kill(taken, ready.pcb[ready.current].pid)
    BY DEF do_signal
  <2> HIDE DEF sig
  <2>3. CASE sig = taken
    BY <1>4, <2>1, <2>3
  <2>4. CASE sig = process_kill(taken, ready.pcb[ready.current].pid)
    <3> DEFINE pid == ready.pcb[ready.current].pid
    <3> DEFINE m == process_kill(taken, pid)
    <3> HIDE DEF pid
    <3>1. /\ Shape(m) /\ m.current = taken.current
          /\ \A s : OnList(m.queue, s) => OnList(taken.queue, s) /\ m.pcb[s] = taken.pcb[s]
      <4>1. Shape(taken)
        BY <1>4
      <4> QED
        BY <4>1, KillFacts
    <3>2. sig = m
      BY <2>4 DEF pid
    <3> HIDE DEF m
    <3> QED
      BY <2>1, <3>1, <3>2
  <2> QED
    BY <2>2, <2>3, <2>4
<1> HIDE DEF sig
<1>7. CASE sig.fault = "none"
  <2>1. x = switch_to_task(sig, next)
    BY <1>7
  <2> HIDE DEF x
  <2>2. /\ Shape(x) /\ x.queue = sig.queue /\ x.current = next
        /\ \A s \in Slots : x.pcb[s].state = sig.pcb[s].state
    BY <1>6, <2>1, SwitchFacts
  <2>3. Quiet(x)
    <3> SUFFICES ASSUME NEW i \in 1..Len(x.queue), x.pcb[x.queue[i]].state = RUNNING
                 PROVE  x.queue[i] = next
      BY <2>2 DEF Quiet
    <3>1. OnList(sig.queue, x.queue[i])
      BY <2>2 DEF OnList
    <3> QED
      BY <3>1, <1>5, <1>6, <2>2
  <2> QED
    BY <1>0, <2>2, <2>3 DEF Sound
<1>8. CASE sig.fault # "none"
  BY <1>0, <1>6, <1>8 DEF Sound
<1> QED
  BY <1>7, <1>8

\* After a slice has expired the current process is no longer marked running.
LEMMA ExpireFacts ==
    ASSUME NEW k, Shape(k)
    PROVE  /\ Shape(Expire(k)) /\ SameLists(k, Expire(k))
           /\ \A s \in Slots \ {k.current} : Expire(k).pcb[s] = k.pcb[s]
           /\ Expire(k).pcb[k.current].state # RUNNING
<1>1. k.current \in Slots
  BY KernelTypes
<1>2. CASE Eligible(k, k.current)
  <2>1. Expire(k) = Refill(k, k.current, READY)
    BY <1>2 DEF Expire
  <2>2. READY \in States /\ READY # RUNNING
    BY DEF States, READY, RUNNING
  <2> QED
    BY <1>1, <2>1, <2>2, RefillFacts
<1>3. CASE ~Eligible(k, k.current)
  BY <1>3 DEF Expire, Eligible, SameLists
<1> QED
  BY <1>2, <1>3

\* n is where the search of schedule ends.
InTurn(k, n) ==
    /\ n \in Candidates(k)
    /\ \A other \in Candidates(k) : SearchRank(k, n) <= SearchRank(k, other)

\* The search looks at the queue and at the states of the processes behind
\* and before the current one, not at the current one itself.
LEMMA InTurnDepends ==
    ASSUME NEW k, Shape(k), NEW m, SameLists(k, m),
           \A s \in Slots \ {k.current} : m.pcb[s] = k.pcb[s]
    PROVE  /\ Candidates(m) = Candidates(k)
           /\ \A n : InTurn(m, n) <=> InTurn(k, n)
<1>1. \A s : OnList(k.queue, s) => s \in Slots
  BY KernelTypes DEF OnList
<1>2. Candidates(m) = Candidates(k)
  BY <1>1 DEF Candidates, Eligible, SameLists, OnList
<1>3. \A s : Position(m, s) = Position(k, s)
  BY DEF Position, SameLists
<1>4. \A s : SearchRank(m, s) = SearchRank(k, s)
  BY <1>3 DEF SearchRank, SameLists
<1> QED
  BY <1>2, <1>4 DEF InTurn

(***************************************************************************)
(* schedule keeps the kernel sound, and when the processor changes hands   *)
(* it was the turn of the process that got it.                             *)
(***************************************************************************)
LEMMA ScheduleFacts ==
    ASSUME NEW k, Shape(k), k.fault = "none", Quiet(k), schedule(k)
    PROVE  \E x : /\ Become(x) /\ Sound(x)
                  /\ x.current # k.current => OnList(k.queue, k.current) /\ InTurn(k, x.current)
<1> DEFINE c == ChargeSlice(k)
<1>1. /\ Shape(c) /\ SameLists(k, c)
      /\ \A s \in Slots \ {k.current} : c.pcb[s] = k.pcb[s]
      /\ c.pcb[k.current].state = k.pcb[k.current].state
  BY ChargeFacts
<1>2. \/ KeepsCpu(c) /\ Become(Run(c))
      \/ ~KeepsCpu(c) /\ ~Linked(c, c.current) /\ Become(NullWalk(c))
      \/ ~KeepsCpu(c) /\ Linked(c, c.current) /\ Reschedule(Expire(c))
  BY DEF schedule
<1> HIDE DEF c
<1>3. c.current = k.current /\ c.queue = k.queue /\ c.fault = "none"
  BY <1>1 DEF SameLists
<1>4. ASSUME NEW m, Shape(m), SameLists(k, m),
             \A s \in Slots \ {k.current} : m.pcb[s] = k.pcb[s]
      PROVE  Sound(Run(m)) /\ Run(m).current = k.current
  <2>1. /\ Shape(Run(m)) /\ SameLists(m, Run(m))
        /\ \A s \in Slots \ {m.current} : Run(m).pcb[s] = m.pcb[s]
    BY <1>4, RunFacts
  <2>2. Run(m).current = k.current /\ Run(m).queue = k.queue
    BY <2>1, <1>4 DEF SameLists
  <2>3. \A s \in Slots \ {k.current} : Run(m).pcb[s] = k.pcb[s]
    BY <2>1, <1>4 DEF SameLists
  <2>4. Quiet(Run(m))
    BY <2>2, <2>3, KernelTypes DEF Quiet
  <2> QED
    BY <2>1, <2>2, <2>4 DEF Sound
<1>5. CASE KeepsCpu(c) /\ Become(Run(c))
  BY <1>1, <1>4, <1>5
<1>6. CASE ~KeepsCpu(c) /\ ~Linked(c, c.current) /\ Become(NullWalk(c))
  <2> DEFINE x == NullWalk(c)
  <2>1. x = [c EXCEPT !.fault = "null_walk"]
    BY DEF NullWalk
  <2>2. c \in KernelState /\ SlotsSplit(c) /\ PidsAscend(c)
    BY <1>1 DEF Shape
  <2> HIDE DEF x
  <2>3. /\ x \in KernelState
        /\ x.queue = c.queue /\ x.current = c.current /\ x.freelist = c.freelist
        /\ x.pcb = c.pcb /\ x.next_pid = c.next_pid /\ x.fault = "null_walk"
    BY <2>1, <2>2 DEF KernelState, Faults
  <2>4. SlotsSplit(x) /\ PidsAscend(x)
    BY <2>2, <2>3 DEF SlotsSplit, PidsAscend
  <2>5. Become(x)
    BY <1>6 DEF x
  <2> QED
    BY <2>3, <2>4, <2>5, <1>3 DEF Shape, Sound
<1>7. CASE ~KeepsCpu(c) /\ Linked(c, c.current) /\ Reschedule(Expire(c))
  <2> DEFINE e == Expire(c)
  <2>1. /\ Shape(e) /\ SameLists(c, e)
        /\ \A s \in Slots \ {c.current} : e.pcb[s] = c.pcb[s]
        /\ e.pcb[c.current].state # RUNNING
    BY <1>1, ExpireFacts
  <2>2. Reschedule(e)
    BY <1>7
  <2> HIDE DEF e
  <2>3. SameLists(k, e) /\ \A s \in Slots \ {k.current} : e.pcb[s] = k.pcb[s]
    BY <1>1, <1>3, <2>1 DEF SameLists
  <2>4. OnList(k.queue, k.current)
    BY <1>3, <1>7 DEF Linked, OnList
  <2>5. CASE Candidates(e) = {} /\ Become(Run(e))
    BY <1>4, <2>1, <2>3, <2>5
  <2>6. ASSUME NEW next \in Candidates(e),
               \A other \in Candidates(e) : SearchRank(e, next) <= SearchRank(e, other),
               Dispatch(e, next)
        PROVE  \E x : /\ Become(x) /\ Sound(x)
                      /\ x.current # k.current => OnList(k.queue, k.current) /\ InTurn(k, x.current)
    <3>1. InTurn(k, next)
      BY <2>3, <2>6, InTurnDepends DEF InTurn
    <3>2. next \in Slots /\ next # e.current
      <4>1. next # e.current /\ OnList(e.queue, next)
        BY DEF Candidates, OnList
      <4> QED
        BY <4>1, <2>1, KernelTypes DEF OnList
    <3>3. \A s : OnList(e.queue, s) => e.pcb[s].state # RUNNING
      <4> SUFFICES ASSUME NEW s, OnList(k.queue, s) PROVE e.pcb[s].state # RUNNING
        BY <2>3 DEF SameLists
      <4>1. s \in Slots
        BY KernelTypes DEF OnList
      <4>2. CASE s = k.current
        BY <4>2, <1>3, <2>1
      <4>3. CASE s # k.current
        BY <4>1, <4>3, <2>3 DEF Quiet, OnList
      <4> QED
        BY <4>2, <4>3
    <3>4. e.fault = "none" /\ e.current = k.current /\ OnList(e.queue, e.current)
      BY <2>3, <2>4 DEF SameLists
    <3>5. PICK x : Become(x) /\ Sound(x) /\ x.current \in {e.current, next}
      BY <2>1, <2>6, <3>2, <3>3, <3>4, DispatchFacts
    <3> QED
      BY <3>1, <3>4, <3>5, <2>4
  <2> QED
    BY <2>2, <2>5, <2>6 DEF Reschedule
<1> QED
  BY <1>2, <1>5, <1>6, <1>7

-----------------------------------------------------------------------------
(***************************************************************************)
(* The handlers.  A handler leaves the kernel sound, and changes the       *)
(* current process only in its turn.                                       *)
(***************************************************************************)
Completes(k) ==
    \E x : /\ Become(x) /\ Sound(x)
           /\ x.current # k.current => OnList(k.queue, k.current) /\ InTurn(k, x.current)

\* A call of schedule on a kernel in which only the current PCB was changed.
LEMMA ScheduleCompletes ==
    ASSUME NEW k, Sound(k), k.fault = "none",
           NEW p \in PCB, p.pid = k.pcb[k.current].pid, schedule(SetPCB(k, k.current, p))
    PROVE  Completes(k)
<1> DEFINE m == SetPCB(k, k.current, p)
<1>0. Shape(k) /\ Quiet(k) /\ k.current \in Slots /\ k.pcb \in [Slots -> PCB]
  BY KernelTypes DEF Sound, Shape, KernelState
<1>1. Shape(m) /\ SameLists(k, m) /\ m.pcb = [k.pcb EXCEPT ![k.current] = p]
  BY <1>0, SetPCBFacts DEF SameLists
<1>2. schedule(m)
  OBVIOUS
<1> HIDE DEF m
<1>3. \A s \in Slots \ {k.current} : m.pcb[s] = k.pcb[s]
  BY <1>0, <1>1
<1>4. m.queue = k.queue /\ m.current = k.current /\ m.fault = "none"
  BY <1>1 DEF SameLists
<1>5. Quiet(m)
  BY <1>0, <1>3, <1>4, KernelTypes DEF Quiet
<1>6. PICK x : /\ Become(x) /\ Sound(x)
               /\ x.current # m.current => OnList(m.queue, m.current) /\ InTurn(m, x.current)
  BY <1>1, <1>2, <1>4, <1>5, ScheduleFacts
<1>7. \A n : InTurn(m, n) <=> InTurn(k, n)
  BY <1>0, <1>1, <1>3, InTurnDepends
<1> QED
  BY <1>4, <1>6, <1>7 DEF Completes

\* A change of one PCB that does not make it RUNNING.
LEMMA SetPCBCompletes ==
    ASSUME NEW k, Sound(k), NEW s \in Slots, NEW p \in PCB, p.pid = k.pcb[s].pid,
           p.state = RUNNING => k.pcb[s].state = RUNNING,
           Become(SetPCB(k, s, p))
    PROVE  Completes(k)
<1> DEFINE m == SetPCB(k, s, p)
<1>0. Shape(k) /\ k.pcb \in [Slots -> PCB]
  BY DEF Sound, Shape, KernelState
<1>1. Shape(m) /\ SameLists(k, m) /\ m.pcb = [k.pcb EXCEPT ![s] = p]
  BY <1>0, SetPCBFacts DEF SameLists
<1>2. Become(m)
  OBVIOUS
<1> HIDE DEF m
<1>3. m.queue = k.queue /\ m.current = k.current /\ m.fault = k.fault
  BY <1>1 DEF SameLists
<1>4. \A t \in Slots : m.pcb[t].state = RUNNING => k.pcb[t].state = RUNNING
  BY <1>0, <1>1
<1>5. Quiet(k) => Quiet(m)
  BY <1>0, <1>3, <1>4, KernelTypes DEF Quiet
<1> QED
  BY <1>1, <1>2, <1>3, <1>5 DEF Completes, Sound

\* process_create, process_create_user and process_fork.
LEMMA FreshCompletes ==
    ASSUME NEW k, Sound(k), k.fault = "none",
           k.freelist # <<>>, Head(k.freelist) # Wild, k.next_pid <= MaxPid,
           NEW p \in PCB, p.pid = k.next_pid, p.state = READY,
           Become(FreshProcess(k, p))
    PROVE  Completes(k)
<1> DEFINE m == FreshProcess(k, p)
<1> DEFINE h == Head(k.freelist)
<1>0. Shape(k) /\ Quiet(k)
  BY DEF Sound
<1>1. /\ Shape(m)
      /\ m.current = k.current /\ m.fault = k.fault
      /\ m.pcb[h] = p
      /\ \A s : OnList(m.queue, s) => s = h \/ (OnList(k.queue, s) /\ m.pcb[s] = k.pcb[s])
  BY <1>0, FreshFacts
<1>2. Become(m)
  OBVIOUS
<1> HIDE DEF m, h
<1>3. Quiet(m)
  <2> SUFFICES ASSUME NEW i \in 1..Len(m.queue), m.pcb[m.queue[i]].state = RUNNING
               PROVE  m.queue[i] = k.current
    BY <1>1 DEF Quiet
  <2>1. OnList(m.queue, m.queue[i])
    BY DEF OnList
  <2>2. m.queue[i] # h
    BY <1>1 DEF READY, RUNNING
  <2> QED
    BY SMTT(30), <2>1, <2>2, <1>0, <1>1 DEF Quiet, OnList
<1> QED
  BY <1>1, <1>2, <1>3 DEF Completes, Sound


\* process_fork without a page directory: the slot returns to the free list
\* with the copy in it, and only the pid is spent.
LEMMA ForkFailsCompletes ==
    ASSUME NEW k, Sound(k), k.freelist # <<>>, Head(k.freelist) # Wild, k.next_pid <= MaxPid,
           Become(ForkWithoutDirectory(k))
    PROVE  Completes(k)
<1> DEFINE m == ForkWithoutDirectory(k)
<1> DEFINE h == Head(k.freelist)
<1> DEFINE f == Tail(k.freelist)
<1> DEFINE z == [k.pcb EXCEPT ![h] = ZeroPCB]
<1> DEFINE p == [z[k.current] EXCEPT !.pid = k.next_pid]
<1>0. /\ Shape(k) /\ k \in KernelState /\ SlotsSplit(k) /\ PidsAscend(k)
      /\ k.pcb \in [Slots -> PCB] /\ k.current \in Slots
  BY KernelTypes DEF Sound, Shape, KernelState
<1>1. /\ h \in Slots /\ ~OnList(k.queue, h) /\ f \in Seq(Slots \cup {Wild})
  BY <1>0, HeadFacts
<1>2. <<h>> \o f = k.freelist
  BY <1>0, HeadTailProperties DEF KernelState
<1>3. ZeroPCB \in PCB
  BY SchedAssumption DEF ZeroPCB, PCB, Pids, States
<1>4. z \in [Slots -> PCB] /\ \A s \in Slots : s # h => z[s] = k.pcb[s]
  BY <1>0, <1>1, <1>3
<1>5. p \in PCB
  <2>1. k.next_pid \in Pids
    BY <1>0 DEF KernelState, Pids
  <2>2. z[k.current] \in PCB
    BY <1>0, <1>4
  <2> HIDE DEF z
  <2> QED
    BY <2>1, <2>2 DEF PCB
<1> DEFINE a == kmem_cache_alloc(k)
<1> DEFINE c == SetPCB(a, h, p)
<1> DEFINE b == [z EXCEPT ![h] = p]
<1>6. /\ a \in KernelState /\ a.pcb = z /\ a.freelist = f /\ a.queue = k.queue
      /\ a.current = k.current /\ a.next_pid = k.next_pid /\ a.fault = k.fault
  <2>1. a = [[k EXCEPT !.freelist = f] EXCEPT !.pcb = z]
    BY <1>0 DEF kmem_cache_alloc, KernelState
  <2> HIDE DEF a, f, z
  <2> QED
    BY <2>1, <1>0, <1>1, <1>4 DEF KernelState
<1>7. m = [kmem_cache_free(c, h) EXCEPT !.next_pid = @ + 1]
  BY <1>6 DEF ForkWithoutDirectory
<1> HIDE DEF m, h, a, f, z, p
<1>8. b \in [Slots -> PCB] /\ \A s \in Slots : s # h => b[s] = k.pcb[s]
  BY <1>1, <1>4, <1>5
<1>9. /\ c \in KernelState /\ c.pcb = b /\ c.freelist = f /\ c.queue = k.queue
      /\ c.current = k.current /\ c.next_pid = k.next_pid /\ c.fault = k.fault
  BY <1>6, <1>8 DEF SetPCB, KernelState
<1> HIDE DEF b, c
<1>10. k.next_pid + 1 \in 0..MaxPid + 1
  BY <1>0, SchedAssumption DEF KernelState
<1>11. /\ m \in KernelState /\ m.pcb = b /\ m.freelist = k.freelist /\ m.queue = k.queue
       /\ m.current = k.current /\ m.next_pid = k.next_pid + 1 /\ m.fault = k.fault
  <2>1. m = [[c EXCEPT !.freelist = k.freelist] EXCEPT !.next_pid = k.next_pid + 1]
    BY <1>2, <1>7, <1>9 DEF kmem_cache_free, KernelState
  <2> QED
    BY <2>1, <1>0, <1>9, <1>10 DEF KernelState
<1>12. \A i \in 1..Len(k.queue) : b[k.queue[i]] = k.pcb[k.queue[i]]
  BY <1>0, <1>1, <1>8, KernelTypes DEF OnList
<1>13. SlotsSplit(m)
  BY <1>0, <1>11 DEF SlotsSplit
<1>14. PidsAscend(m)
  <2>1. k.next_pid \in Int /\ Len(k.queue) \in Nat
    BY <1>0, KernelTypes DEF KernelState
  <2>2. \A i \in 1..Len(k.queue) : k.pcb[k.queue[i]].pid \in Int
    <3>1. \A s \in Slots : k.pcb[s].pid \in Int
      BY <1>0 DEF PCB, Pids
    <3> QED
      BY <3>1, <1>0, KernelTypes
  <2>3. Len(m.queue) >= 1 /\ m.pcb[m.queue[1]].pid = 0
    BY <2>1, <1>0, <1>11, <1>12 DEF PidsAscend
  <2>4. \A i, j \in 1..Len(m.queue) : i < j => m.pcb[m.queue[i]].pid < m.pcb[m.queue[j]].pid
    BY <1>0, <1>11, <1>12 DEF PidsAscend
  <2>5. \A i \in 1..Len(m.queue) : m.pcb[m.queue[i]].pid < m.next_pid
    <3>1. \A i \in 1..Len(k.queue) : k.pcb[k.queue[i]].pid < k.next_pid + 1
      BY <2>1, <2>2, <1>0 DEF PidsAscend
    <3> QED
      BY <3>1, <1>11, <1>12
  <2> QED
    BY <2>3, <2>4, <2>5 DEF PidsAscend
<1>15. Quiet(k) => Quiet(m)
  BY <1>11, <1>12 DEF Quiet
<1> QED
  BY <1>11, <1>13, <1>14, <1>15 DEF Completes, Sound, Shape, m

\* process_kill, and sys_exit, which goes on to schedule.
LEMMA KillCompletes ==
    ASSUME NEW k, Sound(k), k.fault = "none", NEW pid
    PROVE  /\ Become(process_kill(k, pid)) => Completes(k)
           /\ sys_exit(k) => Completes(k)
<1>0. Shape(k) /\ Quiet(k)
  BY DEF Sound
<1>1. ASSUME NEW id
      PROVE  LET m == process_kill(k, id)
             IN  /\ Sound(m) /\ m.current = k.current /\ Shape(m) /\ Quiet(m)
                 /\ OnList(m.queue, k.current) /\ id = k.pcb[k.current].pid => m = k
  <2> DEFINE m == process_kill(k, id)
  <2>1. /\ Shape(m)
        /\ m.current = k.current
        /\ \A s : OnList(m.queue, s) => OnList(k.queue, s) /\ m.pcb[s] = k.pcb[s]
        /\ OnList(m.queue, k.current) /\ id = k.pcb[k.current].pid => m = k
    BY <1>0, KillFacts
  <2> HIDE DEF m
  <2>2. Quiet(m)
    BY SMTT(30), <1>0, <2>1 DEF Quiet, OnList
  <2> QED
    BY <2>1, <2>2 DEF Sound, m
<1>2. ASSUME Become(process_kill(k, pid)) PROVE Completes(k)
  BY <1>1, <1>2 DEF Completes
<1>3. ASSUME sys_exit(k) PROVE Completes(k)
  <2> DEFINE m == process_kill(k, k.pcb[k.current].pid)
  <2>1. IF m.fault = "none" THEN schedule(m) ELSE Become(m)
    BY <1>3 DEF sys_exit
  <2>2. /\ Sound(m) /\ m.current = k.current /\ Shape(m) /\ Quiet(m)
        /\ OnList(m.queue, k.current) => m = k
    BY <1>1
  <2> HIDE DEF m
  <2>3. CASE m.fault = "none"
    <3>1. PICK x : /\ Become(x) /\ Sound(x)
                   /\ x.current # m.current => OnList(m.queue, m.current) /\ InTurn(m, x.current)
      BY <2>1, <2>2, <2>3, ScheduleFacts
    <3> QED
      BY <3>1, <2>2 DEF Completes
  <2>4. CASE m.fault # "none"
    BY <2>1, <2>2, <2>4 DEF Completes
  <2> QED
    BY <2>3, <2>4
<1> QED
  BY <1>2, <1>3


\* What the new PCBs hold.
LEMMA NewPCBs ==
    ASSUME NEW k, Shape(k), k.freelist # <<>>, Head(k.freelist) # Wild, k.next_pid <= MaxPid
    PROVE  /\ \E p \in PCB : /\ p.pid = k.next_pid /\ p.state = READY
                             /\ process_create(k) = FreshProcess(k, p)
           /\ \E p \in PCB : /\ p.pid = k.next_pid /\ p.state = READY
                             /\ process_create_user(k) = FreshProcess(k, p)
           /\ \E p \in PCB : /\ p.pid = k.next_pid /\ p.state = READY
                             /\ process_fork(k) = FreshProcess(k, p)
<1>0. /\ k.next_pid \in Pids /\ k.current \in Slots /\ k.pcb \in [Slots -> PCB]
      /\ k \in KernelState
  BY KernelTypes DEF Shape, KernelState, Pids
<1>1. ZeroPCB \in PCB /\ ZeroPCB.state = READY
  BY SchedAssumption DEF ZeroPCB, PCB, Pids, States
<1>2. calculate_time_slice(100) \in Nat
  BY TimeSlice
<1> DEFINE a == [[[[ZeroPCB EXCEPT !.pid = k.next_pid] EXCEPT !.priority = 100]
                   EXCEPT !.time_slice = calculate_time_slice(100)] EXCEPT !.esp = k.next_pid]
<1>3. a \in PCB /\ a.pid = k.next_pid /\ a.state = READY
  <2> DEFINE e == [ZeroPCB EXCEPT !.pid = k.next_pid]
  <2> DEFINE d == [e EXCEPT !.priority = 100]
  <2>0. e \in PCB /\ e.pid = k.next_pid /\ e.state = READY
    BY <1>0, <1>1 DEF PCB
  <2>1. d \in PCB /\ d.pid = k.next_pid /\ d.state = READY
    <3> HIDE DEF e
    <3> QED
      BY <2>0 DEF PCB
  <2>2. a = [[d EXCEPT !.time_slice = calculate_time_slice(100)] EXCEPT !.esp = k.next_pid]
    OBVIOUS
  <2> HIDE DEF d, a
  <2> QED
    BY <1>0, <1>2, <2>1, <2>2 DEF PCB
<1>4. process_create(k) = FreshProcess(k, a)
  BY <1>1 DEF process_create, PCB
<1> DEFINE b == [[ZeroPCB EXCEPT !.pid = k.next_pid] EXCEPT !.esp = k.next_pid]
<1>5. b \in PCB /\ b.pid = k.next_pid /\ b.state = READY
  BY <1>0, <1>1 DEF PCB
<1>6. process_create_user(k) = FreshProcess(k, b)
  BY <1>1 DEF process_create_user, PCB
<1> DEFINE parent == kmem_cache_alloc(k).pcb[k.current]
<1>7. parent \in PCB
  <2> DEFINE z == [k.pcb EXCEPT ![Head(k.freelist)] = ZeroPCB]
  <2>1. Head(k.freelist) \in Slots
    BY HeadFacts
  <2>2. z \in [Slots -> PCB]
    BY <2>1, <1>0, <1>1
  <2>3. kmem_cache_alloc(k).pcb = z
    BY <1>0 DEF kmem_cache_alloc, KernelState
  <2> QED
    BY <2>2, <2>3, <1>0
<1> HIDE DEF parent
<1>8. calculate_time_slice(parent.priority) \in Nat
  <2>1. parent.priority \in 0..255
    BY <1>7 DEF PCB
  <2> QED
    BY <2>1, TimeSlice
<1> DEFINE c == [[[[parent EXCEPT !.pid = k.next_pid] EXCEPT !.state = READY]
                   EXCEPT !.time_slice = calculate_time_slice(parent.priority)]
                   EXCEPT !.pending = {}]
<1>9. c \in PCB /\ c.pid = k.next_pid /\ c.state = READY
  BY <1>0, <1>7, <1>8 DEF PCB, States
<1>10. process_fork(k) = FreshProcess(k, c)
  BY <1>7 DEF process_fork, PCB, parent
<1> HIDE DEF a, b, c
<1> QED
  BY <1>3, <1>4, <1>5, <1>6, <1>9, <1>10


\* The state the specification is in, as a kernel state.
IInv == Sound(Kernel)

\* The fields of the kernel state that the operations of the scheduler work on.
LEMMA KernelFields ==
    /\ Kernel.pcb = pcb /\ Kernel.queue = ready_queue /\ Kernel.current = current_process
    /\ Kernel.freelist = freelist /\ Kernel.next_pid = next_pid
    /\ Kernel.stack = cpu_stack /\ Kernel.fault = fault
BY DEF Kernel

\* Every action is a handler that completes.
LEMMA StepCompletes ==
    ASSUME IInv, Next
    PROVE  Completes(Kernel)
<1> DEFINE k == Kernel
<1>0. /\ Sound(k) /\ Shape(k) /\ k \in KernelState
      /\ k.pcb = pcb /\ k.queue = ready_queue /\ k.current = current_process
      /\ k.freelist = freelist /\ k.next_pid = next_pid /\ k.stack = cpu_stack /\ k.fault = fault
  BY KernelFields DEF IInv, Sound, Shape
<1> HIDE DEF k
<1>1. k.current \in Slots /\ \A s \in Slots : k.pcb[s] \in PCB
  BY <1>0, KernelTypes
<1>2. CASE Tick
  <2>1. k.fault = "none" /\ Quiet(k) /\ schedule(k)
    BY <1>0, <1>2 DEF Tick, Up, Sound, k
  <2> QED
    BY <1>0, <2>1, ScheduleFacts DEF Completes, k
<1>3. CASE Yield
  <2> DEFINE p == [k.pcb[k.current] EXCEPT !.time_slice = 0]
  <2>1. k.fault = "none" /\ schedule(SetPCB(k, k.current, p))
    BY <1>0, <1>3 DEF Yield, Up, process_yield, k
  <2>2. p \in PCB /\ p.pid = k.pcb[k.current].pid
    BY <1>1 DEF PCB
  <2> HIDE DEF p
  <2> QED
    BY <1>0, <2>1, <2>2, ScheduleCompletes DEF k
<1>4. CASE Create
  <2>1. /\ k.fault = "none" /\ k.freelist # <<>> /\ Head(k.freelist) # Wild
        /\ k.next_pid <= MaxPid /\ Become(process_create(k))
    BY <1>0, <1>4 DEF Create, CanCreate, Up, k
  <2> QED
    BY <1>0, <2>1, NewPCBs, FreshCompletes DEF k
<1>5. CASE CreateUser
  <2>1. /\ k.fault = "none" /\ k.freelist # <<>> /\ Head(k.freelist) # Wild
        /\ k.next_pid <= MaxPid /\ Become(process_create_user(k))
    BY <1>0, <1>5 DEF CreateUser, CanCreate, Up, k
  <2> QED
    BY <1>0, <2>1, NewPCBs, FreshCompletes DEF k
<1>6. CASE Fork
  <2>1. /\ k.fault = "none" /\ k.freelist # <<>> /\ Head(k.freelist) # Wild
        /\ k.next_pid <= MaxPid /\ Become(process_fork(k))
    BY <1>0, <1>6 DEF Fork, CanCreate, Up, k
  <2> QED
    BY <1>0, <2>1, NewPCBs, FreshCompletes DEF k
<1>7. CASE ForkFails
  <2>1. /\ k.freelist # <<>> /\ Head(k.freelist) # Wild
        /\ k.next_pid <= MaxPid /\ Become(ForkWithoutDirectory(k))
    BY <1>0, <1>7 DEF ForkFails, CanCreate, k
  <2> QED
    BY <1>0, <2>1, ForkFailsCompletes DEF k
<1>8. CASE AllocWild
  <2> DEFINE x == [k EXCEPT !.fault = "wild_alloc"]
  <2>1. /\ x \in KernelState /\ x.fault = "wild_alloc" /\ x.pcb = k.pcb /\ x.queue = k.queue
        /\ x.current = k.current /\ x.freelist = k.freelist /\ x.next_pid = k.next_pid
        /\ x.stack = k.stack
    BY <1>0 DEF KernelState, Faults
  <2> HIDE DEF x
  <2>2. Become(x)
    BY <1>0, <1>8, <2>1 DEF AllocWild, Become
  <2>3. SlotsSplit(x) /\ PidsAscend(x)
    BY <1>0, <2>1 DEF Shape, SlotsSplit, PidsAscend
  <2> QED
    BY <2>1, <2>2, <2>3 DEF Completes, Sound, Shape, k
<1>9. CASE Exit
  <2>1. k.fault = "none" /\ sys_exit(k)
    BY <1>0, <1>9 DEF Exit, Up, k
  <2> QED
    BY <1>0, <2>1, KillCompletes DEF k
<1>10. ASSUME NEW pid \in Pids, Kill(pid) PROVE Completes(Kernel)
  <2>1. k.fault = "none" /\ Become(process_kill(k, pid))
    BY <1>0, <1>10 DEF Kill, Up, k
  <2> QED
    BY <1>0, <2>1, KillCompletes DEF k
<1>11. ASSUME NEW pid, Queued(k, pid)
       PROVE  /\ process_find_by_pid(k, pid) \in Slots
              /\ k.pcb[process_find_by_pid(k, pid)] \in PCB
  BY <1>0, <1>1, <1>11, FindFacts
<1>12. ASSUME NEW pid \in Pids, Block(pid) PROVE Completes(Kernel)
  <2> DEFINE s == process_find_by_pid(k, pid)
  <2> DEFINE p == [k.pcb[s] EXCEPT !.state = BLOCKED]
  <2>1. /\ k.fault = "none" /\ Queued(k, pid)
        /\ IF s = k.current THEN schedule(SetPCB(k, s, p)) ELSE Become(SetPCB(k, s, p))
    BY <1>0, <1>12 DEF Block, Up, process_block, k
  <2>2. s \in Slots /\ k.pcb[s] \in PCB
    BY <1>11, <2>1
  <2> HIDE DEF s
  <2>3. p \in PCB /\ p.pid = k.pcb[s].pid /\ p.state # RUNNING
    BY <2>2 DEF PCB, States, BLOCKED, RUNNING
  <2> HIDE DEF p
  <2>4. CASE s = k.current
    BY <1>0, <2>1, <2>3, <2>4, ScheduleCompletes DEF k
  <2>5. CASE s # k.current
    BY <1>0, <2>1, <2>2, <2>3, <2>5, SetPCBCompletes DEF k
  <2> QED
    BY <2>4, <2>5
<1>13. ASSUME NEW pid \in Pids, Unblock(pid) PROVE Completes(Kernel)
  <2> DEFINE s == process_find_by_pid(k, pid)
  <2> DEFINE p == [k.pcb[s] EXCEPT !.state = READY]
  <2>1. /\ Queued(k, pid)
        /\ Become(IF k.pcb[s].state = BLOCKED THEN SetPCB(k, s, p) ELSE k)
    BY <1>13 DEF Unblock, process_unblock, k
  <2>2. s \in Slots /\ k.pcb[s] \in PCB
    BY <1>11, <2>1
  <2> HIDE DEF s
  <2>3. p \in PCB /\ p.pid = k.pcb[s].pid /\ p.state # RUNNING
    BY <2>2 DEF PCB, States, READY, RUNNING
  <2> HIDE DEF p
  <2>4. CASE k.pcb[s].state = BLOCKED
    BY <1>0, <2>1, <2>2, <2>3, <2>4, SetPCBCompletes DEF k
  <2>5. CASE k.pcb[s].state # BLOCKED
    BY <1>0, <2>1, <2>5 DEF Completes, k
  <2> QED
    BY <2>4, <2>5
<1>14. ASSUME NEW pid \in Pids, NEW priority \in Priorities, SetPriority(pid, priority)
       PROVE  Completes(Kernel)
  <2> DEFINE s == process_find_by_pid(k, pid)
  <2> DEFINE t == calculate_time_slice(priority)
  <2> DEFINE p == [[k.pcb[s] EXCEPT !.priority = priority] EXCEPT !.time_slice = t]
  <2>1. Queued(k, pid) /\ Become(SetPCB(k, s, [k.pcb[s] EXCEPT !.priority = priority, !.time_slice = t]))
    BY <1>14 DEF SetPriority, process_set_priority, k
  <2>2. s \in Slots /\ k.pcb[s] \in PCB
    BY <1>11, <2>1
  <2>3. priority \in 0..255 /\ t \in Nat
    BY SchedAssumption, TimeSlice
  <2> HIDE DEF s, t
  <2>4. p \in PCB /\ p.pid = k.pcb[s].pid /\ p.state = k.pcb[s].state
    BY <2>2, <2>3 DEF PCB
  <2>5. Become(SetPCB(k, s, p))
    BY <2>1
  <2> HIDE DEF p
  <2> QED
    BY <1>0, <2>2, <2>4, <2>5, SetPCBCompletes DEF k
<1>15. ASSUME NEW pid \in Pids, NEW sig \in Signals, SendSignal(pid, sig) PROVE Completes(Kernel)
  <2> DEFINE s == process_find_by_pid(k, pid)
  <2> DEFINE p == [k.pcb[s] EXCEPT !.pending = @ \cup {sig}]
  <2>1. Queued(k, pid) /\ Become(SetPCB(k, s, p))
    BY <1>15 DEF SendSignal, send_signal, k
  <2>2. s \in Slots /\ k.pcb[s] \in PCB
    BY <1>11, <2>1
  <2> HIDE DEF s
  <2>3. p \in PCB /\ p.pid = k.pcb[s].pid /\ p.state = k.pcb[s].state
    BY <2>2 DEF PCB
  <2> HIDE DEF p
  <2> QED
    BY <1>0, <2>1, <2>2, <2>3, SetPCBCompletes DEF k
<1>16. ASSUME NEW sig \in Signals, NEW default \in BOOLEAN, SetHandler(sig, default)
       PROVE  Completes(Kernel)
  <2> DEFINE h == IF default THEN k.pcb[k.current].handled \ {sig}
                             ELSE k.pcb[k.current].handled \cup {sig}
  <2> DEFINE p == [k.pcb[k.current] EXCEPT !.handled = h]
  <2>1. Become(SetPCB(k, k.current, p))
    BY <1>0, <1>16 DEF SetHandler, k
  <2>2. h \in SUBSET Signals
    BY <1>1 DEF PCB
  <2> HIDE DEF h
  <2>3. p \in PCB /\ p.pid = k.pcb[k.current].pid /\ p.state = k.pcb[k.current].state
    BY <1>1, <2>2 DEF PCB
  <2> HIDE DEF p
  <2> QED
    BY <1>0, <1>1, <2>1, <2>3, SetPCBCompletes DEF k
<1> QED
  BY <1>2, <1>3, <1>4, <1>5, <1>6, <1>7, <1>8, <1>9, <1>10, <1>12, <1>13, <1>14, <1>15, <1>16 DEF Next


-----------------------------------------------------------------------------
(***************************************************************************)
(* The theorems.                                                           *)
(***************************************************************************)
\* After process_init the kernel is sound.
LEMMA InitSound ==
    ASSUME Init
    PROVE  IInv
<1> DEFINE k == Kernel
<1>0. /\ k.pcb = pcb /\ k.queue = ready_queue /\ k.current = current_process
      /\ k.freelist = freelist /\ k.next_pid = next_pid /\ k.stack = cpu_stack /\ k.fault = fault
  BY KernelFields
<1>1. NSlots \in Nat /\ NSlots >= 1 /\ MaxPid \in Nat /\ 1 \in Slots
  BY SchedAssumption DEF Slots
<1>2. ZeroPCB \in PCB
  BY SchedAssumption DEF ZeroPCB, PCB, Pids, States
<1>3. KernelPCB \in PCB /\ KernelPCB.pid = 0
  <2> DEFINE z == [ZeroPCB EXCEPT !.state = RUNNING]
  <2>1. z \in PCB /\ z.pid = 0
    BY <1>2 DEF PCB, States, ZeroPCB
  <2>2. KernelPCB = [z EXCEPT !.priority = 128]
    BY <1>2 DEF KernelPCB, PCB
  <2> HIDE DEF z
  <2> QED
    BY <2>1, <2>2 DEF PCB
<1>4. pcb \in [Slots -> PCB] /\ pcb[1].pid = 0
  BY <1>1, <1>2, <1>3 DEF Init
<1>5. ready_queue \in Seq(Slots) /\ Len(ready_queue) = 1 /\ ready_queue[1] = 1
  BY <1>1 DEF Init
<1>6. /\ freelist \in Seq(Slots \cup {Wild}) /\ Len(freelist) = NSlots - 1
      /\ \A i \in 1..NSlots - 1 : freelist[i] = i + 1
  <2>1. freelist \in [1..NSlots - 1 -> Slots \cup {Wild}]
    BY <1>1 DEF Init, Slots
  <2> QED
    BY <2>1, <1>1 DEF Init
<1>7. /\ current_process = 1 /\ next_pid = 1 /\ cpu_stack = 0 /\ fault = "none"
      /\ next_pid \in 0..MaxPid + 1 /\ cpu_stack \in Pids \cup {NoStack} /\ fault \in Faults
  BY <1>1 DEF Init, Pids, Faults
<1>8. k \in KernelState
  BY <1>1, <1>4, <1>5, <1>6, <1>7 DEF Kernel, KernelState
<1> HIDE DEF k
<1>9. SlotsSplit(k)
  <2>1. NoRepeats(ready_queue) /\ NoRepeats(freelist)
    BY <1>1, <1>5, <1>6 DEF NoRepeats
  <2>2. \A i \in 1..Len(ready_queue), j \in 1..Len(freelist) : ready_queue[i] # freelist[j]
    BY <1>1, <1>5, <1>6
  <2>3. ASSUME NEW s \in Slots PROVE OnList(ready_queue, s) \/ OnList(freelist, s)
    <3>1. CASE s = 1
      BY <3>1, <1>5 DEF OnList
    <3>2. CASE s # 1
      <4>1. s - 1 \in 1..Len(freelist) /\ freelist[s - 1] = s
        BY <3>2, <1>1, <1>6 DEF Slots
      <4> QED
        BY <4>1 DEF OnList
    <3> QED
      BY <3>1, <3>2
  <2> QED
    BY <2>1, <2>2, <2>3, <1>0 DEF SlotsSplit
<1>10. PidsAscend(k)
  BY <1>0, <1>4, <1>5, <1>7 DEF PidsAscend
<1>11. Quiet(k)
  BY <1>0, <1>5, <1>7 DEF Quiet
<1> QED
  BY <1>8, <1>9, <1>10, <1>11 DEF IInv, Sound, Shape, k

\* A state the variables have become is a kernel state.
LEMMA BecomeKernel ==
    ASSUME NEW x \in KernelState, Become(x)
    PROVE  Kernel' = x
BY DEF Become, Kernel, KernelState

\* Every step of the kernel keeps the inductive invariant.
LEMMA InvariantKept == IInv /\ [Next]_vars => IInv'
<1> SUFFICES ASSUME IInv, [Next]_vars PROVE IInv'
  OBVIOUS
<1>1. CASE Next
  <2>1. PICK x : Become(x) /\ Sound(x)
    BY <1>1, StepCompletes DEF Completes
  <2>2. Kernel' = x
    BY <2>1, BecomeKernel DEF Sound, Shape
  <2> QED
    BY <2>1, <2>2 DEF IInv
<1>2. CASE UNCHANGED vars
  <2>1. Kernel' = Kernel
    BY <1>2 DEF vars, Kernel
  <2> QED
    BY <2>1 DEF IInv
<1> QED
  BY <1>1, <1>2

\* The inductive invariant holds of every state.
LEMMA Invariant == Spec => []IInv
<1>1. Init => IInv
  BY InitSound
<1>2. IInv /\ [Next]_vars => IInv'
  BY InvariantKept
<1> QED
  BY <1>1, <1>2, PTL DEF Spec

\* The variables of the process table keep their C types.
THEOREM SchedTypeOK == Spec => []TypeOK
<1>1. IInv => TypeOK
  <2> SUFFICES ASSUME IInv PROVE TypeOK
    OBVIOUS
  <2>1. Kernel \in KernelState
    BY DEF IInv, Sound, Shape
  <2> QED
    BY <2>1, KernelFields DEF KernelState, TypeOK
<1> QED
  BY <1>1, Invariant, PTL

(***************************************************************************)
(* process_create, process_fork, process_kill, sys_exit and do_signal      *)
(* neither lose a PCB nor put one on two lists, and only the write of      *)
(* switch_to_task through a freed PCB takes slots off the free list.       *)
(***************************************************************************)
THEOREM SchedPcbsAccounted == Spec => []PcbsAccounted
<1>1. IInv => PcbsAccounted
  <2> SUFFICES ASSUME IInv PROVE PcbsAccounted
    OBVIOUS
  <2>1. Shape(Kernel) /\ SlotsSplit(Kernel)
    BY DEF IInv, Sound, Shape
  <2>2. /\ ready_queue \in Seq(Slots) /\ freelist \in Seq(Slots \cup {Wild})
        /\ \A i \in 1..Len(ready_queue) : ready_queue[i] \in Slots
        /\ \A i \in 1..Len(freelist) : freelist[i] \in Slots \cup {Wild}
    BY <2>1, KernelTypes, KernelFields
  <2>3. /\ NoRepeats(ready_queue) /\ NoRepeats(freelist)
        /\ \A i \in 1..Len(ready_queue), j \in 1..Len(freelist) : ready_queue[i] # freelist[j]
        /\ OnList(freelist, Wild) \/ \A s \in Slots : OnList(ready_queue, s) \/ OnList(freelist, s)
    BY <2>1, KernelFields DEF SlotsSplit
  <2>4. Cardinality(QueueSet) = Len(ready_queue)
    BY <2>2, <2>3, CountElements DEF QueueSet
  <2>5. QueueSet \cap FreeSet = {}
    BY <2>3 DEF QueueSet, FreeSet
  <2>6. ASSUME Wild \notin FreeSet
        PROVE  Cardinality(FreeSet) = Len(freelist) /\ QueueSet \cup FreeSet = Slots
    <3>1. Cardinality(FreeSet) = Len(freelist)
      BY <2>2, <2>3, CountElements DEF FreeSet
    <3>2. \A s \in Slots : s \in QueueSet \cup FreeSet
      BY <2>3, <2>6 DEF QueueSet, FreeSet, OnList
    <3>3. \A s \in QueueSet \cup FreeSet : s \in Slots
      BY <2>2, <2>6 DEF QueueSet, FreeSet
    <3> QED
      BY <3>1, <3>2, <3>3
  <2> QED
    BY <2>4, <2>5, <2>6 DEF PcbsAccounted
<1> QED
  BY <1>1, Invariant, PTL

(***************************************************************************)
(* The kernel process heads ready_queue and pids ascend behind it, so that *)
(* the first match of process_find_by_pid is the only one.                 *)
(***************************************************************************)
THEOREM SchedQueueAscending == Spec => []QueueAscending
<1>1. IInv => QueueAscending
  <2> SUFFICES ASSUME IInv PROVE QueueAscending
    OBVIOUS
  <2>1. Shape(Kernel) /\ PidsAscend(Kernel)
    BY DEF IInv, Sound, Shape
  <2>2. /\ Len(ready_queue) >= 1 /\ pcb[ready_queue[1]].pid = 0
        /\ \A i, j \in 1..Len(ready_queue) :
              i < j => pcb[ready_queue[i]].pid < pcb[ready_queue[j]].pid
    BY <2>1, KernelFields DEF PidsAscend
  <2>3. ready_queue # <<>>
    BY <2>2
  <2> QED
    BY <2>2, <2>3 DEF QueueAscending
<1> QED
  BY <1>1, Invariant, PTL

(***************************************************************************)
(* The only linked process in state RUNNING is the one current_process     *)
(* points to.                                                              *)
(***************************************************************************)
THEOREM SchedRunningIsCurrent == Spec => []RunningIsCurrent
<1>1. IInv => RunningIsCurrent
  BY KernelFields DEF IInv, Sound, Quiet, RunningIsCurrent, Up, QueueSet
<1> QED
  BY <1>1, Invariant, PTL


\* On the queue, the order of places is the order of pids.
LEMMA PlacesArePids ==
    ASSUME NEW k, Shape(k), NEW s, OnList(k.queue, s), NEW t, OnList(k.queue, t)
    PROVE  /\ k.pcb[s].pid \in Int /\ k.pcb[t].pid \in Int
           /\ Position(k, s) < Position(k, t) <=> k.pcb[s].pid < k.pcb[t].pid
<1>1. /\ Position(k, s) \in 1..Len(k.queue) /\ k.queue[Position(k, s)] = s
      /\ Position(k, t) \in 1..Len(k.queue) /\ k.queue[Position(k, t)] = t
  BY PositionFacts
<1>2. \A u \in Slots : k.pcb[u].pid \in Int
  BY KernelTypes DEF PCB, Pids
<1>3. s \in Slots /\ t \in Slots
  BY <1>1, KernelTypes
<1>4. \A i, j \in 1..Len(k.queue) : i < j => k.pcb[k.queue[i]].pid < k.pcb[k.queue[j]].pid
  BY DEF Shape, PidsAscend
<1>5. Position(k, s) \in Int /\ Position(k, t) \in Int
  BY <1>1
<1>6. Position(k, s) < Position(k, t) => k.pcb[s].pid < k.pcb[t].pid
  BY <1>1, <1>4
<1>7. Position(k, t) < Position(k, s) => k.pcb[t].pid < k.pcb[s].pid
  BY <1>1, <1>4
<1>8. Position(k, s) = Position(k, t) => s = t
  BY <1>1
<1> QED
  BY <1>2, <1>3, <1>5, <1>6, <1>7, <1>8

(***************************************************************************)
(* Whichever handler of whichever process calls schedule, the processor    *)
(* goes to the ready process with the next higher pid, and from the        *)
(* highest back to the lowest: the pointer walk over ready_queue is a      *)
(* round robin over pids.                                                  *)
(***************************************************************************)
THEOREM SchedRoundRobin == Spec => RoundRobinOrder
<1>1. IInv /\ [Next]_vars => [RoundRobinStep]_vars
  <2> SUFFICES ASSUME IInv, Next, current_process' # current_process
               PROVE  RoundRobinStep
    BY DEF RoundRobinStep
  <2> DEFINE k == Kernel
  <2> DEFINE c == current_process
  <2> DEFINE n == current_process'
  <2> DEFINE pid(s) == pcb[s].pid
  <2>0. Shape(k) /\ k.pcb = pcb /\ k.queue = ready_queue /\ k.current = c
    BY KernelFields DEF IInv, Sound
  <2>1. OnList(k.queue, c) /\ InTurn(k, n)
    <3>1. PICK x : /\ Become(x)
                   /\ x.current # k.current => OnList(k.queue, k.current) /\ InTurn(k, x.current)
      BY StepCompletes DEF Completes
    <3>2. n = x.current
      BY <3>1 DEF Become
    <3> QED
      BY <3>1, <3>2, <2>0
  <2> HIDE DEF k
  <2> DEFINE cand == {t \in QueueSet \ {c} : pcb[t].state \in {READY, RUNNING}}
  <2> DEFINE ready == {pid(s) : s \in cand}
  <2> DEFINE higher == {p \in ready : p > pid(c)}
  <2> DEFINE turn == IF higher # {} THEN higher ELSE ready
  <2>2. Candidates(k) = cand
    BY <2>0 DEF Candidates, Eligible, QueueSet
  <2>3. \A s \in cand : OnList(k.queue, s) /\ s # c
    BY <2>0 DEF QueueSet, OnList
  <2>4. n \in cand /\ \A t \in cand : SearchRank(k, n) <= SearchRank(k, t)
    BY <2>1, <2>2 DEF InTurn
  <2> HIDE DEF cand, n, c
  <2> DEFINE at(s) == Position(k, s)
  <2>5. /\ Len(k.queue) \in Nat /\ at(c) \in 1..Len(k.queue)
        /\ \A s \in cand : at(s) \in 1..Len(k.queue) /\ at(s) # at(c)
    <3>1. \A s : OnList(k.queue, s) => at(s) \in 1..Len(k.queue) /\ k.queue[at(s)] = s
      BY <2>0, PositionFacts
    <3> HIDE DEF at
    <3> QED
      BY <3>1, <2>0, <2>1, <2>3, KernelTypes
  <2>6. \A s \in cand \cup {c}, t \in cand \cup {c} :
           pid(s) \in Int /\ (at(s) < at(t) <=> pid(s) < pid(t))
    <3>1. \A s, t : OnList(k.queue, s) /\ OnList(k.queue, t) =>
             k.pcb[s].pid \in Int /\ (at(s) < at(t) <=> k.pcb[s].pid < k.pcb[t].pid)
      BY <2>0, PlacesArePids
    <3> QED
      BY <3>1, <2>0, <2>1, <2>3
  <2>7. \A s : SearchRank(k, s) = IF at(s) > at(c) THEN at(s) - at(c)
                                                  ELSE at(s) - at(c) + Len(k.queue)
    BY <2>0 DEF SearchRank
  <2> HIDE DEF at, pid
  <2>8. CASE \E h \in cand : pid(h) > pid(c)
    <3>1. PICK h \in cand : pid(h) > pid(c)
      BY <2>8
    <3>2. at(h) > at(c)
      BY <3>1, <2>6
    <3>3. at(n) > at(c)
      BY <3>2, <2>4, <2>5, <2>7
    <3>4. pid(n) > pid(c)
      BY <3>3, <2>4, <2>6
    <3>5. ASSUME NEW t \in cand, pid(t) > pid(c) PROVE pid(n) <= pid(t)
      <4>1. at(t) > at(c)
        BY <3>5, <2>6
      <4>2. at(n) <= at(t)
        BY <4>1, <3>3, <2>4, <2>5, <2>7
      <4> QED
        BY <4>2, <2>4, <2>5, <2>6
    <3>6. turn = higher
      BY <3>1
    <3>7. pid(n) \in turn /\ \A p \in turn : pid(n) <= p
      BY <3>4, <3>5, <3>6, <2>4
    <3> QED
      BY <3>7 DEF RoundRobinStep, cand, n, c, pid
  <2>9. CASE ~\E h \in cand : pid(h) > pid(c)
    <3>1. turn = ready
      BY <2>9
    <3>2. \A t \in cand : at(t) < at(c)
      BY <2>5, <2>6, <2>9
    <3>3. ASSUME NEW t \in cand PROVE pid(n) <= pid(t)
      <4>1. at(n) <= at(t)
        BY <3>2, <2>4, <2>5, <2>7
      <4> QED
        BY <4>1, <2>4, <2>5, <2>6
    <3>4. pid(n) \in turn /\ \A p \in turn : pid(n) <= p
      BY <3>1, <3>3, <2>4
    <3> QED
      BY <3>4 DEF RoundRobinStep, cand, n, c, pid
  <2> QED
    BY <2>8, <2>9
<1> QED
  BY <1>1, Invariant, PTL DEF Spec, RoundRobinOrder


=============================================================================
