--------------------------- MODULE KernelObjects ---------------------------
(***************************************************************************)
(* The objects the kernel keeps in its heap behind handles: open files     *)
(* (kernel/vfs.c), sockets with their packets (kernel/socket.c, skbuff.c,  *)
(* netdevice.c and the loopback driver), block requests (kernel/blkdev.c)  *)
(* and character devices (kernel/device.c).                                *)
(*                                                                         *)
(* An object is the address kmalloc returned.  kmalloc (in Heap) returns   *)
(* the lowest free one or fails, at any call, so a freed address comes     *)
(* back as another object.  fd_table is shared by all processes and has no *)
(* lock: vfs_open and vfs_close take a step for each access, and a tick    *)
(* may switch processes between two.  A socket, a request and the device   *)
(* lists are each used by one caller at a time: their calls are one step.  *)
(***************************************************************************)
EXTENDS Integers, FiniteSets, Sequences, SequencesExt

CONSTANTS
    Addresses,      \* 1..n, what the heap has room for
    Fds,            \* 0..MAX_FDS - 1
    Threads,        \* processes that call the VFS
    MaxDevices      \* bound on registered character devices

NULL == 0

ASSUME ObjectsAssumption ==
    /\ Addresses \subseteq Nat \ {NULL} /\ Fds \subseteq Nat
    /\ MaxDevices \in Nat

VARIABLES
    heap,           \* the addresses in use
    fd_table,       \* [Fds -> address or NULL]
    call,           \* by thread: the VFS call in progress
    sockets,        \* the sockets, each [at, dev, queue]; a packet is <<skb, data>>
    bios,           \* requests, <<bio, data>>
    loopback,       \* the loopback device is on netdev_list
    devices,        \* device_list: <<address, major>>
    next_major,
    lost,           \* history: files whose slot was taken by another open
    raced           \* history: "open" if two opens overlapped, "close" if a close
                    \* overlapped another VFS call

vars == <<heap, fd_table, call, sockets, bios, loopback, devices, next_major, lost, raced>>

Idle == [op |-> "idle", fd |-> 0, file |-> NULL]

-----------------------------------------------------------------------------
\* What kmalloc may return on heap h (external).
Kmalloc(h) ==
    {NULL} \cup (IF Addresses \subseteq h THEN {}
                 ELSE {CHOOSE a \in Addresses \ h : \A b \in Addresses \ h : a <= b})

\* Mutant of Pairs: the first object is not freed when the second fails.
PairsLeak(h) ==
    UNION {IF a = NULL THEN {[heap |-> h, pair |-> <<>>]}
           ELSE {IF d = NULL THEN [heap |-> h \cup {a}, pair |-> <<>>]
                 ELSE [heap |-> h \cup {a, d}, pair |-> <<a, d>>] : d \in Kmalloc(h \cup {a})} :
           a \in Kmalloc(h)}

(***************************************************************************)
(* alloc_skb and blkdev_alloc_bio: the object, then its data; when the     *)
(* second kmalloc fails the first object is freed and the call fails.      *)
(***************************************************************************)
Pairs(h) ==
    UNION {IF a = NULL THEN {[heap |-> h, pair |-> <<>>]}
           ELSE {IF d = NULL THEN [heap |-> h, pair |-> <<>>]
                 ELSE [heap |-> h \cup {a, d}, pair |-> <<a, d>>] : d \in Kmalloc(h \cup {a})} :
           a \in Kmalloc(h)}

\* free_skb and blkdev_free_bio.
Freed(h, pair) == h \ {pair[1], pair[2]}

-----------------------------------------------------------------------------
(***************************************************************************)
(* Files.                                                                  *)
(***************************************************************************)
Others == <<sockets, bios, loopback, devices, next_major>>

\* Mutant of fd_alloc: the last descriptor is returned when all are taken.
FdAllocLast(table) ==
    {fd \in Fds : \A lower \in Fds : lower < fd => table[lower] # NULL} \cap
        {fd \in Fds : table[fd] = NULL \/ \A higher \in Fds : higher <= fd}

\* The lowest free descriptor, if there is one.
fd_alloc(table) ==
    {fd \in Fds : table[fd] = NULL /\ \A lower \in Fds : lower < fd => table[lower] # NULL}

\* The descriptor is found before the file is allocated, and not yet taken.
vfs_open(t) ==
    /\ call[t] = Idle
    /\ \E fd \in fd_alloc(fd_table) :
          call' = [call EXCEPT ![t] = [op |-> "open", fd |-> fd, file |-> NULL]]
    /\ raced' = raced \cup {IF call[u].op \in {"open", "install"} THEN "open" ELSE "close" :
                              u \in {v \in Threads : call[v] # Idle}}
    /\ UNCHANGED <<heap, fd_table, lost>> /\ UNCHANGED Others

OpenAlloc(t) ==
    /\ call[t].op = "open"
    /\ \E file \in Kmalloc(heap) :
          /\ heap' = heap \cup ({file} \ {NULL})
          /\ call' = [call EXCEPT ![t] = IF file = NULL THEN Idle
                                         ELSE [op |-> "install", fd |-> @.fd, file |-> file]]
    /\ UNCHANGED <<fd_table, lost, raced>> /\ UNCHANGED Others

fd_install(t) ==
    /\ call[t].op = "install"
    /\ fd_table' = [fd_table EXCEPT ![call[t].fd] = call[t].file]
    /\ lost' = lost \cup ({fd_table[call[t].fd]} \ {NULL})
    /\ call' = [call EXCEPT ![t] = Idle]
    /\ UNCHANGED <<heap, raced>> /\ UNCHANGED Others

\* fd_get; the file has no operations to call.
vfs_close(t, fd) ==
    /\ call[t] = Idle /\ fd_table[fd] # NULL
    /\ call' = [call EXCEPT ![t] = [op |-> "close", fd |-> fd, file |-> fd_table[fd]]]
    /\ raced' = raced \cup IF \E u \in Threads : call[u] # Idle THEN {"close"} ELSE {}
    /\ UNCHANGED <<heap, fd_table, lost>> /\ UNCHANGED Others

CloseFree(t) ==
    /\ call[t].op = "close"
    /\ heap' = heap \ {call[t].file}
    /\ call' = [call EXCEPT ![t].op = "clear"]
    /\ UNCHANGED <<fd_table, lost, raced>> /\ UNCHANGED Others

CloseClear(t) ==
    /\ call[t].op = "clear"
    /\ fd_table' = [fd_table EXCEPT ![call[t].fd] = NULL]
    /\ call' = [call EXCEPT ![t] = Idle]
    /\ UNCHANGED <<heap, lost, raced>> /\ UNCHANGED Others

-----------------------------------------------------------------------------
(***************************************************************************)
(* Sockets and packets.                                                    *)
(***************************************************************************)
Files == <<fd_table, call, lost, raced>>

\* netdev_find("lo") may find nothing.
socket_create ==
    /\ \E at \in Kmalloc(heap) \ {NULL} :
          /\ heap' = heap \cup {at}
          /\ sockets' = sockets \cup {[at |-> at, dev |-> loopback, queue |-> <<>>]}
    /\ UNCHANGED <<bios, loopback, devices, next_major>> /\ UNCHANGED Files

\* The loopback driver's xmit frees the packet; nothing is received.
loopback_xmit(h, packet) == Freed(h, packet)

\* Without a device or a packet the call fails and nothing changes.
socket_send(s) ==
    /\ s.dev
    /\ \E r \in Pairs(heap) :
          heap' = IF r.pair = <<>> THEN r.heap ELSE loopback_xmit(r.heap, r.pair)
    /\ UNCHANGED <<sockets, bios, loopback, devices, next_major>> /\ UNCHANGED Files

\* A driver that receives a packet for s (external: no driver does yet).
skb_queue_tail(s) ==
    /\ \E r \in Pairs(heap) :
          /\ r.pair # <<>>
          /\ heap' = r.heap
          /\ sockets' = (sockets \ {s}) \cup {[s EXCEPT !.queue = Append(@, r.pair)]}
    /\ UNCHANGED <<bios, loopback, devices, next_major>> /\ UNCHANGED Files

\* skb_dequeue, the copy to the caller and free_skb.
socket_recv(s) ==
    /\ s.queue # <<>>
    /\ heap' = Freed(heap, Head(s.queue))
    /\ sockets' = (sockets \ {s}) \cup {[s EXCEPT !.queue = Tail(@)]}
    /\ UNCHANGED <<bios, loopback, devices, next_major>> /\ UNCHANGED Files

\* while ((skb = skb_dequeue(...)) != NULL) free_skb(skb);
Drained(h, queue) == h \ UNION {ToSet(packet) : packet \in ToSet(queue)}

socket_close(s) ==
    /\ heap' = Drained(heap, s.queue) \ {s.at}
    /\ sockets' = sockets \ {s}
    /\ UNCHANGED <<bios, loopback, devices, next_major>> /\ UNCHANGED Files

\* The device is static; sockets that have it keep it.
register_netdev ==
    /\ ~loopback /\ loopback' = TRUE
    /\ UNCHANGED <<heap, sockets, bios, devices, next_major>> /\ UNCHANGED Files

unregister_netdev ==
    /\ loopback /\ loopback' = FALSE
    /\ UNCHANGED <<heap, sockets, bios, devices, next_major>> /\ UNCHANGED Files

-----------------------------------------------------------------------------
(***************************************************************************)
(* Block requests and character devices.                                   *)
(***************************************************************************)
blkdev_alloc_bio ==
    /\ \E r \in Pairs(heap) :
          /\ heap' = r.heap
          /\ bios' = bios \cup ({r.pair} \ {<<>>})
    /\ UNCHANGED <<sockets, loopback, devices, next_major>> /\ UNCHANGED Files

blkdev_free_bio(bio) ==
    /\ heap' = Freed(heap, bio)
    /\ bios' = bios \ {bio}
    /\ UNCHANGED <<sockets, loopback, devices, next_major>> /\ UNCHANGED Files

\* A major of 0 asks for the next one; any other is taken as it is.
register_chrdev(major) ==
    /\ Len(devices) < MaxDevices
    /\ \E at \in Kmalloc(heap) \ {NULL} :
          /\ heap' = heap \cup {at}
          /\ devices' = Append(devices, <<at, IF major = 0 THEN next_major ELSE major>>)
          /\ next_major' = IF major = 0 THEN next_major + 1 ELSE next_major
    /\ UNCHANGED <<sockets, bios, loopback>> /\ UNCHANGED Files

\* device_unregister by the driver that registered it, which then frees it (external).
device_unregister(i) ==
    /\ heap' = heap \ {devices[i][1]}
    /\ devices' = RemoveAt(devices, i)
    /\ UNCHANGED <<sockets, bios, loopback, next_major>> /\ UNCHANGED Files

-----------------------------------------------------------------------------
\* After vfs_init and loopback_init; the lists are empty.
Init ==
    /\ heap = {} /\ fd_table = [fd \in Fds |-> NULL] /\ call = [t \in Threads |-> Idle]
    /\ sockets = {} /\ bios = {} /\ loopback = TRUE /\ devices = <<>> /\ next_major = 1
    /\ lost = {} /\ raced = {}

\* Majors are counted up to MaxDevices.
Next ==
    \/ \E t \in Threads :
          \/ vfs_open(t) \/ OpenAlloc(t) \/ fd_install(t) \/ CloseFree(t) \/ CloseClear(t)
          \/ \E fd \in Fds : vfs_close(t, fd)
    \/ socket_create
    \/ \E s \in sockets : socket_send(s) \/ skb_queue_tail(s) \/ socket_recv(s) \/ socket_close(s)
    \/ register_netdev \/ unregister_netdev
    \/ blkdev_alloc_bio
    \/ \E bio \in bios : blkdev_free_bio(bio)
    \/ next_major <= MaxDevices /\ register_chrdev(0)
    \/ register_chrdev(1)
    \/ \E i \in DOMAIN devices : device_unregister(i)

Spec == Init /\ [][Next]_vars

-----------------------------------------------------------------------------
(***************************************************************************)
(* Properties.                                                             *)
(***************************************************************************)
\* Who holds which object, as <<kind, holder, address>>.  A slot whose file has
\* just been freed, and is about to be cleared, holds nothing.
Holds ==
    {<<"file", fd, fd_table[fd]>> :
        fd \in {f \in Fds : fd_table[f] # NULL /\ \A t \in Threads : call[t].op = "clear" => call[t].fd # f}}
    \cup {<<"opening", t, call[t].file>> : t \in {u \in Threads : call[u].op = "install"}}
    \cup {<<"lost", 0, file>> : file \in lost}
    \cup {<<"socket", s.dev, s.at>> : s \in sockets}
    \cup (UNION {{<<"skb", <<s.at, i>>, s.queue[i][1]>> : i \in DOMAIN s.queue} : s \in sockets})
    \cup (UNION {{<<"skb data", <<s.at, i>>, s.queue[i][2]>> : i \in DOMAIN s.queue} : s \in sockets})
    \cup {<<"bio", bio[2], bio[1]>> : bio \in bios} \cup {<<"bio data", bio[1], bio[2]>> : bio \in bios}
    \cup {<<"device", i, devices[i][1]>> : i \in DOMAIN devices}

(***************************************************************************)
(* Every heap object has exactly one holder and every holder's object is   *)
(* in the heap: no failing allocation, drained queue or close leaks an     *)
(* object or leaves a pointer to one that another caller may now own.      *)
(* Opens may race each other; a close that races another call of the       *)
(* unlocked vfs.c is the one thing excluded.                               *)
(***************************************************************************)
EveryObjectOwned ==
    "close" \notin raced =>
        /\ heap = {h[3] : h \in Holds}
        /\ Cardinality(Holds) = Cardinality(heap)

\* raced only grows, so nothing the properties say is about the states behind
\* a racing close: the run does not explore them.
BeforeRacingClose == "close" \notin raced

(***************************************************************************)
(* A file leaves the descriptor table without being closed only when calls *)
(* overlapped.  fd_alloc does not take the slot it finds: the second of    *)
(* two opens overwrites the first.  And vfs_close clears its slot only     *)
(* after the free: a file that another call has put there meanwhile is     *)
(* dropped.                                                                *)
(***************************************************************************)
FilesLostOnlyByRaces == raced = {} => lost = {}

=============================================================================
