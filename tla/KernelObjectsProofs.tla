------------------------ MODULE KernelObjectsProofs ------------------------
(***************************************************************************)
(* Proofs about KernelObjects, for every heap, descriptor table and number *)
(* of threads and devices: who owns an object of the kernel heap.          *)
(*                                                                         *)
(* Neither property is inductive.  That a close frees a file nobody else   *)
(* holds needs CloseAlone: while no close has raced, a closing thread is   *)
(* the only one inside vfs.c and its slot still names the file it read.    *)
(* That no file is lost needs OpenAlone: while nothing has raced, one      *)
(* thread at most is inside vfs.c, so the slot fd_alloc found is free.     *)
(* Ownership itself is stated without counting, as Owned, and every step   *)
(* exchanges the holdings of one caller for others (Exchange).             *)
(***************************************************************************)
EXTENDS KernelObjects, SequenceTheorems, FiniteSetTheorems, WellFoundedInduction, TLAPS

Addrs(H) == {x[3] : x \in H}

\* h is exactly what H holds, and no two holdings are of one address.
Owned(h, H) == h = Addrs(H) /\ \A x, y \in H : x[3] = y[3] => x = y

Held == {f \in Fds : fd_table[f] # NULL /\ \A t \in Threads : call[t].op = "clear" => call[t].fd # f}
Opening == {u \in Threads : call[u].op = "install"}
FileItems(F) == {<<"file", fd, fd_table[fd]>> : fd \in F}
OpenItems(T) == {<<"opening", t, call[t].file>> : t \in T}
LostItems == {<<"lost", 0, file>> : file \in lost}
SockItems(s) ==
    {<<"socket", s.dev, s.at>>}
    \cup {<<"skb", <<s.at, i>>, s.queue[i][1]>> : i \in DOMAIN s.queue}
    \cup {<<"skb data", <<s.at, i>>, s.queue[i][2]>> : i \in DOMAIN s.queue}
BioItems(b) == {<<"bio", b[2], b[1]>>, <<"bio data", b[1], b[2]>>}

VfsHolds == FileItems(Held) \cup OpenItems(Opening) \cup LostItems
SockHolds(S) == UNION {SockItems(s) : s \in S}
BioHolds(B) == UNION {BioItems(b) : b \in B}
DevHolds(D) == {<<"device", i, D[i][1]>> : i \in DOMAIN D}

VfsTypes ==
    /\ heap \subseteq Addresses /\ IsFiniteSet(heap)
    /\ fd_table \in [Fds -> Addresses \cup {NULL}]
    /\ DOMAIN call = Threads
    /\ \A t \in Threads :
          \/ call[t] = Idle
          \/ call[t] \in [op : {"open"}, fd : Fds, file : {NULL}]
          \/ call[t] \in [op : {"install", "close", "clear"}, fd : Fds, file : Addresses]
    /\ lost \subseteq Addresses

Socket == [at : Addresses, dev : BOOLEAN, queue : Seq(Addresses \X Addresses)]

ObjectTypes ==
    /\ sockets \subseteq Socket
    /\ bios \subseteq Addresses \X Addresses
    /\ loopback \in BOOLEAN
    /\ devices \in Seq(Addresses \X Nat) /\ next_major \in Nat

Types == VfsTypes /\ ObjectTypes

CloseAlone ==
    "close" \notin raced =>
        \A t \in Threads : call[t].op \in {"close", "clear"} =>
            /\ \A u \in Threads \ {t} : call[u] = Idle
            /\ call[t].op = "close" => fd_table[call[t].fd] = call[t].file

OpenAlone ==
    raced = {} =>
        /\ lost = {}
        /\ \A t, u \in Threads : t = u \/ call[t] = Idle \/ call[u] = Idle
        /\ \A t \in Threads : call[t].op \in {"open", "install"} => fd_table[call[t].fd] = NULL

\* No two sockets are at one address; behind a racing close, two may be.
Apart == \A r, s \in sockets : r.at = s.at => r = s

Ownership == "close" \notin raced => Owned(heap, Holds) /\ Apart

IInv == Types /\ CloseAlone /\ OpenAlone /\ Ownership

-----------------------------------------------------------------------------
(***************************************************************************)
(* Exchanging the holdings A of one caller for A2.                         *)
(***************************************************************************)
\* The addresses of A are nobody else's, so R keeps its own.
LEMMA Exchange ==
    ASSUME NEW h, NEW A, NEW A2, NEW R,
           Owned(h, A \cup R), A \cap R = {},
           \A x, y \in A2 : x[3] = y[3] => x = y,
           \A x \in A2 : x[3] \in Addrs(A) \/ x[3] \notin h
    PROVE  Owned((h \ Addrs(A)) \cup Addrs(A2), A2 \cup R)
<1>1. \A x \in R : x[3] \in h /\ x[3] \notin Addrs(A)
  BY DEF Owned, Addrs
<1>2. \A x, y \in R : x[3] = y[3] => x = y
  BY DEF Owned
<1>3. (h \ Addrs(A)) \cup Addrs(A2) = Addrs(A2 \cup R)
  BY <1>1 DEF Owned, Addrs
<1>4. \A x, y \in A2 \cup R : x[3] = y[3] => x = y
  <2> TAKE x, y \in A2 \cup R
  <2> HAVE x[3] = y[3]
  <2>1. CASE x \in R /\ y \in A2
    BY <1>1, <2>1
  <2>2. CASE x \in A2 /\ y \in R
    BY <1>1, <2>2
  <2> QED
    BY <1>2, <2>1, <2>2
<1> QED
  BY <1>3, <1>4 DEF Owned

\* The addresses of holdings, piece by piece.
LEMMA AddrsOf ==
    /\ Addrs({}) = {}
    /\ \A X, Y : Addrs(X \cup Y) = Addrs(X) \cup Addrs(Y)
  BY DEF Addrs

\* New objects, at addresses that were free.
LEMMA Grow ==
    ASSUME NEW h, NEW A, NEW R, Owned(h, R),
           \A x, y \in A : x[3] = y[3] => x = y,
           \A x \in A : x[3] \notin h
    PROVE  Owned(h \cup Addrs(A), A \cup R)
<1>1. \A x \in R : x[3] \in h
  BY DEF Owned, Addrs
<1>2. \A x, y \in A \cup R : x[3] = y[3] => x = y
  <2>1. \A x, y \in R : x[3] = y[3] => x = y
    BY DEF Owned
  <2> QED
    BY <1>1, <2>1
<1>3. h \cup Addrs(A) = Addrs(A \cup R)
  BY DEF Owned, Addrs
<1> QED
  BY <1>2, <1>3 DEF Owned

\* Objects freed.
LEMMA Shrink ==
    ASSUME NEW h, NEW A, NEW R, Owned(h, A \cup R), A \cap R = {}
    PROVE  Owned(h \ Addrs(A), R)
<1>1. \A x, y \in R : x[3] = y[3] => x = y
  BY DEF Owned
<1>2. \A x \in R : x[3] \in h /\ x[3] \notin Addrs(A)
  BY DEF Owned, Addrs
<1>3. h \ Addrs(A) = Addrs(R)
  BY <1>2 DEF Owned, Addrs
<1> QED
  BY <1>1, <1>3 DEF Owned

(***************************************************************************)
(* Every holding is one of four kinds of caller's, told apart by its kind. *)
(***************************************************************************)
LEMMA InSock == ASSUME NEW S, NEW x PROVE x \in SockHolds(S) <=> \E s \in S : x \in SockItems(s)
  BY DEF SockHolds

\* The holdings of the block requests are those of each request.
LEMMA InBio == ASSUME NEW B, NEW x PROVE x \in BioHolds(B) <=> \E b \in B : x \in BioItems(b)
  BY DEF BioHolds

\* Holds, by caller.
LEMMA HoldsSplit == Holds = VfsHolds \cup SockHolds(sockets) \cup BioHolds(bios) \cup DevHolds(devices)
<1>1. SockHolds(sockets) =
        {<<"socket", s.dev, s.at>> : s \in sockets}
        \cup (UNION {{<<"skb", <<s.at, i>>, s.queue[i][1]>> : i \in DOMAIN s.queue} : s \in sockets})
        \cup (UNION {{<<"skb data", <<s.at, i>>, s.queue[i][2]>> : i \in DOMAIN s.queue} : s \in sockets})
  <2> DEFINE Skbs(s) == {<<"skb", <<s.at, i>>, s.queue[i][1]>> : i \in DOMAIN s.queue}
             Datas(s) == {<<"skb data", <<s.at, i>>, s.queue[i][2]>> : i \in DOMAIN s.queue}
             Socks == {<<"socket", s.dev, s.at>> : s \in sockets}
  <2>1. \A s : SockItems(s) = {<<"socket", s.dev, s.at>>} \cup Skbs(s) \cup Datas(s)
    BY DEF SockItems
  <2>2. \A x : x \in Socks <=> \E s \in sockets : x = <<"socket", s.dev, s.at>>
    OBVIOUS
  <2>3. SockHolds(sockets) = Socks \cup (UNION {Skbs(s) : s \in sockets}) \cup (UNION {Datas(s) : s \in sockets})
    <3> HIDE DEF Skbs, Datas, Socks
    <3>1. ASSUME NEW x
          PROVE  x \in SockHolds(sockets) <=>
                   x \in Socks \cup (UNION {Skbs(s) : s \in sockets}) \cup (UNION {Datas(s) : s \in sockets})
      BY <2>1, <2>2, InSock
    <3> QED
      BY <3>1, Zenon
  <2> QED
    BY <2>3
<1>2. BioHolds(bios) = {<<"bio", b[2], b[1]>> : b \in bios} \cup {<<"bio data", b[1], b[2]>> : b \in bios}
  <2>1. \A x : x \in BioHolds(bios) <=> \E b \in bios : x = <<"bio", b[2], b[1]>> \/ x = <<"bio data", b[1], b[2]>>
    BY InBio DEF BioItems
  <2> QED
    BY <2>1, Zenon
<1>3. VfsHolds = {<<"file", fd, fd_table[fd]>> :
        fd \in {f \in Fds : fd_table[f] # NULL /\ \A t \in Threads : call[t].op = "clear" => call[t].fd # f}}
    \cup {<<"opening", t, call[t].file>> : t \in {u \in Threads : call[u].op = "install"}}
    \cup {<<"lost", 0, file>> : file \in lost}
  BY DEF VfsHolds, Held, Opening, FileItems, OpenItems, LostItems
<1> QED
  BY <1>1, <1>2, <1>3, Zenon DEF Holds, DevHolds

\* The kinds of the holdings of each caller.
LEMMA Kinds ==
    /\ \A x \in VfsHolds : x[1] \in {"file", "opening", "lost"}
    /\ \A S : \A x \in SockHolds(S) : x[1] \in {"socket", "skb", "skb data"}
    /\ \A B : \A x \in BioHolds(B) : x[1] \in {"bio", "bio data"}
    /\ \A D : \A x \in DevHolds(D) : x[1] = "device"
<1>1. \A x \in VfsHolds : x[1] \in {"file", "opening", "lost"}
  BY DEF VfsHolds, FileItems, OpenItems, LostItems
<1>2. ASSUME NEW S, NEW x \in SockHolds(S) PROVE x[1] \in {"socket", "skb", "skb data"}
  <2>1. PICK s \in S : x \in SockItems(s)
    BY <1>2, InSock
  <2>2. CASE x = <<"socket", s.dev, s.at>>
    BY <2>2
  <2>3. ASSUME NEW i \in DOMAIN s.queue, x = <<"skb", <<s.at, i>>, s.queue[i][1]>>
        PROVE  x[1] = "skb"
    BY <2>3
  <2>4. ASSUME NEW i \in DOMAIN s.queue, x = <<"skb data", <<s.at, i>>, s.queue[i][2]>>
        PROVE  x[1] = "skb data"
    BY <2>4
  <2>5. \/ x = <<"socket", s.dev, s.at>>
        \/ \E i \in DOMAIN s.queue : x = <<"skb", <<s.at, i>>, s.queue[i][1]>>
        \/ \E i \in DOMAIN s.queue : x = <<"skb data", <<s.at, i>>, s.queue[i][2]>>
    BY <2>1 DEF SockItems
  <2> QED
    BY <2>2, <2>3, <2>4, <2>5
<1>3. ASSUME NEW B, NEW x \in BioHolds(B) PROVE x[1] \in {"bio", "bio data"}
  <2>1. PICK b \in B : x \in BioItems(b)
    BY <1>3, InBio
  <2>2. x = <<"bio", b[2], b[1]>> \/ x = <<"bio data", b[1], b[2]>>
    BY <2>1 DEF BioItems
  <2>3. CASE x = <<"bio", b[2], b[1]>>
    BY <2>3
  <2>4. CASE x = <<"bio data", b[1], b[2]>>
    BY <2>4
  <2> QED
    BY <2>2, <2>3, <2>4
<1>4. ASSUME NEW D, NEW x \in DevHolds(D) PROVE x[1] = "device"
  BY <1>4 DEF DevHolds
<1> QED
  BY <1>1, <1>2, <1>3, <1>4

-----------------------------------------------------------------------------
(***************************************************************************)
(* The allocator.                                                          *)
(***************************************************************************)
\* A non-empty set of numbers has a least element.
LEMMA LeastExists ==
    ASSUME NEW S \in SUBSET Nat, S # {}
    PROVE  \E x \in S : \A y \in S : x <= y
<1> DEFINE R == {ss \in Nat \X Nat : ss[1] < ss[2]}
<1>1. IsWellFoundedOn(R, Nat)
  BY NatLessThanWellFounded DEF OpToRel
<1>2. \A y, z \in Nat : y < z => <<y, z>> \in R
  OBVIOUS
<1> HIDE DEF R
<1>3. PICK x \in S : \A y \in S : ~(<<y, x>> \in R)
  BY <1>1, WFMin
<1>4. \A y \in S : ~(y < x)
  BY <1>2, <1>3, Zenon
<1> QED
  BY <1>4

\* kmalloc returns an address that was free, or fails.
LEMMA KmallocFresh ==
    ASSUME NEW h, NEW a \in Kmalloc(h), a # NULL
    PROVE  a \in Addresses \ h
<1>1. ~(Addresses \subseteq h) /\ a = CHOOSE b \in Addresses \ h : \A c \in Addresses \ h : b <= c
  BY DEF Kmalloc
<1>2. Addresses \ h \in SUBSET Nat /\ Addresses \ h # {}
  BY <1>1, ObjectsAssumption
<1>3. \E b \in Addresses \ h : \A c \in Addresses \ h : b <= c
  BY <1>2, LeastExists
<1> QED
  BY <1>1, <1>3

\* An allocation of two objects gives two free addresses, or changes nothing.
LEMMA PairsFresh ==
    ASSUME NEW h, NEW r \in Pairs(h)
    PROVE  \/ r = [heap |-> h, pair |-> <<>>]
           \/ \E a \in Addresses \ h : \E d \in Addresses \ h :
                 a # d /\ r = [heap |-> h \cup {a, d}, pair |-> <<a, d>>]
<1>1. PICK a \in Kmalloc(h) :
        r \in (IF a = NULL THEN {[heap |-> h, pair |-> <<>>]}
               ELSE {IF d = NULL THEN [heap |-> h, pair |-> <<>>]
                     ELSE [heap |-> h \cup {a, d}, pair |-> <<a, d>>] : d \in Kmalloc(h \cup {a})})
  BY DEF Pairs
<1>2. CASE a = NULL
  BY <1>1, <1>2
<1>3. CASE a # NULL
  <2>1. PICK d \in Kmalloc(h \cup {a}) :
          r = IF d = NULL THEN [heap |-> h, pair |-> <<>>]
              ELSE [heap |-> h \cup {a, d}, pair |-> <<a, d>>]
    BY <1>1, <1>3
  <2>2. a \in Addresses \ h
    BY <1>3, KmallocFresh
  <2>3. CASE d # NULL
    <3>1. d \in Addresses \ (h \cup {a})
      BY <2>3, KmallocFresh
    <3> QED
      BY <2>1, <2>2, <2>3, <3>1
  <2> QED
    BY <2>1, <2>3
<1> QED
  BY <1>2, <1>3

-----------------------------------------------------------------------------
(***************************************************************************)
(* The calls of vfs.c: types, and who may be inside.                       *)
(***************************************************************************)
\* The forms of a thread's call.
LEMMA CallForms ==
    ASSUME VfsTypes, NEW t \in Threads
    PROVE  \/ call[t] = Idle /\ call[t].op = "idle" /\ call[t].file = NULL
           \/ /\ call[t].op = "open" /\ call[t].fd \in Fds /\ call[t] # Idle
              /\ call[t] = [op |-> "open", fd |-> call[t].fd, file |-> NULL]
           \/ /\ call[t].op \in {"install", "close", "clear"} /\ call[t] # Idle
              /\ call[t].fd \in Fds /\ call[t].file \in Addresses
              /\ call[t] = [op |-> call[t].op, fd |-> call[t].fd, file |-> call[t].file]
<1>1. CASE call[t] = Idle
  BY <1>1 DEF Idle
<1>2. CASE call[t] \in [op : {"open"}, fd : Fds, file : {NULL}]
  BY <1>2 DEF Idle
<1>3. CASE call[t] \in [op : {"install", "close", "clear"}, fd : Fds, file : Addresses]
  BY <1>3 DEF Idle
<1> QED
  BY <1>1, <1>2, <1>3 DEF VfsTypes

\* A step of one thread changes its own call.
LEMMA CallTypes ==
    ASSUME VfsTypes, NEW t \in Threads, NEW c, call' = [call EXCEPT ![t] = c],
           \/ c = Idle
           \/ c \in [op : {"open"}, fd : Fds, file : {NULL}]
           \/ c \in [op : {"install", "close", "clear"}, fd : Fds, file : Addresses],
           heap' \subseteq Addresses /\ IsFiniteSet(heap'),
           fd_table' \in [Fds -> Addresses \cup {NULL}],
           lost' \subseteq Addresses
    PROVE  VfsTypes' /\ call'[t] = c /\ \A u \in Threads \ {t} : call'[u] = call[u]
<1>1. DOMAIN call' = Threads /\ call'[t] = c /\ \A u \in Threads \ {t} : call'[u] = call[u]
  BY DEF VfsTypes
<1>2. ASSUME NEW u \in Threads
      PROVE  \/ call'[u] = Idle
             \/ call'[u] \in [op : {"open"}, fd : Fds, file : {NULL}]
             \/ call'[u] \in [op : {"install", "close", "clear"}, fd : Fds, file : Addresses]
  <2>1. CASE u = t
    BY <1>1, <2>1
  <2>2. CASE u # t
    BY <1>1, <2>2 DEF VfsTypes
  <2> QED
    BY <2>1, <2>2
<1>3. VfsTypes'
  BY <1>1, <1>2 DEF VfsTypes
<1> QED
  BY <1>1, <1>3

\* The heap stays finite when a call adds at most two addresses.
LEMMA HeapFinite ==
    ASSUME IsFiniteSet(heap), NEW a, NEW d, NEW h \in SUBSET (heap \cup {a, d})
    PROVE  IsFiniteSet(h)
<1>1. IsFiniteSet(heap \cup {a}) /\ IsFiniteSet((heap \cup {a}) \cup {d})
  BY FS_AddElement
<1>2. (heap \cup {a}) \cup {d} = heap \cup {a, d}
  OBVIOUS
<1> QED
  BY <1>1, <1>2, FS_Subset

\* A step that leaves what the sockets, requests and devices keep.
LEMMA OthersKept ==
    ASSUME ObjectTypes, UNCHANGED Others
    PROVE  /\ ObjectTypes' /\ (Apart => Apart')
           /\ SockHolds(sockets)' = SockHolds(sockets)
           /\ BioHolds(bios)' = BioHolds(bios)
           /\ DevHolds(devices)' = DevHolds(devices)
<1>1. sockets' = sockets /\ bios' = bios /\ loopback' = loopback /\ devices' = devices /\ next_major' = next_major
  BY DEF Others
<1> QED
  BY <1>1 DEF ObjectTypes, Apart, SockHolds, BioHolds, DevHolds, SockItems, BioItems

\* A step that leaves the files.
LEMMA FilesKept ==
    ASSUME UNCHANGED Files, CloseAlone, OpenAlone
    PROVE  CloseAlone' /\ OpenAlone' /\ VfsHolds' = VfsHolds /\ raced' = raced
<1>1. fd_table' = fd_table /\ call' = call /\ lost' = lost /\ raced' = raced
  BY DEF Files
<1>2. CloseAlone'
  BY <1>1 DEF CloseAlone
<1>3. OpenAlone'
  BY <1>1 DEF OpenAlone
<1>4. VfsHolds' = VfsHolds
  BY <1>1 DEF VfsHolds, FileItems, OpenItems, LostItems, Held, Opening
<1> QED
  BY <1>1, <1>2, <1>3, <1>4

\* A step after which the same slots, opening threads and lost files hold the same.
LEMMA VfsSame ==
    ASSUME Held' = Held, Opening' = Opening, lost' = lost,
           \A f \in Held : fd_table'[f] = fd_table[f],
           \A u \in Opening : call'[u].file = call[u].file
    PROVE  VfsHolds' = VfsHolds
<1>1. FileItems(Held)' = FileItems(Held)
  BY DEF FileItems
<1>2. OpenItems(Opening)' = OpenItems(Opening)
  BY DEF OpenItems
<1>3. LostItems' = LostItems
  BY DEF LostItems
<1> QED
  BY <1>1, <1>2, <1>3 DEF VfsHolds

\* Ownership, by caller.
Rest == SockHolds(sockets) \cup BioHolds(bios) \cup DevHolds(devices)

\* Nothing the other callers hold is a file.
LEMMA RestKinds == \A x \in Rest : x[1] \notin {"file", "opening", "lost"}
<1>1. \A x \in SockHolds(sockets) : x[1] \in {"socket", "skb", "skb data"}
  BY Kinds
<1>2. \A x \in BioHolds(bios) : x[1] \in {"bio", "bio data"}
  BY Kinds
<1>3. \A x \in DevHolds(devices) : x[1] = "device"
  BY Kinds
<1> QED
  BY <1>1, <1>2, <1>3 DEF Rest

\* Holds, by caller, here and after a step.
LEMMA HoldsNow == Holds = VfsHolds \cup Rest /\ Holds' = VfsHolds' \cup Rest'
<1>1. Holds = VfsHolds \cup Rest
  BY HoldsSplit DEF Rest
<1>2. (Holds = VfsHolds \cup Rest)'
  BY <1>1, PTL
<1> QED
  BY <1>1, <1>2

\* A VFS step leaves what the other callers hold.
LEMMA RestKept == ASSUME ObjectTypes, UNCHANGED Others PROVE Rest' = Rest /\ ObjectTypes' /\ (Apart => Apart')
<1>1. Rest' = SockHolds(sockets)' \cup BioHolds(bios)' \cup DevHolds(devices)'
  BY DEF Rest
<1> QED
  BY <1>1, OthersKept DEF Rest

\* A VFS step that leaves the heap and what is held.
LEMMA SameOwners ==
    ASSUME IInv, UNCHANGED Others, VfsHolds' = VfsHolds, heap' = heap, raced \subseteq raced'
    PROVE  Ownership'
<1>1. Holds' = Holds
  BY RestKept, HoldsNow DEF IInv, Types
<1>2. Apart => Apart'
  BY RestKept DEF IInv, Types
<1> QED
  BY <1>1, <1>2 DEF IInv, Ownership, Owned, Addrs


-----------------------------------------------------------------------------
(***************************************************************************)
(* Each step of vfs.c preserves the invariant.                             *)
(***************************************************************************)
\* vfs_open: the slot found is free, and entering beside another call is a race.
LEMMA OpenStep == ASSUME IInv, NEW t \in Threads, vfs_open(t) PROVE IInv'
<1>1. PICK fd \in fd_alloc(fd_table) :
        call' = [call EXCEPT ![t] = [op |-> "open", fd |-> fd, file |-> NULL]]
  BY DEF vfs_open
<1> DEFINE c == [op |-> "open", fd |-> fd, file |-> NULL]
<1>3. fd \in Fds /\ fd_table[fd] = NULL
  BY DEF fd_alloc
<1>4. c \in [op : {"open"}, fd : Fds, file : {NULL}] /\ c.op = "open" /\ c.fd = fd
  BY <1>3
<1>5. call' = [call EXCEPT ![t] = c]
  BY <1>1
<1> HIDE DEF c
<1>6. heap' = heap /\ fd_table' = fd_table /\ lost' = lost /\ UNCHANGED Others /\ call[t] = Idle
  BY DEF vfs_open
<1>7. VfsTypes' /\ call'[t] = c /\ \A u \in Threads \ {t} : call'[u] = call[u]
  BY <1>4, <1>5, <1>6, CallTypes DEF IInv, Types, VfsTypes
<1>8. /\ raced \subseteq raced'
      /\ \A u \in Threads : call[u] # Idle => raced' # {}
      /\ \A u \in Threads : call[u] # Idle /\ call[u].op \in {"close", "clear"} => "close" \in raced'
  BY DEF vfs_open
<1>9. c.op # "clear" /\ c.op # "install" /\ call[t].op = "idle"
  BY <1>4, <1>6 DEF Idle
<1>10. Held' = Held /\ Opening' = Opening /\ t \notin Opening
  BY <1>6, <1>7, <1>9 DEF Held, Opening
<1>11. VfsHolds' = VfsHolds
  BY <1>6, <1>7, <1>10, VfsSame DEF Opening
<1>12. Ownership'
  BY <1>6, <1>8, <1>11, SameOwners
<1>13. ObjectTypes'
  BY <1>6, RestKept DEF IInv, Types
<1>14. CloseAlone'
  <2>1. SUFFICES ASSUME "close" \notin raced', NEW u \in Threads, call'[u].op \in {"close", "clear"}
                 PROVE  FALSE
    BY DEF CloseAlone
  <2>2. u # t
    BY <1>4, <1>7, <2>1
  <2>3. call[u].op \in {"close", "clear"} /\ call[u] # Idle
    BY <1>7, <2>1, <2>2 DEF Idle
  <2> QED
    BY <1>8, <2>1, <2>3
<1>15. OpenAlone'
  <2>1. SUFFICES ASSUME raced' = {}
                 PROVE  /\ lost = {}
                        /\ \A v, u \in Threads : v = u \/ call'[v] = Idle \/ call'[u] = Idle
                        /\ \A u \in Threads : call'[u].op \in {"open", "install"} => fd_table[call'[u].fd] = NULL
    BY <1>6 DEF OpenAlone
  <2>2. lost = {} /\ \A u \in Threads : call[u] = Idle
    BY <1>8, <2>1 DEF IInv, OpenAlone
  <2>3. \A u \in Threads \ {t} : call'[u] = Idle /\ Idle.op = "idle"
    BY <1>7, <2>2 DEF Idle
  <2> QED
    BY <1>3, <1>4, <1>7, <2>2, <2>3
<1> QED
  BY <1>7, <1>12, <1>13, <1>14, <1>15 DEF IInv, Types

\* vfs_open's kmalloc: the file is nobody's yet, and this thread holds it.
LEMMA OpenAllocStep == ASSUME IInv, NEW t \in Threads, OpenAlloc(t) PROVE IInv'
<1>1. PICK file \in Kmalloc(heap) :
        /\ heap' = heap \cup ({file} \ {NULL})
        /\ call' = [call EXCEPT ![t] = IF file = NULL THEN Idle
                                       ELSE [op |-> "install", fd |-> @.fd, file |-> file]]
  BY DEF OpenAlloc
<1>2. VfsTypes /\ ObjectTypes /\ CloseAlone /\ OpenAlone /\ Ownership
  BY DEF IInv, Types
<1>3. call[t] = [op |-> "open", fd |-> call[t].fd, file |-> NULL] /\ call[t].fd \in Fds /\ call[t].op = "open"
  BY <1>2, CallForms DEF OpenAlloc
<1>4. fd_table' = fd_table /\ lost' = lost /\ raced' = raced /\ UNCHANGED Others
  BY DEF OpenAlloc
<1>5. ObjectTypes' /\ Rest' = Rest /\ (Apart => Apart')
  BY <1>2, <1>4, RestKept
<1>6. PICK fd : fd = call[t].fd
  OBVIOUS
<1> DEFINE c == IF file = NULL THEN Idle ELSE [op |-> "install", fd |-> fd, file |-> file]
<1>7. call' = [call EXCEPT ![t] = c]
  BY <1>1, <1>3, <1>6
<1>8. file = NULL \/ file \in Addresses \ heap
  BY <1>1, KmallocFresh
<1>9. /\ c = Idle \/ c \in [op : {"install", "close", "clear"}, fd : Fds, file : Addresses]
      /\ c.op \in {"idle", "install"} /\ c = Idle <=> file = NULL
      /\ file # NULL => c.op = "install" /\ c.fd = fd /\ c.file = file
  BY <1>3, <1>6, <1>8 DEF Idle
<1> HIDE DEF c
<1>10. heap' \subseteq Addresses /\ IsFiniteSet(heap')
  BY <1>1, <1>2, <1>8, HeapFinite DEF VfsTypes
<1>11. VfsTypes' /\ call'[t] = c /\ \A u \in Threads \ {t} : call'[u] = call[u]
  BY <1>2, <1>4, <1>7, <1>9, <1>10, CallTypes DEF VfsTypes
<1>12. Held' = Held /\ \A f \in Held : fd_table'[f] = fd_table[f]
  BY <1>3, <1>4, <1>9, <1>11 DEF Held
<1>13. call[t] # Idle
  BY <1>3 DEF Idle
<1>14. CloseAlone'
  <2>1. \A u \in Threads : call[u].op \notin {"close", "clear"} \/ "close" \in raced
    BY <1>2, <1>3, <1>13 DEF CloseAlone
  <2>2. \A u \in Threads : call'[u].op \notin {"close", "clear"} \/ "close" \in raced
    BY <1>9, <1>11, <2>1
  <2> QED
    BY <1>4, <2>2 DEF CloseAlone
<1>15. OpenAlone'
  <2>1. SUFFICES ASSUME raced = {}
                 PROVE  /\ lost = {}
                        /\ \A v, u \in Threads : v = u \/ call'[v] = Idle \/ call'[u] = Idle
                        /\ \A u \in Threads : call'[u].op \in {"open", "install"} => fd_table[call'[u].fd] = NULL
    BY <1>4 DEF OpenAlone
  <2>2. lost = {} /\ \A u \in Threads \ {t} : call[u] = Idle
    BY <1>2, <1>13, <2>1 DEF OpenAlone
  <2>3. \A u \in Threads \ {t} : call'[u] = Idle /\ Idle.op = "idle"
    BY <1>11, <2>2 DEF Idle
  <2>4. fd_table[fd] = NULL
    BY <1>2, <1>3, <1>6, <2>1 DEF OpenAlone
  <2>5. c.op \in {"open", "install"} => c.fd = fd
    BY <1>9 DEF Idle
  <2> QED
    BY <1>11, <2>2, <2>3, <2>4, <2>5
<1>16. Ownership'
  <2>1. CASE file = NULL
    <3>1. c = Idle /\ c.op = "idle"
      BY <1>9, <2>1 DEF Idle
    <3>2. Opening' = Opening /\ \A u \in Opening : call'[u].file = call[u].file
      BY <1>3, <1>11, <3>1 DEF Opening
    <3>3. VfsHolds' = VfsHolds
      BY <1>4, <1>12, <3>2, VfsSame
    <3> QED
      BY <1>1, <1>4, <2>1, <3>3, SameOwners
  <2>2. CASE file # NULL
    <3> DEFINE A == {<<"opening", t, file>>}
    <3>1. c.op = "install" /\ c.file = file
      BY <1>9, <2>2
    <3>2. Opening' = Opening \cup {t} /\ t \notin Opening
      BY <1>3, <1>11, <3>1 DEF Opening
    <3>3. FileItems(Held)' = FileItems(Held) /\ LostItems' = LostItems
      BY <1>4, <1>12 DEF FileItems, LostItems
    <3>4. OpenItems(Opening)' = A \cup OpenItems(Opening)
      BY <1>11, <3>1, <3>2 DEF OpenItems, Opening
    <3>5. VfsHolds' = A \cup VfsHolds
      BY <3>3, <3>4 DEF VfsHolds
    <3>6. Holds' = A \cup Holds
      BY <1>5, <3>5, HoldsNow
    <3>7. Addrs(A) = {file} /\ \A x, y \in A : x[3] = y[3] => x = y
      BY DEF Addrs
    <3>8. \A x \in A : x[3] \notin heap
      BY <1>8, <2>2
    <3> HIDE DEF A
    <3>9. heap' = heap \cup Addrs(A)
      BY <1>1, <2>2, <3>7
    <3>10. ASSUME "close" \notin raced PROVE Owned(heap', Holds')
      BY <1>2, <3>6, <3>7, <3>8, <3>9, <3>10, Grow DEF Ownership
    <3> QED
      BY <1>2, <1>4, <1>5, <3>10 DEF Ownership
  <2> QED
    BY <2>1, <2>2
<1> QED
  BY <1>5, <1>11, <1>14, <1>15, <1>16 DEF IInv, Types


\* fd_install: the slot takes the file; a file it named is lost, to two opens only.
LEMMA InstallStep == ASSUME IInv, NEW t \in Threads, fd_install(t) PROVE IInv'
<1>1. VfsTypes /\ ObjectTypes /\ CloseAlone /\ OpenAlone /\ Ownership
  BY DEF IInv, Types
<1>2. PICK fd : fd = call[t].fd
  OBVIOUS
<1>3. PICK file : file = call[t].file
  OBVIOUS
<1>4. PICK old : old = fd_table[fd]
  OBVIOUS
<1>5. /\ fd_table' = [fd_table EXCEPT ![fd] = file]
      /\ lost' = lost \cup ({old} \ {NULL})
      /\ call' = [call EXCEPT ![t] = Idle]
      /\ heap' = heap /\ raced' = raced /\ UNCHANGED Others
      /\ call[t].op = "install"
  BY <1>2, <1>3, <1>4 DEF fd_install
<1>6. fd \in Fds /\ file \in Addresses /\ call[t] # Idle
  BY <1>1, <1>2, <1>3, <1>5, CallForms
<1>7. ObjectTypes' /\ Rest' = Rest /\ (Apart => Apart')
  BY <1>1, <1>5, RestKept
<1>8. /\ fd_table' \in [Fds -> Addresses \cup {NULL}] /\ old \in Addresses \cup {NULL}
      /\ fd_table'[fd] = file /\ \A f \in Fds \ {fd} : fd_table'[f] = fd_table[f]
  BY <1>1, <1>4, <1>5, <1>6 DEF VfsTypes
<1>9. VfsTypes' /\ call'[t] = Idle /\ \A u \in Threads \ {t} : call'[u] = call[u]
  BY <1>1, <1>5, <1>8, CallTypes DEF VfsTypes
<1>10. \A u \in Threads : call[u].op \notin {"close", "clear"} \/ "close" \in raced
  BY <1>1, <1>5, <1>6 DEF CloseAlone
<1>11. Idle.op = "idle"
  BY DEF Idle
<1>12. CloseAlone'
  <2>1. \A u \in Threads : call'[u].op \notin {"close", "clear"} \/ "close" \in raced
    BY <1>9, <1>10, <1>11
  <2> QED
    BY <1>5, <2>1 DEF CloseAlone
<1>13. OpenAlone'
  <2>1. SUFFICES ASSUME raced = {}
                 PROVE  /\ lost' = {}
                        /\ \A v, u \in Threads : v = u \/ call'[v] = Idle \/ call'[u] = Idle
                        /\ \A u \in Threads : call'[u].op \in {"open", "install"} => fd_table'[call'[u].fd] = NULL
    BY <1>5 DEF OpenAlone
  <2>2. lost = {} /\ old = NULL /\ \A u \in Threads \ {t} : call[u] = Idle
    BY <1>1, <1>2, <1>4, <1>5, <1>6, <2>1 DEF OpenAlone
  <2> QED
    BY <1>5, <1>9, <1>11, <2>2
<1>14. ASSUME "close" \notin raced PROVE Owned(heap', Holds')
  <2> DEFINE Old == {x \in {<<"file", fd, old>>} : old # NULL}
             Lost == {x \in {<<"lost", 0, old>>} : old # NULL}
             A == {<<"opening", t, file>>} \cup Old
             A2 == {<<"file", fd, file>>} \cup Lost
             R == FileItems(Held \ {fd}) \cup OpenItems(Opening \ {t}) \cup LostItems \cup Rest
  <2>1. Held = {f \in Fds : fd_table[f] # NULL} /\ Held' = {f \in Fds : fd_table'[f] # NULL}
    <3>1. \A u \in Threads : call[u].op # "clear" /\ call'[u].op # "clear"
      BY <1>9, <1>10, <1>11, <1>14
    <3> QED
      BY <3>1 DEF Held
  <2>2. Held' = (Held \ {fd}) \cup {fd} /\ (fd \in Held <=> old # NULL)
    BY <1>4, <1>6, <1>8, <2>1, ObjectsAssumption
  <2>3. Opening' = Opening \ {t} /\ t \in Opening
    BY <1>5, <1>9, <1>11 DEF Opening
  <2>4. FileItems(Held)' = {<<"file", fd, file>>} \cup FileItems(Held \ {fd})
    <3>1. \A f \in Held \ {fd} : fd_table'[f] = fd_table[f]
      BY <1>8 DEF Held
    <3> QED
      BY <1>8, <2>2, <3>1 DEF FileItems
  <2>5. OpenItems(Opening)' = OpenItems(Opening \ {t})
    <3>1. \A u \in Opening \ {t} : call'[u].file = call[u].file
      BY <1>9 DEF Opening
    <3> QED
      BY <2>3, <3>1 DEF OpenItems
  <2>6. LostItems' = LostItems \cup Lost
    BY <1>5 DEF LostItems
  <2>7. FileItems(Held) = Old \cup FileItems(Held \ {fd})
    BY <1>4, <2>2 DEF FileItems
  <2>8. OpenItems(Opening) = {<<"opening", t, file>>} \cup OpenItems(Opening \ {t})
    BY <1>3, <2>3 DEF OpenItems
  <2>9. Holds = A \cup R
    BY <2>7, <2>8, HoldsNow DEF VfsHolds
  <2>10. Holds' = A2 \cup R
    BY <1>7, <2>4, <2>5, <2>6, HoldsNow DEF VfsHolds
  <2>11. Owned(heap, A \cup R)
    BY <1>1, <1>14, <2>9 DEF Ownership
  <2>12. A \cap R = {}
    <3>1. \A x \in FileItems(Held \ {fd}) : x[1] = "file" /\ x[2] # fd
      BY DEF FileItems
    <3>2. \A x \in OpenItems(Opening \ {t}) : x[1] = "opening" /\ x[2] # t
      BY DEF OpenItems
    <3>3. \A x \in LostItems : x[1] = "lost"
      BY DEF LostItems
    <3>4. <<"opening", t, file>>[1] = "opening" /\ <<"opening", t, file>>[2] = t
      OBVIOUS
    <3>5. \A x \in Old : x[1] = "file" /\ x[2] = fd
      OBVIOUS
    <3>6. \A x \in A : (x[1] = "opening" /\ x[2] = t) \/ (x[1] = "file" /\ x[2] = fd)
      BY <3>4, <3>5
    <3>7. \A x \in R : ~((x[1] = "opening" /\ x[2] = t) \/ (x[1] = "file" /\ x[2] = fd))
      BY <3>1, <3>2, <3>3, RestKinds
    <3> QED
      BY <3>6, <3>7
  <2>13. Addrs(A) = {file} \cup {x \in {old} : old # NULL}
    <3>1. Addrs(Old) = {x \in {old} : old # NULL}
      <4>1. CASE old = NULL
        <5>1. Old = {} /\ {x \in {old} : old # NULL} = {}
          BY <4>1
        <5> QED
          BY <5>1, AddrsOf
      <4>2. CASE old # NULL
        <5>1. Old = {<<"file", fd, old>>} /\ {x \in {old} : old # NULL} = {old}
          BY <4>2
        <5>2. Addrs({<<"file", fd, old>>}) = {old}
          BY DEF Addrs
        <5> QED
          BY <5>1, <5>2
      <4> QED
        BY <4>1, <4>2
    <3>2. Addrs({<<"opening", t, file>>}) = {file}
      BY DEF Addrs
    <3> QED
      BY <3>1, <3>2, AddrsOf
  <2>14. Addrs(A2) = {file} \cup {x \in {old} : old # NULL}
    <3>1. Addrs(Lost) = {x \in {old} : old # NULL}
      <4>1. CASE old = NULL
        <5>1. Lost = {} /\ {x \in {old} : old # NULL} = {}
          BY <4>1
        <5> QED
          BY <5>1, AddrsOf
      <4>2. CASE old # NULL
        <5>1. Lost = {<<"lost", 0, old>>} /\ {x \in {old} : old # NULL} = {old}
          BY <4>2
        <5>2. Addrs({<<"lost", 0, old>>}) = {old}
          BY DEF Addrs
        <5> QED
          BY <5>1, <5>2
      <4> QED
        BY <4>1, <4>2
    <3>2. Addrs({<<"file", fd, file>>}) = {file}
      BY DEF Addrs
    <3> QED
      BY <3>1, <3>2, AddrsOf
  <2>15. old # NULL => old # file
    <3>1. SUFFICES ASSUME old # NULL PROVE old # file
      OBVIOUS
    <3>2. PICK x : x = <<"file", fd, old>>
      OBVIOUS
    <3>3. PICK y : y = <<"opening", t, file>>
      OBVIOUS
    <3>4. x \in A /\ y \in A
      BY <3>1, <3>2, <3>3
    <3>5. x[1] = "file" /\ y[1] = "opening" /\ x[3] = old /\ y[3] = file
      BY <3>2, <3>3
    <3>6. x # y
      BY <3>5
    <3> QED
      BY <2>11, <3>4, <3>5, <3>6 DEF Owned
  <2>16. \A x, y \in A2 : x[3] = y[3] => x = y
    BY <2>15
  <2>17. \A x \in A2 : x[3] \in Addrs(A)
    BY <2>13
  <2>18. heap' = (heap \ Addrs(A)) \cup Addrs(A2)
    <3>1. Addrs(A) \subseteq heap
      BY <2>11 DEF Owned, Addrs
    <3> QED
      BY <1>5, <2>13, <2>14, <3>1
  <2> HIDE DEF A, A2, R
  <2>19. Owned((heap \ Addrs(A)) \cup Addrs(A2), A2 \cup R)
    BY <2>11, <2>12, <2>16, <2>17, Exchange
  <2> QED
    BY <2>10, <2>18, <2>19
<1> QED
  BY <1>1, <1>5, <1>7, <1>9, <1>12, <1>13, <1>14 DEF IInv, Types, Ownership


\* vfs_close's fd_get: a close that enters beside another call is a race.
LEMMA CloseStep == ASSUME IInv, NEW t \in Threads, NEW fd \in Fds, vfs_close(t, fd) PROVE IInv'
<1>1. VfsTypes /\ ObjectTypes /\ CloseAlone /\ OpenAlone /\ Ownership
  BY DEF IInv, Types
<1> DEFINE c == [op |-> "close", fd |-> fd, file |-> fd_table[fd]]
<1>2. /\ call' = [call EXCEPT ![t] = c] /\ call[t] = Idle
      /\ heap' = heap /\ fd_table' = fd_table /\ lost' = lost /\ UNCHANGED Others
  BY DEF vfs_close
<1>3. c \in [op : {"install", "close", "clear"}, fd : Fds, file : Addresses]
  BY <1>1 DEF vfs_close, VfsTypes
<1>4. c.op = "close" /\ fd_table[c.fd] = c.file
  OBVIOUS
<1> HIDE DEF c
<1>5. VfsTypes' /\ call'[t] = c /\ \A u \in Threads \ {t} : call'[u] = call[u]
  BY <1>1, <1>2, <1>3, CallTypes DEF VfsTypes
<1>6. /\ raced \subseteq raced'
      /\ \A u \in Threads : call[u] # Idle => "close" \in raced'
  BY DEF vfs_close
<1>7. Idle.op = "idle"
  BY DEF Idle
<1>8. Held' = Held /\ Opening' = Opening /\ t \notin Opening
  BY <1>2, <1>4, <1>5, <1>7 DEF Held, Opening
<1>9. VfsHolds' = VfsHolds
  BY <1>2, <1>5, <1>8, VfsSame DEF Opening
<1>10. Ownership'
  BY <1>2, <1>6, <1>9, SameOwners
<1>11. CloseAlone'
  <2>1. ASSUME "close" \notin raced', NEW u \in Threads, u # t PROVE call'[u] = Idle
    BY <1>5, <1>6, <2>1
  <2> QED
    BY <1>2, <1>4, <1>5, <1>7, <2>1 DEF CloseAlone
<1>12. OpenAlone'
  <2>1. ASSUME raced' = {} PROVE raced = {} /\ \A u \in Threads \ {t} : call'[u] = Idle
    BY <1>5, <1>6, <2>1
  <2> QED
    BY <1>1, <1>2, <1>4, <1>5, <1>7, <2>1 DEF OpenAlone
<1>13. ObjectTypes'
  BY <1>1, <1>2, RestKept
<1> QED
  BY <1>5, <1>10, <1>11, <1>12, <1>13 DEF IInv, Types

\* vfs_close's kfree: without a race the slot named the file, and nobody else holds it.
LEMMA CloseFreeStep == ASSUME IInv, NEW t \in Threads, CloseFree(t) PROVE IInv'
<1>1. VfsTypes /\ ObjectTypes /\ CloseAlone /\ OpenAlone /\ Ownership
  BY DEF IInv, Types
<1>2. PICK fd : fd = call[t].fd
  OBVIOUS
<1>3. PICK file : file = call[t].file
  OBVIOUS
<1>4. /\ heap' = heap \ {file} /\ call' = [call EXCEPT ![t].op = "clear"]
      /\ fd_table' = fd_table /\ lost' = lost /\ raced' = raced /\ UNCHANGED Others
      /\ call[t].op = "close"
  BY <1>3 DEF CloseFree
<1>5. /\ fd \in Fds /\ file \in Addresses /\ call[t] # Idle
      /\ call[t] = [op |-> "close", fd |-> fd, file |-> file]
  BY <1>1, <1>2, <1>3, <1>4, CallForms
<1> DEFINE c == [op |-> "clear", fd |-> fd, file |-> file]
<1>6. call' = [call EXCEPT ![t] = c]
  <2>1. PICK r : r = call[t]
    OBVIOUS
  <2>2. [r EXCEPT !.op = "clear"] = c
    BY <1>5, <2>1
  <2>3. call' = [call EXCEPT ![t] = [r EXCEPT !.op = "clear"]]
    BY <1>4, <2>1
  <2> QED
    BY <2>2, <2>3
<1>7. c \in [op : {"install", "close", "clear"}, fd : Fds, file : Addresses] /\ c.op = "clear" /\ c.fd = fd
  BY <1>5
<1> HIDE DEF c
<1>8. heap' \subseteq Addresses /\ IsFiniteSet(heap')
  <2>1. heap' \in SUBSET heap /\ heap \subseteq Addresses /\ IsFiniteSet(heap)
    BY <1>1, <1>4 DEF VfsTypes
  <2> QED
    BY <2>1, FS_Subset
<1>9. VfsTypes' /\ call'[t] = c /\ \A u \in Threads \ {t} : call'[u] = call[u]
  BY <1>1, <1>4, <1>6, <1>7, <1>8, CallTypes DEF VfsTypes
<1>10. Idle.op = "idle"
  BY DEF Idle
<1>11. ObjectTypes' /\ Rest' = Rest /\ (Apart => Apart')
  BY <1>1, <1>4, RestKept
<1>12. CloseAlone'
  <2>1. "close" \notin raced => \A u \in Threads \ {t} : call'[u] = Idle
    BY <1>1, <1>4, <1>9 DEF CloseAlone
  <2> QED
    BY <1>4, <1>7, <1>9, <1>10, <2>1 DEF CloseAlone
<1>13. OpenAlone'
  <2>1. raced = {} => \A u \in Threads \ {t} : call'[u] = Idle
    BY <1>1, <1>5, <1>9 DEF OpenAlone
  <2> QED
    BY <1>1, <1>4, <1>7, <1>9, <1>10, <2>1 DEF OpenAlone
<1>14. ASSUME "close" \notin raced PROVE Owned(heap', Holds')
  <2> DEFINE A == {<<"file", fd, file>>}
             R == FileItems(Held \ {fd}) \cup OpenItems(Opening) \cup LostItems \cup Rest
  <2>1. /\ \A u \in Threads \ {t} : call[u] = Idle /\ call'[u] = Idle
        /\ fd_table[fd] = file
    BY <1>1, <1>2, <1>3, <1>4, <1>9, <1>14 DEF CloseAlone
  <2>2. file # NULL
    BY <1>5, ObjectsAssumption
  <2>3. Held = {f \in Fds : fd_table[f] # NULL} /\ fd \in Held
    <3>1. \A u \in Threads : call[u].op # "clear"
      BY <1>4, <1>10, <2>1
    <3> QED
      BY <1>5, <2>1, <2>2, <3>1 DEF Held
  <2>4. Held' = Held \ {fd}
    <3>1. \A u \in Threads : call'[u].op = "clear" <=> u = t
      BY <1>7, <1>9, <1>10, <2>1
    <3> QED
      BY <1>4, <1>7, <1>9, <2>3, <3>1 DEF Held
  <2>5. Opening' = Opening /\ Opening = {}
    BY <1>4, <1>7, <1>9, <1>10, <2>1 DEF Opening
  <2>6. FileItems(Held)' = FileItems(Held \ {fd})
    BY <1>4, <2>4 DEF FileItems
  <2>7. FileItems(Held) = A \cup FileItems(Held \ {fd})
    BY <2>1, <2>3 DEF FileItems
  <2>8. OpenItems(Opening)' = OpenItems(Opening) /\ LostItems' = LostItems
    BY <1>4, <2>5 DEF OpenItems, LostItems
  <2>9. Holds = A \cup R
    BY <2>7, HoldsNow DEF VfsHolds
  <2>10. Holds' = R
    BY <1>11, <2>6, <2>8, HoldsNow DEF VfsHolds
  <2>11. A \cap R = {}
    <3>1. \A x \in FileItems(Held \ {fd}) : x[1] = "file" /\ x[2] # fd
      BY DEF FileItems
    <3>2. \A x \in OpenItems(Opening) : x[1] = "opening"
      BY DEF OpenItems
    <3>3. \A x \in LostItems : x[1] = "lost"
      BY DEF LostItems
    <3>4. \A x \in A : x[1] = "file" /\ x[2] = fd
      OBVIOUS
    <3>5. \A x \in R : ~(x[1] = "file" /\ x[2] = fd)
      BY <3>1, <3>2, <3>3, RestKinds
    <3> QED
      BY <3>4, <3>5
  <2>12. heap' = heap \ Addrs(A)
    BY <1>4 DEF Addrs
  <2> HIDE DEF A, R
  <2>13. Owned(heap, A \cup R)
    BY <1>1, <1>14, <2>9 DEF Ownership
  <2> QED
    BY <2>10, <2>11, <2>12, <2>13, Shrink
<1> QED
  BY <1>1, <1>4, <1>9, <1>11, <1>12, <1>13, <1>14 DEF IInv, Types, Ownership

\* vfs_close's last store: the slot held nothing any more.
LEMMA CloseClearStep == ASSUME IInv, NEW t \in Threads, CloseClear(t) PROVE IInv'
<1>1. VfsTypes /\ ObjectTypes /\ CloseAlone /\ OpenAlone /\ Ownership
  BY DEF IInv, Types
<1>2. PICK fd : fd = call[t].fd
  OBVIOUS
<1>3. /\ fd_table' = [fd_table EXCEPT ![fd] = NULL] /\ call' = [call EXCEPT ![t] = Idle]
      /\ heap' = heap /\ lost' = lost /\ raced' = raced /\ UNCHANGED Others
      /\ call[t].op = "clear"
  BY <1>2 DEF CloseClear
<1>4. fd \in Fds /\ call[t] # Idle
  BY <1>1, <1>2, <1>3, CallForms
<1>5. /\ fd_table' \in [Fds -> Addresses \cup {NULL}]
      /\ fd_table'[fd] = NULL /\ \A f \in Fds \ {fd} : fd_table'[f] = fd_table[f]
  BY <1>1, <1>3, <1>4 DEF VfsTypes
<1>6. VfsTypes' /\ call'[t] = Idle /\ \A u \in Threads \ {t} : call'[u] = call[u]
  BY <1>1, <1>3, <1>5, CallTypes DEF VfsTypes
<1>7. Idle.op = "idle"
  BY DEF Idle
<1>8. ObjectTypes'
  BY <1>1, <1>3, RestKept
<1>9. "close" \notin raced => \A u \in Threads : call'[u] = Idle
  BY <1>1, <1>3, <1>6 DEF CloseAlone
<1>10. raced = {} => \A u \in Threads : call'[u] = Idle
  BY <1>1, <1>4, <1>6 DEF OpenAlone
<1>11. CloseAlone'
  BY <1>3, <1>7, <1>9 DEF CloseAlone
<1>12. OpenAlone'
  BY <1>1, <1>3, <1>7, <1>10 DEF OpenAlone
<1>13. Ownership'
  <2>1. SUFFICES ASSUME "close" \notin raced PROVE VfsHolds' = VfsHolds
    BY <1>3, SameOwners DEF Ownership
  <2>2. \A u \in Threads \ {t} : call[u] = Idle
    BY <1>1, <1>3, <2>1 DEF CloseAlone
  <2>3. Held' = Held /\ fd \notin Held
    BY <1>2, <1>3, <1>5, <1>6, <1>7, <2>2 DEF Held
  <2>4. Opening' = Opening /\ Opening = {}
    BY <1>3, <1>6, <1>7, <2>2 DEF Opening
  <2>5. \A f \in Held : fd_table'[f] = fd_table[f]
    BY <1>5, <2>3 DEF Held
  <2> QED
    BY <1>3, <2>3, <2>4, <2>5, VfsSame
<1> QED
  BY <1>6, <1>8, <1>11, <1>12, <1>13 DEF IInv, Types


-----------------------------------------------------------------------------
(***************************************************************************)
(* The other callers: one step per call.                                   *)
(***************************************************************************)
\* A call outside vfs.c has to keep its own types and the ownership.
LEMMA ObjectStep ==
    ASSUME IInv, UNCHANGED Files, heap' \subseteq Addresses, IsFiniteSet(heap'), ObjectTypes',
           Owned(heap, Holds) /\ Apart => Owned(heap', Holds') /\ Apart'
    PROVE  IInv'
<1>1. VfsTypes /\ ObjectTypes /\ CloseAlone /\ OpenAlone /\ Ownership
  BY DEF IInv, Types
<1>2. CloseAlone' /\ OpenAlone' /\ raced' = raced
  BY <1>1, FilesKept
<1>3. VfsTypes'
  BY <1>1 DEF VfsTypes, Files
<1>4. Ownership'
  BY <1>1, <1>2 DEF Ownership
<1> QED
  BY <1>2, <1>3, <1>4 DEF IInv, Types

\* Holds after a step that leaves the files.
LEMMA HoldsAfter ==
    ASSUME IInv, UNCHANGED Files
    PROVE  /\ Holds = VfsHolds \cup SockHolds(sockets) \cup BioHolds(bios) \cup DevHolds(devices)
           /\ Holds' = VfsHolds \cup SockHolds(sockets') \cup BioHolds(bios') \cup DevHolds(devices')
<1>1. VfsHolds' = VfsHolds
  BY FilesKept DEF IInv
<1>2. Rest' = SockHolds(sockets') \cup BioHolds(bios') \cup DevHolds(devices')
  BY DEF Rest, SockHolds, BioHolds, DevHolds, SockItems, BioItems
<1> QED
  BY <1>1, <1>2, HoldsNow, HoldsSplit

(***************************************************************************)
(* Sockets.                                                                *)
(***************************************************************************)
SockAddrs(s) == {s.at} \cup {s.queue[i][1] : i \in DOMAIN s.queue} \cup {s.queue[i][2] : i \in DOMAIN s.queue}

\* No two of a socket's objects share an address.
Distinct(s) ==
    \A i, j \in DOMAIN s.queue :
        /\ s.queue[i][1] = s.queue[j][1] => i = j
        /\ s.queue[i][2] = s.queue[j][2] => i = j
        /\ s.queue[i][1] # s.queue[j][2]
        /\ s.queue[i][1] # s.at /\ s.queue[i][2] # s.at

\* The holdings of a socket.
LEMMA SockForms ==
    ASSUME NEW s, NEW x
    PROVE  x \in SockItems(s) <=>
             \/ x = <<"socket", s.dev, s.at>>
             \/ \E i \in DOMAIN s.queue : x = <<"skb", <<s.at, i>>, s.queue[i][1]>>
             \/ \E i \in DOMAIN s.queue : x = <<"skb data", <<s.at, i>>, s.queue[i][2]>>
  BY DEF SockItems

\* What a socket holds names the socket.
LEMMA SockNamed ==
    ASSUME NEW s, NEW x \in SockItems(s)
    PROVE  \/ x[1] = "socket" /\ x[3] = s.at
           \/ x[1] \in {"skb", "skb data"} /\ x[2][1] = s.at
<1>1. CASE x = <<"socket", s.dev, s.at>>
  BY <1>1
<1>2. ASSUME NEW i \in DOMAIN s.queue, x = <<"skb", <<s.at, i>>, s.queue[i][1]>>
      PROVE  x[1] = "skb" /\ x[2][1] = s.at
  BY <1>2
<1>3. ASSUME NEW i \in DOMAIN s.queue, x = <<"skb data", <<s.at, i>>, s.queue[i][2]>>
      PROVE  x[1] = "skb data" /\ x[2][1] = s.at
  BY <1>3
<1> QED
  BY <1>1, <1>2, <1>3, SockForms

\* Holdings of sockets at different addresses are different.
LEMMA SockApart ==
    ASSUME NEW S, NEW s, \A r \in S : r.at # s.at
    PROVE  SockItems(s) \cap SockHolds(S) = {}
<1>1. SUFFICES ASSUME NEW x \in SockItems(s), x \in SockHolds(S) PROVE FALSE
  OBVIOUS
<1>2. PICK r \in S : x \in SockItems(r)
  BY <1>1, InSock
<1>3. \/ x[1] = "socket" /\ x[3] = s.at
      \/ x[1] \in {"skb", "skb data"} /\ x[2][1] = s.at
  BY SockNamed
<1>4. \/ x[1] = "socket" /\ x[3] = r.at
      \/ x[1] \in {"skb", "skb data"} /\ x[2][1] = r.at
  BY <1>2, SockNamed
<1> QED
  BY <1>3, <1>4

\* The holdings of the sockets, one socket set apart.
LEMMA SockAside ==
    /\ \A S, s : SockHolds(S \cup {s}) = SockItems(s) \cup SockHolds(S)
    /\ \A S : \A s \in S : SockHolds(S) = SockItems(s) \cup SockHolds(S \ {s})
<1>1. ASSUME NEW S, NEW s PROVE SockHolds(S \cup {s}) = SockItems(s) \cup SockHolds(S)
  <2>1. \A x : x \in SockHolds(S \cup {s}) <=> x \in SockItems(s) \cup SockHolds(S)
    BY InSock
  <2> QED
    BY <2>1
<1>2. ASSUME NEW S, NEW s \in S PROVE SockHolds(S) = SockItems(s) \cup SockHolds(S \ {s})
  <2>1. S = (S \ {s}) \cup {s}
    OBVIOUS
  <2> QED
    BY <1>1, <2>1
<1> QED
  BY <1>1, <1>2

\* The addresses a socket holds.
LEMMA SockAddresses == ASSUME NEW s PROVE Addrs(SockItems(s)) = SockAddrs(s)
<1> DEFINE S1 == {<<"socket", s.dev, s.at>>}
           S2 == {<<"skb", <<s.at, i>>, s.queue[i][1]>> : i \in DOMAIN s.queue}
           S3 == {<<"skb data", <<s.at, i>>, s.queue[i][2]>> : i \in DOMAIN s.queue}
<1>1. Addrs(S1) = {s.at}
  BY DEF Addrs
<1>2. Addrs(S2) = {s.queue[i][1] : i \in DOMAIN s.queue}
  <2> DEFINE item(i) == <<"skb", <<s.at, i>>, s.queue[i][1]>>
  <2>1. \A i \in DOMAIN s.queue : item(i) \in S2 /\ item(i)[3] = s.queue[i][1]
    OBVIOUS
  <2>2. \A x \in S2 : \E i \in DOMAIN s.queue : x = item(i)
    OBVIOUS
  <2> HIDE DEF item, S2
  <2>3. \A x \in S2 : \E i \in DOMAIN s.queue : x[3] = s.queue[i][1]
    BY <2>1, <2>2
  <2> QED
    BY <2>1, <2>3 DEF Addrs
<1>3. Addrs(S3) = {s.queue[i][2] : i \in DOMAIN s.queue}
  <2> DEFINE item(i) == <<"skb data", <<s.at, i>>, s.queue[i][2]>>
  <2>1. \A i \in DOMAIN s.queue : item(i) \in S3 /\ item(i)[3] = s.queue[i][2]
    OBVIOUS
  <2>2. \A x \in S3 : \E i \in DOMAIN s.queue : x = item(i)
    OBVIOUS
  <2> HIDE DEF item, S3
  <2>3. \A x \in S3 : \E i \in DOMAIN s.queue : x[3] = s.queue[i][2]
    BY <2>1, <2>2
  <2> QED
    BY <2>1, <2>3 DEF Addrs
<1>4. SockItems(s) = S1 \cup S2 \cup S3
  BY DEF SockItems
<1> HIDE DEF S1, S2, S3
<1>5. Addrs((S1 \cup S2) \cup S3) = (Addrs(S1) \cup Addrs(S2)) \cup Addrs(S3)
  BY DEF Addrs
<1> QED
  BY <1>1, <1>2, <1>3, <1>4, <1>5 DEF SockAddrs


\* The parts of the three forms of holding.
LEMMA ItemParts ==
    ASSUME NEW s, NEW i
    PROVE  LET k == <<"socket", s.dev, s.at>>
               p == <<"skb", <<s.at, i>>, s.queue[i][1]>>
               d == <<"skb data", <<s.at, i>>, s.queue[i][2]>>
           IN  /\ k[1] = "socket" /\ k[3] = s.at
               /\ p[1] = "skb" /\ p[3] = s.queue[i][1] /\ p[2][2] = i
               /\ d[1] = "skb data" /\ d[3] = s.queue[i][2] /\ d[2][2] = i
  OBVIOUS

\* Holdings at distinct addresses are what Distinct says.
LEMMA SockDistinct ==
    ASSUME NEW s
    PROVE  (\A x, y \in SockItems(s) : x[3] = y[3] => x = y) <=> Distinct(s)
<1> DEFINE k == <<"socket", s.dev, s.at>>
           p(i) == <<"skb", <<s.at, i>>, s.queue[i][1]>>
           d(i) == <<"skb data", <<s.at, i>>, s.queue[i][2]>>
           D == DOMAIN s.queue
<1>1. k[1] = "socket" /\ k[3] = s.at
  BY ItemParts
<1>2. \A i \in D : p(i)[1] = "skb" /\ p(i)[3] = s.queue[i][1] /\ p(i)[2][2] = i
  BY ItemParts
<1>3. \A i \in D : d(i)[1] = "skb data" /\ d(i)[3] = s.queue[i][2] /\ d(i)[2][2] = i
  BY ItemParts
<1>4. \A x : x \in SockItems(s) <=> x = k \/ (\E i \in D : x = p(i)) \/ (\E i \in D : x = d(i))
  BY SockForms
<1> HIDE DEF k, p, d, D
<1>5. Distinct(s) <=>
        \A i, j \in D :
          /\ p(i)[3] = p(j)[3] => i = j
          /\ d(i)[3] = d(j)[3] => i = j
          /\ p(i)[3] # d(j)[3]
          /\ p(i)[3] # k[3] /\ d(i)[3] # k[3]
  <2>1. Distinct(s) <=>
          \A i, j \in D :
            /\ s.queue[i][1] = s.queue[j][1] => i = j
            /\ s.queue[i][2] = s.queue[j][2] => i = j
            /\ s.queue[i][1] # s.queue[j][2]
            /\ s.queue[i][1] # s.at /\ s.queue[i][2] # s.at
    BY DEF Distinct, D
  <2>2. ASSUME NEW i \in D, NEW j \in D
        PROVE  /\ p(i)[3] = s.queue[i][1] /\ d(i)[3] = s.queue[i][2]
               /\ p(j)[3] = s.queue[j][1] /\ d(j)[3] = s.queue[j][2]
    BY <1>2, <1>3
  <2> QED
    BY <1>1, <2>1, <2>2
<1>6. ASSUME \A x, y \in SockItems(s) : x[3] = y[3] => x = y,
             NEW i \in D, NEW j \in D
      PROVE  /\ p(i)[3] = p(j)[3] => i = j
             /\ d(i)[3] = d(j)[3] => i = j
             /\ p(i)[3] # d(j)[3]
             /\ p(i)[3] # k[3] /\ d(i)[3] # k[3]
  <2>1. p(i) \in SockItems(s) /\ p(j) \in SockItems(s) /\ d(i) \in SockItems(s) /\ d(j) \in SockItems(s) /\ k \in SockItems(s)
    BY <1>4, <1>6
  <2>2. p(i) # d(j) /\ p(i) # k /\ d(i) # k
    BY <1>1, <1>2, <1>3
  <2>3. (p(i) = p(j) => i = j) /\ (d(i) = d(j) => i = j)
    <3>1. i = p(i)[2][2] /\ j = p(j)[2][2] /\ i = d(i)[2][2] /\ j = d(j)[2][2]
      BY <1>2, <1>3
    <3> QED
      BY <3>1, Zenon
  <2> QED
    BY <1>6, <2>1, <2>2, <2>3
<1>7. ASSUME \A i, j \in D :
               /\ p(i)[3] = p(j)[3] => i = j
               /\ d(i)[3] = d(j)[3] => i = j
               /\ p(i)[3] # d(j)[3]
               /\ p(i)[3] # k[3] /\ d(i)[3] # k[3],
             NEW x \in SockItems(s), NEW y \in SockItems(s), x[3] = y[3]
      PROVE  x = y
  <2>1. x = k \/ (\E i \in D : x = p(i)) \/ (\E i \in D : x = d(i))
    BY <1>4, <1>7
  <2>2. y = k \/ (\E i \in D : y = p(i)) \/ (\E i \in D : y = d(i))
    BY <1>4, <1>7
  <2>3. CASE x = k
    BY <1>7, <2>2, <2>3
  <2>4. ASSUME NEW i \in D, x = p(i) PROVE x = y
    BY <1>7, <2>2, <2>4
  <2>5. ASSUME NEW i \in D, x = d(i) PROVE x = y
    BY <1>7, <2>2, <2>5
  <2> QED
    BY <2>1, <2>3, <2>4, <2>5
<1> QED
  BY <1>5, <1>6, <1>7

\* A socket's own objects are in the heap at distinct addresses.
LEMMA SockOwned ==
    ASSUME IInv, Owned(heap, Holds), NEW s \in sockets
    PROVE  Distinct(s) /\ SockAddrs(s) \subseteq heap
<1>1. SockItems(s) \subseteq Holds
  BY HoldsSplit, SockAside
<1>2. \A x, y \in SockItems(s) : x[3] = y[3] => x = y
  BY <1>1 DEF Owned
<1>3. Addrs(SockItems(s)) \subseteq heap
  BY <1>1 DEF Owned, Addrs
<1> QED
  BY <1>2, <1>3, SockDistinct, SockAddresses

\* What the others hold is not a socket's.
LEMMA SockRest ==
    ASSUME NEW s, NEW S, \A r \in S : r.at # s.at
    PROVE  SockItems(s) \cap (VfsHolds \cup SockHolds(S) \cup BioHolds(bios) \cup DevHolds(devices)) = {}
<1>1. \A x \in SockItems(s) : x[1] \in {"socket", "skb", "skb data"}
  BY SockNamed
<1>2. \A x \in VfsHolds : x[1] \in {"file", "opening", "lost"}
  BY Kinds
<1>3. \A x \in BioHolds(bios) : x[1] \in {"bio", "bio data"}
  BY Kinds
<1>4. \A x \in DevHolds(devices) : x[1] = "device"
  BY Kinds
<1>5. SockItems(s) \cap SockHolds(S) = {}
  BY SockApart
<1> QED
  BY <1>1, <1>2, <1>3, <1>4, <1>5


WithQueue(s, q) == [s EXCEPT !.queue = q]

\* A socket whose queue changes keeps its address.
LEMMA QueueChange ==
    ASSUME ObjectTypes, NEW s \in sockets, NEW q \in Seq(Addresses \X Addresses),
           sockets' = (sockets \ {s}) \cup {WithQueue(s, q)},
           bios' = bios, loopback' = loopback, devices' = devices, next_major' = next_major
    PROVE  LET s2 == WithQueue(s, q)
           IN  /\ ObjectTypes' /\ s \in Socket
               /\ s2.at = s.at /\ s2.dev = s.dev /\ s2.queue = q
               /\ Apart => Apart' /\ \A r \in sockets \ {s} : r.at # s.at
               /\ SockHolds(sockets') = SockItems(s2) \cup SockHolds(sockets \ {s})
               /\ SockHolds(sockets) = SockItems(s) \cup SockHolds(sockets \ {s})
<1> DEFINE s2 == WithQueue(s, q)
<1>1. s \in Socket /\ (Apart => \A r \in sockets \ {s} : r.at # s.at)
  BY DEF ObjectTypes, Apart
<1>2. s2.at = s.at /\ s2.dev = s.dev /\ s2.queue = q /\ s2 \in Socket
  BY <1>1 DEF Socket, WithQueue
<1> HIDE DEF s2
<1>a. sockets' = (sockets \ {s}) \cup {s2}
  BY DEF s2
<1>3. sockets' \subseteq Socket
  BY <1>2, <1>a DEF ObjectTypes
<1>4. ObjectTypes'
  BY <1>3 DEF ObjectTypes
<1>5. Apart => Apart'
  BY <1>1, <1>2, <1>a DEF Apart
<1>6. /\ SockHolds(sockets') = SockItems(s2) \cup SockHolds(sockets \ {s})
      /\ SockHolds(sockets) = SockItems(s) \cup SockHolds(sockets \ {s})
  BY <1>a, SockAside
<1> QED
  BY <1>1, <1>2, <1>4, <1>5, <1>6 DEF s2

\* socket_create: one new object, or failure.
LEMMA SocketCreateStep == ASSUME IInv, socket_create PROVE IInv'
<1>1. PICK at \in Kmalloc(heap) \ {NULL} :
        /\ heap' = heap \cup {at}
        /\ sockets' = sockets \cup {[at |-> at, dev |-> loopback, queue |-> <<>>]}
  BY DEF socket_create
<1>2. bios' = bios /\ loopback' = loopback /\ devices' = devices /\ next_major' = next_major /\ UNCHANGED Files
  BY DEF socket_create
<1>3. VfsTypes /\ ObjectTypes
  BY DEF IInv, Types
<1>4. at \in Addresses \ heap
  BY <1>1, KmallocFresh
<1>5. heap' \subseteq Addresses /\ IsFiniteSet(heap')
  BY <1>1, <1>3, <1>4, FS_AddElement DEF VfsTypes
<1>6. PICK s : s = [at |-> at, dev |-> loopback, queue |-> <<>>]
  OBVIOUS
<1>7. s.at = at /\ s.dev = loopback /\ s.queue = <<>>
  BY <1>6
<1>8. s \in Socket
  BY <1>3, <1>4, <1>6 DEF Socket, ObjectTypes
<1>9. ASSUME Owned(heap, Holds), NEW r \in sockets PROVE r.at # at
  <2>1. r.at \in heap
    BY <1>9, SockOwned DEF SockAddrs
  <2> QED
    BY <1>4, <2>1
<1>10. /\ ObjectTypes'
       /\ SockHolds(sockets') = {<<"socket", loopback, at>>} \cup SockHolds(sockets)
  <2>1. ObjectTypes'
    BY <1>1, <1>2, <1>3, <1>6, <1>8 DEF ObjectTypes
  <2>2. SockItems(s) = {<<"socket", loopback, at>>}
    <3>1. DOMAIN s.queue = {}
      BY <1>7
    <3> QED
      BY <1>7, <3>1 DEF SockItems
  <2> QED
    BY <1>1, <1>6, <2>1, <2>2, SockAside
<1>11. ASSUME Owned(heap, Holds), Apart PROVE Owned(heap', Holds') /\ Apart'
  <2> DEFINE A == {<<"socket", loopback, at>>}
  <2>1. Holds' = A \cup Holds
    BY <1>2, <1>10, HoldsAfter
  <2>2. Addrs(A) = {at} /\ \A x, y \in A : x[3] = y[3] => x = y
    BY DEF Addrs
  <2>3. \A x \in A : x[3] \notin heap
    BY <1>4
  <2> HIDE DEF A
  <2>4. Owned(heap \cup Addrs(A), A \cup Holds)
    BY <1>11, <2>2, <2>3, Grow
  <2>5. Apart'
    BY <1>1, <1>6, <1>7, <1>9, <1>11 DEF Apart
  <2> QED
    BY <1>1, <2>1, <2>2, <2>4, <2>5
<1> QED
  BY <1>2, <1>5, <1>10, <1>11, ObjectStep


\* A step that leaves the heap and what is held.
LEMMA NothingMoves ==
    ASSUME IInv, UNCHANGED Files, heap' = heap, sockets' = sockets, bios' = bios, devices' = devices,
           next_major' = next_major, loopback' \in BOOLEAN
    PROVE  IInv'
<1>1. VfsTypes /\ ObjectTypes
  BY DEF IInv, Types
<1>2. ObjectTypes' /\ (Apart => Apart')
  BY <1>1 DEF ObjectTypes, Apart
<1>3. Holds' = Holds
  BY HoldsAfter
<1>4. heap' \subseteq Addresses /\ IsFiniteSet(heap')
  BY <1>1 DEF VfsTypes
<1>5. Owned(heap, Holds) => Owned(heap', Holds')
  BY <1>3
<1> QED
  BY <1>2, <1>4, <1>5, ObjectStep

\* socket_send: the packet is allocated and freed again.
LEMMA SocketSendStep == ASSUME IInv, NEW s \in sockets, socket_send(s) PROVE IInv'
<1>1. PICK r \in Pairs(heap) :
        heap' = IF r.pair = <<>> THEN r.heap ELSE loopback_xmit(r.heap, r.pair)
  BY DEF socket_send
<1>2. heap' = heap
  <2>1. CASE r = [heap |-> heap, pair |-> <<>>]
    BY <1>1, <2>1
  <2>2. ASSUME NEW a \in Addresses \ heap, NEW d \in Addresses \ heap,
               r = [heap |-> heap \cup {a, d}, pair |-> <<a, d>>]
        PROVE  heap' = heap
    <3>1. r.heap = heap \cup {a, d} /\ r.pair = <<a, d>> /\ r.pair[1] = a /\ r.pair[2] = d
      BY <2>2
    <3>2. r.pair # <<>>
      <4>1. Len(r.pair) = 2 /\ Len(<<>>) = 0
        BY <3>1
      <4> QED
        BY <4>1
    <3>3. heap' = (heap \cup {a, d}) \ {a, d}
      BY <1>1, <3>1, <3>2 DEF loopback_xmit, Freed
    <3> QED
      BY <2>2, <3>3
  <2> QED
    BY <2>1, <2>2, PairsFresh
<1> QED
  BY <1>2, NothingMoves DEF socket_send, IInv, Types, ObjectTypes

\* A packet appended to a socket's queue: two new objects, at the queue's end.
LEMMA QueueTailStep == ASSUME IInv, NEW s \in sockets, skb_queue_tail(s) PROVE IInv'
<1>1. VfsTypes /\ ObjectTypes
  BY DEF IInv, Types
<1>2. PICK r \in Pairs(heap) :
        /\ r.pair # <<>> /\ heap' = r.heap
        /\ sockets' = (sockets \ {s}) \cup {[s EXCEPT !.queue = Append(@, r.pair)]}
  BY DEF skb_queue_tail
<1>3. PICK a \in Addresses \ heap : \E d \in Addresses \ heap :
        a # d /\ r = [heap |-> heap \cup {a, d}, pair |-> <<a, d>>]
  <2>1. r # [heap |-> heap, pair |-> <<>>]
    BY <1>2
  <2> QED
    BY <2>1, PairsFresh
<1>4. PICK d \in Addresses \ heap : a # d /\ r = [heap |-> heap \cup {a, d}, pair |-> <<a, d>>]
  BY <1>3
<1>5. UNCHANGED <<bios, loopback, devices, next_major>> /\ UNCHANGED Files
  BY DEF skb_queue_tail
<1>6. r.pair = <<a, d>> /\ heap' = heap \cup {a, d} /\ r.pair \in Addresses \X Addresses
  BY <1>2, <1>4
<1>7. heap' \subseteq Addresses /\ IsFiniteSet(heap')
  BY <1>1, <1>6, HeapFinite DEF VfsTypes
<1>8. PICK q : q = Append(s.queue, r.pair)
  OBVIOUS
<1>9. s.queue \in Seq(Addresses \X Addresses)
  BY <1>1 DEF ObjectTypes, Socket
<1>10. PICK n : n = Len(s.queue) + 1
  OBVIOUS
<1>11. /\ q \in Seq(Addresses \X Addresses) /\ n \in Nat
       /\ DOMAIN q = (DOMAIN s.queue) \cup {n} /\ n \notin DOMAIN s.queue
       /\ q[n] = r.pair /\ \A i \in DOMAIN s.queue : q[i] = s.queue[i]
  <2>1. /\ q \in Seq(Addresses \X Addresses) /\ Len(q) = n
        /\ \A i \in 1..Len(s.queue) : q[i] = s.queue[i]
        /\ q[n] = r.pair
    BY <1>6, <1>8, <1>9, <1>10, AppendProperties
  <2>2. Len(s.queue) \in Nat /\ DOMAIN s.queue = 1..Len(s.queue) /\ DOMAIN q = 1..Len(q)
    BY <1>9, <2>1, LenProperties
  <2> QED
    BY <1>10, <2>1, <2>2
<1>12. PICK s2 : s2 = WithQueue(s, q)
  OBVIOUS
<1>13. sockets' = (sockets \ {s}) \cup {WithQueue(s, q)}
  BY <1>2, <1>8 DEF WithQueue
<1>14. /\ ObjectTypes' /\ s2.at = s.at /\ s2.dev = s.dev /\ s2.queue = q
       /\ Apart => Apart'
       /\ SockHolds(sockets') = SockItems(s2) \cup SockHolds(sockets \ {s})
       /\ SockHolds(sockets) = SockItems(s) \cup SockHolds(sockets \ {s})
  <2>1. bios' = bios /\ loopback' = loopback /\ devices' = devices /\ next_major' = next_major
    BY <1>5
  <2>2. q \in Seq(Addresses \X Addresses)
    BY <1>11
  <2> QED
    BY <1>1, <1>12, <1>13, <2>1, <2>2, QueueChange
<1> DEFINE p == <<"skb", <<s.at, n>>, a>>
           e == <<"skb data", <<s.at, n>>, d>>
<1>15. SockItems(s2) = {p, e} \cup SockItems(s)
  <2> DEFINE P(v, i) == <<"skb", <<v.at, i>>, v.queue[i][1]>>
             D(v, i) == <<"skb data", <<v.at, i>>, v.queue[i][2]>>
             K == <<"socket", s.dev, s.at>>
             K2 == <<"socket", s2.dev, s2.at>>
  <2>0. K2 = K
    BY <1>14
  <2>1. \A x : x \in SockItems(s2) <=>
          x = K2 \/ (\E i \in DOMAIN s2.queue : x = P(s2, i)) \/ (\E i \in DOMAIN s2.queue : x = D(s2, i))
    BY SockForms
  <2>2. \A x : x \in SockItems(s) <=>
          x = K \/ (\E i \in DOMAIN s.queue : x = P(s, i)) \/ (\E i \in DOMAIN s.queue : x = D(s, i))
    BY SockForms
  <2>3. \A i \in DOMAIN s.queue : P(s2, i) = P(s, i) /\ D(s2, i) = D(s, i)
    BY <1>11, <1>14
  <2>4. P(s2, n) = p /\ D(s2, n) = e
    <3>1. s2.queue[n][1] = a /\ s2.queue[n][2] = d
      BY <1>6, <1>11, <1>14
    <3> QED
      BY <1>14, <3>1
  <2> HIDE DEF P, D, K, K2, p, e
  <2>5. \A x : x \in SockItems(s2) <=> x \in {p, e} \cup SockItems(s)
    BY <1>11, <1>14, <2>0, <2>1, <2>2, <2>3, <2>4
  <2> QED
    BY <2>5
<1>16. p[3] = a /\ e[3] = d /\ Addrs({p, e}) = {a, d}
  <2>1. p[3] = a /\ e[3] = d
    OBVIOUS
  <2> HIDE DEF p, e
  <2> QED
    BY <2>1 DEF Addrs
<1> HIDE DEF p, e
<1>17. ASSUME Owned(heap, Holds) PROVE Owned(heap', Holds')
  <2>1. Holds' = {p, e} \cup Holds
    BY <1>5, <1>14, <1>15, HoldsAfter
  <2>2. \A x, y \in {p, e} : x[3] = y[3] => x = y
    BY <1>4, <1>16
  <2>3. \A x \in {p, e} : x[3] \notin heap
    BY <1>3, <1>4, <1>16
  <2>4. Owned(heap \cup Addrs({p, e}), {p, e} \cup Holds)
    BY <1>17, <2>2, <2>3, Grow
  <2> QED
    BY <1>6, <1>16, <2>1, <2>4
<1> QED
  BY <1>5, <1>7, <1>14, <1>17, ObjectStep


\* socket_recv: the first packet is freed and every other moves up one place.
LEMMA SocketRecvStep == ASSUME IInv, NEW s \in sockets, socket_recv(s) PROVE IInv'
<1>1. VfsTypes /\ ObjectTypes
  BY DEF IInv, Types
<1>2. /\ s.queue # <<>> /\ heap' = Freed(heap, Head(s.queue))
      /\ sockets' = (sockets \ {s}) \cup {[s EXCEPT !.queue = Tail(@)]}
      /\ UNCHANGED Files
      /\ bios' = bios /\ loopback' = loopback /\ devices' = devices /\ next_major' = next_major
  BY DEF socket_recv
<1>3. s.queue \in Seq(Addresses \X Addresses)
  BY <1>1 DEF ObjectTypes, Socket
<1>4. PICK q : q = Tail(s.queue)
  OBVIOUS
<1>5. PICK n : n = Len(s.queue)
  OBVIOUS
<1>6. /\ q \in Seq(Addresses \X Addresses) /\ n \in Nat \ {0}
      /\ DOMAIN q = 1..n - 1 /\ DOMAIN s.queue = 1..n
      /\ Head(s.queue) = s.queue[1] /\ \A i \in 1..n - 1 : q[i] = s.queue[i + 1]
  <2>1. /\ Head(s.queue) = s.queue[1] /\ q \in Seq(Addresses \X Addresses)
        /\ Len(q) = Len(s.queue) - 1 /\ \A i \in 1..Len(q) : q[i] = s.queue[i + 1]
    BY <1>2, <1>3, <1>4, HeadTailProperties
  <2>2. n \in Nat /\ n # 0 /\ DOMAIN s.queue = 1..n /\ DOMAIN q = 1..Len(q)
    BY <1>2, <1>3, <1>5, <2>1, LenProperties, EmptySeq
  <2> QED
    BY <1>5, <2>1, <2>2
<1>7. PICK s2 : s2 = WithQueue(s, q)
  OBVIOUS
<1>8. sockets' = (sockets \ {s}) \cup {WithQueue(s, q)}
  BY <1>2, <1>4 DEF WithQueue
<1>9. /\ ObjectTypes' /\ s2.at = s.at /\ s2.dev = s.dev /\ s2.queue = q
      /\ Apart => Apart' /\ \A r \in sockets \ {s} : r.at # s.at
      /\ SockHolds(sockets') = SockItems(s2) \cup SockHolds(sockets \ {s})
      /\ SockHolds(sockets) = SockItems(s) \cup SockHolds(sockets \ {s})
  BY <1>1, <1>2, <1>6, <1>7, <1>8, QueueChange
<1>10. heap' \subseteq Addresses /\ IsFiniteSet(heap')
  <2>1. heap' \in SUBSET heap /\ heap \subseteq Addresses /\ IsFiniteSet(heap)
    BY <1>1, <1>2 DEF VfsTypes, Freed
  <2> QED
    BY <2>1, FS_Subset
<1>11. ASSUME Owned(heap, Holds), Apart PROVE Owned(heap', Holds')
  <2> DEFINE R == VfsHolds \cup SockHolds(sockets \ {s}) \cup BioHolds(bios) \cup DevHolds(devices)
  <2>1. Holds = SockItems(s) \cup R /\ Holds' = SockItems(s2) \cup R
    BY <1>2, <1>9, HoldsAfter
  <2>2. SockItems(s) \cap R = {}
    BY <1>9, <1>11, SockRest
  <2>3. Distinct(s) /\ SockAddrs(s) \subseteq heap
    BY <1>11, SockOwned
  <2>4. Distinct(s2)
    <3>1. ASSUME NEW i \in 1..n - 1, NEW j \in 1..n - 1
          PROVE  /\ q[i][1] = q[j][1] => i = j
                 /\ q[i][2] = q[j][2] => i = j
                 /\ q[i][1] # q[j][2]
                 /\ q[i][1] # s.at /\ q[i][2] # s.at
      <4>1. q[i] = s.queue[i + 1] /\ q[j] = s.queue[j + 1] /\ i + 1 \in 1..n /\ j + 1 \in 1..n
        BY <1>6
      <4>2. PICK k \in 1..n : k = i + 1
        BY <4>1
      <4>3. PICK l \in 1..n : l = j + 1
        BY <4>1
      <4>4. /\ s.queue[k][1] = s.queue[l][1] => k = l
            /\ s.queue[k][2] = s.queue[l][2] => k = l
            /\ s.queue[k][1] # s.queue[l][2]
            /\ s.queue[k][1] # s.at /\ s.queue[k][2] # s.at
        BY <1>6, <2>3 DEF Distinct
      <4>5. q[i] = s.queue[k] /\ q[j] = s.queue[l] /\ (k = l => i = j)
        BY <4>1, <4>2, <4>3
      <4> QED
        BY <4>4, <4>5
    <3> QED
      BY <1>6, <1>9, <3>1 DEF Distinct
  <2>5. \A x, y \in SockItems(s2) : x[3] = y[3] => x = y
    BY <2>4, SockDistinct
  <2>6. PICK a : a = s.queue[1][1]
    OBVIOUS
  <2>7. PICK d : d = s.queue[1][2]
    OBVIOUS
  <2>8. SockAddrs(s2) = SockAddrs(s) \ {a, d}
    <3>1. SockAddrs(s2) = {s.at} \cup {s.queue[i + 1][1] : i \in 1..n - 1} \cup {s.queue[i + 1][2] : i \in 1..n - 1}
      <4>1. SockAddrs(s2) = {s.at} \cup {q[i][1] : i \in 1..n - 1} \cup {q[i][2] : i \in 1..n - 1}
        BY <1>6, <1>9 DEF SockAddrs
      <4>2. \A i \in 1..n - 1 : q[i][1] = s.queue[i + 1][1] /\ q[i][2] = s.queue[i + 1][2]
        BY <1>6
      <4> QED
        BY <4>1, <4>2
    <3>2. SockAddrs(s) = {s.at} \cup {s.queue[i][1] : i \in 1..n} \cup {s.queue[i][2] : i \in 1..n}
      BY <1>6 DEF SockAddrs
    <3>3. 1 \in 1..n /\ \A i \in 1..n - 1 : i + 1 \in 1..n /\ i + 1 # 1
      BY <1>6
    <3>4. \A i \in 1..n : i = 1 \/ \E j \in 1..n - 1 : i = j + 1
      <4>1. \A i \in 1..n : i # 1 => i - 1 \in 1..n - 1 /\ i = (i - 1) + 1
        BY <1>6
      <4> QED
        BY <4>1
    <3>5. \A i \in 1..n : /\ s.queue[i][1] = a => i = 1
                          /\ s.queue[i][2] = d => i = 1
                          /\ s.queue[i][1] # d /\ s.queue[i][2] # a
      BY <1>6, <2>3, <2>6, <2>7, <3>3 DEF Distinct
    <3>6. s.at # a /\ s.at # d
      BY <1>6, <2>3, <2>6, <2>7, <3>3 DEF Distinct
    <3>7. ASSUME NEW x \in SockAddrs(s2) PROVE x \in SockAddrs(s) \ {a, d}
      BY <3>1, <3>2, <3>3, <3>5, <3>6, <3>7
    <3>8. ASSUME NEW x \in SockAddrs(s) \ {a, d} PROVE x \in SockAddrs(s2)
      BY <2>6, <2>7, <3>1, <3>2, <3>4, <3>8
    <3> QED
      BY <3>7, <3>8
  <2>9. a \in SockAddrs(s) /\ d \in SockAddrs(s)
    BY <1>6, <2>6, <2>7 DEF SockAddrs
  <2>10. heap' = (heap \ SockAddrs(s)) \cup SockAddrs(s2)
    BY <1>2, <1>6, <2>3, <2>6, <2>7, <2>8, <2>9 DEF Freed
  <2>11. Addrs(SockItems(s)) = SockAddrs(s) /\ Addrs(SockItems(s2)) = SockAddrs(s2)
    BY SockAddresses
  <2>12. \A x \in SockItems(s2) : x[3] \in Addrs(SockItems(s))
    <3>1. \A x \in SockItems(s2) : x[3] \in SockAddrs(s2)
      BY <2>11 DEF Addrs
    <3> QED
      BY <2>8, <2>11, <3>1
  <2> HIDE DEF R
  <2> QED
    <3>1. Owned((heap \ Addrs(SockItems(s))) \cup Addrs(SockItems(s2)), SockItems(s2) \cup R)
      BY <1>11, <2>1, <2>2, <2>5, <2>12, Exchange
    <3> QED
      BY <2>1, <2>10, <2>11, <3>1
<1> QED
  BY <1>2, <1>9, <1>10, <1>11, ObjectStep

\* socket_close: the queue is drained and the socket freed, and nothing else.
LEMMA SocketCloseStep == ASSUME IInv, NEW s \in sockets, socket_close(s) PROVE IInv'
<1>1. VfsTypes /\ ObjectTypes
  BY DEF IInv, Types
<1>2. /\ heap' = Drained(heap, s.queue) \ {s.at} /\ sockets' = sockets \ {s}
      /\ UNCHANGED Files
      /\ bios' = bios /\ loopback' = loopback /\ devices' = devices /\ next_major' = next_major
  BY DEF socket_close
<1>3. heap' \subseteq Addresses /\ IsFiniteSet(heap')
  <2>1. heap' \in SUBSET heap /\ heap \subseteq Addresses /\ IsFiniteSet(heap)
    BY <1>1, <1>2 DEF VfsTypes, Drained
  <2> QED
    BY <2>1, FS_Subset
<1>4. ObjectTypes' /\ (Apart => Apart')
  BY <1>1, <1>2 DEF ObjectTypes, Apart
<1>5. heap' = heap \ SockAddrs(s)
  <2>1. s.queue \in Seq(Addresses \X Addresses)
    BY <1>1 DEF ObjectTypes, Socket
  <2>2. \A i \in DOMAIN s.queue : s.queue[i] \in Addresses \X Addresses
    BY <2>1, ElementOfSeq, LenProperties
  <2>3. \A p \in Addresses \X Addresses : ToSet(p) = {p[1], p[2]}
    <3>1. \A p \in Addresses \X Addresses : DOMAIN p = {1, 2}
      OBVIOUS
    <3> QED
      BY <3>1 DEF ToSet
  <2>4. ToSet(s.queue) = {s.queue[i] : i \in DOMAIN s.queue}
    BY DEF ToSet
  <2>5. ASSUME NEW x
        PROVE  x \in UNION {ToSet(p) : p \in ToSet(s.queue)} <=>
                 \E i \in DOMAIN s.queue : x = s.queue[i][1] \/ x = s.queue[i][2]
    <3>1. x \in UNION {ToSet(p) : p \in ToSet(s.queue)} <=> \E p \in ToSet(s.queue) : x \in ToSet(p)
      OBVIOUS
    <3>2. (\E p \in ToSet(s.queue) : x \in ToSet(p)) <=> \E i \in DOMAIN s.queue : x \in ToSet(s.queue[i])
      BY <2>4
    <3>3. \A i \in DOMAIN s.queue : x \in ToSet(s.queue[i]) <=> (x = s.queue[i][1] \/ x = s.queue[i][2])
      BY <2>2, <2>3
    <3> QED
      BY <3>1, <3>2, <3>3
  <2>6. \A x : x \in SockAddrs(s) <=>
          x = s.at \/ \E i \in DOMAIN s.queue : x = s.queue[i][1] \/ x = s.queue[i][2]
    BY DEF SockAddrs
  <2> QED
    BY <1>2, <2>5, <2>6 DEF Drained
<1>6. ASSUME Owned(heap, Holds), Apart PROVE Owned(heap', Holds')
  <2> DEFINE R == VfsHolds \cup SockHolds(sockets \ {s}) \cup BioHolds(bios) \cup DevHolds(devices)
  <2>1. Holds = SockItems(s) \cup R /\ Holds' = R
    <3>1. SockHolds(sockets) = SockItems(s) \cup SockHolds(sockets \ {s})
      BY SockAside
    <3> QED
      BY <1>2, <3>1, HoldsAfter
  <2>2. SockItems(s) \cap R = {}
    <3>1. \A r \in sockets \ {s} : r.at # s.at
      BY <1>6 DEF Apart
    <3> QED
      BY <3>1, SockRest
  <2> HIDE DEF R
  <2> QED
    BY <1>5, <1>6, <2>1, <2>2, SockAddresses, Shrink
<1> QED
  BY <1>2, <1>3, <1>4, <1>6, ObjectStep

\* register_netdev and unregister_netdev: the device is static.
LEMMA NetdevStep == ASSUME IInv, register_netdev \/ unregister_netdev PROVE IInv'
  BY NothingMoves DEF register_netdev, unregister_netdev

-----------------------------------------------------------------------------
(***************************************************************************)
(* Block requests.                                                         *)
(***************************************************************************)
\* A request holds two objects, each named by the other's address.
LEMMA BioForms ==
    ASSUME NEW b \in Addresses \X Addresses, NEW x \in BioItems(b)
    PROVE  \/ x[1] = "bio" /\ x[2] = b[2] /\ x[3] = b[1]
           \/ x[1] = "bio data" /\ x[2] = b[1] /\ x[3] = b[2]
<1>1. x = <<"bio", b[2], b[1]>> \/ x = <<"bio data", b[1], b[2]>>
  BY DEF BioItems
<1>2. CASE x = <<"bio", b[2], b[1]>>
  BY <1>2
<1>3. CASE x = <<"bio data", b[1], b[2]>>
  BY <1>3
<1> QED
  BY <1>1, <1>2, <1>3

\* The addresses a request holds.
LEMMA BioAddresses == ASSUME NEW b PROVE Addrs(BioItems(b)) = {b[1], b[2]}
<1> DEFINE x == <<"bio", b[2], b[1]>>
           y == <<"bio data", b[1], b[2]>>
<1>1. x[3] = b[1] /\ y[3] = b[2] /\ BioItems(b) = {x, y}
  BY DEF BioItems
<1> HIDE DEF x, y
<1> QED
  BY <1>1 DEF Addrs

\* The holdings of the requests, one request set apart.
LEMMA BioAside ==
    /\ \A B, b : BioHolds(B \cup {b}) = BioItems(b) \cup BioHolds(B)
    /\ \A B : \A b \in B : BioHolds(B) = BioItems(b) \cup BioHolds(B \ {b})
<1>1. ASSUME NEW B, NEW b PROVE BioHolds(B \cup {b}) = BioItems(b) \cup BioHolds(B)
  <2>1. \A x : x \in BioHolds(B \cup {b}) <=> x \in BioItems(b) \cup BioHolds(B)
    BY InBio
  <2> QED
    BY <2>1
<1>2. ASSUME NEW B, NEW b \in B PROVE BioHolds(B) = BioItems(b) \cup BioHolds(B \ {b})
  <2>1. B = (B \ {b}) \cup {b}
    OBVIOUS
  <2> QED
    BY <1>1, <2>1
<1> QED
  BY <1>1, <1>2

\* blkdev_alloc_bio: two new objects, or nothing.
LEMMA AllocBioStep == ASSUME IInv, blkdev_alloc_bio PROVE IInv'
<1>1. VfsTypes /\ ObjectTypes
  BY DEF IInv, Types
<1>2. PICK r \in Pairs(heap) : heap' = r.heap /\ bios' = bios \cup ({r.pair} \ {<<>>})
  BY DEF blkdev_alloc_bio
<1>3. /\ sockets' = sockets /\ loopback' = loopback /\ devices' = devices /\ next_major' = next_major
      /\ UNCHANGED Files
  BY DEF blkdev_alloc_bio
<1>4. CASE r = [heap |-> heap, pair |-> <<>>]
  <2>1. heap' = heap /\ bios' = bios
    BY <1>2, <1>4
  <2> QED
    BY <1>1, <1>3, <2>1, NothingMoves DEF ObjectTypes
<1>5. ASSUME NEW a \in Addresses \ heap, NEW d \in Addresses \ heap, a # d,
             r = [heap |-> heap \cup {a, d}, pair |-> <<a, d>>]
      PROVE  IInv'
  <2>1. PICK b : b = <<a, d>>
    OBVIOUS
  <2>2. b \in Addresses \X Addresses /\ b[1] = a /\ b[2] = d /\ Len(b) = 2 /\ Len(<<>>) = 0
    BY <2>1
  <2>3. b # <<>>
    BY <2>2
  <2>4. heap' = heap \cup {a, d} /\ r.pair = b
    BY <1>2, <1>5, <2>1
  <2>5. bios' = bios \cup {b}
    BY <1>2, <2>3, <2>4
  <2>6. heap' \subseteq Addresses /\ IsFiniteSet(heap')
    BY <1>1, <2>4, HeapFinite DEF VfsTypes
  <2>7. ObjectTypes' /\ (Apart => Apart')
    BY <1>1, <1>3, <2>2, <2>5 DEF ObjectTypes, Apart
  <2>8. ASSUME Owned(heap, Holds) PROVE Owned(heap', Holds')
    <3>1. BioHolds(bios') = BioItems(b) \cup BioHolds(bios)
      BY <2>5, BioAside
    <3>2. Holds' = BioItems(b) \cup Holds
      BY <1>3, <3>1, HoldsAfter
    <3>3. Addrs(BioItems(b)) = {a, d}
      BY <2>2, BioAddresses
    <3>4. \A x, y \in BioItems(b) : x[3] = y[3] => x = y
      <4>1. BioItems(b) = {<<"bio", d, a>>, <<"bio data", a, d>>}
        BY <2>2 DEF BioItems
      <4>2. <<"bio", d, a>>[3] = a /\ <<"bio data", a, d>>[3] = d
        OBVIOUS
      <4> QED
        BY <1>5, <4>1, <4>2
    <3>5. \A x \in BioItems(b) : x[3] \notin heap
      BY <1>5, <2>2, BioForms
    <3>6. Owned(heap \cup Addrs(BioItems(b)), BioItems(b) \cup Holds)
      BY <2>8, <3>4, <3>5, Grow
    <3> QED
      BY <2>4, <3>2, <3>3, <3>6
  <2> QED
    BY <1>3, <2>6, <2>7, <2>8, ObjectStep
<1> QED
  BY <1>4, <1>5, PairsFresh

\* blkdev_free_bio: both objects of the request, and no other's.
LEMMA FreeBioStep == ASSUME IInv, NEW b \in bios, blkdev_free_bio(b) PROVE IInv'
<1>1. VfsTypes /\ ObjectTypes /\ b \in Addresses \X Addresses
  BY DEF IInv, Types, ObjectTypes
<1>2. /\ heap' = heap \ {b[1], b[2]} /\ bios' = bios \ {b}
      /\ sockets' = sockets /\ loopback' = loopback /\ devices' = devices /\ next_major' = next_major
      /\ UNCHANGED Files
  BY DEF blkdev_free_bio, Freed
<1>3. heap' \subseteq Addresses /\ IsFiniteSet(heap')
  <2>1. heap' \in SUBSET heap /\ heap \subseteq Addresses /\ IsFiniteSet(heap)
    BY <1>1, <1>2 DEF VfsTypes
  <2> QED
    BY <2>1, FS_Subset
<1>4. ObjectTypes' /\ (Apart => Apart')
  BY <1>1, <1>2 DEF ObjectTypes, Apart
<1>5. ASSUME Owned(heap, Holds) PROVE Owned(heap', Holds')
  <2> DEFINE A == BioItems(b)
             R == VfsHolds \cup SockHolds(sockets) \cup BioHolds(bios \ {b}) \cup DevHolds(devices)
  <2>1. Holds = A \cup R /\ Holds' = R
    <3>1. BioHolds(bios) = BioItems(b) \cup BioHolds(bios \ {b})
      BY BioAside
    <3> QED
      BY <1>2, <3>1, HoldsAfter
  <2>2. A \cap R = {}
    <3>1. \A x \in A : x[1] \in {"bio", "bio data"}
      BY <1>1, BioForms
    <3>2. \A x \in VfsHolds : x[1] \in {"file", "opening", "lost"}
      BY Kinds
    <3>3. \A x \in SockHolds(sockets) : x[1] \in {"socket", "skb", "skb data"}
      BY Kinds
    <3>4. \A x \in DevHolds(devices) : x[1] = "device"
      BY Kinds
    <3>5. A \cap BioHolds(bios \ {b}) = {}
      <4>1. SUFFICES ASSUME NEW x \in A, x \in BioHolds(bios \ {b}) PROVE FALSE
        OBVIOUS
      <4>2. PICK c \in bios \ {b} : x \in BioItems(c)
        BY <4>1, InBio
      <4>3. c \in Addresses \X Addresses /\ c # b
        BY <1>1 DEF ObjectTypes
      <4>4. \/ x[1] = "bio" /\ x[2] = b[2] /\ x[3] = b[1]
            \/ x[1] = "bio data" /\ x[2] = b[1] /\ x[3] = b[2]
        BY <1>1, <4>1, BioForms
      <4>5. \/ x[1] = "bio" /\ x[2] = c[2] /\ x[3] = c[1]
            \/ x[1] = "bio data" /\ x[2] = c[1] /\ x[3] = c[2]
        BY <4>2, <4>3, BioForms
      <4>6. b[1] = c[1] /\ b[2] = c[2]
        BY <4>4, <4>5
      <4> QED
        BY <1>1, <4>3, <4>6
    <3> QED
      BY <3>1, <3>2, <3>3, <3>4, <3>5
  <2> HIDE DEF A, R
  <2>3. Addrs(A) = {b[1], b[2]}
    BY BioAddresses DEF A
  <2> QED
    BY <1>2, <1>5, <2>1, <2>2, <2>3, Shrink
<1> QED
  BY <1>2, <1>3, <1>4, <1>5, ObjectStep

-----------------------------------------------------------------------------
(***************************************************************************)
(* Character devices.                                                      *)
(***************************************************************************)
\* What list_del leaves of device_list.
LEMMA RemoveAtFacts ==
    ASSUME NEW S, NEW q \in Seq(S), NEW i \in 1..Len(q)
    PROVE  /\ RemoveAt(q, i) \in Seq(S)
           /\ Len(RemoveAt(q, i)) = Len(q) - 1
           /\ \A j \in 1..Len(q) - 1 : RemoveAt(q, i)[j] = IF j < i THEN q[j] ELSE q[j + 1]
<1> DEFINE a == SubSeq(q, 1, i - 1)
<1> DEFINE b == SubSeq(q, i + 1, Len(q))
<1>0. Len(q) \in Nat /\ i \in Int /\ i >= 1 /\ i <= Len(q)
  BY LenProperties
<1>1. /\ a \in Seq(S) /\ Len(a) = i - 1
      /\ \A j \in 1..i - 1 : a[j] = q[j]
  <2>1. \A j \in 1..i - 1 : q[j] \in S
    BY <1>0, ElementOfSeq
  <2>2. /\ a \in Seq(S)
        /\ Len(a) = IF 1 <= i - 1 THEN (i - 1) - 1 + 1 ELSE 0
        /\ \A j \in 1..(i - 1) - 1 + 1 : a[j] = q[1 + j - 1]
    BY <1>0, <2>1, SubSeqProperties
  <2> HIDE DEF a
  <2> QED
    BY <1>0, <2>2
<1>2. /\ b \in Seq(S) /\ Len(b) = Len(q) - i
      /\ \A j \in 1..Len(q) - i : b[j] = q[i + j]
  <2>1. \A j \in i + 1..Len(q) : q[j] \in S
    BY <1>0, ElementOfSeq
  <2>2. /\ b \in Seq(S)
        /\ Len(b) = IF i + 1 <= Len(q) THEN Len(q) - (i + 1) + 1 ELSE 0
        /\ \A j \in 1..Len(q) - (i + 1) + 1 : b[j] = q[(i + 1) + j - 1]
    BY <1>0, <2>1, SubSeqProperties
  <2> HIDE DEF b
  <2> QED
    BY <1>0, <2>2
<1>3. RemoveAt(q, i) = a \o b
  BY DEF RemoveAt
<1> HIDE DEF a, b
<1>4. /\ a \o b \in Seq(S)
      /\ Len(a \o b) = Len(a) + Len(b)
      /\ \A j \in 1..Len(a) + Len(b) : (a \o b)[j] = IF j <= Len(a) THEN a[j] ELSE b[j - Len(a)]
  BY <1>1, <1>2, ConcatProperties
<1> QED
  BY <1>0, <1>1, <1>2, <1>3, <1>4

\* register_chrdev: one new object, at the end of device_list.
LEMMA RegisterStep == ASSUME IInv, NEW major \in {0, 1}, register_chrdev(major) PROVE IInv'
<1>1. VfsTypes /\ ObjectTypes
  BY DEF IInv, Types
<1>2. PICK at \in Kmalloc(heap) \ {NULL} :
        /\ heap' = heap \cup {at}
        /\ devices' = Append(devices, <<at, IF major = 0 THEN next_major ELSE major>>)
        /\ next_major' = IF major = 0 THEN next_major + 1 ELSE next_major
  BY DEF register_chrdev
<1>3. sockets' = sockets /\ loopback' = loopback /\ bios' = bios /\ UNCHANGED Files
  BY DEF register_chrdev
<1>4. at \in Addresses \ heap
  BY <1>2, KmallocFresh
<1>5. heap' \subseteq Addresses /\ IsFiniteSet(heap')
  BY <1>1, <1>2, <1>4, FS_AddElement DEF VfsTypes
<1>6. PICK e : e = <<at, IF major = 0 THEN next_major ELSE major>>
  OBVIOUS
<1>7. e \in Addresses \X Nat /\ e[1] = at /\ devices \in Seq(Addresses \X Nat) /\ next_major' \in Nat
  BY <1>1, <1>2, <1>4, <1>6 DEF ObjectTypes
<1>8. PICK n : n = Len(devices) + 1
  OBVIOUS
<1>9. /\ devices' \in Seq(Addresses \X Nat) /\ DOMAIN devices' = (DOMAIN devices) \cup {n}
      /\ devices'[n] = e /\ \A i \in DOMAIN devices : devices'[i] = devices[i]
  <2>1. devices' = Append(devices, e)
    BY <1>2, <1>6
  <2>2. /\ devices' \in Seq(Addresses \X Nat) /\ Len(devices') = n
        /\ \A i \in 1..Len(devices) : devices'[i] = devices[i]
        /\ devices'[n] = e
    BY <1>7, <1>8, <2>1, AppendProperties
  <2>3. Len(devices) \in Nat /\ DOMAIN devices = 1..Len(devices) /\ DOMAIN devices' = 1..Len(devices')
    BY <1>7, <2>2, LenProperties
  <2> QED
    BY <1>8, <2>2, <2>3
<1>10. ObjectTypes' /\ (Apart => Apart')
  BY <1>1, <1>3, <1>7, <1>9 DEF ObjectTypes, Apart
<1>11. ASSUME Owned(heap, Holds) PROVE Owned(heap', Holds')
  <2> DEFINE A == {<<"device", n, at>>}
  <2>1. DevHolds(devices') = A \cup DevHolds(devices)
    <3>1. devices'[n][1] = at /\ \A i \in DOMAIN devices : devices'[i][1] = devices[i][1]
      BY <1>7, <1>9
    <3> QED
      BY <1>9, <3>1 DEF DevHolds
  <2>2. Holds' = A \cup Holds
    BY <1>3, <2>1, HoldsAfter
  <2>3. Addrs(A) = {at} /\ \A x, y \in A : x[3] = y[3] => x = y
    BY DEF Addrs
  <2>4. \A x \in A : x[3] \notin heap
    BY <1>4
  <2> HIDE DEF A
  <2>5. Owned(heap \cup Addrs(A), A \cup Holds)
    BY <1>11, <2>3, <2>4, Grow
  <2> QED
    BY <1>2, <2>2, <2>3, <2>5
<1> QED
  BY <1>3, <1>5, <1>10, <1>11, ObjectStep


\* The holdings of device_list.
LEMMA DevForms ==
    ASSUME NEW D
    PROVE  /\ \A i \in DOMAIN D : <<"device", i, D[i][1]>> \in DevHolds(D)
           /\ \A x \in DevHolds(D) : \E i \in DOMAIN D : x = <<"device", i, D[i][1]>>
           /\ \A i : <<"device", i, D[i][1]>>[2] = i /\ <<"device", i, D[i][1]>>[3] = D[i][1]
  BY DEF DevHolds

\* The addresses of device_list, and when they are distinct.
LEMMA DevAddresses ==
    ASSUME NEW D
    PROVE  /\ Addrs(DevHolds(D)) = {D[i][1] : i \in DOMAIN D}
           /\ (\A x, y \in DevHolds(D) : x[3] = y[3] => x = y) <=>
                (\A i, j \in DOMAIN D : D[i][1] = D[j][1] => i = j)
<1> DEFINE item(i) == <<"device", i, D[i][1]>>
<1>1. /\ \A i \in DOMAIN D : item(i) \in DevHolds(D) /\ item(i)[2] = i /\ item(i)[3] = D[i][1]
      /\ \A x \in DevHolds(D) : \E i \in DOMAIN D : x = item(i)
  BY DevForms
<1> HIDE DEF item
<1>2. \A x \in DevHolds(D) : \E i \in DOMAIN D : x = item(i) /\ x[3] = D[i][1]
  BY <1>1
<1>3. Addrs(DevHolds(D)) = {D[i][1] : i \in DOMAIN D}
  BY <1>1, <1>2 DEF Addrs
<1>4. ASSUME \A x, y \in DevHolds(D) : x[3] = y[3] => x = y,
             NEW i \in DOMAIN D, NEW j \in DOMAIN D, D[i][1] = D[j][1]
      PROVE  i = j
  <2>1. item(i) \in DevHolds(D) /\ item(j) \in DevHolds(D) /\ item(i)[3] = item(j)[3]
    BY <1>1, <1>4
  <2>2. item(i) = item(j)
    BY <1>4, <2>1
  <2>3. i = item(i)[2] /\ j = item(j)[2]
    BY <1>1
  <2> QED
    BY <2>2, <2>3, Zenon
<1>5. ASSUME \A i, j \in DOMAIN D : D[i][1] = D[j][1] => i = j,
             NEW x \in DevHolds(D), NEW y \in DevHolds(D), x[3] = y[3]
      PROVE  x = y
  BY <1>2, <1>5
<1> QED
  BY <1>3, <1>4, <1>5

\* device_unregister: the device is freed and every later one moves up one place.
LEMMA UnregisterStep == ASSUME IInv, NEW i \in DOMAIN devices, device_unregister(i) PROVE IInv'
<1>1. VfsTypes /\ ObjectTypes /\ devices \in Seq(Addresses \X Nat)
  BY DEF IInv, Types, ObjectTypes
<1>2. PICK n : n = Len(devices)
  OBVIOUS
<1>3. n \in Nat /\ DOMAIN devices = 1..n /\ i \in 1..n
  BY <1>1, <1>2, LenProperties
<1>4. /\ heap' = heap \ {devices[i][1]} /\ devices' = RemoveAt(devices, i)
      /\ sockets' = sockets /\ bios' = bios /\ loopback' = loopback /\ next_major' = next_major
      /\ UNCHANGED Files
  BY DEF device_unregister
<1>5. /\ devices' \in Seq(Addresses \X Nat) /\ DOMAIN devices' = 1..n - 1
      /\ \A j \in 1..n - 1 : devices'[j] = IF j < i THEN devices[j] ELSE devices[j + 1]
  <2>1. /\ devices' \in Seq(Addresses \X Nat) /\ Len(devices') = n - 1
        /\ \A j \in 1..n - 1 : devices'[j] = IF j < i THEN devices[j] ELSE devices[j + 1]
    BY <1>1, <1>2, <1>3, <1>4, RemoveAtFacts
  <2> QED
    BY <2>1, LenProperties
<1>6. heap' \subseteq Addresses /\ IsFiniteSet(heap')
  <2>1. heap' \in SUBSET heap /\ heap \subseteq Addresses /\ IsFiniteSet(heap)
    BY <1>1, <1>4 DEF VfsTypes
  <2> QED
    BY <2>1, FS_Subset
<1>7. ObjectTypes' /\ (Apart => Apart')
  BY <1>1, <1>4, <1>5 DEF ObjectTypes, Apart
<1>8. ASSUME Owned(heap, Holds) PROVE Owned(heap', Holds')
  <2> DEFINE A == DevHolds(devices)
             A2 == DevHolds(devices')
             R == VfsHolds \cup SockHolds(sockets) \cup BioHolds(bios)
             at(j) == devices[j][1]
  <2>1. Holds = A \cup R /\ Holds' = A2 \cup R
    BY <1>4, HoldsAfter
  <2>2. A \cap R = {}
    <3>1. \A x \in A : x[1] = "device"
      BY Kinds
    <3>2. \A x \in VfsHolds : x[1] \in {"file", "opening", "lost"}
      BY Kinds
    <3>3. \A x \in SockHolds(sockets) : x[1] \in {"socket", "skb", "skb data"}
      BY Kinds
    <3>4. \A x \in BioHolds(bios) : x[1] \in {"bio", "bio data"}
      BY Kinds
    <3> QED
      BY <3>1, <3>2, <3>3, <3>4
  <2>3. \A x, y \in A : x[3] = y[3] => x = y
    BY <1>8, <2>1 DEF Owned
  <2>4. \A j, k \in 1..n : at(j) = at(k) => j = k
    BY <1>3, <2>3, DevAddresses
  <2>5. Addrs(A) = {at(j) : j \in 1..n}
    BY <1>3, DevAddresses
  <2>6. Addrs(A) \subseteq heap
    BY <1>8, <2>1 DEF Owned, Addrs
  <2>7. Addrs(A2) = {devices'[j][1] : j \in 1..n - 1}
    BY <1>5, DevAddresses
  <2> DEFINE from(j) == IF j < i THEN j ELSE j + 1
  <2>8. \A j \in 1..n - 1 : from(j) \in 1..n /\ from(j) # i /\ devices'[j][1] = at(from(j))
    BY <1>3, <1>5
  <2>9. \A j, k \in 1..n - 1 : from(j) = from(k) => j = k
    BY <1>3
  <2>10. \A k \in 1..n : k # i => \E j \in 1..n - 1 : from(j) = k
    <3>1. ASSUME NEW k \in 1..n, k < i PROVE k \in 1..n - 1 /\ from(k) = k
      BY <1>3, <3>1
    <3>2. ASSUME NEW k \in 1..n, k > i PROVE k - 1 \in 1..n - 1 /\ from(k - 1) = k
      BY <1>3, <3>2
    <3>3. \A k \in 1..n : k < i \/ k = i \/ k > i
      BY <1>3
    <3> HIDE DEF from
    <3> QED
      BY <3>1, <3>2, <3>3
  <2> HIDE DEF from, at
  <2>11. Addrs(A2) = Addrs(A) \ {at(i)}
    <3>1. ASSUME NEW x \in Addrs(A2) PROVE x \in Addrs(A) \ {at(i)}
      <4>1. PICK j \in 1..n - 1 : x = devices'[j][1]
        BY <2>7, <3>1
      <4>2. from(j) \in 1..n /\ from(j) # i /\ x = at(from(j))
        BY <2>8, <4>1
      <4> QED
        BY <1>3, <2>4, <2>5, <4>2
    <3>2. ASSUME NEW x \in Addrs(A) \ {at(i)} PROVE x \in Addrs(A2)
      <4>1. PICK k \in 1..n : x = at(k)
        BY <2>5, <3>2
      <4>2. PICK j \in 1..n - 1 : from(j) = k
        BY <2>10, <3>2, <4>1
      <4>3. x = devices'[j][1]
        BY <2>8, <4>1, <4>2
      <4> QED
        BY <2>7, <4>3
    <3> QED
      BY <3>1, <3>2
  <2>12. \A j, k \in 1..n - 1 : devices'[j][1] = devices'[k][1] => j = k
    BY <2>4, <2>8, <2>9
  <2>13. \A x, y \in A2 : x[3] = y[3] => x = y
    BY <1>5, <2>12, DevAddresses
  <2>14. at(i) \in Addrs(A) /\ heap' = heap \ {at(i)}
    BY <1>3, <1>4, <2>5 DEF at
  <2>15. heap' = (heap \ Addrs(A)) \cup Addrs(A2)
    BY <2>6, <2>11, <2>14
  <2>16. \A x \in A2 : x[3] \in Addrs(A)
    BY <2>11 DEF Addrs
  <2>17. PICK B : B = A2
    OBVIOUS
  <2>18. Owned(heap, A \cup R)
    BY <1>8, <2>1
  <2> HIDE DEF A, A2, R
  <2>19. Owned((heap \ Addrs(A)) \cup Addrs(B), B \cup R)
    BY <2>2, <2>13, <2>16, <2>17, <2>18, Exchange
  <2> QED
    BY <2>1, <2>15, <2>17, <2>19
<1> QED
  BY <1>4, <1>6, <1>7, <1>8, ObjectStep

-----------------------------------------------------------------------------
(***************************************************************************)
(* The theorems.                                                           *)
(***************************************************************************)
\* After vfs_init nothing is held.
LEMMA InitHolds == Init => IInv
<1> SUFFICES ASSUME Init PROVE IInv
  OBVIOUS
<1>1. VfsTypes
  <2>1. IsFiniteSet({})
    BY FS_EmptySet
  <2>2. fd_table \in [Fds -> Addresses \cup {NULL}] /\ \A t \in Threads : call[t] = Idle
    BY DEF Init
  <2> QED
    BY <2>1, <2>2 DEF Init, VfsTypes
<1>2. ObjectTypes
  BY DEF Init, ObjectTypes
<1>3. \A t \in Threads : call[t].op = "idle" /\ call[t] = Idle
  BY DEF Init, Idle
<1>4. CloseAlone /\ OpenAlone
  BY <1>3 DEF Init, CloseAlone, OpenAlone
<1>5. Holds = {}
  <2>1. Held = {} /\ Opening = {} /\ lost = {}
    BY <1>3 DEF Init, Held, Opening
  <2>2. VfsHolds = {}
    BY <2>1 DEF VfsHolds, FileItems, OpenItems, LostItems
  <2>3. SockHolds(sockets) = {} /\ BioHolds(bios) = {} /\ DevHolds(devices) = {}
    BY DEF Init, SockHolds, BioHolds, DevHolds
  <2> QED
    BY <2>2, <2>3, HoldsSplit
<1>6. Ownership
  <2>1. Owned({}, {})
    BY DEF Owned, Addrs
  <2> QED
    BY <1>5, <2>1 DEF Init, Ownership, Apart
<1> QED
  BY <1>1, <1>2, <1>4, <1>6 DEF IInv, Types

\* Every step keeps the inductive invariant.
LEMMA StepHolds == IInv /\ [Next]_vars => IInv'
<1> SUFFICES ASSUME IInv, [Next]_vars PROVE IInv'
  OBVIOUS
<1>1. ASSUME NEW t \in Threads, vfs_open(t) PROVE IInv'
  BY <1>1, OpenStep
<1>2. ASSUME NEW t \in Threads, OpenAlloc(t) PROVE IInv'
  BY <1>2, OpenAllocStep
<1>3. ASSUME NEW t \in Threads, fd_install(t) PROVE IInv'
  BY <1>3, InstallStep
<1>4. ASSUME NEW t \in Threads, CloseFree(t) PROVE IInv'
  BY <1>4, CloseFreeStep
<1>5. ASSUME NEW t \in Threads, CloseClear(t) PROVE IInv'
  BY <1>5, CloseClearStep
<1>6. ASSUME NEW t \in Threads, NEW fd \in Fds, vfs_close(t, fd) PROVE IInv'
  BY <1>6, CloseStep
<1>7. CASE socket_create
  BY <1>7, SocketCreateStep
<1>8. ASSUME NEW s \in sockets, socket_send(s) PROVE IInv'
  BY <1>8, SocketSendStep
<1>9. ASSUME NEW s \in sockets, skb_queue_tail(s) PROVE IInv'
  BY <1>9, QueueTailStep
<1>10. ASSUME NEW s \in sockets, socket_recv(s) PROVE IInv'
  BY <1>10, SocketRecvStep
<1>11. ASSUME NEW s \in sockets, socket_close(s) PROVE IInv'
  BY <1>11, SocketCloseStep
<1>12. CASE register_netdev \/ unregister_netdev
  BY <1>12, NetdevStep
<1>13. CASE blkdev_alloc_bio
  BY <1>13, AllocBioStep
<1>14. ASSUME NEW bio \in bios, blkdev_free_bio(bio) PROVE IInv'
  BY <1>14, FreeBioStep
<1>15. CASE register_chrdev(0) \/ register_chrdev(1)
  BY <1>15, RegisterStep
<1>16. ASSUME NEW i \in DOMAIN devices, device_unregister(i) PROVE IInv'
  BY <1>16, UnregisterStep
<1>17. CASE UNCHANGED vars
  <2>1. UNCHANGED Files /\ heap' = heap /\ sockets' = sockets /\ bios' = bios /\ devices' = devices
        /\ next_major' = next_major /\ loopback' = loopback
    BY <1>17 DEF vars, Files
  <2>2. loopback \in BOOLEAN
    BY DEF IInv, Types, ObjectTypes
  <2> QED
    BY <2>1, <2>2, NothingMoves
<1>18. CASE Next
  BY <1>1, <1>2, <1>3, <1>4, <1>5, <1>6, <1>7, <1>8, <1>9, <1>10, <1>11, <1>12, <1>13, <1>14, <1>15, <1>16, <1>18
     DEF Next
<1> QED
  BY <1>17, <1>18

\* Sole holders are counted by the heap: a bijection from address to holder.
LEMMA OwnedCounts ==
    ASSUME NEW h, NEW H, IsFiniteSet(h), Owned(h, H)
    PROVE  Cardinality(H) = Cardinality(h)
<1> DEFINE f == [a \in h |-> CHOOSE x \in H : x[3] = a]
<1>1. \A a \in h : f[a] \in H /\ f[a][3] = a
  BY DEF Owned, Addrs
<1>2. \A x \in H : x[3] \in h /\ f[x[3]] = x
  <2> TAKE x \in H
  <2>1. x[3] \in h
    BY DEF Owned, Addrs
  <2>2. f[x[3]] \in H /\ f[x[3]][3] = x[3]
    BY <1>1, <2>1
  <2> QED
    BY <2>1, <2>2 DEF Owned
<1>3. f \in [h -> H]
  BY <1>1
<1> HIDE DEF f
<1>4. f \in Injection(h, H)
  <2>1. \A a, b \in h : f[a] = f[b] => a = b
    BY <1>1
  <2> QED
    BY <1>3, <2>1 DEF Injection, IsInjective
<1>5. f \in Surjection(h, H)
  BY <1>2, <1>3 DEF Surjection
<1>6. ExistsBijection(h, H)
  BY <1>4, <1>5 DEF ExistsBijection, Bijection
<1> QED
  BY <1>6, FS_Bijection

\* The inductive invariant holds of every state.
THEOREM ObjectsSound == Spec => []IInv
  BY InitHolds, StepHolds, PTL DEF Spec

(***************************************************************************)
(* Until a close races another call of vfs.c, every object of the kernel   *)
(* heap has exactly one holder among open files, sockets, packets, block   *)
(* requests and devices, and every holder's object is allocated.           *)
(***************************************************************************)
THEOREM ObjectsOwned == Spec => []EveryObjectOwned
<1>1. IInv => EveryObjectOwned
  <2> SUFFICES ASSUME IInv, "close" \notin raced
               PROVE  heap = {h[3] : h \in Holds} /\ Cardinality(Holds) = Cardinality(heap)
    BY DEF EveryObjectOwned
  <2>1. Owned(heap, Holds) /\ IsFiniteSet(heap)
    BY DEF IInv, Ownership, Types, VfsTypes
  <2>2. heap = {h[3] : h \in Holds}
    BY <2>1 DEF Owned, Addrs
  <2> QED
    BY <2>1, <2>2, OwnedCounts
<1> QED
  BY <1>1, ObjectsSound, PTL

(***************************************************************************)
(* vfs.c drops an open file from fd_table only when two calls overlapped.  *)
(***************************************************************************)
THEOREM ObjectsLostOnlyByRaces == Spec => []FilesLostOnlyByRaces
<1>1. IInv => FilesLostOnlyByRaces
  BY DEF IInv, OpenAlone, FilesLostOnlyByRaces
<1> QED
  BY <1>1, ObjectsSound, PTL

=============================================================================
