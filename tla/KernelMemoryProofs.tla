------------------------- MODULE KernelMemoryProofs -------------------------
(***************************************************************************)
(* Proofs about KernelMemory, for every size of memory, of pages and of    *)
(* objects, and any number of caches, slabs, programs and clones.          *)
(***************************************************************************)
EXTENDS KernelMemory, SequenceTheorems, FiniteSetTheorems, WellFoundedInduction, TLAPS

Once(q) == \A i, j \in 1..Len(q) : q[i] = q[j] => i = j

-----------------------------------------------------------------------------
(***************************************************************************)
(* Sequences without repetitions, as sets.                                 *)
(***************************************************************************)
\* The elements of a list of slabs.
LEMMA ToSetFacts ==
    ASSUME NEW S, NEW q \in Seq(S)
    PROVE  /\ Len(q) \in Nat
           /\ ToSet(q) = {q[i] : i \in 1..Len(q)}
           /\ ToSet(q) \subseteq S
           /\ q = <<>> <=> ToSet(q) = {}
<1>1. Len(q) \in Nat /\ DOMAIN q = 1..Len(q)
  BY LenProperties
<1>2. \A i \in 1..Len(q) : q[i] \in S
  BY ElementOfSeq
<1>3. q = <<>> <=> Len(q) = 0
  BY EmptySeq
<1>4. ToSet(q) = {q[i] : i \in 1..Len(q)}
  BY <1>1 DEF ToSet
<1>5. Len(q) = 0 <=> ToSet(q) = {}
  <2>1. Len(q) # 0 => 1 \in 1..Len(q)
    BY <1>1
  <2>2. Len(q) = 0 => 1..Len(q) = {}
    BY <1>1
  <2> QED
    BY <2>1, <2>2, <1>4
<1> QED
  BY <1>1, <1>2, <1>3, <1>4, <1>5

\* A list without repetitions is as long as it has elements.
LEMMA CountElements ==
    ASSUME NEW S, NEW q \in Seq(S), Once(q)
    PROVE  IsFiniteSet(ToSet(q)) /\ Cardinality(ToSet(q)) = Len(q)
<1> DEFINE f == [i \in 1..Len(q) |-> q[i]]
<1>0. Len(q) \in Nat /\ ToSet(q) = {q[i] : i \in 1..Len(q)}
  BY ToSetFacts
<1>1. f \in Bijection(1..Len(q), ToSet(q))
  BY <1>0 DEF Bijection, Injection, Surjection, IsInjective, Once
<1>2. ExistsBijection(1..Len(q), ToSet(q))
  BY <1>1 DEF ExistsBijection
<1>3. IsFiniteSet(1..Len(q)) /\ Cardinality(1..Len(q)) = Len(q)
  BY SMTT(30), <1>0, FS_Interval
<1> QED
  BY <1>0, <1>2, <1>3, FS_Bijection

\* list_add.
LEMMA ConsFacts ==
    ASSUME NEW S, NEW q \in Seq(S), NEW x \in S
    PROVE  /\ <<x>> \o q \in Seq(S)
           /\ Len(<<x>> \o q) = Len(q) + 1
           /\ ToSet(<<x>> \o q) = {x} \cup ToSet(q)
           /\ Once(q) /\ x \notin ToSet(q) => Once(<<x>> \o q)
<1> DEFINE r == <<x>> \o q
<1>0. Len(q) \in Nat /\ ToSet(q) = {q[i] : i \in 1..Len(q)}
  BY ToSetFacts
<1>1. <<x>> \in Seq(S) /\ Len(<<x>>) = 1 /\ <<x>>[1] = x
  OBVIOUS
<1>2. /\ r \in Seq(S) /\ Len(r) = Len(<<x>>) + Len(q)
      /\ \A j \in 1..Len(<<x>>) + Len(q) : r[j] = IF j <= Len(<<x>>) THEN <<x>>[j] ELSE q[j - Len(<<x>>)]
  BY <1>1, ConcatProperties
<1> HIDE DEF r
<1>3. /\ Len(r) = Len(q) + 1 /\ r[1] = x
      /\ \A j \in 1..Len(q) : r[j + 1] = q[j]
      /\ \A j \in 2..Len(q) + 1 : r[j] = q[j - 1]
  BY <1>0, <1>1, <1>2
<1>4. ToSet(r) = {r[i] : i \in 1..Len(r)}
  BY <1>2, ToSetFacts
<1>5. ToSet(r) = {x} \cup ToSet(q)
  <2>1. \A y \in ToSet(r) : y \in {x} \cup ToSet(q)
    <3> SUFFICES ASSUME NEW j \in 1..Len(r) PROVE r[j] \in {x} \cup ToSet(q)
      BY <1>4
    <3>1. CASE j = 1
      BY <3>1, <1>3
    <3>2. CASE j # 1
      <4>1. j - 1 \in 1..Len(q) /\ j \in 2..Len(q) + 1
        BY <3>2, <1>0, <1>3
      <4> QED
        BY <4>1, <1>3, <1>0
    <3> QED
      BY <3>1, <3>2
  <2>2. \A y \in ToSet(q) : y \in ToSet(r)
    <3> SUFFICES ASSUME NEW j \in 1..Len(q) PROVE q[j] \in ToSet(r)
      BY <1>0
    <3>1. j + 1 \in 1..Len(r) /\ r[j + 1] = q[j]
      BY <1>0, <1>3
    <3> QED
      BY <3>1, <1>4
  <2>3. 1 \in 1..Len(r)
    BY <1>3, <1>0
  <2>4. x \in ToSet(r)
    BY <2>3, <1>3, <1>4
  <2> QED
    BY <2>1, <2>2, <2>4
<1>6. ASSUME Once(q), x \notin ToSet(q) PROVE Once(r)
  <2> SUFFICES ASSUME NEW i \in 1..Len(r), NEW j \in 1..Len(r), r[i] = r[j] PROVE i = j
    BY DEF Once
  <2>1. \A m \in 2..Len(q) + 1 : m - 1 \in 1..Len(q) /\ r[m] \in ToSet(q)
    BY <1>0, <1>3
  <2>2. CASE i = 1 \/ j = 1
    BY SMTT(30), <2>1, <2>2, <1>3, <1>0, <1>6
  <2>3. CASE i # 1 /\ j # 1
    <3>1. i - 1 \in 1..Len(q) /\ j - 1 \in 1..Len(q) /\ q[i - 1] = q[j - 1]
      BY <2>3, <1>3, <1>0
    <3>2. i - 1 = j - 1
      BY <3>1, <1>6 DEF Once
    <3> QED
      BY <3>2, <1>0, <1>3
  <2> QED
    BY <2>2, <2>3
<1> QED
  BY <1>2, <1>3, <1>5, <1>6 DEF r

\* list_del, wherever in the list the slab is.
LEMMA RemoveAtFacts ==
    ASSUME NEW S, NEW q \in Seq(S), NEW i \in 1..Len(q)
    PROVE  /\ RemoveAt(q, i) \in Seq(S)
           /\ Len(RemoveAt(q, i)) = Len(q) - 1
           /\ \A j \in 1..Len(q) - 1 : RemoveAt(q, i)[j] = IF j < i THEN q[j] ELSE q[j + 1]
<1> DEFINE a == SubSeq(q, 1, i - 1)
<1> DEFINE b == SubSeq(q, i + 1, Len(q))
<1>0. Len(q) \in Nat /\ i \in Int /\ i >= 1 /\ i <= Len(q)
  BY LenProperties
<1>1. /\ a \in Seq(S) /\ Len(a) = i - 1
      /\ \A j \in 1..i - 1 : a[j] = q[j]
  <2>1. \A j \in 1..i - 1 : q[j] \in S
    BY <1>0, ElementOfSeq
  <2>2. /\ a \in Seq(S)
        /\ Len(a) = IF 1 <= i - 1 THEN (i - 1) - 1 + 1 ELSE 0
        /\ \A j \in 1..(i - 1) - 1 + 1 : a[j] = q[1 + j - 1]
    BY <1>0, <2>1, SubSeqProperties
  <2> HIDE DEF a
  <2> QED
    BY <1>0, <2>2
<1>2. /\ b \in Seq(S) /\ Len(b) = Len(q) - i
      /\ \A j \in 1..Len(q) - i : b[j] = q[i + j]
  <2>1. \A j \in i + 1..Len(q) : q[j] \in S
    BY <1>0, ElementOfSeq
  <2>2. /\ b \in Seq(S)
        /\ Len(b) = IF i + 1 <= Len(q) THEN Len(q) - (i + 1) + 1 ELSE 0
        /\ \A j \in 1..Len(q) - (i + 1) + 1 : b[j] = q[(i + 1) + j - 1]
    BY <1>0, <2>1, SubSeqProperties
  <2> HIDE DEF b
  <2> QED
    BY <1>0, <2>2
<1>3. RemoveAt(q, i) = a \o b
  BY DEF RemoveAt
<1> HIDE DEF a, b
<1>4. /\ a \o b \in Seq(S)
      /\ Len(a \o b) = Len(a) + Len(b)
      /\ \A j \in 1..Len(a) + Len(b) : (a \o b)[j] = IF j <= Len(a) THEN a[j] ELSE b[j - Len(a)]
  BY <1>1, <1>2, ConcatProperties
<1> QED
  BY <1>0, <1>1, <1>2, <1>3, <1>4, SMTT(30)

\* Taking out the element at i of a list without repetitions.
LEMMA DropFacts ==
    ASSUME NEW S, NEW q \in Seq(S), Once(q), NEW i \in 1..Len(q)
    PROVE  /\ Once(RemoveAt(q, i))
           /\ ToSet(RemoveAt(q, i)) = ToSet(q) \ {q[i]}
<1> DEFINE r == RemoveAt(q, i)
<1>0. /\ Len(q) \in Nat /\ ToSet(q) = {q[j] : j \in 1..Len(q)}
      /\ r \in Seq(S) /\ Len(r) = Len(q) - 1
      /\ \A j \in 1..Len(q) - 1 : r[j] = IF j < i THEN q[j] ELSE q[j + 1]
  BY ToSetFacts, RemoveAtFacts
<1> HIDE DEF r
<1>1. ToSet(r) = {r[j] : j \in 1..Len(r)}
  BY <1>0, ToSetFacts
<1> DEFINE at(j) == IF j < i THEN j ELSE j + 1
<1>2. \A j \in 1..Len(r) : at(j) \in 1..Len(q) /\ at(j) # i /\ r[j] = q[at(j)]
  BY <1>0
<1>3. \A j, m \in 1..Len(r) : at(j) = at(m) => j = m
  BY <1>0
<1>4. \A j \in 1..Len(q) : j # i => \E m \in 1..Len(r) : at(m) = j
  <2> SUFFICES ASSUME NEW j \in 1..Len(q), j # i PROVE \E m \in 1..Len(r) : at(m) = j
    OBVIOUS
  <2>1. CASE j < i
    <3>1. j \in 1..Len(r) /\ at(j) = j
      BY <2>1, <1>0
    <3> QED
      BY <3>1
  <2>2. CASE j > i
    <3>1. j - 1 \in 1..Len(r) /\ at(j - 1) = j
      BY <2>2, <1>0
    <3> QED
      BY <3>1
  <2> QED
    BY <2>1, <2>2, <1>0
<1> HIDE DEF at
<1>5. Once(r)
  BY <1>2, <1>3 DEF Once
<1>6. \A x \in ToSet(r) : x \in ToSet(q) \ {q[i]}
  BY <1>0, <1>1, <1>2 DEF Once
<1>7. \A x \in ToSet(q) \ {q[i]} : x \in ToSet(r)
  <2> SUFFICES ASSUME NEW j \in 1..Len(q), q[j] # q[i] PROVE q[j] \in ToSet(r)
    BY <1>0
  <2>1. PICK m \in 1..Len(r) : at(m) = j
    BY <1>4
  <2> QED
    BY <2>1, <1>1, <1>2
<1> QED
  BY <1>5, <1>6, <1>7 DEF r

\* RemoveFirst takes out one element, or none.
LEMMA RemoveFirstFacts ==
    ASSUME NEW S, NEW q \in Seq(S), Once(q), NEW x
    PROVE  /\ RemoveFirst(q, x) \in Seq(S)
           /\ Once(RemoveFirst(q, x))
           /\ ToSet(RemoveFirst(q, x)) = ToSet(q) \ {x}
           /\ Len(RemoveFirst(q, x)) = IF x \in ToSet(q) THEN Len(q) - 1 ELSE Len(q)
<1>0. Len(q) \in Nat /\ ToSet(q) = {q[j] : j \in 1..Len(q)}
  BY ToSetFacts
<1>1. CASE x \notin ToSet(q)
  <2>1. RemoveFirst(q, x) = q
    BY <1>0, <1>1 DEF RemoveFirst
  <2> QED
    BY <2>1, <1>1
<1>2. CASE x \in ToSet(q)
  <2>1. PICK i \in 1..Len(q) : q[i] = x
    BY <1>0, <1>2
  <2>2. {j \in 1..Len(q) : q[j] = x} = {i}
    BY <2>1 DEF Once
  <2>3. Min({i}) = i
    BY <1>0 DEF Min
  <2>4. SelectInSeq(q, LAMBDA v : v = x) = i
    BY <2>2, <2>3 DEF SelectInSeq
  <2>5. RemoveFirst(q, x) = RemoveAt(q, i)
    BY <2>1, <2>4 DEF RemoveFirst
  <2> QED
    BY SMTT(30), <2>1, <2>5, <1>2, RemoveAtFacts, DropFacts
<1> QED
  BY <1>1, <1>2


\* The free list without its first object; the empty slabs but the last.
LEMMA EndsFacts ==
    ASSUME NEW S, NEW q \in Seq(S), Once(q), q # <<>>
    PROVE  /\ Head(q) \in ToSet(q)
           /\ Tail(q) \in Seq(S) /\ Once(Tail(q)) /\ ToSet(Tail(q)) = ToSet(q) \ {Head(q)}
           /\ Last(q) \in ToSet(q)
           /\ Front(q) \in Seq(S) /\ Once(Front(q)) /\ ToSet(Front(q)) = ToSet(q) \ {Last(q)}
<1>0. Len(q) \in Nat /\ Len(q) # 0 /\ ToSet(q) = {q[j] : j \in 1..Len(q)}
  BY ToSetFacts, EmptySeq
<1>a. Len(q) \in Nat /\ Len(q) # 0
  BY <1>0
<1>1. 1 \in 1..Len(q) /\ Len(q) \in 1..Len(q)
  BY <1>0
<1>2. Tail(q) = RemoveAt(q, 1)
  <2>1. /\ Tail(q) \in Seq(S) /\ Len(Tail(q)) = Len(q) - 1
        /\ \A i \in 1..Len(Tail(q)) : Tail(q)[i] = q[i + 1]
    BY HeadTailProperties
  <2>2. /\ RemoveAt(q, 1) \in Seq(S) /\ Len(RemoveAt(q, 1)) = Len(q) - 1
        /\ \A j \in 1..Len(q) - 1 : RemoveAt(q, 1)[j] = IF j < 1 THEN q[j] ELSE q[j + 1]
    BY <1>1, RemoveAtFacts
  <2>3. \A j \in 1..Len(q) - 1 : RemoveAt(q, 1)[j] = q[j + 1]
    BY <2>2, <1>0
  <2> QED
    BY <2>1, <2>2, <2>3, SeqEqual
<1>3. Front(q) = RemoveAt(q, Len(q))
  <2> DEFINE f == SubSeq(q, 1, Len(q) - 1)
  <2>1. \A j \in 1..Len(q) - 1 : q[j] \in S
    BY <1>0, ElementOfSeq
  <2>2. /\ f \in Seq(S)
        /\ Len(f) = IF 1 <= Len(q) - 1 THEN (Len(q) - 1) - 1 + 1 ELSE 0
        /\ \A j \in 1..(Len(q) - 1) - 1 + 1 : f[j] = q[1 + j - 1]
    BY <1>0, <2>1, SubSeqProperties
  <2> HIDE DEF f
  <2>a. Len(f) = Len(q) - 1
    <3>1. CASE Len(q) = 1
      BY <3>1, <2>2
    <3>2. CASE Len(q) > 1
      BY <3>2, <2>2, <1>0
    <3>3. \A n \in Nat : n = 0 \/ n = 1 \/ n > 1
      OBVIOUS
    <3>4. Len(q) = 1 \/ Len(q) > 1
      BY <1>a, <3>3
    <3> QED
      BY <3>1, <3>2, <3>4
  <2>b. \A j \in 1..Len(q) - 1 : f[j] = q[j]
    <3> TAKE j \in 1..Len(q) - 1
    <3>1. j \in 1..(Len(q) - 1) - 1 + 1 /\ 1 + j - 1 = j
      BY <1>0
    <3> QED
      BY <2>2, <3>1
  <2>3. Len(f) = Len(q) - 1 /\ \A j \in 1..Len(q) - 1 : f[j] = q[j]
    BY <2>a, <2>b
  <2>4. /\ RemoveAt(q, Len(q)) \in Seq(S) /\ Len(RemoveAt(q, Len(q))) = Len(q) - 1
        /\ \A j \in 1..Len(q) - 1 : RemoveAt(q, Len(q))[j] = IF j < Len(q) THEN q[j] ELSE q[j + 1]
    BY <1>1, RemoveAtFacts
  <2>5. \A j \in 1..Len(q) - 1 : RemoveAt(q, Len(q))[j] = q[j]
    BY <2>4, <1>0
  <2>6. f = RemoveAt(q, Len(q))
    BY <2>2, <2>3, <2>4, <2>5, SeqEqual
  <2> QED
    BY <2>6 DEF Front, f
<1>4. Head(q) = q[1] /\ Last(q) = q[Len(q)]
  BY HeadTailProperties DEF Last
<1>5. /\ RemoveAt(q, 1) \in Seq(S) /\ Once(RemoveAt(q, 1))
      /\ ToSet(RemoveAt(q, 1)) = ToSet(q) \ {q[1]}
  BY <1>1, RemoveAtFacts, DropFacts
<1>6. /\ RemoveAt(q, Len(q)) \in Seq(S) /\ Once(RemoveAt(q, Len(q)))
      /\ ToSet(RemoveAt(q, Len(q))) = ToSet(q) \ {q[Len(q)]}
  BY <1>1, RemoveAtFacts, DropFacts
<1>7. q[1] \in ToSet(q) /\ q[Len(q)] \in ToSet(q)
  BY <1>0, <1>1
<1> QED
  BY <1>2, <1>3, <1>4, <1>5, <1>6, <1>7

-----------------------------------------------------------------------------
(***************************************************************************)
(* The physical memory manager keeps its invariant under its callers.      *)
(***************************************************************************)
Manager == INSTANCE PmmProofs WITH BlockSize <- PageWords, Counts <- {}, Regions <- {}

PmmInv == Manager!Inv /\ pinned = {}

\* pmm.c finds the sizes it needs.
LEMMA ManagerAssumption == Manager!PmmAssumption
BY VmmAssumption DEF Manager!PmmAssumption, Reserved

\* What the invariant says of the bitmap.
LEMMA PmmInvFacts ==
    ASSUME PmmInv
    PROVE  bitmap \subseteq Blocks /\ 0..Reserved - 1 \subseteq bitmap
BY DEF PmmInv, Manager!Inv, Manager!TypeOK, Manager!BlocksAccounted, Manager!Blocks, Blocks,
       Manager!KernelBlocks

\* pmm_alloc_block finds the lowest free block, which is not the kernel's.
LEMMA Found ==
    ASSUME PmmInv, Pmm!bitmap_find_free # Pmm!NotFound
    PROVE  /\ Pmm!bitmap_find_free \in Blocks \ bitmap
           /\ \A b \in Blocks : b < Pmm!bitmap_find_free => b \in bitmap
<1>1. Manager!bitmap_find_free = Pmm!bitmap_find_free /\ Manager!NotFound = Pmm!NotFound
  BY DEF Manager!bitmap_find_free, Pmm!bitmap_find_free, Manager!Least, Pmm!Least,
         Manager!BitsOf, Pmm!BitsOf, Manager!WordsWithRoom, Pmm!WordsWithRoom,
         Manager!NotFound, Pmm!NotFound
<1>2. Manager!FindsLowestFree
  BY ManagerAssumption, Manager!FindFreeCorrect DEF PmmInv, Manager!Inv
<1>3. /\ Manager!bitmap_find_free \in Manager!Blocks \ bitmap
      /\ 0..Manager!bitmap_find_free - 1 \subseteq bitmap
  BY <1>1, <1>2 DEF Manager!FindsLowestFree
<1> QED
  BY <1>1, <1>3, VmmAssumption DEF Manager!Blocks, Blocks

\* The bits and counts of a block that is handed out.
LEMMA Taken ==
    ASSUME PmmInv, NEW b \in Blocks \ bitmap, Pmm!TakeBlocks({b})
    PROVE  PmmInv' /\ bitmap' = bitmap \cup {b}
<1>1. Manager!TakeBlocks({b}) /\ bitmap' = bitmap \cup {b} /\ pinned' = pinned
  BY DEF Manager!TakeBlocks, Pmm!TakeBlocks, Manager!Blocks, Pmm!Blocks,
         Manager!Cardinality, Pmm!Cardinality
<1>2. Manager!Inv'
  BY <1>1, ManagerAssumption, Manager!TakePreserves DEF PmmInv, Manager!Blocks, Blocks
<1> QED
  BY <1>1, <1>2 DEF PmmInv

\* Blocks that are given back by their holder.
LEMMA GivenBack ==
    ASSUME PmmInv, NEW B, B \subseteq bitmap, B \cap (0..Reserved - 1) = {}, Pmm!GiveBack(B)
    PROVE  PmmInv' /\ bitmap' = bitmap \ B
<1>1. Manager!GiveBack(B) /\ bitmap' = bitmap \ B /\ pinned' = pinned
  BY DEF Manager!GiveBack, Pmm!GiveBack, Manager!Blocks, Pmm!Blocks,
         Manager!Cardinality, Pmm!Cardinality
<1>2. B \subseteq Manager!Blocks /\ B \cap bitmap \subseteq Manager!held
  BY DEF PmmInv, Manager!Inv, Manager!TypeOK, Manager!BlocksAccounted, Manager!KernelBlocks
<1>3. Manager!Inv'
  BY <1>1, <1>2, ManagerAssumption, Manager!GiveBackPreserves DEF PmmInv
<1> QED
  BY <1>1, <1>3 DEF PmmInv

-----------------------------------------------------------------------------
(***************************************************************************)
(* The lists of a cache.                                                   *)
(***************************************************************************)
CacheRecord ==
    [live : BOOLEAN, object_size : Nat \ {0}, num_active : Int, num_slabs : Int,
     full : Seq(Blocks), partial : Seq(Blocks), empty : Seq(Blocks)]

SlabRecord == [objects : Nat, inuse : Nat, freelist : Seq(Nat)]

\* Every slab is on one list, once, and num_slabs counts them.
Listed(k) ==
    /\ k \in CacheRecord
    /\ Once(k.full) /\ Once(k.partial) /\ Once(k.empty)
    /\ ToSet(k.full) \cap ToSet(k.partial) = {}
    /\ ToSet(k.full) \cap ToSet(k.empty) = {}
    /\ ToSet(k.partial) \cap ToSet(k.empty) = {}
    /\ k.num_slabs = Cardinality(SlabsOf(k))

\* The lists of a cache are lists of blocks.
LEMMA ListedFacts ==
    ASSUME NEW k, Listed(k)
    PROVE  /\ k.full \in Seq(Blocks) /\ k.partial \in Seq(Blocks) /\ k.empty \in Seq(Blocks)
           /\ SlabsOf(k) \subseteq Blocks
<1>1. k.full \in Seq(Blocks) /\ k.partial \in Seq(Blocks) /\ k.empty \in Seq(Blocks)
  BY DEF Listed, CacheRecord
<1> QED
  BY <1>1, ToSetFacts DEF SlabsOf

\* list_del takes the slab off the one list it is on.
LEMMA UnlinkFacts ==
    ASSUME NEW k, Listed(k), NEW b
    PROVE  LET m == Unlink(k, b)
           IN  /\ m \in CacheRecord
               /\ m.live = k.live /\ m.object_size = k.object_size
               /\ m.num_active = k.num_active /\ m.num_slabs = k.num_slabs
               /\ Once(m.full) /\ Once(m.partial) /\ Once(m.empty)
               /\ ToSet(m.full) = ToSet(k.full) \ {b}
               /\ ToSet(m.partial) = ToSet(k.partial) \ {b}
               /\ ToSet(m.empty) = ToSet(k.empty) \ {b}
<1> DEFINE m == Unlink(k, b)
<1>0. k \in CacheRecord /\ k.full \in Seq(Blocks) /\ k.partial \in Seq(Blocks) /\ k.empty \in Seq(Blocks)
  BY ListedFacts DEF Listed
<1> DEFINE f == RemoveFirst(k.full, b)
<1> DEFINE p == RemoveFirst(k.partial, b)
<1> DEFINE e == RemoveFirst(k.empty, b)
<1>1. /\ f \in Seq(Blocks) /\ Once(f) /\ ToSet(f) = ToSet(k.full) \ {b}
      /\ p \in Seq(Blocks) /\ Once(p) /\ ToSet(p) = ToSet(k.partial) \ {b}
      /\ e \in Seq(Blocks) /\ Once(e) /\ ToSet(e) = ToSet(k.empty) \ {b}
  BY <1>0, RemoveFirstFacts DEF Listed
<1>2. m = [k EXCEPT !.full = f, !.partial = p, !.empty = e]
  BY DEF Unlink
<1> HIDE DEF f, p, e
<1>3. /\ m \in CacheRecord
      /\ m.live = k.live /\ m.object_size = k.object_size
      /\ m.num_active = k.num_active /\ m.num_slabs = k.num_slabs
      /\ m.full = f /\ m.partial = p /\ m.empty = e
  BY <1>0, <1>1, <1>2 DEF CacheRecord
<1> QED
  BY <1>1, <1>3

\* What list_add to the list for that many objects in use makes of k.
Placed(m, k, b, inuse, objects) ==
    /\ Listed(m) /\ SlabsOf(m) = SlabsOf(k)
    /\ m.live = k.live /\ m.object_size = k.object_size /\ m.num_active = k.num_active
    /\ ToSet(m.full) = (ToSet(k.full) \ {b}) \cup (IF inuse = objects THEN {b} ELSE {})
    /\ ToSet(m.empty) = (ToSet(k.empty) \ {b}) \cup
                           (IF inuse # objects /\ inuse = 0 THEN {b} ELSE {})
    /\ ToSet(m.partial) = (ToSet(k.partial) \ {b}) \cup
                           (IF inuse # objects /\ inuse # 0 THEN {b} ELSE {})

\* Place moves the slab to the one list for its objects in use.
LEMMA PlaceFacts ==
    ASSUME NEW k, Listed(k), NEW b \in SlabsOf(k), NEW inuse, NEW objects, objects # 0
    PROVE  Placed(Place(k, b, inuse, objects), k, b, inuse, objects)
<1> DEFINE u == Unlink(k, b)
<1> DEFINE m == Place(k, b, inuse, objects)
<1>0. k \in CacheRecord /\ b \in Blocks
  BY ListedFacts DEF Listed
<1>1. /\ u \in CacheRecord
      /\ u.live = k.live /\ u.object_size = k.object_size
      /\ u.num_active = k.num_active /\ u.num_slabs = k.num_slabs
      /\ Once(u.full) /\ Once(u.partial) /\ Once(u.empty)
      /\ ToSet(u.full) = ToSet(k.full) \ {b}
      /\ ToSet(u.partial) = ToSet(k.partial) \ {b}
      /\ ToSet(u.empty) = ToSet(k.empty) \ {b}
  BY UnlinkFacts
<1>2. u.full \in Seq(Blocks) /\ u.partial \in Seq(Blocks) /\ u.empty \in Seq(Blocks)
  BY <1>1 DEF CacheRecord
<1>4. \A q \in {u.full, u.partial, u.empty} :
         /\ <<b>> \o q \in Seq(Blocks)
         /\ ToSet(<<b>> \o q) = {b} \cup ToSet(q) /\ Once(<<b>> \o q)
  BY <1>0, <1>1, <1>2, ConsFacts
<1>5. CASE inuse = objects
  <2>1. m = [u EXCEPT !.full = <<b>> \o u.full]
    BY <1>5 DEF Place
  <2> HIDE DEF u, m
  <2>2. /\ m \in CacheRecord /\ m.live = u.live /\ m.object_size = u.object_size /\ m.num_active = u.num_active
        /\ m.num_slabs = u.num_slabs
        /\ m.full = <<b>> \o u.full /\ m.partial = u.partial /\ m.empty = u.empty
    BY <2>1, <1>1, <1>4 DEF CacheRecord
  <2>3. SlabsOf(m) = SlabsOf(k)
    BY <2>2, <1>1, <1>4 DEF SlabsOf
  <2>4. Listed(m)
    BY <2>2, <2>3, <1>1, <1>4 DEF Listed
  <2> QED
    BY <2>2, <2>3, <2>4, <1>1, <1>4, <1>5 DEF m, Placed
<1>6. CASE inuse # objects /\ inuse = 0
  <2>1. m = [u EXCEPT !.empty = <<b>> \o u.empty]
    BY <1>6 DEF Place
  <2> HIDE DEF u, m
  <2>2. /\ m \in CacheRecord /\ m.live = u.live /\ m.object_size = u.object_size /\ m.num_active = u.num_active
        /\ m.num_slabs = u.num_slabs
        /\ m.full = u.full /\ m.partial = u.partial /\ m.empty = <<b>> \o u.empty
    BY <2>1, <1>1, <1>4 DEF CacheRecord
  <2>3. SlabsOf(m) = SlabsOf(k)
    BY <2>2, <1>1, <1>4 DEF SlabsOf
  <2>4. Listed(m)
    BY <2>2, <2>3, <1>1, <1>4 DEF Listed
  <2> QED
    BY <2>2, <2>3, <2>4, <1>1, <1>4, <1>6 DEF m, Placed
<1>7. CASE inuse # objects /\ inuse # 0
  <2>1. m = [u EXCEPT !.partial = <<b>> \o u.partial]
    BY <1>7 DEF Place
  <2> HIDE DEF u, m
  <2>2. /\ m \in CacheRecord /\ m.live = u.live /\ m.object_size = u.object_size /\ m.num_active = u.num_active
        /\ m.num_slabs = u.num_slabs
        /\ m.full = u.full /\ m.partial = <<b>> \o u.partial /\ m.empty = u.empty
    BY <2>1, <1>1, <1>4 DEF CacheRecord
  <2>3. SlabsOf(m) = SlabsOf(k)
    BY <2>2, <1>1, <1>4 DEF SlabsOf
  <2>4. Listed(m)
    BY <2>2, <2>3, <1>1, <1>4 DEF Listed
  <2> QED
    BY <2>2, <2>3, <2>4, <1>1, <1>4, <1>7 DEF m, Placed
<1> QED
  BY <1>5, <1>6, <1>7

-----------------------------------------------------------------------------
(***************************************************************************)
(* The invariant of the slab allocator, on its caches, its slabs and the   *)
(* objects lent, over the bits set in the bitmap.                          *)
(***************************************************************************)
\* The objects of slab b are lent or once on its free list.
Filled(s, b, le) ==
    /\ s.objects > 0 /\ Once(s.freelist) /\ ToSet(s.freelist) \subseteq 1..s.objects
    /\ \A i \in 1..s.objects : <<b, i>> \in le <=> i \notin ToSet(s.freelist)
    /\ s.inuse = Cardinality({o \in le : o[1] = b})

\* The lists of cache k go by the objects in use.
Sorted(k, sl) ==
    /\ \A b \in ToSet(k.full) : sl[b].inuse = sl[b].objects
    /\ \A b \in ToSet(k.empty) : sl[b].inuse = 0
    /\ \A b \in ToSet(k.partial) : sl[b].inuse > 0 /\ sl[b].inuse < sl[b].objects

Frames == Blocks \ (0..Reserved - 1)

SlabTypes(ca, sl, le) ==
    /\ DOMAIN ca = Caches /\ ca = [c \in Caches |-> ca[c]]
    /\ sl \in [Blocks -> SlabRecord]
    /\ IsFiniteSet(le) /\ le \subseteq Blocks \X Nat

ActiveIn(k, le) == {o \in le : o[1] \in SlabsOf(k)}

CacheSound(k, sl, le, bm) ==
    /\ Listed(k) /\ SlabsOf(k) \subseteq bm \cap Frames
    /\ k.live \/ SlabsOf(k) = {}
    /\ \A b \in SlabsOf(k) : Filled(sl[b], b, le) /\ sl[b].objects * k.object_size <= BlockBytes
    /\ Sorted(k, sl)
    /\ k.num_active = Cardinality(ActiveIn(k, le))

CachesApart(ca) == \A c, d \in Caches : c # d => SlabsOf(ca[c]) \cap SlabsOf(ca[d]) = {}

LentListed(ca, sl, le) ==
    \A o \in le : \E c \in Caches : o[1] \in SlabsOf(ca[c]) /\ o[2] \in 1..sl[o[1]].objects

SlabInv(ca, sl, le, bm) ==
    /\ SlabTypes(ca, sl, le) /\ CachesApart(ca) /\ LentListed(ca, sl, le)
    /\ \A c \in Caches : CacheSound(ca[c], sl, le, bm)

\* Another cache does not notice.
LEMMA OtherCaches ==
    ASSUME NEW k, NEW sl, NEW le, NEW bm, CacheSound(k, sl, le, bm), NEW sl2, NEW le2, NEW bm2,
           \A b \in SlabsOf(k) : sl2[b] = sl[b] /\ b \in bm2,
           \A o \in le \cup le2 : o[1] \in SlabsOf(k) => (o \in le <=> o \in le2)
    PROVE  CacheSound(k, sl2, le2, bm2)
<1>1. ActiveIn(k, le2) = ActiveIn(k, le)
  BY DEF ActiveIn
<1>2. \A b \in SlabsOf(k) : {o \in le2 : o[1] = b} = {o \in le : o[1] = b}
  OBVIOUS
<1>3. \A b \in SlabsOf(k) : Filled(sl2[b], b, le2)
  <2> SUFFICES ASSUME NEW b \in SlabsOf(k) PROVE Filled(sl2[b], b, le2)
    OBVIOUS
  <2>1. Filled(sl[b], b, le)
    BY DEF CacheSound
  <2>2. \A i : <<b, i>>[1] = b
    OBVIOUS
  <2>3. \A i : <<b, i>> \in le2 <=> <<b, i>> \in le
    BY <2>2
  <2>4. sl2[b] = sl[b] /\ Cardinality({o \in le2 : o[1] = b}) = Cardinality({o \in le : o[1] = b})
    BY <1>2
  <2> QED
    BY <2>1, <2>3, <2>4 DEF Filled
<1>4. Sorted(k, sl2)
  BY DEF CacheSound, Sorted, SlabsOf
<1>5. \A b \in SlabsOf(k) : sl2[b].objects * k.object_size <= BlockBytes
  BY DEF CacheSound
<1> QED
  BY <1>1, <1>3, <1>4, <1>5 DEF CacheSound

\* A slab without its first free object, a cache with another count.
LEMMA PopFacts ==
    ASSUME NEW s \in SlabRecord, Tail(s.freelist) \in Seq(Nat)
    PROVE  /\ Pop(s) \in SlabRecord
           /\ Pop(s).objects = s.objects /\ Pop(s).inuse = s.inuse + 1
           /\ Pop(s).freelist = Tail(s.freelist)
<1> DEFINE n == s.inuse + 1
<1> DEFINE t == Tail(s.freelist)
<1>1. n \in Nat /\ t \in Seq(Nat) /\ Pop(s) = [s EXCEPT !.inuse = n, !.freelist = t]
  BY DEF SlabRecord, Pop
<1> HIDE DEF n, t
<1>2. /\ Pop(s) \in SlabRecord /\ Pop(s).objects = s.objects
      /\ Pop(s).inuse = n /\ Pop(s).freelist = t
  BY <1>1 DEF SlabRecord
<1> QED
  BY <1>2 DEF n, t

LEMMA CountFacts ==
    ASSUME NEW k \in CacheRecord, NEW n \in Int
    PROVE  LET m == [k EXCEPT !.num_active = n]
           IN  /\ m \in CacheRecord /\ m.live = k.live /\ m.object_size = k.object_size
               /\ m.full = k.full /\ m.empty = k.empty /\ m.partial = k.partial
               /\ m.num_active = n /\ m.num_slabs = k.num_slabs
BY DEF CacheRecord

\* kmem_cache_alloc takes the first object of a slab that has one.
LEMMA AllocKeeps ==
    ASSUME NEW ca, NEW sl, NEW le, NEW bm, SlabInv(ca, sl, le, bm), NEW c \in Caches,
           NEW b \in ToSet(ca[c].partial) \cup ToSet(ca[c].empty), sl[b].freelist # <<>>
    PROVE  SlabInv([ca EXCEPT ![c] = [Place(ca[c], b, Pop(sl[b]).inuse, sl[b].objects)
                                         EXCEPT !.num_active = @ + 1]],
                   [sl EXCEPT ![b] = Pop(sl[b])],
                   le \cup {<<b, Head(sl[b].freelist)>>}, bm)
<1> DEFINE k == ca[c]
<1> DEFINE s == sl[b]
<1> DEFINE s2 == Pop(s)
<1> DEFINE p == Place(k, b, s2.inuse, s.objects)
<1> DEFINE k2 == [p EXCEPT !.num_active = @ + 1]
<1> DEFINE ca2 == [ca EXCEPT ![c] = k2]
<1> DEFINE sl2 == [sl EXCEPT ![b] = s2]
<1> DEFINE x == <<b, Head(s.freelist)>>
<1> DEFINE le2 == le \cup {x}
<1>0. /\ SlabTypes(ca, sl, le) /\ CachesApart(ca) /\ LentListed(ca, sl, le)
      /\ \A d \in Caches : CacheSound(ca[d], sl, le, bm)
  BY DEF SlabInv
<1>1. CacheSound(k, sl, le, bm) /\ Listed(k) /\ b \in SlabsOf(k) /\ b \in Blocks
  BY <1>0, ListedFacts DEF CacheSound, SlabsOf
<1>2. s \in SlabRecord /\ s.freelist \in Seq(Nat) /\ s.objects \in Nat /\ s.inuse \in Nat
  BY <1>0, <1>1 DEF SlabTypes, SlabRecord
<1>3. Filled(s, b, le) /\ s.objects * k.object_size <= BlockBytes
  BY <1>1 DEF CacheSound
<1>4. s.inuse < s.objects
  BY <1>1, <1>2, <1>3 DEF CacheSound, Sorted, Filled
<1>5. /\ Head(s.freelist) \in ToSet(s.freelist)
      /\ Tail(s.freelist) \in Seq(Nat) /\ Once(Tail(s.freelist))
      /\ ToSet(Tail(s.freelist)) = ToSet(s.freelist) \ {Head(s.freelist)}
  BY <1>2, <1>3, EndsFacts DEF Filled
<1>6. Head(s.freelist) \in 1..s.objects /\ Head(s.freelist) \in Nat
  BY <1>2, <1>3, <1>5 DEF Filled
<1>7. s2 \in SlabRecord /\ s2.objects = s.objects /\ s2.inuse = s.inuse + 1 /\ s2.freelist = Tail(s.freelist)
  BY <1>2, <1>5, PopFacts
<1>8. x \notin le /\ x[1] = b /\ x \in Blocks \X Nat
  BY <1>1, <1>3, <1>5, <1>6 DEF Filled
<1>9. /\ Listed(p) /\ SlabsOf(p) = SlabsOf(k) /\ p.live = k.live
      /\ p.object_size = k.object_size /\ p.num_active = k.num_active
      /\ ToSet(p.full) = (ToSet(k.full) \ {b}) \cup (IF s2.inuse = s.objects THEN {b} ELSE {})
      /\ ToSet(p.empty) = (ToSet(k.empty) \ {b}) \cup
                             (IF s2.inuse # s.objects /\ s2.inuse = 0 THEN {b} ELSE {})
      /\ ToSet(p.partial) = (ToSet(k.partial) \ {b}) \cup
                             (IF s2.inuse # s.objects /\ s2.inuse # 0 THEN {b} ELSE {})
  <2>1. s.objects # 0
    BY <1>2, <1>3 DEF Filled
  <2> HIDE DEF s2, s, k
  <2>2. Placed(p, k, b, s2.inuse, s.objects)
    BY <1>1, <2>1, PlaceFacts
  <2> QED
    BY <2>2 DEF Placed
<1> HIDE DEF s2, p, x
<1>10. /\ Listed(k2) /\ SlabsOf(k2) = SlabsOf(k) /\ k2.live = k.live /\ k2.object_size = k.object_size
       /\ k2.full = p.full /\ k2.empty = p.empty /\ k2.partial = p.partial
       /\ k2.num_active = k.num_active + 1
  <2>1. p \in CacheRecord
    BY <1>9 DEF Listed
  <2>2. /\ k2 \in CacheRecord /\ k2.live = p.live /\ k2.object_size = p.object_size
        /\ k2.full = p.full /\ k2.empty = p.empty /\ k2.partial = p.partial
        /\ k2.num_active = p.num_active + 1 /\ k2.num_slabs = p.num_slabs
    <3>1. p.num_active + 1 \in Int /\ k2 = [p EXCEPT !.num_active = p.num_active + 1]
      BY <2>1 DEF CacheRecord
    <3> QED
      BY <2>1, <3>1, CountFacts
  <2> QED
    BY <2>2, <1>9 DEF Listed, SlabsOf
<1> HIDE DEF k2
<1>11. /\ DOMAIN ca2 = Caches /\ ca2 = [d \in Caches |-> ca2[d]]
       /\ ca2[c] = k2 /\ \A d \in Caches : d # c => ca2[d] = ca[d]
  BY <1>0 DEF SlabTypes
<1>12. sl2 \in [Blocks -> SlabRecord] /\ sl2[b] = s2 /\ \A y \in Blocks : y # b => sl2[y] = sl[y]
  BY <1>0, <1>1, <1>7 DEF SlabTypes
<1>13. IsFiniteSet(le2) /\ le2 \subseteq Blocks \X Nat
  BY <1>0, <1>8, FS_AddElement DEF SlabTypes
<1> HIDE DEF ca2, sl2
<1>14. \A d \in Caches : SlabsOf(ca2[d]) = SlabsOf(ca[d])
  BY <1>10, <1>11
<1>15. CachesApart(ca2)
  BY <1>0, <1>14 DEF CachesApart
<1>16. LentListed(ca2, sl2, le2)
  <2> SUFFICES ASSUME NEW o \in le2
               PROVE  \E d \in Caches : o[1] \in SlabsOf(ca2[d]) /\ o[2] \in 1..sl2[o[1]].objects
    BY DEF LentListed
  <2>1. CASE o = x
    <3>1. o[1] = b /\ o[2] = Head(s.freelist)
      BY <2>1 DEF x
    <3> QED
      BY <3>1, <1>1, <1>6, <1>7, <1>12, <1>14
  <2>2. CASE o \in le
    <3>1. PICK d \in Caches : o[1] \in SlabsOf(ca[d]) /\ o[2] \in 1..sl[o[1]].objects
      BY <2>2, <1>0 DEF LentListed
    <3>2. o[1] \in Blocks
      BY <2>2, <1>0 DEF SlabTypes
    <3>3. sl2[o[1]].objects = sl[o[1]].objects
      BY <3>2, <1>7, <1>12
    <3> QED
      BY <3>1, <3>3, <1>14
  <2> QED
    BY <2>1, <2>2
<1>17. CacheSound(k2, sl2, le2, bm)
  <2>1. Sorted(k2, sl2)
    <3>1. \A y \in ToSet(k.full) \cup ToSet(k.empty) \cup ToSet(k.partial) : y \in Blocks
      BY <1>1, ListedFacts DEF SlabsOf
    <3>2. Sorted(k, sl)
      BY <1>1 DEF CacheSound
    <3>3. s2.inuse # 0
      BY <1>2, <1>7
    <3>4. \A y \in ToSet(k2.full) : sl2[y].inuse = sl2[y].objects
      BY <3>1, <3>2, <1>7, <1>9, <1>10, <1>12 DEF Sorted
    <3>5. \A y \in ToSet(k2.empty) : sl2[y].inuse = 0
      BY <3>1, <3>2, <3>3, <1>9, <1>10, <1>12 DEF Sorted
    <3>6. s2.inuse # s2.objects => s2.inuse > 0 /\ s2.inuse < s2.objects
      BY <1>2, <1>4, <1>7
    <3>7. \A y \in ToSet(k2.partial) : sl2[y].inuse > 0 /\ sl2[y].inuse < sl2[y].objects
      BY <3>1, <3>2, <3>6, <1>7, <1>9, <1>10, <1>12 DEF Sorted
    <3> QED
      BY <3>4, <3>5, <3>7 DEF Sorted
  <2>2. Filled(s2, b, le2)
    <3>1. \A i \in 1..s.objects : <<b, i>> \in le2 <=> i \notin ToSet(Tail(s.freelist))
      BY <1>3, <1>5 DEF Filled, x
    <3>2. {o \in le2 : o[1] = b} = {o \in le : o[1] = b} \cup {x}
      BY <1>8
    <3>3. x \notin {o \in le : o[1] = b}
      BY <1>8
    <3>4. IsFiniteSet({o \in le : o[1] = b})
      BY <1>0, FS_Subset DEF SlabTypes
    <3>5. Cardinality({o \in le2 : o[1] = b}) = Cardinality({o \in le : o[1] = b}) + 1
      BY <3>2, <3>3, <3>4, FS_AddElement
    <3>6. s2.inuse = Cardinality({o \in le2 : o[1] = b})
      BY <3>5, <1>3, <1>7 DEF Filled
    <3> QED
      BY <3>1, <3>6, <1>3, <1>5, <1>7 DEF Filled
  <2>3. \A y \in SlabsOf(k2) : Filled(sl2[y], y, le2) /\ sl2[y].objects * k2.object_size <= BlockBytes
    <3> SUFFICES ASSUME NEW y \in SlabsOf(k2)
                 PROVE  Filled(sl2[y], y, le2) /\ sl2[y].objects * k2.object_size <= BlockBytes
      OBVIOUS
    <3>1. CASE y = b
      BY <3>1, <2>2, <1>3, <1>7, <1>10, <1>12
    <3>2. CASE y # b
      <4>1. y \in SlabsOf(k) /\ y \in Blocks /\ sl2[y] = sl[y]
        BY <3>2, <1>1, <1>10, <1>12, ListedFacts
      <4>2. Filled(sl[y], y, le) /\ sl[y].objects * k.object_size <= BlockBytes
        BY <4>1, <1>1 DEF CacheSound
      <4>3. {o \in le2 : o[1] = y} = {o \in le : o[1] = y}
        BY <3>2, <1>8
      <4>4. \A i : <<y, i>> \in le2 <=> <<y, i>> \in le
        BY <3>2 DEF x
      <4> QED
        BY <4>1, <4>2, <4>3, <4>4, <1>10 DEF Filled
    <3> QED
      BY <3>1, <3>2
  <2>4. k2.num_active = Cardinality(ActiveIn(k2, le2))
    <3>1. ActiveIn(k2, le2) = ActiveIn(k, le) \cup {x} /\ x \notin ActiveIn(k, le)
      BY <1>1, <1>8, <1>10 DEF ActiveIn
    <3>2. IsFiniteSet(ActiveIn(k, le))
      BY <1>0, FS_Subset DEF SlabTypes, ActiveIn
    <3>3. Cardinality(ActiveIn(k2, le2)) = Cardinality(ActiveIn(k, le)) + 1
      BY <3>1, <3>2, FS_AddElement
    <3> QED
      BY <3>3, <1>1, <1>10 DEF CacheSound
  <2> QED
    BY <2>1, <2>3, <2>4, <1>1, <1>10 DEF CacheSound
<1>18. ASSUME NEW d \in Caches PROVE CacheSound(ca2[d], sl2, le2, bm)
  <2>1. CASE d = c
    BY <2>1, <1>11, <1>17
  <2>2. CASE d # c
    <3>1. ca2[d] = ca[d] /\ CacheSound(ca[d], sl, le, bm)
      BY <2>2, <1>0, <1>11
    <3>2. b \notin SlabsOf(ca[d])
      BY <2>2, <1>0, <1>1 DEF CachesApart
    <3>3. \A y \in SlabsOf(ca[d]) : sl2[y] = sl[y] /\ y \in bm
      BY <3>1, <3>2, <1>12, ListedFacts DEF CacheSound
    <3>4. \A o \in le \cup le2 : o[1] \in SlabsOf(ca[d]) => (o \in le <=> o \in le2)
      BY <3>2, <1>8
    <3> QED
      BY <3>1, <3>3, <3>4, OtherCaches
  <2> QED
    BY <2>1, <2>2
<1>19. SlabInv(ca2, sl2, le2, bm)
  BY <1>11, <1>12, <1>13, <1>15, <1>16, <1>18 DEF SlabInv, SlabTypes
<1> QED
  BY <1>19 DEF ca2, sl2, k2, p, s2, x


\* A slab with an object put back.
Push(s, i) == [s EXCEPT !.inuse = @ - 1, !.freelist = <<i>> \o @]

LEMMA PushFacts ==
    ASSUME NEW s \in SlabRecord, s.inuse > 0, NEW i \in Nat
    PROVE  /\ Push(s, i) \in SlabRecord
           /\ Push(s, i).objects = s.objects /\ Push(s, i).inuse = s.inuse - 1
           /\ Push(s, i).freelist = <<i>> \o s.freelist
<1> DEFINE n == s.inuse - 1
<1> DEFINE t == <<i>> \o s.freelist
<1>0. s.freelist \in Seq(Nat)
  BY DEF SlabRecord
<1>1. n \in Nat /\ t \in Seq(Nat) /\ Push(s, i) = [s EXCEPT !.inuse = n, !.freelist = t]
  BY <1>0, ConsFacts DEF SlabRecord, Push
<1> HIDE DEF n, t
<1>2. /\ Push(s, i) \in SlabRecord /\ Push(s, i).objects = s.objects
      /\ Push(s, i).inuse = n /\ Push(s, i).freelist = t
  BY <1>1 DEF SlabRecord
<1> QED
  BY <1>2 DEF n, t

\* kmem_cache_free puts an object back in front of its slab's free list.
LEMMA FreeKeeps ==
    ASSUME NEW ca, NEW sl, NEW le, NEW bm, SlabInv(ca, sl, le, bm), NEW c \in Caches,
           NEW b \in ToSet(ca[c].full) \cup ToSet(ca[c].partial), NEW i, <<b, i>> \in le
    PROVE  SlabInv([ca EXCEPT ![c] = [Place(ca[c], b, Push(sl[b], i).inuse, Push(sl[b], i).objects)
                                         EXCEPT !.num_active = @ - 1]],
                   [sl EXCEPT ![b] = Push(sl[b], i)], le \ {<<b, i>>}, bm)
<1> DEFINE k == ca[c]
<1> DEFINE s == sl[b]
<1> DEFINE s2 == Push(s, i)
<1> DEFINE p == Place(k, b, s2.inuse, s2.objects)
<1> DEFINE k2 == [p EXCEPT !.num_active = @ - 1]
<1> DEFINE ca2 == [ca EXCEPT ![c] = k2]
<1> DEFINE sl2 == [sl EXCEPT ![b] = s2]
<1> DEFINE x == <<b, i>>
<1> DEFINE le2 == le \ {x}
<1>0. /\ SlabTypes(ca, sl, le) /\ CachesApart(ca) /\ LentListed(ca, sl, le)
      /\ \A d \in Caches : CacheSound(ca[d], sl, le, bm)
  BY DEF SlabInv
<1>1. CacheSound(k, sl, le, bm) /\ Listed(k) /\ b \in SlabsOf(k) /\ b \in Blocks
  BY <1>0, ListedFacts DEF CacheSound, SlabsOf
<1>2. s \in SlabRecord /\ s.freelist \in Seq(Nat) /\ s.objects \in Nat /\ s.inuse \in Nat
  BY <1>0, <1>1 DEF SlabTypes, SlabRecord
<1>3. Filled(s, b, le) /\ s.objects * k.object_size <= BlockBytes
  BY <1>1 DEF CacheSound
<1>4. s.inuse > 0 /\ s.inuse <= s.objects
  BY <1>1, <1>2, <1>3 DEF CacheSound, Sorted, Filled
<1>5. x[1] = b /\ x[2] = i
  OBVIOUS
<1>6. i \in 1..s.objects /\ i \in Nat
  <2>1. PICK d \in Caches : x[1] \in SlabsOf(ca[d]) /\ x[2] \in 1..sl[x[1]].objects
    BY <1>0 DEF LentListed
  <2> QED
    BY <2>1, <1>2, <1>5
<1>7. s2 \in SlabRecord /\ s2.objects = s.objects /\ s2.inuse = s.inuse - 1 /\ s2.freelist = <<i>> \o s.freelist
  BY <1>2, <1>4, <1>6, PushFacts
<1>8. /\ i \notin ToSet(s.freelist) /\ Once(<<i>> \o s.freelist)
      /\ ToSet(<<i>> \o s.freelist) = {i} \cup ToSet(s.freelist)
  BY <1>2, <1>3, <1>6, ConsFacts DEF Filled
<1>9. Placed(p, k, b, s2.inuse, s2.objects)
  <2>1. s2.objects # 0
    BY <1>2, <1>3, <1>7 DEF Filled
  <2> HIDE DEF s2, s, k
  <2> QED
    BY <1>1, <2>1, PlaceFacts
<1> HIDE DEF s2, p, x
<1>10. /\ Listed(k2) /\ SlabsOf(k2) = SlabsOf(k) /\ k2.live = k.live /\ k2.object_size = k.object_size
       /\ k2.full = p.full /\ k2.empty = p.empty /\ k2.partial = p.partial
       /\ k2.num_active = k.num_active - 1
  <2>1. p \in CacheRecord
    BY <1>9 DEF Listed, Placed
  <2>2. /\ k2 \in CacheRecord /\ k2.live = p.live /\ k2.object_size = p.object_size
        /\ k2.full = p.full /\ k2.empty = p.empty /\ k2.partial = p.partial
        /\ k2.num_active = p.num_active - 1 /\ k2.num_slabs = p.num_slabs
    <3>1. p.num_active - 1 \in Int /\ k2 = [p EXCEPT !.num_active = p.num_active - 1]
      BY <2>1 DEF CacheRecord
    <3> QED
      BY <2>1, <3>1, CountFacts
  <2> QED
    BY <2>2, <1>9 DEF Listed, SlabsOf, Placed
<1> HIDE DEF k2
<1>11. /\ DOMAIN ca2 = Caches /\ ca2 = [d \in Caches |-> ca2[d]]
       /\ ca2[c] = k2 /\ \A d \in Caches : d # c => ca2[d] = ca[d]
  BY <1>0 DEF SlabTypes
<1>12. sl2 \in [Blocks -> SlabRecord] /\ sl2[b] = s2 /\ \A y \in Blocks : y # b => sl2[y] = sl[y]
  BY <1>0, <1>1, <1>7 DEF SlabTypes
<1>13. IsFiniteSet(le2) /\ le2 \subseteq Blocks \X Nat
  BY <1>0, FS_Subset DEF SlabTypes
<1> HIDE DEF ca2, sl2
<1>14. \A d \in Caches : SlabsOf(ca2[d]) = SlabsOf(ca[d])
  BY <1>10, <1>11
<1>15. CachesApart(ca2)
  BY <1>0, <1>14 DEF CachesApart
<1>16. LentListed(ca2, sl2, le2)
  <2> SUFFICES ASSUME NEW o \in le2
               PROVE  \E d \in Caches : o[1] \in SlabsOf(ca2[d]) /\ o[2] \in 1..sl2[o[1]].objects
    BY DEF LentListed
  <2>2. o \in le
    OBVIOUS
  <2>3. PICK d \in Caches : o[1] \in SlabsOf(ca[d]) /\ o[2] \in 1..sl[o[1]].objects
    BY <2>2, <1>0 DEF LentListed
  <2>4. o[1] \in Blocks
    BY <2>2, <1>0 DEF SlabTypes
  <2>5. sl2[o[1]].objects = sl[o[1]].objects
    BY <2>4, <1>7, <1>12
  <2> QED
    BY <2>3, <2>5, <1>14
<1>17. CacheSound(k2, sl2, le2, bm)
  <2>1. Sorted(k2, sl2)
    <3>1. \A y \in ToSet(k.full) \cup ToSet(k.empty) \cup ToSet(k.partial) : y \in Blocks
      BY <1>1, ListedFacts DEF SlabsOf
    <3>2. Sorted(k, sl)
      BY <1>1 DEF CacheSound
    <3>3. s2.inuse # s2.objects
      BY <1>2, <1>4, <1>7
    <3>4. \A y \in ToSet(k2.full) : sl2[y].inuse = sl2[y].objects
      BY <3>1, <3>2, <3>3, <1>9, <1>10, <1>12 DEF Sorted, Placed
    <3>5. \A y \in ToSet(k2.empty) : sl2[y].inuse = 0
      BY <3>1, <3>2, <3>3, <1>9, <1>10, <1>12 DEF Sorted, Placed
    <3>6. s2.inuse # 0 => s2.inuse > 0 /\ s2.inuse < s2.objects
      BY <1>2, <1>4, <1>7
    <3>7. \A y \in ToSet(k2.partial) : sl2[y].inuse > 0 /\ sl2[y].inuse < sl2[y].objects
      BY <3>1, <3>2, <3>6, <1>9, <1>10, <1>12 DEF Sorted, Placed
    <3> QED
      BY <3>4, <3>5, <3>7 DEF Sorted
  <2>2. Filled(s2, b, le2)
    <3>1. \A j \in 1..s.objects : <<b, j>> \in le2 <=> j \notin {i} \cup ToSet(s.freelist)
      BY <1>3 DEF Filled, x
    <3>2. {o \in le2 : o[1] = b} = {o \in le : o[1] = b} \ {x}
      OBVIOUS
    <3>3. x \in {o \in le : o[1] = b}
      BY <1>5 DEF x
    <3>4. IsFiniteSet({o \in le : o[1] = b})
      BY <1>0, FS_Subset DEF SlabTypes
    <3>5. Cardinality({o \in le2 : o[1] = b}) = Cardinality({o \in le : o[1] = b}) - 1
      BY <3>2, <3>3, <3>4, FS_RemoveElement
    <3>6. s2.inuse = Cardinality({o \in le2 : o[1] = b})
      BY <3>5, <1>3, <1>7 DEF Filled
    <3> QED
      BY <3>1, <3>6, <1>3, <1>6, <1>7, <1>8 DEF Filled
  <2>3. \A y \in SlabsOf(k2) : Filled(sl2[y], y, le2) /\ sl2[y].objects * k2.object_size <= BlockBytes
    <3> SUFFICES ASSUME NEW y \in SlabsOf(k2)
                 PROVE  Filled(sl2[y], y, le2) /\ sl2[y].objects * k2.object_size <= BlockBytes
      OBVIOUS
    <3>1. CASE y = b
      BY <3>1, <2>2, <1>3, <1>7, <1>10, <1>12
    <3>2. CASE y # b
      <4>1. y \in SlabsOf(k) /\ y \in Blocks /\ sl2[y] = sl[y]
        BY <3>2, <1>1, <1>10, <1>12, ListedFacts
      <4>2. Filled(sl[y], y, le) /\ sl[y].objects * k.object_size <= BlockBytes
        BY <4>1, <1>1 DEF CacheSound
      <4>3. {o \in le2 : o[1] = y} = {o \in le : o[1] = y}
        BY <3>2, <1>5
      <4>4. \A j : <<y, j>> \in le2 <=> <<y, j>> \in le
        BY <3>2 DEF x
      <4> QED
        BY <4>1, <4>2, <4>3, <4>4, <1>10 DEF Filled
    <3> QED
      BY <3>1, <3>2
  <2>4. k2.num_active = Cardinality(ActiveIn(k2, le2))
    <3>1. ActiveIn(k2, le2) = ActiveIn(k, le) \ {x}
      BY <1>10 DEF ActiveIn
    <3>a. x \in ActiveIn(k, le)
      BY <1>1, <1>5 DEF ActiveIn, x
    <3>2. IsFiniteSet(ActiveIn(k, le))
      BY <1>0, FS_Subset DEF SlabTypes, ActiveIn
    <3>3. Cardinality(ActiveIn(k2, le2)) = Cardinality(ActiveIn(k, le)) - 1
      BY <3>1, <3>a, <3>2, FS_RemoveElement
    <3> QED
      BY <3>3, <1>1, <1>10 DEF CacheSound
  <2> QED
    BY <2>1, <2>3, <2>4, <1>1, <1>10 DEF CacheSound
<1>18. ASSUME NEW d \in Caches PROVE CacheSound(ca2[d], sl2, le2, bm)
  <2>1. CASE d = c
    BY <2>1, <1>11, <1>17
  <2>2. CASE d # c
    <3>1. ca2[d] = ca[d] /\ CacheSound(ca[d], sl, le, bm)
      BY <2>2, <1>0, <1>11
    <3>2. b \notin SlabsOf(ca[d])
      BY <2>2, <1>0, <1>1 DEF CachesApart
    <3>3. \A y \in SlabsOf(ca[d]) : sl2[y] = sl[y] /\ y \in bm
      BY <3>1, <3>2, <1>12, ListedFacts DEF CacheSound
    <3>4. \A o \in le \cup le2 : o[1] \in SlabsOf(ca[d]) => (o \in le <=> o \in le2)
      BY <3>2, <1>5
    <3> QED
      BY <3>1, <3>3, <3>4, OtherCaches
  <2> QED
    BY <2>1, <2>2
<1>19. SlabInv(ca2, sl2, le2, bm)
  BY <1>11, <1>12, <1>13, <1>15, <1>16, <1>18 DEF SlabInv, SlabTypes
<1> QED
  BY <1>19 DEF ca2, sl2, k2, p, s2, x


\* The objects of a slab end inside its block.
LEMMA ObjectsFit ==
    ASSUME NEW k \in CacheRecord
    PROVE  /\ calculate_objects_per_slab(k) \in Nat
           /\ calculate_objects_per_slab(k) * k.object_size <= BlockBytes
<1> DEFINE room == BlockBytes - DescriptorBytes
<1> DEFINE size == k.object_size
<1>1. room \in Nat /\ size \in Nat /\ size > 0 /\ room <= BlockBytes /\ BlockBytes \in Nat
  BY SlabAssumption DEF CacheRecord
<1>2. \A r \in Nat, d \in Nat : d > 0 => r \div d \in Nat /\ d * (r \div d) <= r
  OBVIOUS
<1> HIDE DEF room, size
<1>3. room \div size \in Nat /\ size * (room \div size) <= room
  BY <1>1, <1>2
<1>4. (room \div size) * size <= BlockBytes
  BY <1>1, <1>3
<1> QED
  BY <1>3, <1>4 DEF calculate_objects_per_slab, room, size

\* The free list slab_create links through the objects.
LEMMA FreshSlab ==
    ASSUME NEW n \in Nat
    PROVE  LET s == [objects |-> n, inuse |-> 0, freelist |-> [i \in 1..n |-> i]]
           IN  s \in SlabRecord /\ Once(s.freelist) /\ ToSet(s.freelist) = 1..n
<1> DEFINE q == [i \in 1..n |-> i]
<1>1. q \in Seq(Nat) /\ Len(q) = n
  OBVIOUS
<1>2. \A i \in 1..n : q[i] = i
  OBVIOUS
<1> HIDE DEF q
<1>3. Once(q)
  BY <1>1, <1>2 DEF Once
<1>4. ToSet(q) = {q[i] : i \in 1..n}
  BY <1>1, ToSetFacts
<1>5. ToSet(q) = 1..n
  BY <1>2, <1>4
<1> QED
  BY <1>1, <1>3, <1>5 DEF SlabRecord, q

\* slab_create: the cache has one empty slab more, in a block that was free.
LEMMA GrowKeeps ==
    ASSUME NEW ca, NEW sl, NEW le, NEW bm, SlabInv(ca, sl, le, bm), NEW c \in Caches, ca[c].live,
           NEW b \in Frames \ bm, NEW n \in Nat, n > 0, n = calculate_objects_per_slab(ca[c])
    PROVE  LET k2 == [ca[c] EXCEPT !.empty = <<b>> \o @, !.num_slabs = @ + 1]
           IN  /\ b \in ToSet(k2.empty)
               /\ SlabInv([ca EXCEPT ![c] = k2],
                          [sl EXCEPT ![b] = [objects |-> n, inuse |-> 0, freelist |-> [i \in 1..n |-> i]]],
                          le, bm \cup {b})
<1> DEFINE k == ca[c]
<1> DEFINE s2 == [objects |-> n, inuse |-> 0, freelist |-> [i \in 1..n |-> i]]
<1> DEFINE k2 == [k EXCEPT !.empty = <<b>> \o @, !.num_slabs = @ + 1]
<1> DEFINE ca2 == [ca EXCEPT ![c] = k2]
<1> DEFINE sl2 == [sl EXCEPT ![b] = s2]
<1> DEFINE bm2 == bm \cup {b}
<1>0. /\ SlabTypes(ca, sl, le) /\ CachesApart(ca) /\ LentListed(ca, sl, le)
      /\ \A d \in Caches : CacheSound(ca[d], sl, le, bm)
  BY DEF SlabInv
<1>1. CacheSound(k, sl, le, bm) /\ Listed(k) /\ k \in CacheRecord /\ k.empty \in Seq(Blocks) /\ b \in Blocks
  BY <1>0, ListedFacts DEF CacheSound, Listed, Frames
<1>2. \A d \in Caches : b \notin SlabsOf(ca[d])
  BY <1>0 DEF CacheSound
<1>3. \A o \in le : o[1] # b
  BY <1>0, <1>2 DEF LentListed
<1>4. /\ s2 \in SlabRecord /\ Once(s2.freelist) /\ ToSet(s2.freelist) = 1..n
      /\ s2.objects = n /\ s2.inuse = 0
  BY FreshSlab
<1>5. /\ <<b>> \o k.empty \in Seq(Blocks) /\ ToSet(<<b>> \o k.empty) = {b} \cup ToSet(k.empty)
      /\ Once(<<b>> \o k.empty)
  BY <1>1, <1>2, ConsFacts DEF Listed, SlabsOf
<1>6. /\ k2 \in CacheRecord /\ k2.live = k.live /\ k2.object_size = k.object_size
      /\ k2.num_active = k.num_active /\ k2.num_slabs = k.num_slabs + 1
      /\ k2.full = k.full /\ k2.partial = k.partial /\ k2.empty = <<b>> \o k.empty
  <2> DEFINE e == <<b>> \o k.empty
  <2> DEFINE m == k.num_slabs + 1
  <2>1. k2 = [k EXCEPT !.empty = e, !.num_slabs = m] /\ e \in Seq(Blocks) /\ m \in Int
    BY <1>1, <1>5 DEF CacheRecord
  <2> HIDE DEF e, m, k2
  <2>2. /\ k2 \in CacheRecord /\ k2.live = k.live /\ k2.object_size = k.object_size
        /\ k2.num_active = k.num_active /\ k2.num_slabs = m
        /\ k2.full = k.full /\ k2.partial = k.partial /\ k2.empty = e
    BY <1>1, <2>1 DEF CacheRecord
  <2> QED
    BY <2>2 DEF e, m
<1> HIDE DEF s2, k2
<1>7. SlabsOf(k2) = SlabsOf(k) \cup {b}
  BY <1>5, <1>6 DEF SlabsOf
<1>8. IsFiniteSet(SlabsOf(k))
  <2>1. IsFiniteSet(Blocks)
    BY VmmAssumption, FS_Interval DEF Blocks
  <2> QED
    BY <1>1, <2>1, ListedFacts, FS_Subset
<1>9. Listed(k2)
  <2>1. Cardinality(SlabsOf(k2)) = Cardinality(SlabsOf(k)) + 1
    BY <1>2, <1>7, <1>8, FS_AddElement
  <2>2. k2.num_slabs = Cardinality(SlabsOf(k2))
    BY <2>1, <1>1, <1>6 DEF Listed
  <2>3. b \notin ToSet(k.full) /\ b \notin ToSet(k.partial)
    BY <1>2 DEF SlabsOf
  <2> QED
    BY <2>2, <2>3, <1>1, <1>5, <1>6 DEF Listed
<1>10. /\ DOMAIN ca2 = Caches /\ ca2 = [d \in Caches |-> ca2[d]]
       /\ ca2[c] = k2 /\ \A d \in Caches : d # c => ca2[d] = ca[d]
  BY <1>0 DEF SlabTypes
<1>11. sl2 \in [Blocks -> SlabRecord] /\ sl2[b] = s2 /\ \A y \in Blocks : y # b => sl2[y] = sl[y]
  BY <1>0, <1>1, <1>4 DEF SlabTypes
<1> HIDE DEF ca2, sl2
<1>12. CachesApart(ca2)
  BY <1>0, <1>2, <1>7, <1>10 DEF CachesApart
<1>13. LentListed(ca2, sl2, le)
  <2> SUFFICES ASSUME NEW o \in le
               PROVE  \E d \in Caches : o[1] \in SlabsOf(ca2[d]) /\ o[2] \in 1..sl2[o[1]].objects
    BY DEF LentListed
  <2>1. PICK d \in Caches : o[1] \in SlabsOf(ca[d]) /\ o[2] \in 1..sl[o[1]].objects
    BY <1>0 DEF LentListed
  <2>2. o[1] \in Blocks /\ sl2[o[1]] = sl[o[1]]
    BY <1>0, <1>3, <1>11 DEF SlabTypes
  <2>3. o[1] \in SlabsOf(ca2[d])
    BY <2>1, <1>7, <1>10
  <2> QED
    BY <2>1, <2>2, <2>3
<1>14. ASSUME NEW d \in Caches PROVE CacheSound(ca[d], sl2, le, bm2)
  <2>1. \A y \in SlabsOf(ca[d]) : sl2[y] = sl[y] /\ y \in bm2
    BY <1>0, <1>2, <1>11, ListedFacts DEF CacheSound
  <2>2. CacheSound(ca[d], sl, le, bm)
    BY <1>0
  <2> QED
    BY <2>1, <2>2, OtherCaches
<1>15. CacheSound(k2, sl2, le, bm2)
  <2>1. CacheSound(k, sl2, le, bm2)
    BY <1>14
  <2>2. Filled(s2, b, le)
    <3>1. \A i : <<b, i>> \notin le
      BY <1>3
    <3>2. {o \in le : o[1] = b} = {}
      BY <1>3
    <3>3. Cardinality({o \in le : o[1] = b}) = 0
      BY <3>2, FS_EmptySet
    <3> QED
      BY <3>1, <3>3, <1>4 DEF Filled
  <2>3. s2.objects * k2.object_size <= BlockBytes
    BY <1>1, <1>4, <1>6, ObjectsFit
  <2>4. \A y \in SlabsOf(k2) : Filled(sl2[y], y, le) /\ sl2[y].objects * k2.object_size <= BlockBytes
    BY <2>1, <2>2, <2>3, <1>6, <1>7, <1>11 DEF CacheSound
  <2>5. Sorted(k2, sl2)
    BY <2>1, <1>4, <1>5, <1>6, <1>11 DEF CacheSound, Sorted
  <2>6. ActiveIn(k2, le) = ActiveIn(k, le)
    BY <1>3, <1>7 DEF ActiveIn
  <2>7. SlabsOf(k2) \subseteq bm2 \cap Frames
    BY <2>1, <1>7 DEF CacheSound
  <2>8. k2.num_active = Cardinality(ActiveIn(k2, le))
    BY <2>1, <2>6, <1>6 DEF CacheSound
  <2> QED
    BY <2>4, <2>5, <2>7, <2>8, <1>6, <1>9 DEF CacheSound
<1>16. SlabInv(ca2, sl2, le, bm2)
  BY <1>0, <1>10, <1>11, <1>12, <1>13, <1>14, <1>15 DEF SlabInv, SlabTypes
<1>17. b \in ToSet(k2.empty)
  BY <1>5, <1>6
<1> QED
  BY <1>16, <1>17 DEF ca2, sl2, k2, s2


\* slab_destroy on slabs without lent objects: k2 is what is left of the cache.
LEMMA ReleaseKeeps ==
    ASSUME NEW ca, NEW sl, NEW le, NEW bm, SlabInv(ca, sl, le, bm), NEW c \in Caches,
           NEW B, \A o \in le : o[1] \notin B,
           NEW k2, CacheSound(k2, sl, le, bm),
           B \subseteq SlabsOf(ca[c]), SlabsOf(k2) = SlabsOf(ca[c]) \ B
    PROVE  SlabInv([ca EXCEPT ![c] = k2], [b \in Blocks |-> IF b \in B THEN NoSlab ELSE sl[b]],
                   le, bm \ B)
<1> DEFINE ca2 == [ca EXCEPT ![c] = k2]
<1> DEFINE sl2 == [b \in Blocks |-> IF b \in B THEN NoSlab ELSE sl[b]]
<1> DEFINE bm2 == bm \ B
<1>0. /\ SlabTypes(ca, sl, le) /\ CachesApart(ca) /\ LentListed(ca, sl, le)
      /\ \A d \in Caches : CacheSound(ca[d], sl, le, bm)
  BY DEF SlabInv
<1>1. /\ DOMAIN ca2 = Caches /\ ca2 = [d \in Caches |-> ca2[d]]
      /\ ca2[c] = k2 /\ \A d \in Caches : d # c => ca2[d] = ca[d]
  BY <1>0 DEF SlabTypes
<1>2. NoSlab \in SlabRecord
  BY DEF NoSlab, SlabRecord
<1>3. sl2 \in [Blocks -> SlabRecord] /\ \A y \in Blocks \ B : sl2[y] = sl[y]
  BY <1>0, <1>2 DEF SlabTypes
<1> HIDE DEF ca2, sl2
<1>4. \A d \in Caches : SlabsOf(ca2[d]) \subseteq SlabsOf(ca[d]) \ B /\ SlabsOf(ca[d]) \subseteq SlabsOf(ca2[d]) \cup B
  BY <1>0, <1>1 DEF CachesApart
<1>5. CachesApart(ca2)
  BY <1>0, <1>4 DEF CachesApart
<1>6. LentListed(ca2, sl2, le)
  <2> SUFFICES ASSUME NEW o \in le
               PROVE  \E d \in Caches : o[1] \in SlabsOf(ca2[d]) /\ o[2] \in 1..sl2[o[1]].objects
    BY DEF LentListed
  <2>1. PICK d \in Caches : o[1] \in SlabsOf(ca[d]) /\ o[2] \in 1..sl[o[1]].objects
    BY <1>0 DEF LentListed
  <2>2. o[1] \in Blocks \ B /\ sl2[o[1]] = sl[o[1]]
    BY <1>0, <1>3 DEF SlabTypes
  <2>3. o[1] \in SlabsOf(ca2[d])
    BY <2>1, <2>2, <1>4
  <2> QED
    BY <2>1, <2>2, <2>3
<1>7. ASSUME NEW d \in Caches PROVE CacheSound(ca2[d], sl2, le, bm2)
  <2>1. CacheSound(ca2[d], sl, le, bm)
    BY <1>0, <1>1
  <2>2. \A y \in SlabsOf(ca2[d]) : sl2[y] = sl[y] /\ y \in bm2
    BY <2>1, <1>3, <1>4, ListedFacts DEF CacheSound
  <2> QED
    BY <2>1, <2>2, OtherCaches
<1>8. SlabInv(ca2, sl2, le, bm2)
  BY <1>0, <1>1, <1>3, <1>5, <1>6, <1>7 DEF SlabInv, SlabTypes
<1> QED
  BY <1>8 DEF ca2, sl2

\* A cache as kmem_cache_create leaves it, or as none.
LEMMA BareCache ==
    ASSUME NEW k, k.full = <<>>, k.partial = <<>>, k.empty = <<>>, k.num_active = 0, k.num_slabs = 0,
           k \in CacheRecord, NEW sl, NEW le, NEW bm
    PROVE  CacheSound(k, sl, le, bm) /\ SlabsOf(k) = {}
<1>1. <<>> \in Seq(Blocks) /\ Len(<<>>) = 0
  OBVIOUS
<1>a. Once(<<>>)
  BY <1>1 DEF Once
<1>b. ToSet(<<>>) = {}
  BY <1>1, ToSetFacts
<1>2. ToSet(<<>>) = {} /\ Once(<<>>)
  BY <1>a, <1>b
<1>3. SlabsOf(k) = {}
  BY <1>2 DEF SlabsOf
<1>4. ActiveIn(k, le) = {}
  BY <1>3 DEF ActiveIn
<1>5. Cardinality({}) = 0
  BY FS_EmptySet
<1>6. Listed(k)
  BY <1>2, <1>3, <1>5 DEF Listed
<1> QED
  BY <1>2, <1>3, <1>4, <1>5, <1>6 DEF CacheSound, Sorted

\* kmem_cache_create aligns the size and makes room for a pointer.
LEMMA NewCacheFacts ==
    /\ \A size \in Nat : AlignedSize(size) \in Nat \ {0}
    /\ \A size \in Nat : NewCache(size) \in CacheRecord
    /\ NoCache \in CacheRecord
    /\ \A k \in {NewCache(size) : size \in Nat} \cup {NoCache} :
          k.full = <<>> /\ k.partial = <<>> /\ k.empty = <<>> /\ k.num_active = 0 /\ k.num_slabs = 0
<1>1. PointerBytes \in Nat /\ PointerBytes > 0
  BY SlabAssumption
<1>2. ASSUME NEW size \in Nat PROVE AlignedSize(size) \in Nat \ {0}
  <2> DEFINE a == ((size + PointerBytes - 1) \div PointerBytes)
  <2>1. \A r \in Nat, d \in Nat : d > 0 => r \div d \in Nat
    OBVIOUS
  <2>2. size + PointerBytes - 1 \in Nat
    BY <1>1
  <2>3. a \in Nat
    BY <1>1, <2>1, <2>2
  <2> HIDE DEF a
  <2>4. a * PointerBytes \in Nat
    BY <1>1, <2>3
  <2>5. AlignedSize(size) = IF a * PointerBytes < PointerBytes THEN PointerBytes ELSE a * PointerBytes
    BY DEF AlignedSize, a
  <2> QED
    BY <1>1, <2>4, <2>5
<1>3. <<>> \in Seq(Blocks)
  OBVIOUS
<1>4. \A size \in Nat : NewCache(size) \in CacheRecord
  BY <1>2, <1>3 DEF NewCache, CacheRecord
<1>5. NoCache \in CacheRecord
  <2>1. NewCache(0) \in CacheRecord
    BY <1>4
  <2> QED
    BY <2>1 DEF NoCache, CacheRecord
<1>6. \A size \in Nat : /\ NewCache(size).full = <<>> /\ NewCache(size).partial = <<>> /\ NewCache(size).empty = <<>>
                        /\ NewCache(size).num_active = 0 /\ NewCache(size).num_slabs = 0
  BY DEF NewCache
<1>7. /\ NoCache.full = <<>> /\ NoCache.partial = <<>> /\ NoCache.empty = <<>>
      /\ NoCache.num_active = 0 /\ NoCache.num_slabs = 0
  BY <1>4, <1>6 DEF NoCache, CacheRecord
<1> QED
  BY <1>2, <1>4, <1>5, <1>6, <1>7

\* kmem_cache_shrink keeps the last empty slab.
LEMMA ShrunkFacts ==
    ASSUME NEW k, NEW sl, NEW le, NEW bm, CacheSound(k, sl, le, bm), Len(k.empty) > 1,
           IsFiniteSet(le)
    PROVE  /\ CacheSound(Shrunk(k), sl, le, bm)
           /\ SlabsOf(Shrunk(k)) = SlabsOf(k) \ ToSet(Front(k.empty))
           /\ ToSet(Front(k.empty)) \subseteq ToSet(k.empty)
<1> DEFINE m == Shrunk(k)
<1> DEFINE B == ToSet(Front(k.empty))
<1>1. Listed(k) /\ k \in CacheRecord /\ k.empty \in Seq(Blocks) /\ k.empty # <<>> /\ Once(k.empty)
  <2>1. Listed(k)
    BY DEF CacheSound
  <2>2. k.empty \in Seq(Blocks) /\ Once(k.empty) /\ k \in CacheRecord
    BY <2>1, ListedFacts DEF Listed
  <2>3. k.empty # <<>>
    BY <2>2
  <2> QED
    BY <2>1, <2>2, <2>3
<1>2. /\ Last(k.empty) \in ToSet(k.empty) /\ Last(k.empty) \in Blocks
      /\ Front(k.empty) \in Seq(Blocks) /\ Once(Front(k.empty)) /\ B = ToSet(k.empty) \ {Last(k.empty)}
  BY <1>1, EndsFacts, ToSetFacts
<1> DEFINE e == <<Last(k.empty)>>
<1>3. e \in Seq(Blocks) /\ ToSet(e) = {Last(k.empty)} /\ Once(e)
  <2>1. e \in Seq(Blocks) /\ Len(e) = 1 /\ e[1] = Last(k.empty)
    BY <1>2
  <2> HIDE DEF e
  <2>2. ToSet(e) = {e[i] : i \in 1..1}
    BY <2>1, ToSetFacts
  <2>3. Once(e)
    BY <2>1 DEF Once
  <2>4. 1..1 = {1}
    OBVIOUS
  <2> QED
    BY <2>1, <2>2, <2>3, <2>4
<1>4. /\ m \in CacheRecord /\ m.live = k.live /\ m.object_size = k.object_size
      /\ m.num_active = k.num_active /\ m.num_slabs = k.num_slabs - (Len(k.empty) - 1)
      /\ m.full = k.full /\ m.partial = k.partial /\ m.empty = e
  <2> DEFINE n == k.num_slabs - (Len(k.empty) - 1)
  <2>1. n \in Int
    BY <1>1, LenProperties DEF CacheRecord
  <2>2. m = [k EXCEPT !.empty = e, !.num_slabs = n]
    BY DEF Shrunk
  <2> HIDE DEF n, e, m
  <2>3. /\ m \in CacheRecord /\ m.live = k.live /\ m.object_size = k.object_size
        /\ m.num_active = k.num_active /\ m.num_slabs = n
        /\ m.full = k.full /\ m.partial = k.partial /\ m.empty = e
    BY <1>1, <1>3, <2>1, <2>2 DEF CacheRecord
  <2> QED
    BY <2>3 DEF n
<1> HIDE DEF m, e, B
<1>5. SlabsOf(m) = SlabsOf(k) \ B /\ B \subseteq SlabsOf(k) /\ B \subseteq ToSet(k.empty)
  BY <1>1, <1>2, <1>3, <1>4 DEF SlabsOf, Listed
<1>6. m.num_slabs = Cardinality(SlabsOf(m))
  <2>1. IsFiniteSet(SlabsOf(k))
    <3>1. IsFiniteSet(Blocks)
      BY VmmAssumption, FS_Interval DEF Blocks
    <3> QED
      BY <1>1, <3>1, ListedFacts, FS_Subset
  <2>2. IsFiniteSet(ToSet(k.empty)) /\ Cardinality(ToSet(k.empty)) = Len(k.empty)
    BY <1>1, CountElements
  <2>3. Cardinality(B) = Len(k.empty) - 1
    BY <1>2, <2>2, FS_RemoveElement
  <2>4. SlabsOf(k) \cap B = B
    BY <1>5
  <2>5. Cardinality(SlabsOf(k) \ B) = Cardinality(SlabsOf(k)) - Cardinality(SlabsOf(k) \cap B)
    BY <2>1, FS_Difference
  <2> QED
    BY <2>3, <2>4, <2>5, <1>1, <1>4, <1>5 DEF Listed
<1>7. Listed(m)
  BY <1>1, <1>2, <1>3, <1>4, <1>6 DEF Listed
<1>8. Sorted(m, sl)
  BY <1>2, <1>3, <1>4 DEF CacheSound, Sorted
<1>9. ActiveIn(m, le) = ActiveIn(k, le)
  <2> SUFFICES ASSUME NEW o \in le, o[1] \in B PROVE FALSE
    BY <1>5 DEF ActiveIn
  <2>1. sl[o[1]].inuse = 0 /\ Filled(sl[o[1]], o[1], le)
    BY <1>5 DEF CacheSound, Sorted
  <2>2. o \in {x \in le : x[1] = o[1]} /\ Cardinality({x \in le : x[1] = o[1]}) = 0
    BY <2>1 DEF Filled
  <2>3. IsFiniteSet({x \in le : x[1] = o[1]})
    BY FS_Subset
  <2>4. {x \in le : x[1] = o[1]} = {}
    BY <2>2, <2>3, FS_EmptySet
  <2> QED
    BY <2>2, <2>4
<1> QED
  BY <1>4, <1>5, <1>7, <1>8, <1>9 DEF CacheSound, m, B


-----------------------------------------------------------------------------
(***************************************************************************)
(* The steps.                                                              *)
(***************************************************************************)
IInv == PmmInv /\ SlabInv(cache, slab, lent, bitmap)

\* What virtual memory and a growing cache ask of the physical memory manager.
PmmStep ==
    \/ UNCHANGED pmmVars
    \/ Pmm!bitmap_find_free # Pmm!NotFound /\ Pmm!TakeBlocks({Pmm!bitmap_find_free})

\* A step that leaves pmm.c alone.
LEMMA Unmoved ==
    ASSUME PmmInv, UNCHANGED pmmVars
    PROVE  PmmInv' /\ bitmap' = bitmap
<1>1. Manager!Inv /\ UNCHANGED Manager!vars
  BY DEF PmmInv, pmmVars, Manager!vars
<1>2. Manager!Inv'
  BY <1>1, ManagerAssumption, Manager!NextInv
<1> QED
  BY <1>2 DEF PmmInv, pmmVars

\* At most one block is taken, and none is given back.
LEMMA PmmStepKeeps ==
    ASSUME PmmInv, PmmStep
    PROVE  PmmInv' /\ bitmap \subseteq bitmap' /\ bitmap' \subseteq bitmap \cup {Pmm!bitmap_find_free}
<1>1. CASE UNCHANGED pmmVars
  BY <1>1, Unmoved
<1>2. CASE Pmm!bitmap_find_free # Pmm!NotFound /\ Pmm!TakeBlocks({Pmm!bitmap_find_free})
  <2>1. Pmm!bitmap_find_free \in Blocks \ bitmap
    BY <1>2, Found
  <2> QED
    BY <1>2, <2>1, Taken
<1> QED
  BY <1>1, <1>2 DEF PmmStep

\* vmm_map_page takes a block for a table only.
LEMMA MapTakes ==
    ASSUME NEW frame, NEW page, NEW user, vmm_map_page(frame, page, user)
    PROVE  PmmStep
<1>1. ASSUME MapNewTable(frame, page, user) PROVE PmmStep
  BY <1>1 DEF MapNewTable, PmmStep
<1> HIDE DEF MapNewTable
<1>2. ASSUME NEW pde, MapThroughTable(pde, frame, page, user) PROVE PmmStep
  BY <1>2 DEF MapThroughTable, PmmStep
<1> QED
  BY <1>1, <1>2 DEF vmm_map_page, PmmStep

\* Every step of vmm.c, elf.c and process_create_user.
LEMMA VmmTakes ==
    ASSUME VmmNext
    PROVE  PmmStep
<1>1. ASSUME NEW op, NEW first, NEW pages, NEW touched, Begin(op, first, pages, touched) PROVE PmmStep
  BY <1>1 DEF Begin, PmmStep
<1>2. CASE process_create_user
  BY <1>1, <1>2 DEF process_create_user
<1>3. CASE elf_load
  BY <1>1, <1>3 DEF elf_load
<1>4. CASE elf_exec
  BY <1>1, <1>4 DEF elf_exec
<1>5. CASE AllocPage
  BY <1>5 DEF AllocPage, PmmStep
<1>6. CASE MapPage
  <2>1. vmm_map_page(job.got[job.i + 1], job.first + job.i, TRUE)
    BY <1>6 DEF MapPage
  <2> QED
    BY <2>1, MapTakes
<1>7. CASE Finish
  BY <1>7 DEF Finish, PmmStep
<1>8. ASSUME NEW page, UnmapPage(page) PROVE PmmStep
  BY <1>8 DEF UnmapPage, PmmStep
<1>9. CASE vmm_clone_directory
  BY <1>9 DEF vmm_clone_directory, PmmStep
<1>10. ASSUME NEW dir, vmm_switch_directory(dir) PROVE PmmStep
  BY <1>10 DEF vmm_switch_directory, PmmStep
<1> QED
  BY <1>2, <1>3, <1>4, <1>5, <1>6, <1>7, <1>8, <1>9, <1>10 DEF VmmNext

\* More bits set disturb no cache.
LEMMA BitsGrow ==
    ASSUME NEW ca, NEW sl, NEW le, NEW bm, SlabInv(ca, sl, le, bm), NEW bm2, bm \subseteq bm2
    PROVE  SlabInv(ca, sl, le, bm2)
<1>1. ASSUME NEW c \in Caches PROVE CacheSound(ca[c], sl, le, bm2)
  <2>1. CacheSound(ca[c], sl, le, bm) /\ SlabsOf(ca[c]) \subseteq bm
    BY DEF SlabInv, CacheSound
  <2> QED
    BY <2>1, OtherCaches
<1> QED
  BY <1>1 DEF SlabInv

\* A step that leaves the caches alone.
LEMMA SlabsUnmoved ==
    ASSUME IInv, PmmStep, UNCHANGED slabVars
    PROVE  IInv'
<1>1. PmmInv' /\ bitmap \subseteq bitmap'
  BY PmmStepKeeps DEF IInv
<1>2. cache' = cache /\ slab' = slab /\ lent' = lent
  BY DEF slabVars
<1>3. SlabInv(cache, slab, lent, bitmap')
  BY <1>1, BitsGrow DEF IInv
<1> QED
  BY <1>1, <1>2, <1>3 DEF IInv

\* kmem_cache_alloc.
LEMMA AllocStep ==
    ASSUME IInv, NEW c \in Caches, kmem_cache_alloc(c)
    PROVE  IInv'
<1>0. SlabInv(cache, slab, lent, bitmap) /\ PmmInv /\ cache[c].live
  BY DEF IInv, kmem_cache_alloc
<1>1. CASE AllocFails(c)
  BY <1>1, SlabsUnmoved DEF AllocFails, PmmStep
<1>2. CASE AllocExisting(c)
  <2> DEFINE b == Candidate(cache[c])
  <2>0. UNCHANGED pmmVars /\ PmmStep
    BY <1>2 DEF AllocExisting, PmmStep
  <2>1. CASE UNCHANGED slabVars
    BY <2>0, <2>1, SlabsUnmoved
  <2>2. CASE slab[b].freelist # <<>> /\ AllocFrom(c, cache[c], slab[b], b)
    <3>1. b \in ToSet(cache[c].partial) \cup ToSet(cache[c].empty)
      <4>1. Listed(cache[c])
        BY <1>0 DEF SlabInv, CacheSound
      <4>2. /\ cache[c].partial \in Seq(Blocks) /\ cache[c].empty \in Seq(Blocks)
            /\ Once(cache[c].partial) /\ Once(cache[c].empty)
        BY <4>1, ListedFacts DEF Listed
      <4>3. HasCandidate(cache[c])
        BY <1>2 DEF AllocExisting
      <4>4. \A q \in {cache[c].partial, cache[c].empty} : q # <<>> => Head(q) \in ToSet(q)
        BY <4>2, EndsFacts
      <4> QED
        BY <4>3, <4>4 DEF HasCandidate, Candidate
    <3> HIDE DEF b
    <3>2. SlabInv([cache EXCEPT ![c] = [Place(cache[c], b, Pop(slab[b]).inuse, slab[b].objects)
                                           EXCEPT !.num_active = @ + 1]],
                  [slab EXCEPT ![b] = Pop(slab[b])],
                  lent \cup {<<b, Head(slab[b].freelist)>>}, bitmap)
      BY <1>0, <2>2, <3>1, AllocKeeps
    <3>3. SlabInv(cache', slab', lent', bitmap)
      BY <2>2, <3>2 DEF AllocFrom
    <3> QED
      BY <3>3, <2>0, <1>0, Unmoved DEF IInv
  <2> QED
    BY <1>2, <2>1, <2>2 DEF AllocExisting, StopSlab
<1>3. CASE AllocFromNew(c)
  <2> DEFINE b == Pmm!bitmap_find_free
  <2> DEFINE n == calculate_objects_per_slab(cache[c])
  <2> DEFINE s == [objects |-> n, inuse |-> 0, freelist |-> [i \in 1..n |-> i]]
  <2> DEFINE k == [cache[c] EXCEPT !.empty = <<b>> \o @, !.num_slabs = @ + 1]
  <2>0. b # Pmm!NotFound /\ Pmm!TakeBlocks({b}) /\ PmmStep
    BY <1>3 DEF AllocFromNew, PmmStep
  <2>1. CASE UNCHANGED slabVars
    BY <2>0, <2>1, SlabsUnmoved
  <2>2. CASE n > 0 /\ AllocFrom(c, k, s, b)
    <3>1. b \in Blocks \ bitmap /\ PmmInv' /\ bitmap' = bitmap \cup {b} /\ b \in Frames \ bitmap
      BY <2>0, <1>0, Found, Taken, PmmInvFacts DEF Frames
    <3>2. n \in Nat
      <4>1. cache[c] \in CacheRecord
        BY <1>0 DEF SlabInv, CacheSound, Listed
      <4> QED
        BY <4>1, ObjectsFit
    <3> DEFINE ca == [cache EXCEPT ![c] = k]
    <3> DEFINE sl == [slab EXCEPT ![b] = s]
    <3> HIDE DEF b
    <3>3. b \in ToSet(k.empty) /\ SlabInv(ca, sl, lent, bitmap')
      BY <1>0, <2>2, <3>1, <3>2, GrowKeeps
    <3>4. /\ ca[c] = k /\ sl[b] = s
          /\ \A v : [ca EXCEPT ![c] = v] = [cache EXCEPT ![c] = v]
          /\ \A v : [sl EXCEPT ![b] = v] = [slab EXCEPT ![b] = v]
      BY <1>0, <3>1 DEF SlabInv, SlabTypes
    <3> HIDE DEF ca, sl, k, n
    <3>5. s.freelist # <<>>
      <4>1. ToSet(s.freelist) = 1..n /\ s \in SlabRecord
        BY <3>2, FreshSlab
      <4>2. 1 \in 1..n
        BY <2>2, <3>2
      <4>3. s.freelist \in Seq(Nat)
        BY <4>1 DEF SlabRecord
      <4> QED
        BY <4>1, <4>2, <4>3, ToSetFacts
    <3> HIDE DEF s
    <3>6. SlabInv([ca EXCEPT ![c] = [Place(ca[c], b, Pop(sl[b]).inuse, sl[b].objects)
                                        EXCEPT !.num_active = @ + 1]],
                  [sl EXCEPT ![b] = Pop(sl[b])],
                  lent \cup {<<b, Head(sl[b].freelist)>>}, bitmap')
      BY <3>3, <3>4, <3>5, AllocKeeps
    <3>7. SlabInv(cache', slab', lent', bitmap')
      BY <2>2, <3>4, <3>6 DEF AllocFrom
    <3> QED
      BY <3>1, <3>7 DEF IInv
  <2> QED
    BY <1>3, <2>1, <2>2 DEF AllocFromNew, StopSlab
<1> QED
  BY <1>1, <1>2, <1>3 DEF kmem_cache_alloc

\* No object of an empty slab is lent.
LEMMA EmptyUnlent ==
    ASSUME NEW k, NEW sl, NEW le, NEW bm, CacheSound(k, sl, le, bm), IsFiniteSet(le)
    PROVE  \A o \in le : o[1] \notin ToSet(k.empty)
<1> SUFFICES ASSUME NEW o \in le, o[1] \in ToSet(k.empty) PROVE FALSE
  OBVIOUS
<1>1. o[1] \in SlabsOf(k)
  BY DEF SlabsOf
<1>2. sl[o[1]].inuse = 0 /\ Filled(sl[o[1]], o[1], le)
  BY <1>1 DEF CacheSound, Sorted
<1>3. o \in {x \in le : x[1] = o[1]} /\ Cardinality({x \in le : x[1] = o[1]}) = 0
  BY <1>2 DEF Filled
<1>4. IsFiniteSet({x \in le : x[1] = o[1]})
  BY FS_Subset
<1> QED
  BY <1>3, <1>4, FS_EmptySet

\* kmem_cache_free: the slab of a lent object is found.
LEMMA FreeStep ==
    ASSUME IInv, NEW c \in Caches, NEW b, NEW i, kmem_cache_free(c, b, i)
    PROVE  IInv'
<1>0. /\ SlabInv(cache, slab, lent, bitmap) /\ PmmInv
      /\ CacheSound(cache[c], slab, lent, bitmap) /\ IsFiniteSet(lent)
  BY DEF IInv, SlabInv, SlabTypes
<1>1. /\ UNCHANGED pmmVars /\ PmmStep /\ <<b, i>> \in lent
      /\ b \in ToSet(cache[c].full) \cup ToSet(cache[c].partial) \cup ToSet(cache[c].empty)
  BY DEF kmem_cache_free, PmmStep
<1>2. b \in ToSet(cache[c].full) \cup ToSet(cache[c].partial)
  <2>1. <<b, i>>[1] = b
    OBVIOUS
  <2>2. b \notin ToSet(cache[c].empty)
    BY <1>0, <1>1, <2>1, EmptyUnlent
  <2> QED
    BY <1>1, <2>2
<1>3. CASE UNCHANGED slabVars
  BY <1>1, <1>3, SlabsUnmoved
<1>4. CASE /\ slab' = [slab EXCEPT ![b] = Push(slab[b], i)]
           /\ cache' = [cache EXCEPT ![c] = [Place(cache[c], b, Push(slab[b], i).inuse, Push(slab[b], i).objects)
                                                EXCEPT !.num_active = @ - 1]]
           /\ lent' = lent \ {<<b, i>>}
  <2>1. SlabInv(cache', slab', lent', bitmap)
    BY <1>0, <1>1, <1>2, <1>4, FreeKeeps
  <2> QED
    BY <2>1, <1>0, <1>1, Unmoved DEF IInv
<1> QED
  BY <1>2, <1>3, <1>4 DEF kmem_cache_free, StopSlab, FindSlab, Push

\* The slabs a cache gives back are its own.
LEMMA ReleaseStep ==
    ASSUME IInv, NEW c \in Caches, NEW B, B \subseteq SlabsOf(cache[c]), \A o \in lent : o[1] \notin B,
           NEW k, CacheSound(k, slab, lent, bitmap), SlabsOf(k) = SlabsOf(cache[c]) \ B,
           DestroySlabs(B), cache' = [cache EXCEPT ![c] = k], UNCHANGED lent
    PROVE  IInv'
<1>0. SlabInv(cache, slab, lent, bitmap) /\ PmmInv /\ SlabsOf(cache[c]) \subseteq bitmap \cap Frames
  BY DEF IInv, SlabInv, CacheSound
<1>1. B \subseteq bitmap /\ B \cap (0..Reserved - 1) = {} /\ Pmm!GiveBack(B)
      /\ slab' = [b \in Blocks |-> IF b \in B THEN NoSlab ELSE slab[b]]
  BY <1>0 DEF Frames, DestroySlabs
<1>2. PmmInv' /\ bitmap' = bitmap \ B
  BY <1>0, <1>1, GivenBack
<1>3. SlabInv(cache', slab', lent', bitmap')
  BY <1>0, <1>1, <1>2, ReleaseKeeps
<1> QED
  BY <1>2, <1>3 DEF IInv

\* kmem_cache_destroy.
LEMMA DestroyStep ==
    ASSUME IInv, NEW c \in Caches, kmem_cache_destroy(c)
    PROVE  IInv'
<1>1. CacheSound(NoCache, slab, lent, bitmap) /\ SlabsOf(NoCache) = {}
  BY NewCacheFacts, BareCache
<1> QED
  BY <1>1, ReleaseStep DEF kmem_cache_destroy

\* kmem_cache_shrink.
LEMMA ShrinkStep ==
    ASSUME IInv, NEW c \in Caches, kmem_cache_shrink(c)
    PROVE  IInv'
<1> DEFINE k == cache[c]
<1> DEFINE B == ToSet(Front(k.empty))
<1>0. CacheSound(k, slab, lent, bitmap) /\ IsFiniteSet(lent)
  BY DEF IInv, SlabInv, SlabTypes
<1>1. Len(k.empty) > 1 /\ DestroySlabs(B) /\ cache' = [cache EXCEPT ![c] = Shrunk(cache[c])] /\ UNCHANGED lent
  BY DEF kmem_cache_shrink
<1> HIDE DEF k
<1>2. /\ CacheSound(Shrunk(k), slab, lent, bitmap)
      /\ SlabsOf(Shrunk(k)) = SlabsOf(k) \ B /\ B \subseteq ToSet(k.empty)
  BY <1>0, <1>1, ShrunkFacts
<1>3. B \subseteq SlabsOf(k) /\ \A o \in lent : o[1] \notin B
  BY <1>0, <1>2, EmptyUnlent DEF SlabsOf
<1> HIDE DEF B
<1> QED
  BY <1>1, <1>2, <1>3, ReleaseStep DEF k

\* kmem_cache_create.
LEMMA CreateStep ==
    ASSUME IInv, NEW c \in Caches, NEW size \in Sizes, kmem_cache_create(c, size)
    PROVE  IInv'
<1>0. SlabInv(cache, slab, lent, bitmap) /\ PmmInv /\ CacheSound(cache[c], slab, lent, bitmap)
  BY DEF IInv, SlabInv
<1>1. /\ ~cache[c].live /\ cache' = [cache EXCEPT ![c] = NewCache(size)] /\ slab' = slab /\ lent' = lent
      /\ UNCHANGED pmmVars
  BY DEF kmem_cache_create
<1>2. SlabsOf(cache[c]) = {}
  BY <1>0, <1>1 DEF CacheSound
<1>3. CacheSound(NewCache(size), slab, lent, bitmap) /\ SlabsOf(NewCache(size)) = {}
  <2>1. size \in Nat
    BY SlabAssumption
  <2> QED
    BY <2>1, NewCacheFacts, BareCache
<1>4. SlabInv(cache', [b \in Blocks |-> IF b \in {} THEN NoSlab ELSE slab[b]], lent, bitmap \ {})
  BY <1>0, <1>1, <1>2, <1>3, ReleaseKeeps
<1>5. [b \in Blocks |-> IF b \in {} THEN NoSlab ELSE slab[b]] = slab /\ bitmap \ {} = bitmap
  BY <1>0 DEF SlabInv, SlabTypes
<1> QED
  BY <1>0, <1>1, <1>4, <1>5, Unmoved DEF IInv

\* Every step.
LEMMA NextKeeps == IInv /\ [Next]_vars => IInv'
<1> SUFFICES ASSUME IInv, [Next]_vars PROVE IInv'
  OBVIOUS
<1>1. CASE VmmNext /\ UNCHANGED slabVars
  BY <1>1, VmmTakes, SlabsUnmoved
<1>2. CASE SlabNext
  BY <1>2, AllocStep, FreeStep, DestroyStep, CreateStep, ShrinkStep DEF SlabNext
<1>3. CASE UNCHANGED vars
  BY <1>3, SlabsUnmoved DEF vars, slabVars, pmmVars, PmmStep
<1> QED
  BY <1>1, <1>2, <1>3 DEF Next, Halted

\* pmm_init, vmm_init and slab_init.
LEMMA InitKeeps == Init => IInv
<1> SUFFICES ASSUME Init PROVE IInv
  OBVIOUS
<1>0. vmm_init /\ slab_init
  BY DEF Init
<1>1. PmmInv
  <2>1. PageWords \in Nat /\ TotalBlocks \in Nat /\ TotalBlocks >= PageWords + 3 /\ PageWords >= 8
    BY VmmAssumption DEF Reserved
  <2>2. /\ bitmap = 0..PageWords + 2 /\ used_blocks = PageWords + 3 /\ pinned = {}
        /\ owners = [b \in Blocks |-> IF b \in PageWords..PageWords + 2 THEN 1 ELSE 0]
    BY <1>0 DEF vmm_init, Reserved
  <2>3. Manager!held = PageWords..PageWords + 2
    BY <2>1, <2>2 DEF Manager!held, Manager!Blocks, Blocks
  <2>4. Manager!TypeOK
    BY <2>1, <2>2 DEF Manager!TypeOK, Manager!Blocks, Blocks
  <2>5. Manager!BlocksAccounted
    BY <2>1, <2>2, <2>3 DEF Manager!BlocksAccounted, Manager!KernelBlocks, Reserved
  <2>6. Manager!OneOwner
    BY <2>1, <2>2, <2>3 DEF Manager!OneOwner, Manager!KernelBlocks, Manager!Blocks, Blocks, Reserved
  <2>7. Manager!UsedIsExact
    <3>1. Cardinality(0..PageWords + 2) = (PageWords + 2) - 0 + 1
      BY <2>1, FS_Interval
    <3> QED
      BY <2>1, <2>2, <3>1 DEF Manager!UsedIsExact, Manager!Cardinality, Cardinality
  <2> QED
    BY <2>2, <2>4, <2>5, <2>6, <2>7 DEF PmmInv, Manager!Inv
<1>2. SlabInv(cache, slab, lent, bitmap)
  <2>1. PICK size \in [Caches -> Sizes] : cache = [c \in Caches |-> NewCache(size[c])]
    BY <1>0 DEF slab_init
  <2>2. slab = [b \in Blocks |-> NoSlab] /\ lent = {}
    BY <1>0 DEF slab_init
  <2>3. NoSlab \in SlabRecord
    BY DEF NoSlab, SlabRecord
  <2>4. ASSUME NEW c \in Caches PROVE CacheSound(cache[c], slab, lent, bitmap) /\ SlabsOf(cache[c]) = {}
    <3>1. size[c] \in Nat /\ cache[c] = NewCache(size[c])
      BY <2>1, SlabAssumption
    <3> QED
      BY <3>1, NewCacheFacts, BareCache
  <2>5. SlabTypes(cache, slab, lent)
    BY <2>1, <2>2, <2>3, FS_EmptySet DEF SlabTypes
  <2> QED
    BY <2>2, <2>4, <2>5 DEF SlabInv, CachesApart, LentListed
<1> QED
  BY <1>1, <1>2 DEF IInv


-----------------------------------------------------------------------------
(***************************************************************************)
(* The theorems.                                                           *)
(***************************************************************************)
\* The invariant holds throughout, whatever calls of the slab allocator and of
\* virtual memory come in whatever order, over the one pmm.c they share.
THEOREM MemoryInvariant == Spec => []IInv
BY InitKeeps, NextKeeps, PTL DEF Spec

\* A cache's lists, laid end to end, hold each of its slabs once.
LEMMA ListsCounted ==
    ASSUME NEW k, Listed(k)
    PROVE  ListedOnce(k)
<1> DEFINE f == ToSet(k.full)
<1> DEFINE p == ToSet(k.partial)
<1> DEFINE e == ToSet(k.empty)
<1>1. k.full \in Seq(Blocks) /\ k.partial \in Seq(Blocks) /\ k.empty \in Seq(Blocks)
  BY ListedFacts
<1>2. /\ IsFiniteSet(f) /\ Cardinality(f) = Len(k.full)
      /\ IsFiniteSet(p) /\ Cardinality(p) = Len(k.partial)
      /\ IsFiniteSet(e) /\ Cardinality(e) = Len(k.empty)
  BY <1>1, CountElements DEF Listed
<1>3. f \cap p = {} /\ (f \cup p) \cap e = {} /\ SlabsOf(k) = (f \cup p) \cup e
  BY DEF Listed, SlabsOf
<1>4. Cardinality(f \cap p) = 0 /\ Cardinality((f \cup p) \cap e) = 0
  BY <1>3, FS_EmptySet
<1> HIDE DEF f, p, e
<1>5. IsFiniteSet(f \cup p) /\ Cardinality(f \cup p) = Cardinality(f) + Cardinality(p) - Cardinality(f \cap p)
  BY <1>2, FS_Union
<1>6. Cardinality((f \cup p) \cup e) = Cardinality(f \cup p) + Cardinality(e) - Cardinality((f \cup p) \cap e)
  BY <1>2, <1>5, FS_Union
<1>7. Cardinality(f) \in Nat /\ Cardinality(p) \in Nat /\ Cardinality(e) \in Nat
  BY <1>2, FS_CardinalityType
<1>8. Cardinality(SlabsOf(k)) = Cardinality(f) + Cardinality(p) + Cardinality(e)
  <2>1. \A x, y, z, u \in Nat : u = x + y - 0 => u + z - 0 = x + y + z
    OBVIOUS
  <2>2. Cardinality(f \cup p) \in Nat
    BY <1>5, FS_CardinalityType
  <2> QED
    BY <1>3, <1>4, <1>5, <1>6, <1>7, <2>1, <2>2
<1> QED
  BY <1>2, <1>8 DEF ListedOnce

\* The objects on the free list of slab b, as pairs.
LEMMA FreeCounted ==
    ASSUME NEW q \in Seq(Nat), Once(q), NEW b
    PROVE  Cardinality({<<b, i>> : i \in ToSet(q)}) = Len(q)
<1> DEFINE F == {<<b, i>> : i \in ToSet(q)}
<1> DEFINE g == [i \in ToSet(q) |-> <<b, i>>]
<1>1. IsFiniteSet(ToSet(q)) /\ Cardinality(ToSet(q)) = Len(q)
  BY CountElements
<1>2. g \in Bijection(ToSet(q), F)
  BY DEF Bijection, Injection, Surjection, IsInjective
<1>3. ExistsBijection(ToSet(q), F)
  BY <1>2 DEF ExistsBijection
<1> QED
  BY <1>1, <1>3, FS_Bijection

\* Every slab is on one list, the one for its count of objects in use, and
\* num_slabs and num_active are exact.
THEOREM SlabsStaySorted == Spec => []SlabsSorted
<1>1. IInv => SlabsSorted
  <2> SUFFICES ASSUME IInv, NEW c \in Caches
               PROVE  LET k == cache[c]
                      IN  /\ ListedOnce(k)
                          /\ k.num_slabs = Cardinality(SlabsOf(k))
                          /\ k.num_active = Cardinality({object \in lent : object[1] \in SlabsOf(k)})
                          /\ \A b \in ToSet(k.full) : slab[b].inuse = slab[b].objects
                          /\ \A b \in ToSet(k.empty) : slab[b].inuse = 0
                          /\ \A b \in ToSet(k.partial) : slab[b].inuse \in 1..slab[b].objects - 1
    BY DEF SlabsSorted
  <2> DEFINE k == cache[c]
  <2>1. CacheSound(k, slab, lent, bitmap) /\ slab \in [Blocks -> SlabRecord]
    BY DEF IInv, SlabInv, SlabTypes
  <2> HIDE DEF k
  <2>2. Listed(k) /\ Sorted(k, slab) /\ k.num_active = Cardinality(ActiveIn(k, lent))
    BY <2>1 DEF CacheSound
  <2>3. ListedOnce(k) /\ k.num_slabs = Cardinality(SlabsOf(k))
    BY <2>2, ListsCounted DEF Listed
  <2>4. ASSUME NEW b \in ToSet(k.partial) PROVE slab[b].inuse \in 1..slab[b].objects - 1
    <3>1. b \in Blocks
      BY <2>2, ListedFacts DEF SlabsOf
    <3>2. slab[b].inuse \in Nat /\ slab[b].objects \in Nat
      BY <3>1, <2>1 DEF SlabRecord
    <3>3. slab[b].inuse > 0 /\ slab[b].inuse < slab[b].objects
      BY <2>2 DEF Sorted
    <3> QED
      BY <3>2, <3>3
  <2> QED
    BY <2>2, <2>3, <2>4 DEF Sorted, ActiveIn, k
<1> QED
  BY <1>1, MemoryInvariant, PTL

\* Every object is lent to one holder or once on its slab's free list, inuse
\* counts the lent ones, and a slab's objects end inside its block.
THEOREM ObjectsStayAccounted == Spec => []ObjectsAccounted
<1>1. IInv => ObjectsAccounted
  <2> SUFFICES ASSUME IInv PROVE ObjectsAccounted
    OBVIOUS
  <2>0. /\ slab \in [Blocks -> SlabRecord] /\ lent \subseteq Blocks \X Nat
        /\ LentListed(cache, slab, lent)
        /\ \A c \in Caches : CacheSound(cache[c], slab, lent, bitmap)
    BY DEF IInv, SlabInv, SlabTypes
  <2>1. \A object \in lent : object[1] \in SlabPages
    BY <2>0 DEF LentListed, SlabPages
  <2>2. \A c \in Caches : \A b \in SlabsOf(cache[c]) : slab[b].objects * cache[c].object_size <= BlockBytes
    BY <2>0 DEF CacheSound
  <2>3. ASSUME NEW b \in SlabPages
        PROVE  LET free == {<<b, i>> : i \in ToSet(slab[b].freelist)}
               IN  /\ Cardinality(free) = Len(slab[b].freelist)
                   /\ free \cap lent = {}
                   /\ free \cup (lent \cap Objects(b)) = Objects(b)
                   /\ slab[b].inuse = Cardinality(lent \cap Objects(b))
    <3> DEFINE free == {<<b, i>> : i \in ToSet(slab[b].freelist)}
    <3>1. PICK c \in Caches : b \in SlabsOf(cache[c])
      BY DEF SlabPages
    <3>2. Filled(slab[b], b, lent) /\ b \in Blocks
      BY <2>0, <3>1, ListedFacts DEF CacheSound
    <3>3. slab[b].freelist \in Seq(Nat)
      BY <2>0, <3>2 DEF SlabRecord
    <3>a. Once(slab[b].freelist)
      BY <3>2 DEF Filled
    <3>4. Cardinality(free) = Len(slab[b].freelist)
      BY <3>3, <3>a, FreeCounted
    <3>5. Objects(b) = {<<b, i>> : i \in 1..slab[b].objects}
      BY DEF Objects
    <3>6. \A i \in ToSet(slab[b].freelist) : i \in 1..slab[b].objects /\ <<b, i>> \notin lent
      BY <3>2 DEF Filled
    <3>7. free \cap lent = {} /\ free \subseteq Objects(b)
      BY <3>5, <3>6
    <3>8. \A o \in Objects(b) : o \in lent \/ o \in free
      BY <3>2, <3>5 DEF Filled
    <3>9. lent \cap Objects(b) = {o \in lent : o[1] = b}
      <4>1. ASSUME NEW o \in lent, o[1] = b PROVE o \in Objects(b)
        <5>1. o[2] \in 1..slab[b].objects /\ o = <<b, o[2]>>
          BY <4>1, <2>0 DEF LentListed
        <5> QED
          BY <5>1, <3>5
      <4>2. ASSUME NEW o \in Objects(b) PROVE o[1] = b
        BY <3>5
      <4> QED
        BY <4>1, <4>2
    <3> QED
      BY <3>2, <3>4, <3>7, <3>8, <3>9 DEF Filled
  <2> QED
    BY <2>1, <2>2, <2>3 DEF ObjectsAccounted
<1> QED
  BY <1>1, MemoryInvariant, PTL

\* What PmmProofs proves of pmm.c alone holds of it below its two clients: the
\* bits set are those of the kernel's blocks and of blocks with one holder each,
\* and used_blocks counts them.
PmmSound == Pmm!OneOwner /\ Pmm!BlocksAccounted /\ Pmm!UsedIsExact

THEOREM MemoryManagerSound == Spec => []PmmSound
<1>1. IInv => PmmSound
  BY DEF IInv, PmmInv, PmmSound, Manager!Inv, Manager!OneOwner, Pmm!OneOwner,
         Manager!BlocksAccounted, Pmm!BlocksAccounted, Manager!UsedIsExact, Pmm!UsedIsExact,
         Manager!held, Pmm!held, Manager!Blocks, Pmm!Blocks, Manager!KernelBlocks, Pmm!KernelBlocks,
         Manager!Cardinality, Pmm!Cardinality
<1> QED
  BY <1>1, MemoryInvariant, PTL


-----------------------------------------------------------------------------
(***************************************************************************)
(* The page maps.  Of the blocks that are held, T are tables, D            *)
(* directories and U user pages; Q are the user pages that are still to be *)
(* mapped, c is the directory the processor walks.                         *)
(***************************************************************************)
Index == 0..PageWords - 1
Table0 == kernel_directory + 1
Table1 == kernel_directory + 2

Word == [frame : Blocks \cup {-1, -2}, user : BOOLEAN]
Memory == [Blocks -> [Index -> Word]]

\* A block without an entry, whatever else it holds.
Bare(row) == \A i \in Index : ~IsEntry(row[i])

\* The entries of a directory name tables, each of them once.
IsDirectory(row, T) ==
    /\ \A i \in Index : IsEntry(row[i]) =>
          /\ row[i].frame \in T
          /\ row[i].frame = Table0 => i = 0
          /\ row[i].frame = Table1 => i = 1
    /\ \A i, j \in Index : IsEntry(row[i]) /\ row[i].frame = row[j].frame => i = j

\* A directory that runs the kernel.
Real(row) == row[0].frame = Table0

Roles(T, D, U) ==
    /\ T \subseteq Frames /\ D \subseteq Frames /\ U \subseteq Frames
    /\ T \cap D = {} /\ T \cap U = {} /\ D \cap U = {}
    /\ kernel_directory \in D /\ Table0 \in T /\ Table1 \in T

\* A table maps user pages to U or, after a failed pmm_alloc_block, to block 0;
\* the kernel's pages are the identity map of vmm_init's two tables.
TableWords(m, T, U) ==
    \A t \in T, i \in Index : IsEntry(m[t][i]) =>
        IF m[t][i].user THEN m[t][i].frame \in U \cup {0}
        ELSE t \in {Table0, Table1} /\ m[t][i].frame = (t - Table0) * PageWords + i

MappedOnce(m, T) ==
    \A t, s \in T, i, j \in Index :
        /\ IsEntry(m[t][i]) /\ m[t][i].user /\ m[t][i].frame # 0
        /\ m[s][j].user /\ m[s][j].frame = m[t][i].frame
        => t = s /\ i = j

Unmapped(m, T, U, Q) ==
    /\ Q \subseteq U
    /\ \A q \in Q : /\ Bare(m[q])
                    /\ \A t \in T, i \in Index : ~(m[t][i].user /\ m[t][i].frame = q)

\* Only the page at the directory's address is ever mapped to block 0.
ZeroOnly(row, t) == \A j \in Index : row[j] = Entry(0, TRUE) => t = Table1 /\ j = 0

RealMaps(m, D) ==
    \A d \in D : Real(m[d]) =>
        /\ m[d][1].frame = Table1
        /\ \A i \in Index : IsEntry(m[d][i]) => ZeroOnly(m[m[d][i].frame], m[d][i].frame)

\* A block the kernel takes for its directory, with no table the processor uses.
Fake(m, row, D) ==
    \A i, j \in Index, d \in D : IsEntry(row[i]) /\ Real(m[d]) => m[d][j].frame # row[i].frame

\* What the kernel finds behind its pointer to its directory.
Believed(m, T, D) ==
    LET F == m[Table1][0].frame
    IN  IsEntry(m[Table1][0]) =>
            /\ IsDirectory(m[F], T)
            /\ \/ F = kernel_directory /\ Real(m[F])
               \/ Fake(m, m[F], D) /\ (F = kernel_directory => m[Table1][2].frame # Table1)
            /\ F # 0 => Bare(m[0])

MapInv(m, T, D, U, Q, c) ==
    /\ m \in Memory
    /\ Roles(T, D, U)
    /\ TableWords(m, T, U)
    /\ \A d \in D : IsDirectory(m[d], T)
    /\ \A b \in Blocks \ (T \cup D \cup U \cup {0}) : Bare(m[b])
    /\ MappedOnce(m, T)
    /\ Unmapped(m, T, U, Q)
    /\ RealMaps(m, D)
    /\ c \in D /\ (Real(m[c]) \/ Bare(m[c]))
    /\ Believed(m, T, D)

\* The first three blocks after the kernel's.
LEMMA SizeFacts ==
    /\ PageWords \in Nat /\ PageWords >= 8 /\ TotalBlocks \in Nat /\ TotalBlocks >= 2 * PageWords
    /\ kernel_directory = PageWords /\ Table0 = PageWords + 1 /\ Table1 = PageWords + 2
    /\ kernel_directory \in Blocks /\ Table0 \in Blocks /\ Table1 \in Blocks /\ 0 \in Blocks
    /\ 0 \in Index /\ 1 \in Index /\ 2 \in Index
    /\ Frames \subseteq Blocks /\ 0 \notin Frames
    /\ \A b \in Blocks : b \in Int /\ b >= 0
<1>1. /\ PageWords \in Nat /\ PageWords >= 8 /\ TotalBlocks \in Nat /\ TotalBlocks >= 2 * PageWords
      /\ kernel_directory = PageWords /\ Table0 = PageWords + 1 /\ Table1 = PageWords + 2
  BY VmmAssumption DEF kernel_directory, Reserved, Table0, Table1
<1> QED
  BY <1>1 DEF Blocks, Index, Frames, Reserved

\* A page's number from its two indexes.
LEMMA PageSplit ==
    /\ \A page \in VPages : /\ pd_index(page) \in Index /\ pt_index(page) \in Index
                            /\ page = pd_index(page) * PageWords + pt_index(page)
    /\ \A p, q \in VPages : pd_index(p) = pd_index(q) /\ pt_index(p) = pt_index(q) => p = q
    /\ \A i, j \in Index : /\ i * PageWords + j \in VPages
                           /\ pd_index(i * PageWords + j) = i /\ pt_index(i * PageWords + j) = j
<1>1. PageWords \in Nat /\ PageWords >= 8
  BY SizeFacts
<1>a. \A x, y \in Nat : x < y => x * PageWords + PageWords <= y * PageWords
  <2> SUFFICES ASSUME NEW x \in Nat, NEW y \in Nat, x < y PROVE x * PageWords + PageWords <= y * PageWords
    OBVIOUS
  <2> DEFINE d == y - x - 1
  <2>1. d \in Nat /\ y = x + 1 + d
    OBVIOUS
  <2> HIDE DEF d
  <2>2. y * PageWords = x * PageWords + PageWords + d * PageWords /\ d * PageWords >= 0
    BY <2>1, <1>1
  <2>3. x * PageWords \in Nat
    BY <1>1
  <2> QED
    BY <2>2, <2>3, <1>1
<1>2. ASSUME NEW page \in VPages
      PROVE  /\ pd_index(page) \in Index /\ pt_index(page) \in Index
             /\ page = pd_index(page) * PageWords + pt_index(page)
  <2>0. PageWords * PageWords \in Nat
    BY <1>1
  <2>1. page \in Nat /\ page < PageWords * PageWords
    BY <2>0 DEF VPages
  <2>2. /\ page \div PageWords \in Nat /\ page % PageWords \in 0..PageWords - 1
        /\ page = PageWords * (page \div PageWords) + (page % PageWords)
    BY <1>1, <2>1
  <2>3. page \div PageWords < PageWords
    BY <1>1, <2>1, <2>2
  <2> QED
    BY <1>1, <2>2, <2>3 DEF pd_index, pt_index, Index
<1>3. ASSUME NEW i \in Index, NEW j \in Index
      PROVE  /\ i * PageWords + j \in VPages
             /\ pd_index(i * PageWords + j) = i /\ pt_index(i * PageWords + j) = j
  <2> DEFINE n == i * PageWords + j
  <2>1. i \in Nat /\ i < PageWords /\ j \in Nat /\ j < PageWords
    BY <1>1 DEF Index
  <2>2. n \in Nat /\ n < PageWords * PageWords /\ PageWords * PageWords \in Nat
    <3>1. i * PageWords \in Nat /\ PageWords * PageWords \in Nat
      BY <1>1, <2>1
    <3>2. i * PageWords + PageWords <= PageWords * PageWords
      BY <1>a, <1>1, <2>1
    <3> QED
      BY <3>1, <3>2, <2>1, <1>1
  <2>3. /\ n \div PageWords \in Nat /\ n % PageWords \in 0..PageWords - 1
        /\ n = PageWords * (n \div PageWords) + (n % PageWords)
    BY <1>1, <2>2
  <2>4. \A v, w, r, s \in Nat : r < PageWords /\ s < PageWords /\ v * PageWords + r = w * PageWords + s
                                  => v = w /\ r = s
    <3> SUFFICES ASSUME NEW v \in Nat, NEW w \in Nat, NEW r \in Nat, NEW s \in Nat,
                        r < PageWords, s < PageWords, v * PageWords + r = w * PageWords + s
                 PROVE  v = w /\ r = s
      OBVIOUS
    <3>0. v * PageWords \in Nat /\ w * PageWords \in Nat
      BY <1>1
    <3>2. ~(v < w) /\ ~(w < v)
      BY <3>0, <1>a, <1>1
    <3> QED
      BY <3>2, <3>0
  <2>5. n % PageWords \in Nat /\ n % PageWords < PageWords /\ (n \div PageWords) * PageWords + (n % PageWords) = i * PageWords + j
    BY <2>3, <2>2, <1>1, SMTT(30)
  <2>6. n \div PageWords = i /\ n % PageWords = j
    BY <2>1, <2>3, <2>4, <2>5
  <2> QED
    BY <2>2, <2>6 DEF VPages, pd_index, pt_index
<1> QED
  BY <1>2, <1>3

\* Where the kernel's directory and tables are looked up.
LEMMA KernelPages ==
    /\ \A i \in Index : /\ PageWords + i \in VPages
                        /\ pd_index(PageWords + i) = 1 /\ pt_index(PageWords + i) = i
    /\ \A i \in Index : i \in VPages /\ pd_index(i) = 0 /\ pt_index(i) = i
<1>1. 0 \in Index /\ 1 \in Index /\ PageWords \in Nat
  BY SizeFacts
<1>2. \A i \in Index : i \in Int /\ 1 * PageWords + i = PageWords + i /\ 0 * PageWords + i = i
  BY <1>1 DEF Index
<1>3. ASSUME NEW i \in Index, NEW n \in {0, 1}
      PROVE  /\ n * PageWords + i \in VPages
             /\ pd_index(n * PageWords + i) = n /\ pt_index(n * PageWords + i) = i
  BY <1>1, PageSplit
<1>4. ASSUME NEW i \in Index
      PROVE  /\ 1 * PageWords + i \in VPages
             /\ pd_index(1 * PageWords + i) = 1 /\ pt_index(1 * PageWords + i) = i
  BY <1>3
<1>5. ASSUME NEW i \in Index
      PROVE  /\ 0 * PageWords + i \in VPages
             /\ pd_index(0 * PageWords + i) = 0 /\ pt_index(0 * PageWords + i) = i
  BY <1>3
<1> QED
  BY <1>2, <1>4, <1>5

\* An entry names a block.
LEMMA EntryFacts ==
    \A w \in Word : /\ IsEntry(w) <=> w.frame \in Blocks
                    /\ w.user \in BOOLEAN
<1>1. \A b \in Blocks : b \in Int /\ b >= 0
  BY SizeFacts
<1> QED
  BY <1>1 DEF Word, IsEntry


\* The words of memory, and the parts of the invariant.
LEMMA MapParts ==
    ASSUME NEW m, NEW T, NEW D, NEW U, NEW Q, NEW c, MapInv(m, T, D, U, Q, c)
    PROVE  /\ \A b \in Blocks, i \in Index : m[b][i] \in Word
           /\ T \subseteq Blocks /\ D \subseteq Blocks /\ U \subseteq Blocks /\ Q \subseteq Blocks
           /\ c \in Blocks /\ c \in D
           /\ 0 \notin T /\ 0 \notin D /\ 0 \notin U /\ Q \subseteq U
           /\ T \cap D = {} /\ T \cap U = {} /\ D \cap U = {}
           /\ kernel_directory \in D /\ Table0 \in T /\ Table1 \in T
           /\ \A b \in Blocks : Real(m[b]) => IsEntry(m[b][0]) /\ ~Bare(m[b])
<1>1. \A b \in Blocks, i \in Index : m[b][i] \in Word
  BY DEF MapInv, Memory
<1>2. /\ T \subseteq Blocks /\ D \subseteq Blocks /\ U \subseteq Blocks /\ Q \subseteq Blocks
      /\ c \in Blocks /\ c \in D /\ 0 \notin T /\ 0 \notin D /\ 0 \notin U /\ Q \subseteq U
      /\ T \cap D = {} /\ T \cap U = {} /\ D \cap U = {}
      /\ kernel_directory \in D /\ Table0 \in T /\ Table1 \in T
  BY SizeFacts DEF MapInv, Roles, Unmapped
<1>3. \A b \in Blocks : Real(m[b]) => IsEntry(m[b][0]) /\ ~Bare(m[b])
  BY <1>1, SizeFacts, EntryFacts DEF Real, Bare
<1> QED
  BY <1>1, <1>2, <1>3

(***************************************************************************)
(* The processor's walk for a page that is nobody's user page: a pointer   *)
(* of the kernel's reaches its own block, or the one block of a user       *)
(* process that has been mapped over it.                                   *)
(***************************************************************************)
LEMMA WalkFacts ==
    ASSUME NEW m, NEW T, NEW D, NEW U, NEW Q, NEW c, MapInv(m, T, D, U, Q, c),
           NEW page \in VPages, IsEntry(Hardware(m, c, page))
    PROVE  LET f == Hardware(m, c, page).frame
           IN  /\ Real(m[c]) /\ f \in Blocks
               /\ f = page \/ f \in U \ Q \/ (f = 0 /\ page = kernel_directory)
               /\ page \notin U /\ f \in U =>
                     \A other \in VPages :
                         other \notin U /\ Hardware(m, c, other).frame = f => other = page
<1> DEFINE e(p) == m[c][pd_index(p)]
<1> DEFINE w(p) == m[e(p).frame][pt_index(p)]
<1>0. \A p \in VPages : pd_index(p) \in Index /\ pt_index(p) \in Index
  BY PageSplit
<1>1. ASSUME NEW p \in VPages, Hardware(m, c, p).frame \in Blocks
      PROVE  /\ IsEntry(e(p)) /\ e(p).frame \in T /\ w(p) \in Word /\ IsEntry(w(p))
             /\ Hardware(m, c, p).frame = w(p).frame
  <2>1. e(p) \in Word
    BY <1>0, MapParts
  <2>2. IsEntry(e(p))
    <3>1. ~IsEntry(e(p)) => Hardware(m, c, p) = e(p)
      BY DEF Hardware
    <3> QED
      BY <1>1, <2>1, <3>1, EntryFacts
  <2>3. e(p).frame \in T
    BY <1>0, <2>2 DEF MapInv, IsDirectory
  <2>4. w(p) \in Word
    BY <1>0, <2>3, MapParts
  <2>5. Hardware(m, c, p) = [w(p) EXCEPT !.user = @ /\ e(p).user]
    BY <2>2 DEF Hardware
  <2>6. Hardware(m, c, p).frame = w(p).frame
    BY <2>4, <2>5 DEF Word
  <2> QED
    BY <1>1, <2>2, <2>3, <2>4, <2>6, EntryFacts
<1>2. Hardware(m, c, page).frame \in Blocks
  <2>1. e(page) \in Word
    BY <1>0, MapParts
  <2>2. IsEntry(e(page))
    BY DEF Hardware
  <2>3. e(page).frame \in T
    BY <1>0, <2>2 DEF MapInv, IsDirectory
  <2>4. w(page) \in Word
    BY <1>0, <2>3, MapParts
  <2>5. Hardware(m, c, page) = [w(page) EXCEPT !.user = @ /\ e(page).user]
    BY <2>2, SMTT(30) DEF Hardware
  <2>6. Hardware(m, c, page).frame = w(page).frame
    BY <2>4, <2>5 DEF Word
  <2> QED
    BY <2>4, <2>6, EntryFacts DEF IsEntry
<1>3. Real(m[c])
  BY <1>0, <1>1, <1>2 DEF MapInv, Bare
<1> DEFINE f == Hardware(m, c, page).frame
<1>4. \A p \in VPages : Hardware(m, c, p).frame \in Blocks /\ ~w(p).user => w(p).frame = p
  <2> SUFFICES ASSUME NEW p \in VPages, Hardware(m, c, p).frame \in Blocks, ~w(p).user PROVE w(p).frame = p
    OBVIOUS
  <2>1. IsEntry(e(p)) /\ e(p).frame \in T /\ w(p) \in Word /\ IsEntry(w(p))
    BY <1>1
  <2>2. e(p).frame \in {Table0, Table1} /\ w(p).frame = (e(p).frame - Table0) * PageWords + pt_index(p)
    BY <1>0, <2>1 DEF MapInv, TableWords
  <2>3. e(p).frame = Table0 + pd_index(p)
    <3>1. (e(p).frame = Table0 => pd_index(p) = 0) /\ (e(p).frame = Table1 => pd_index(p) = 1)
      BY <1>0, <2>1 DEF MapInv, IsDirectory
    <3> HIDE DEF e
    <3> QED
      BY <2>2, <3>1, SizeFacts
  <2> HIDE DEF e, w
  <2>4. (e(p).frame - Table0) = pd_index(p)
    BY <2>3, <1>0, SizeFacts DEF Index
  <2> QED
    BY <2>2, <2>4, PageSplit
<1>5. w(page).user => f \in U \cup {0}
  BY <1>0, <1>1, <1>2 DEF MapInv, TableWords
<1>6. w(page).user \in BOOLEAN
  BY <1>1, <1>2, EntryFacts
<1>7. f \notin Q \/ ~w(page).user
  BY <1>0, <1>1, <1>2 DEF MapInv, Unmapped
<1>8. w(page).user /\ f = 0 => page = kernel_directory
  <2> SUFFICES ASSUME w(page).user, f = 0 PROVE page = kernel_directory
    OBVIOUS
  <2>1. w(page) = Entry(0, TRUE)
    BY <1>1, <1>2, <1>6 DEF Entry, Word
  <2>2. e(page).frame = Table1 /\ pt_index(page) = 0
    <3>1. c \in D /\ RealMaps(m, D) /\ IsEntry(e(page)) /\ pd_index(page) \in Index /\ pt_index(page) \in Index
      BY <1>0, <1>1, <1>2 DEF MapInv
    <3> QED
      BY <1>3, <2>1, <3>1 DEF RealMaps, ZeroOnly
  <2>3. pd_index(page) = 1
    BY <1>0, <1>1, <1>2, <2>2 DEF MapInv, IsDirectory
  <2>4. kernel_directory \in VPages /\ pd_index(kernel_directory) = 1 /\ pt_index(kernel_directory) = 0
    <3>1. 0 \in Index /\ PageWords + 0 = kernel_directory
      BY SizeFacts
    <3> QED
      BY <3>1, KernelPages
  <2> QED
    BY <2>2, <2>3, <2>4, PageSplit
<1>9. ASSUME page \notin U, f \in U, NEW other \in VPages, other \notin U, Hardware(m, c, other).frame = f
      PROVE  other = page
  <2>1. Hardware(m, c, other).frame \in Blocks
    BY <1>9, <1>2
  <2>2. w(page).user /\ w(other).user /\ w(page).frame = w(other).frame /\ w(page).frame = f
    <3>1. w(page).frame = f /\ w(other).frame = f /\ w(other).user \in BOOLEAN
      BY <1>1, <1>2, <1>9, <2>1, EntryFacts
    <3>2. ~w(page).user => f = page
      BY <1>4, <1>2, <3>1
    <3>3. ~w(other).user => f = other
      BY <1>4, <2>1, <3>1
    <3> QED
      BY <1>6, <1>9, <3>1, <3>2, <3>3
  <2>3. e(page).frame \in T /\ e(other).frame \in T /\ IsEntry(w(page)) /\ IsEntry(e(page))
    BY <1>1, <1>2, <2>1
  <2>4. f # 0
    BY <1>9, MapParts, SMTT(30)
  <2>5. e(page).frame = e(other).frame /\ pt_index(page) = pt_index(other)
    BY <1>0, <2>2, <2>3, <2>4 DEF MapInv, MappedOnce
  <2>6. pd_index(page) = pd_index(other)
    BY <1>0, <2>3, <2>5 DEF MapInv, IsDirectory
  <2> QED
    BY <2>5, <2>6, PageSplit
<1> HIDE DEF w
<1> QED
  BY <1>1, <1>2, <1>3, <1>4, <1>5, <1>6, <1>7, <1>8, <1>9


(***************************************************************************)
(* What the kernel does to memory, and to the parts the blocks play.       *)
(***************************************************************************)
\* A program or a slab's objects are written over whole blocks.
LEMMA WipeKeeps ==
    ASSUME NEW m, NEW T, NEW D, NEW U, NEW Q, NEW c, MapInv(m, T, D, U, Q, c),
           NEW m2 \in Memory, \A b \in Blocks : m2[b] = m[b] \/ Bare(m2[b]),
           \/ m2[kernel_directory] = m[kernel_directory]
           \/ m[Table1][0].frame # kernel_directory
           \/ m[Table1][2].frame # Table1
    PROVE  MapInv(m2, T, D, U, Q, c)
<1>0. /\ T \subseteq Blocks /\ D \subseteq Blocks /\ U \subseteq Blocks /\ Q \subseteq Blocks /\ c \in Blocks
      /\ \A b \in Blocks : Real(m[b]) => IsEntry(m[b][0]) /\ ~Bare(m[b])
      /\ \A b \in Blocks, i \in Index : m[b][i] \in Word /\ m2[b][i] \in Word
  BY MapParts DEF Memory
<1>1. \A b \in Blocks, i \in Index : IsEntry(m2[b][i]) => m2[b] = m[b]
  BY DEF Bare
<1>a. \A b \in Blocks, i \in Index : m2[b][i].frame \in Blocks => m2[b] = m[b]
  BY <1>0, <1>1, EntryFacts
<1>2. \A b \in Blocks : Real(m2[b]) => m2[b] = m[b]
  BY <1>a, SizeFacts DEF Real
<1>3. TableWords(m2, T, U)
  BY <1>0, <1>1 DEF MapInv, TableWords
<1>4. \A b \in Blocks : IsDirectory(m[b], T) => IsDirectory(m2[b], T)
  BY <1>1 DEF IsDirectory
<1>5. \A b \in Blocks : Bare(m[b]) => Bare(m2[b])
  OBVIOUS
<1>6. MappedOnce(m2, T)
  <2> SUFFICES ASSUME NEW t \in T, NEW s \in T, NEW i \in Index, NEW j \in Index,
                      IsEntry(m2[t][i]), m2[t][i].user, m2[t][i].frame # 0,
                      m2[s][j].user, m2[s][j].frame = m2[t][i].frame
               PROVE  t = s /\ i = j
    BY DEF MappedOnce
  <2>1. m2[t] = m[t] /\ m2[s] = m[s]
    BY <1>0, <1>1, <1>a, EntryFacts
  <2> QED
    BY <2>1 DEF MapInv, MappedOnce
<1>7. Unmapped(m2, T, U, Q)
  BY <1>0, <1>a, <1>5 DEF MapInv, Unmapped
<1>8. RealMaps(m2, D)
  <2> SUFFICES ASSUME NEW d \in D, Real(m2[d])
               PROVE  /\ m2[d][1].frame = Table1
                      /\ \A i \in Index : IsEntry(m2[d][i]) => ZeroOnly(m2[m2[d][i].frame], m2[d][i].frame)
    BY DEF RealMaps
  <2>1. m2[d] = m[d] /\ Real(m[d])
    BY <1>0, <1>2
  <2>2. /\ m[d][1].frame = Table1
        /\ \A i \in Index : IsEntry(m[d][i]) => ZeroOnly(m[m[d][i].frame], m[d][i].frame)
    BY <2>1 DEF MapInv, RealMaps
  <2>3. IsEntry(Entry(0, TRUE))
    BY DEF IsEntry, Entry
  <2>4. \A b \in Blocks : Bare(m2[b]) => ZeroOnly(m2[b], b)
    BY <2>3 DEF Bare, ZeroOnly
  <2>5. \A i \in Index : IsEntry(m[d][i]) => m[d][i].frame \in Blocks
    BY <1>0, EntryFacts
  <2> QED
    BY <2>1, <2>2, <2>4, <2>5
<1>9. Real(m2[c]) \/ Bare(m2[c])
  BY <1>0 DEF MapInv
<1>10. Believed(m2, T, D)
  <2> DEFINE F == m2[Table1][0].frame
  <2> SUFFICES ASSUME IsEntry(m2[Table1][0])
               PROVE  /\ IsDirectory(m2[F], T)
                      /\ \/ F = kernel_directory /\ Real(m2[F])
                         \/ Fake(m2, m2[F], D) /\ (F = kernel_directory => m2[Table1][2].frame # Table1)
                      /\ F # 0 => Bare(m2[0])
    BY DEF Believed
  <2>1. m2[Table1] = m[Table1] /\ F \in Blocks
    BY <1>0, <1>1, SizeFacts, EntryFacts
  <2>2. /\ IsDirectory(m[F], T)
        /\ \/ F = kernel_directory /\ Real(m[F])
           \/ Fake(m, m[F], D) /\ (F = kernel_directory => m[Table1][2].frame # Table1)
        /\ F # 0 => Bare(m[0])
    BY <2>1 DEF MapInv, Believed
  <2> HIDE DEF F
  <2>3. Fake(m, m[F], D) => Fake(m2, m2[F], D)
    BY <2>1, <1>0, <1>1, <1>2 DEF Fake
  <2>4. Bare(m2[F]) => Fake(m2, m2[F], D)
    BY DEF Fake, Bare
  <2>5. CASE Fake(m, m[F], D) /\ (F = kernel_directory => m[Table1][2].frame # Table1)
    BY <2>1, <2>2, <2>3, <2>5, <1>4, <1>5, SizeFacts
  <2>6. CASE F = kernel_directory /\ Real(m[F])
    <3>1. Real(m2[F]) \/ (Bare(m2[F]) /\ m[Table1][2].frame # Table1)
      BY <2>1, <2>6 DEF F
    <3> QED
      BY <2>1, <2>2, <2>4, <2>6, <3>1, <1>4, <1>5, SizeFacts
  <2> QED
    BY <2>2, <2>5, <2>6
<1> QED
  BY <1>0, <1>3, <1>4, <1>5, <1>6, <1>7, <1>8, <1>9, <1>10 DEF MapInv

\* A user page that is not taken for the directory may hold anything.
LEMMA UserRowKeeps ==
    ASSUME NEW m, NEW T, NEW D, NEW U, NEW Q, NEW c, MapInv(m, T, D, U, Q, c),
           NEW x \in U \ Q, IsEntry(m[Table1][0]) => m[Table1][0].frame # x,
           NEW m2 \in Memory, \A b \in Blocks \ {x} : m2[b] = m[b]
    PROVE  MapInv(m2, T, D, U, Q, c)
<1>0. /\ T \subseteq Blocks /\ D \subseteq Blocks /\ U \subseteq Blocks /\ Q \subseteq Blocks /\ c \in D
      /\ \A b \in Blocks, i \in Index : m[b][i] \in Word
      /\ x # 0 /\ 0 \in Blocks
  BY MapParts, SizeFacts
<1>1. \A b \in T \cup D \cup Q \cup {0} : m2[b] = m[b]
  BY <1>0 DEF MapInv, Roles
<1>2. \A b \in Blocks \ (T \cup D \cup U \cup {0}) : m2[b] = m[b]
  OBVIOUS
<1>3. TableWords(m2, T, U) /\ MappedOnce(m2, T) /\ Unmapped(m2, T, U, Q)
  BY <1>1 DEF MapInv, TableWords, MappedOnce, Unmapped
<1>4. RealMaps(m2, D)
  <2>1. \A d \in D, i \in Index : IsEntry(m[d][i]) => m[d][i].frame \in T
    BY DEF MapInv, IsDirectory
  <2>2. \A d \in D, i \in Index : IsEntry(m[d][i]) => m2[m[d][i].frame] = m[m[d][i].frame]
    BY <2>1, <1>1
  <2>3. \A d \in D : m2[d] = m[d]
    BY <1>1
  <2>4. RealMaps(m, D)
    BY DEF MapInv
  <2> QED
    BY <2>2, <2>3, <2>4 DEF RealMaps
<1>5. Believed(m2, T, D)
  <2>1. m2[Table1] = m[Table1] /\ Table1 \in Blocks
    BY <1>1, SizeFacts DEF MapInv, Roles
  <2>2. IsEntry(m[Table1][0]) => m2[m[Table1][0].frame] = m[m[Table1][0].frame]
    BY <2>1, <1>0, SizeFacts, EntryFacts
  <2>3. \A row : Fake(m, row, D) => Fake(m2, row, D)
    BY <1>1 DEF Fake
  <2>4. m2[0] = m[0]
    BY <1>1
  <2> QED
    BY <2>1, <2>2, <2>3, <2>4 DEF MapInv, Believed
<1> QED
  BY <1>0, <1>1, <1>2, <1>3, <1>4, <1>5 DEF MapInv


\* The block the kernel takes for its directory.
LEMMA BelievedFacts ==
    ASSUME NEW m, NEW T, NEW D, NEW U, NEW Q, NEW c, MapInv(m, T, D, U, Q, c), IsEntry(m[Table1][0])
    PROVE  LET F == m[Table1][0].frame
           IN  /\ F \in Blocks /\ F \notin T
               /\ F = kernel_directory \/ F \in U \ Q \/ F = 0
               /\ F \in D => F = kernel_directory
<1> DEFINE w == m[Table1][0]
<1>1. Table1 \in T /\ Table1 \in Blocks /\ 0 \in Index /\ w \in Word /\ w.user \in BOOLEAN
  BY MapParts, SizeFacts, EntryFacts
<1>2. IF w.user THEN w.frame \in U \cup {0} ELSE w.frame = (Table1 - Table0) * PageWords + 0
  BY <1>1 DEF MapInv, TableWords
<1>3. (Table1 - Table0) * PageWords + 0 = kernel_directory
  BY SizeFacts
<1>4. w.user => w.frame \notin Q
  BY <1>1 DEF MapInv, Unmapped
<1>5. /\ kernel_directory \in D /\ T \cap D = {} /\ T \cap U = {} /\ D \cap U = {}
      /\ 0 \notin T /\ 0 \notin D
  BY MapParts
<1>6. w.frame \in Blocks
  BY <1>1, EntryFacts
<1> HIDE DEF w
<1> QED
  BY <1>1, <1>2, <1>3, <1>4, <1>5, <1>6 DEF w

\* A table's entry is set.
LEMMA SetPteKeeps ==
    ASSUME NEW m, NEW T, NEW D, NEW U, NEW Q, NEW c, MapInv(m, T, D, U, Q, c),
           NEW x \in T, NEW i \in Index, NEW w \in Word,
           \/ ~IsEntry(w)
           \/ w.user /\ w.frame \in Q
           \/ /\ w.user /\ w.frame = 0
              /\ \/ x = Table1 /\ i = 0
                 \/ \A d \in D, j \in Index : Real(m[d]) => m[d][j].frame # x,
           x = Table1 /\ i = 0 => IsEntry(m[Table1][0]) /\ m[Table1][0].frame = kernel_directory
    PROVE  MapInv([m EXCEPT ![x][i] = w], T, D, U, Q \ {w.frame}, c)
<1> DEFINE m2 == [m EXCEPT ![x][i] = w]
<1> DEFINE Q2 == Q \ {w.frame}
<1>0. /\ T \subseteq Blocks /\ D \subseteq Blocks /\ U \subseteq Blocks /\ Q \subseteq Blocks /\ c \in D
      /\ \A b \in Blocks, j \in Index : m[b][j] \in Word
      /\ 0 \notin T /\ 0 \notin D /\ 0 \notin U /\ 0 \in Blocks
      /\ Q \subseteq U /\ T \cap D = {} /\ T \cap U = {} /\ D \cap U = {}
      /\ Table1 \in T /\ Table0 \in T /\ kernel_directory \in D
  BY MapParts, SizeFacts
<1>1. /\ m2 \in Memory /\ \A b \in Blocks \ {x} : m2[b] = m[b]
      /\ m2[x][i] = w /\ \A j \in Index \ {i} : m2[x][j] = m[x][j]
  BY <1>0 DEF MapInv, Memory
<1> HIDE DEF m2
<1>2. \A b \in D \cup U \cup {0} : m2[b] = m[b]
  BY <1>0, <1>1
<1>3. \A t \in T, j \in Index : m2[t][j] = IF t = x /\ j = i THEN w ELSE m[t][j]
  BY <1>0, <1>1
<1>4. \A t \in T, j \in Index : m2[t][j] \in Word /\ m[t][j] \in Word
  BY <1>0, <1>1 DEF Memory
<1>5. IsEntry(w) => w.user /\ w.frame \in Q \cup {0}
  OBVIOUS
<1>6. TableWords(m2, T, U)
  BY <1>0, <1>3, <1>5 DEF MapInv, TableWords
<1>7. MappedOnce(m2, T)
  <2> SUFFICES ASSUME NEW t \in T, NEW s \in T, NEW a \in Index, NEW j \in Index,
                      IsEntry(m2[t][a]), m2[t][a].user, m2[t][a].frame # 0,
                      m2[s][j].user, m2[s][j].frame = m2[t][a].frame
               PROVE  t = s /\ a = j
    BY DEF MappedOnce
  <2>0. IsEntry(m2[s][j])
    BY DEF IsEntry
  <2>1. \A r \in T, l \in Index : m[r][l].user => m[r][l].frame \notin Q
    BY DEF MapInv, Unmapped
  <2>2. CASE t = x /\ a = i
    BY <2>1, <2>2, <1>3, <1>5
  <2>3. CASE s = x /\ j = i
    BY <2>0, <2>1, <2>3, <1>3, <1>5
  <2>4. CASE ~(t = x /\ a = i) /\ ~(s = x /\ j = i)
    BY <2>4, <1>3 DEF MapInv, MappedOnce
  <2> QED
    BY <2>2, <2>3, <2>4
<1>8. Unmapped(m2, T, U, Q2)
  BY <1>0, <1>2, <1>3 DEF MapInv, Unmapped
<1>9. RealMaps(m2, D)
  <2> SUFFICES ASSUME NEW d \in D, Real(m2[d])
               PROVE  /\ m2[d][1].frame = Table1
                      /\ \A j \in Index : IsEntry(m2[d][j]) => ZeroOnly(m2[m2[d][j].frame], m2[d][j].frame)
    BY DEF RealMaps
  <2>1. m2[d] = m[d] /\ Real(m[d])
    BY <1>2
  <2>2. /\ m[d][1].frame = Table1
        /\ \A j \in Index : IsEntry(m[d][j]) => ZeroOnly(m[m[d][j].frame], m[d][j].frame)
    BY <2>1 DEF MapInv, RealMaps
  <2>3. \A j \in Index : IsEntry(m[d][j]) => m[d][j].frame \in T
    BY DEF MapInv, IsDirectory
  <2>4. ASSUME NEW j \in Index, IsEntry(m[d][j]), m[d][j].frame = x PROVE ZeroOnly(m2[x], x)
    <3>1. w = Entry(0, TRUE) => x = Table1 /\ i = 0
      <4> SUFFICES ASSUME w = Entry(0, TRUE) PROVE x = Table1 /\ i = 0
        OBVIOUS
      <4>1. w.frame = 0 /\ IsEntry(w) /\ 0 \notin Q
        BY <1>0 DEF Entry, IsEntry
      <4> QED
        BY <4>1, <2>1, <2>4
    <3>2. ZeroOnly(m[x], x)
      BY <2>2, <2>4
    <3> QED
      BY <3>1, <3>2, <1>1 DEF ZeroOnly
  <2>5. \A t \in T \ {x} : m2[t] = m[t]
    BY <1>0, <1>1
  <2> QED
    BY <2>1, <2>2, <2>3, <2>4, <2>5
<1>10. Believed(m2, T, D)
  <2> DEFINE F == m2[Table1][0].frame
  <2> SUFFICES ASSUME IsEntry(m2[Table1][0])
               PROVE  /\ IsDirectory(m2[F], T)
                      /\ \/ F = kernel_directory /\ Real(m2[F])
                         \/ Fake(m2, m2[F], D) /\ (F = kernel_directory => m2[Table1][2].frame # Table1)
                      /\ F # 0 => Bare(m2[0])
    BY DEF Believed
  <2>0. 0 \in Index /\ 2 \in Index /\ kernel_directory # 0
    BY SizeFacts
  <2>1. CASE x = Table1 /\ i = 0
    <3>1. F = w.frame /\ IsEntry(w) /\ F \in Q \cup {0} /\ F # kernel_directory
      BY <2>0, <2>1, <1>0, <1>3, <1>5
    <3>2. Bare(m[0])
      BY <2>0, <2>1 DEF MapInv, Believed
    <3>3. Bare(m2[F])
      BY <3>1, <3>2, <1>0, <1>2, SMTT(30) DEF MapInv, Unmapped
    <3>4. IsDirectory(m2[F], T) /\ Fake(m2, m2[F], D)
      BY <3>3 DEF IsDirectory, Fake, Bare
    <3> HIDE DEF F
    <3> QED
      BY <3>1, <3>2, <3>4, <1>2
  <2>2. CASE ~(x = Table1 /\ i = 0)
    <3>1. m2[Table1][0] = m[Table1][0]
      BY <2>0, <2>2, <1>0, <1>3
    <3>2. F \notin T /\ F \in Blocks
      BY <3>1, BelievedFacts
    <3>3. /\ IsDirectory(m[F], T)
          /\ \/ F = kernel_directory /\ Real(m[F])
             \/ Fake(m, m[F], D) /\ (F = kernel_directory => m[Table1][2].frame # Table1)
          /\ F # 0 => Bare(m[0])
      BY <3>1 DEF MapInv, Believed
    <3>4. m2[F] = m[F] /\ m2[0] = m[0]
      BY <3>2, <1>1, <1>2
    <3>5. Fake(m, m[F], D) => Fake(m2, m[F], D)
      BY <1>2 DEF Fake
    <3>6. m[Table1][2].frame # Table1 => m2[Table1][2].frame # Table1
      <4>1. IsEntry(w) => w.frame # Table1
        BY <1>0, <1>5
      <4>2. ~IsEntry(w) => w.frame # Table1
        BY <1>0, EntryFacts
      <4> QED
        BY <4>1, <4>2, <1>0, <1>3, <2>0
    <3> HIDE DEF F
    <3> QED
      BY <3>3, <3>4, <3>5, <3>6
  <2> QED
    BY <2>1, <2>2
<1>11. /\ \A d \in D : IsDirectory(m2[d], T)
       /\ \A b \in Blocks \ (T \cup D \cup U \cup {0}) : Bare(m2[b])
       /\ Real(m2[c]) \/ Bare(m2[c])
  BY <1>0, <1>1, <1>2 DEF MapInv
<1>12. Roles(T, D, U)
  BY DEF MapInv
<1> HIDE DEF Q2
<1>13. MapInv(m2, T, D, U, Q2, c)
  BY <1>0, <1>1, <1>6, <1>7, <1>8, <1>9, <1>10, <1>11, <1>12, SMTT(30) DEF MapInv
<1> QED
  BY <1>13 DEF m2, Q2


\* A directory stays one when one of its words keeps its table, or gets a
\* table no other word names.
LEMMA RowUpdated ==
    ASSUME NEW row, NEW row2, NEW T, NEW i \in Index, NEW w, IsDirectory(row, T),
           \A j \in Index : row2[j] = IF j = i THEN w ELSE row[j],
           \/ IsEntry(row[i]) /\ w.frame = row[i].frame
           \/ /\ w.frame \in T \ {Table0, Table1}
              /\ \A j \in Index : row[j].frame # w.frame
    PROVE  IsDirectory(row2, T)
<1>1. CASE IsEntry(row[i]) /\ w.frame = row[i].frame
  <2>1. \A j \in Index : (IsEntry(row2[j]) => IsEntry(row[j])) /\ row2[j].frame = row[j].frame
    BY <1>1
  <2> QED
    BY <2>1 DEF IsDirectory
<1>2. CASE /\ w.frame \in T \ {Table0, Table1}
           /\ \A j \in Index : row[j].frame # w.frame
  <2>1. \A j \in Index : IsEntry(row2[j]) =>
           /\ row2[j].frame \in T
           /\ row2[j].frame = Table0 => j = 0
           /\ row2[j].frame = Table1 => j = 1
    BY <1>2 DEF IsDirectory
  <2>2. ASSUME NEW a \in Index, NEW j \in Index, IsEntry(row2[a]), row2[a].frame = row2[j].frame
        PROVE  a = j
    <3>1. CASE a = i \/ j = i
      BY <1>2, <2>2, <3>1
    <3>2. CASE a # i /\ j # i
      <4>1. row2[a] = row[a] /\ row2[j] = row[j]
        BY <3>2, Zenon
      <4> QED
        BY <2>2, <4>1, ZenonT(60) DEF IsDirectory
    <3> QED
      BY <3>1, <3>2
  <2> QED
    BY <2>1, <2>2 DEF IsDirectory
<1> QED
  BY <1>1, <1>2

\* An entry of the directory, as the kernel finds it, is set: the one it holds,
\* or one for a table nobody has used.
LEMMA SetPdeKeeps ==
    ASSUME NEW m, NEW T, NEW D, NEW U, NEW Q, NEW c, MapInv(m, T, D, U, Q, c),
           IsEntry(m[Table1][0]), Real(m[c]), NEW F, F = m[Table1][0].frame,
           NEW i \in Index, NEW w \in Word, IsEntry(w),
           \/ IsEntry(m[F][i]) /\ w.frame = m[F][i].frame
           \/ /\ ~IsEntry(m[F][i])
              /\ w.frame \in T \ {Table0, Table1} /\ Bare(m[w.frame])
              /\ \A d \in D \cup {F}, j \in Index : m[d][j].frame # w.frame
    PROVE  /\ MapInv([m EXCEPT ![F][i] = w], T, D, U, Q, c)
           /\ Real([m EXCEPT ![F][i] = w][c])
           /\ [m EXCEPT ![F][i] = w][Table1] = m[Table1]
           /\ [m EXCEPT ![F][i] = w][F][i] = w
<1> DEFINE m2 == [m EXCEPT ![F][i] = w]
<1>0. /\ T \subseteq Blocks /\ D \subseteq Blocks /\ U \subseteq Blocks /\ Q \subseteq Blocks /\ c \in D
      /\ \A b \in Blocks, j \in Index : m[b][j] \in Word
      /\ \A b \in Blocks : Real(m[b]) => IsEntry(m[b][0]) /\ ~Bare(m[b])
      /\ 0 \notin T /\ 0 \notin D /\ 0 \notin U /\ 0 \in Blocks
      /\ Q \subseteq U /\ T \cap D = {} /\ T \cap U = {} /\ D \cap U = {}
      /\ Table1 \in T /\ Table0 \in T /\ kernel_directory \in D
      /\ 0 \in Index /\ 1 \in Index
  BY MapParts, SizeFacts
<1>1. F \in Blocks /\ F \notin T /\ (F = kernel_directory \/ F \in U \ Q \/ F = 0) /\ (F \in D => F = kernel_directory)
  BY BelievedFacts
<1>2. /\ IsDirectory(m[F], T)
      /\ \/ F = kernel_directory /\ Real(m[F])
         \/ Fake(m, m[F], D) /\ (F = kernel_directory => m[Table1][2].frame # Table1)
      /\ F # 0 => Bare(m[0])
  BY SMTT(30) DEF MapInv, Believed
<1>3. /\ m2 \in Memory /\ \A b \in Blocks \ {F} : m2[b] = m[b]
      /\ m2[F][i] = w /\ \A j \in Index \ {i} : m2[F][j] = m[F][j]
  BY <1>0, <1>1, SMTT(30) DEF MapInv, Memory
<1> HIDE DEF m2
<1>4. \A t \in T : m2[t] = m[t]
  BY <1>0, <1>1, <1>3
<1>5. \A j \in Index : m2[F][j] = IF j = i THEN w ELSE m[F][j]
  BY <1>3
<1>6. IsDirectory(m2[F], T)
  <2>1. \/ IsEntry(m[F][i]) /\ w.frame = m[F][i].frame
        \/ /\ w.frame \in T \ {Table0, Table1}
           /\ \A j \in Index : m[F][j].frame # w.frame
    BY ZenonT(60)
  <2>2. IsDirectory(m[F], T)
    BY <1>2, ZenonT(60)
  <2> DEFINE row == m[F]
             row2 == m2[F]
  <2>3. /\ \A j \in Index : row2[j] = IF j = i THEN w ELSE row[j]
        /\ \/ IsEntry(row[i]) /\ w.frame = row[i].frame
           \/ /\ w.frame \in T \ {Table0, Table1}
              /\ \A j \in Index : row[j].frame # w.frame
        /\ IsDirectory(row, T)
    BY <1>5, <2>1, <2>2
  <2> HIDE DEF row, row2
  <2>4. IsDirectory(row2, T)
    BY <2>3, RowUpdated
  <2> QED
    BY <2>4 DEF row2
<1>7. Real(m2[F]) <=> Real(m[F])
  <2>1. Real(m[F]) => IsEntry(m[F][0])
    BY <1>0, <1>1, SMTT(30)
  <2> QED
    BY <2>1, <1>0, <1>5 DEF Real
<1>8. \A d \in D : Real(m2[d]) <=> Real(m[d])
  BY <1>0, <1>3, <1>7
<1>9. \A b \in Blocks \ (T \cup D \cup U \cup {0}) : m2[b] = m[b]
  BY <1>0, <1>1, <1>3
<1>10. TableWords(m2, T, U) /\ MappedOnce(m2, T)
  BY <1>4 DEF MapInv, TableWords, MappedOnce
<1>11. Unmapped(m2, T, U, Q)
  <2>1. \A q \in Q : m2[q] = m[q]
    BY <1>0, <1>1, <1>3
  <2> QED
    BY <2>1, <1>4 DEF MapInv, Unmapped
<1>12. RealMaps(m2, D)
  <2> SUFFICES ASSUME NEW d \in D, Real(m2[d])
               PROVE  /\ m2[d][1].frame = Table1
                      /\ \A j \in Index : IsEntry(m2[d][j]) => ZeroOnly(m2[m2[d][j].frame], m2[d][j].frame)
    BY DEF RealMaps
  <2>1. /\ m[d][1].frame = Table1
        /\ \A j \in Index : IsEntry(m[d][j]) => ZeroOnly(m[m[d][j].frame], m[d][j].frame)
    BY <1>8, SMTT(30) DEF MapInv, RealMaps
  <2>2. \A j \in Index : IsEntry(m2[d][j]) => m2[d][j].frame \in T
    <3>1. IsDirectory(m[d], T)
      BY ZenonT(60) DEF MapInv
    <3>2. d # F => m2[d] = m[d]
      BY <1>0, <1>3, SMTT(30)
    <3>3. IsDirectory(m2[d], T)
      BY <1>6, <3>1, <3>2, ZenonT(60)
    <3> QED
      BY <3>3, ZenonT(60) DEF IsDirectory
  <2>3. CASE d # F
    BY <2>1, <2>2, <2>3, <1>0, <1>3, <1>4, SMTT(30)
  <2>4. CASE d = F
    <3>1. IsEntry(m[F][1])
      <4>1. m[F][1].frame = Table1
        BY <2>1, <2>4, ZenonT(60)
      <4>2. m[F][1] \in Word
        BY <1>0, <1>1, ZenonT(60)
      <4>3. Table1 \in Blocks
        BY <1>0, ZenonT(60)
      <4> QED
        BY <4>1, <4>2, <4>3, EntryFacts, ZenonT(60)
    <3>2. m2[F][1].frame = Table1
      BY <3>1, <2>1, <2>4, <1>0, <1>5, ZenonT(60)
    <3>3. ASSUME NEW j \in Index, IsEntry(m2[F][j]) PROVE ZeroOnly(m[m2[F][j].frame], m2[F][j].frame)
      <4>1. CASE j # i \/ (IsEntry(m[F][i]) /\ w.frame = m[F][i].frame)
        BY <3>3, <4>1, <2>1, <2>4, <1>5, ZenonT(60)
      <4>2. CASE j = i /\ Bare(m[w.frame])
        <5>1. IsEntry(Entry(0, TRUE))
          BY DEF IsEntry, Entry
        <5> QED
          BY <4>2, <5>1, <1>5, ZenonT(60) DEF Bare, ZeroOnly
      <4> QED
        BY <4>1, <4>2, SMTT(30)
    <3> QED
      BY <2>2, <2>4, <3>2, <3>3, <1>4, ZenonT(60)
  <2> QED
    BY <2>3, <2>4
<1>13. Believed(m2, T, D)
  <2>1. m2[Table1] = m[Table1] /\ (F # 0 => m2[0] = m[0])
    BY <1>0, <1>3, <1>4, SMTT(30)
  <2>2. ASSUME Fake(m, m[F], D) PROVE Fake(m2, m2[F], D)
    <3> SUFFICES ASSUME NEW a \in Index, NEW j \in Index, NEW d \in D, IsEntry(m2[F][a]), Real(m2[d])
                 PROVE  m2[d][j].frame # m2[F][a].frame
      BY DEF Fake
    <3>1. Real(m[d])
      BY <1>8, SMTT(30)
    <3>2. d # F
      BY <2>2, <3>1, <1>0, <1>1, SMTT(30) DEF Fake
    <3>3. m2[d] = m[d]
      BY <3>2, <1>0, <1>3
    <3> QED
      BY <2>2, <3>1, <3>3, <1>5, SMTT(30) DEF Fake
  <2> QED
    BY <2>1, <2>2, <1>2, <1>6, <1>7 DEF Believed
<1>14. /\ \A d \in D : IsDirectory(m2[d], T)
       /\ \A b \in Blocks \ (T \cup D \cup U \cup {0}) : Bare(m2[b])
       /\ Real(m2[c])
  BY <1>0, <1>3, <1>6, <1>8, <1>9 DEF MapInv
<1>15. Roles(T, D, U)
  BY DEF MapInv
<1>16. MapInv(m2, T, D, U, Q, c)
  BY <1>0, <1>3, <1>10, <1>11, <1>12, <1>13, <1>14, <1>15 DEF MapInv
<1> QED
  BY <1>0, <1>3, <1>4, <1>14, <1>16 DEF m2

\* Blocks that have nothing to do with page maps become tables.
LEMMA MoreTables ==
    ASSUME NEW m, NEW T, NEW D, NEW U, NEW Q, NEW c, MapInv(m, T, D, U, Q, c),
           NEW T2, T \subseteq T2, T2 \subseteq Frames, T2 \cap D = {}, T2 \cap U = {}
    PROVE  MapInv(m, T2, D, U, Q, c)
<1>0. /\ T2 \subseteq Blocks /\ Q \subseteq Blocks /\ U \subseteq Blocks
      /\ \A b \in Blocks, j \in Index : m[b][j] \in Word
      /\ 0 \notin T2
  BY MapParts, SizeFacts
<1>1. \A t \in T2 \ T : Bare(m[t])
  BY <1>0 DEF MapInv
<1>2. \A t \in T2, i \in Index : IsEntry(m[t][i]) => t \in T
  BY <1>1 DEF Bare
<1>3. \A t \in T2, i \in Index : m[t][i].frame \in Blocks => t \in T
  BY <1>0, <1>2, EntryFacts
<1>4. \A row : IsDirectory(row, T) => IsDirectory(row, T2)
  BY DEF IsDirectory
<1>5. TableWords(m, T2, U)
  BY <1>2 DEF MapInv, TableWords
<1>6. MappedOnce(m, T2)
  <2> SUFFICES ASSUME NEW t \in T2, NEW s \in T2, NEW a \in Index, NEW j \in Index,
                      IsEntry(m[t][a]), m[t][a].user, m[t][a].frame # 0,
                      m[s][j].user, m[s][j].frame = m[t][a].frame
               PROVE  t = s /\ a = j
    BY DEF MappedOnce
  <2>1. t \in T /\ s \in T
    BY <1>0, <1>2, <1>3, EntryFacts
  <2> QED
    BY <2>1 DEF MapInv, MappedOnce
<1>7. Unmapped(m, T2, U, Q)
  BY <1>0, <1>3 DEF MapInv, Unmapped
<1>8. Believed(m, T2, D)
  BY <1>4 DEF MapInv, Believed
<1>9. Roles(T2, D, U)
  BY DEF MapInv, Roles
<1> QED
  BY <1>4, <1>5, <1>6, <1>7, <1>8, <1>9 DEF MapInv

\* A free block becomes a user page, to be mapped.
LEMMA MoreUsers ==
    ASSUME NEW m, NEW T, NEW D, NEW U, NEW Q, NEW c, MapInv(m, T, D, U, Q, c),
           NEW b \in Frames \ (T \cup D \cup U)
    PROVE  MapInv(m, T, D, U \cup {b}, Q \cup {b}, c)
<1>a. \A t \in T, j \in Index : m[t][j] \in Word
  BY MapParts
<1>0. b \in Blocks /\ b # 0 /\ Bare(m[b]) /\ \A t \in T, j \in Index : m[t][j] \in Word
  BY <1>a, SizeFacts DEF MapInv
<1>1. \A t \in T, j \in Index : m[t][j].frame = b => IsEntry(m[t][j])
  BY <1>0, EntryFacts
<1>2. \A t \in T, j \in Index : ~(m[t][j].user /\ m[t][j].frame = b)
  BY <1>0, <1>1 DEF MapInv, TableWords
<1>3. TableWords(m, T, U \cup {b})
  BY DEF MapInv, TableWords
<1>4. Unmapped(m, T, U \cup {b}, Q \cup {b})
  BY <1>0, <1>2 DEF MapInv, Unmapped
<1>5. Roles(T, D, U \cup {b})
  BY DEF MapInv, Roles
<1> QED
  BY <1>3, <1>4, <1>5 DEF MapInv

\* A free block becomes a directory, to be filled.
LEMMA MoreDirectories ==
    ASSUME NEW m, NEW T, NEW D, NEW U, NEW Q, NEW c, MapInv(m, T, D, U, Q, c),
           NEW b \in Frames \ (T \cup D \cup U)
    PROVE  MapInv(m, T, D \cup {b}, U, Q, c)
<1>0. b \in Blocks /\ b # 0 /\ Bare(m[b])
  BY SizeFacts DEF MapInv
<1>1. ~Real(m[b])
  BY <1>0, MapParts
<1>2. IsDirectory(m[b], T)
  BY <1>0 DEF IsDirectory, Bare
<1>3. RealMaps(m, D \cup {b})
  BY <1>1 DEF MapInv, RealMaps
<1>4. \A row : Fake(m, row, D) => Fake(m, row, D \cup {b})
  BY <1>1 DEF Fake
<1>5. Believed(m, T, D \cup {b})
  BY <1>4 DEF MapInv, Believed
<1>6. Roles(T, D \cup {b}, U)
  BY DEF MapInv, Roles
<1> QED
  BY <1>2, <1>3, <1>5, <1>6 DEF MapInv

\* The new directory is a copy of what the kernel takes for its own.
LEMMA CopyKeeps ==
    ASSUME NEW m, NEW T, NEW D, NEW U, NEW Q, NEW c, MapInv(m, T, D, U, Q, c),
           IsEntry(m[Table1][0]), Real(m[c]), NEW F, F = m[Table1][0].frame,
           NEW b \in D \ {c, kernel_directory}, Bare(m[b])
    PROVE  MapInv([m EXCEPT ![b] = m[F]], T, D, U, Q, c)
<1> DEFINE m2 == [m EXCEPT ![b] = m[F]]
<1>0. /\ T \subseteq Blocks /\ D \subseteq Blocks /\ U \subseteq Blocks /\ Q \subseteq Blocks /\ c \in D
      /\ 0 \notin D /\ 0 \in Blocks /\ 0 \in Index
      /\ Q \subseteq U /\ T \cap D = {} /\ T \cap U = {} /\ D \cap U = {}
      /\ Table1 \in T /\ kernel_directory \in D
      /\ \A d \in Blocks : Real(m[d]) => IsEntry(m[d][0]) /\ ~Bare(m[d])
  BY MapParts, SizeFacts
<1>1. F \in Blocks /\ F # b
  BY BelievedFacts
<1>2. /\ IsDirectory(m[F], T)
      /\ \/ F = kernel_directory /\ Real(m[F])
         \/ Fake(m, m[F], D) /\ (F = kernel_directory => m[Table1][2].frame # Table1)
      /\ F # 0 => Bare(m[0])
  BY DEF MapInv, Believed
<1>3. m2 \in Memory /\ (\A d \in Blocks \ {b} : m2[d] = m[d]) /\ m2[b] = m[F]
  BY <1>0, <1>1 DEF MapInv, Memory
<1> HIDE DEF m2
<1>4. ~(Fake(m, m[F], D) /\ Real(m[F]))
  <2> SUFFICES ASSUME Fake(m, m[F], D), Real(m[F]) PROVE FALSE
    OBVIOUS
  <2>1. IsEntry(m[F][0]) /\ m[F][0].frame = m[c][0].frame
    BY <1>0, <1>1 DEF Real
  <2> QED
    BY <2>1, <1>0 DEF Fake
<1>5. \A d \in T \cup U \cup {0} : m2[d] = m[d]
  BY <1>0, <1>3
<1>6. RealMaps(m2, D)
  <2> SUFFICES ASSUME NEW d \in D, Real(m2[d])
               PROVE  /\ m2[d][1].frame = Table1
                      /\ \A j \in Index : IsEntry(m2[d][j]) => ZeroOnly(m2[m2[d][j].frame], m2[d][j].frame)
    BY DEF RealMaps
  <2>1. PICK e \in D : Real(m[e]) /\ m2[d] = m[e]
    BY <1>0, <1>2, <1>3, <1>4
  <2>2. /\ m[e][1].frame = Table1
        /\ \A j \in Index : IsEntry(m[e][j]) => ZeroOnly(m[m[e][j].frame], m[e][j].frame)
    BY <2>1 DEF MapInv, RealMaps
  <2>3. \A j \in Index : IsEntry(m[e][j]) => m[e][j].frame \in T
    BY DEF MapInv, IsDirectory
  <2> QED
    BY <2>1, <2>2, <2>3, <1>5
<1>7. Believed(m2, T, D)
  <2>1. m2[Table1] = m[Table1] /\ m2[F] = m[F] /\ m2[0] = m[0]
    BY <1>0, <1>1, <1>3, <1>5, SMTT(30)
  <2>2. ASSUME Fake(m, m[F], D) PROVE Fake(m2, m[F], D)
    BY <2>2, <1>0, <1>3, <1>4 DEF Fake
  <2> QED
    BY <2>1, <2>2, <1>2 DEF Believed
<1>8. TableWords(m2, T, U) /\ MappedOnce(m2, T) /\ Unmapped(m2, T, U, Q)
  BY <1>0, <1>5 DEF MapInv, TableWords, MappedOnce, Unmapped
<1>9. /\ \A d \in D : IsDirectory(m2[d], T)
      /\ \A d \in Blocks \ (T \cup D \cup U \cup {0}) : Bare(m2[d])
      /\ Real(m2[c])
  BY <1>0, <1>2, <1>3 DEF MapInv
<1>10. Roles(T, D, U)
  BY DEF MapInv
<1>11. MapInv(m2, T, D, U, Q, c)
  BY <1>0, <1>3, <1>6, <1>7, <1>8, <1>9, <1>10 DEF MapInv
<1> QED
  BY <1>11 DEF m2

\* Another directory that runs the kernel; fewer pages to map.
LEMMA SwitchKeeps ==
    ASSUME NEW m, NEW T, NEW D, NEW U, NEW Q, NEW c, MapInv(m, T, D, U, Q, c)
    PROVE  /\ \A d \in D : Real(m[d]) => MapInv(m, T, D, U, Q, d)
           /\ \A P \in SUBSET Q : MapInv(m, T, D, U, P, c)
BY DEF MapInv, Unmapped


-----------------------------------------------------------------------------
(***************************************************************************)
(* The calls of vmm.c.                                                     *)
(***************************************************************************)
\* The identity entries of the directory and its tables do not come back.
StayGone(m, m2) ==
    /\ m[Table1][0].frame # kernel_directory => m2[Table1][0].frame # kernel_directory
    /\ m[Table1][2].frame # Table1 => m2[Table1][2].frame # Table1

\* The second four megabytes are walked through the second table.
LEMMA KernelWalk ==
    ASSUME NEW m, NEW T, NEW D, NEW U, NEW Q, NEW c, MapInv(m, T, D, U, Q, c), Real(m[c])
    PROVE  \A i \in Index : Hardware(m, c, PageWords + i).frame = m[Table1][i].frame
<1> TAKE i \in Index
<1>1. pd_index(PageWords + i) = 1 /\ pt_index(PageWords + i) = i
  BY KernelPages
<1>2. m[c][1].frame = Table1 /\ m[c][1] \in Word
  <2>1. m[c][1].frame = Table1
    BY DEF MapInv, RealMaps
  <2> QED
    BY <2>1, MapParts, SizeFacts, ZenonT(60)
<1>3. IsEntry(m[c][1])
  BY <1>2, EntryFacts, SizeFacts
<1>4. m[Table1][i] \in Word
  BY MapParts, SizeFacts
<1>5. Hardware(m, c, PageWords + i) = [m[Table1][i] EXCEPT !.user = @ /\ m[c][1].user]
  BY <1>1, <1>2, <1>3 DEF Hardware
<1> QED
  BY <1>4, <1>5 DEF Word

\* Where the kernel finds its directory.
LEMMA DirectoryAt ==
    ASSUME NEW m, NEW T, NEW D, NEW U, NEW Q, MapInv(m, T, D, U, Q, cr3)
    PROVE  /\ Real(m[cr3]) => At(m, kernel_directory) = m[Table1][0].frame
           /\ Mapped(m, kernel_directory) => Real(m[cr3]) /\ IsEntry(m[Table1][0])
<1>1. 0 \in Index /\ PageWords + 0 = kernel_directory
  BY SizeFacts
<1>2. kernel_directory \in VPages
  BY <1>1, KernelPages
<1>3. Real(m[cr3]) => Hardware(m, cr3, kernel_directory).frame = m[Table1][0].frame
  BY <1>1, KernelWalk
<1>4. Mapped(m, kernel_directory) => Real(m[cr3]) /\ Hardware(m, cr3, kernel_directory).frame \in Blocks
  BY <1>2, WalkFacts DEF Mapped
<1>5. m[Table1][0] \in Word
  BY <1>1, MapParts, SizeFacts
<1> QED
  BY <1>3, <1>4, <1>5, EntryFacts DEF At

\* A block reached through a pointer that is no pointer to a user page.
LEMMA ReachFacts ==
    ASSUME NEW m, NEW T, NEW D, NEW U, NEW Q, MapInv(m, T, D, U, Q, cr3),
           NEW b, b \notin U, b # kernel_directory, Reaches(m, b)
    PROVE  /\ Real(m[cr3]) /\ At(m, b) \in Blocks
           /\ At(m, b) = b \/ (At(m, b) \in U \ Q /\ (IsEntry(m[Table1][0]) => m[Table1][0].frame # At(m, b)))
<1> DEFINE x == At(m, b)
<1>1. b \in VPages /\ IsEntry(Hardware(m, cr3, b)) /\ x = Hardware(m, cr3, b).frame
  BY DEF Reaches, Mapped, At
<1>2. /\ Real(m[cr3]) /\ x \in Blocks
      /\ x = b \/ x \in U \ Q
      /\ x \in U => \A other \in VPages : other \notin U /\ Hardware(m, cr3, other).frame = x => other = b
  BY <1>1, WalkFacts
<1>3. kernel_directory \in VPages /\ kernel_directory \notin U
  <2>1. 0 \in Index /\ PageWords + 0 = kernel_directory
    BY SizeFacts
  <2> QED
    BY <2>1, KernelPages, MapParts
<1>4. Hardware(m, cr3, kernel_directory).frame = m[Table1][0].frame
  BY <1>2, DirectoryAt DEF At
<1> QED
  BY <1>2, <1>3, <1>4

\* What mapping a page at the address of the kernel's directory leaves.
CoverGone(page, m2) ==
    page = kernel_directory /\ m2[Table1][0].frame = kernel_directory => m2[Table1][2].frame # Table1

\* The entries the kernel sets: none, one of a page to be mapped, or one of block 0.
Mappable(m, Q, F, page, w) ==
    \/ ~IsEntry(w)
    \/ w.user /\ w.frame \in Q
    \/ /\ w.user /\ w.frame = 0
       /\ \/ page = kernel_directory
          \/ page = kernel_directory + 1 /\ (F = kernel_directory => m[Table1][2].frame # Table1)

\* Setting the entry of a page, in the table the kernel finds for it.
LEMMA EntrySet ==
    ASSUME NEW m, NEW T, NEW D, NEW U, NEW Q, MapInv(m, T, D, U, Q, cr3),
           IsEntry(m[Table1][0]), Real(m[cr3]), NEW F, F = m[Table1][0].frame,
           NEW page \in VPages, NEW pde, pde = m[F][pd_index(page)], IsEntry(pde),
           NEW w \in Word, Mappable(m, Q, F, page, w),
           Reaches(m, pde.frame)
    PROVE  LET m2 == Store(m, pde.frame, pt_index(page), w)
           IN  /\ MapInv(m2, T, D, U, Q \ {w.frame}, cr3)
               /\ StayGone(m, m2)
               /\ IsEntry(w) => CoverGone(page, m2)
<1> DEFINE t == pde.frame
<1> DEFINE i == pt_index(page)
<1> DEFINE x == At(m, t)
<1> DEFINE m2 == [m EXCEPT ![x][i] = w]
<1>0. /\ T \subseteq Blocks /\ D \subseteq Blocks /\ U \subseteq Blocks /\ cr3 \in D
      /\ 0 \notin T /\ 0 \notin U /\ Q \subseteq U /\ T \cap D = {} /\ T \cap U = {} /\ D \cap U = {}
      /\ Table1 \in T /\ kernel_directory \in D
      /\ 0 \in Index /\ 1 \in Index /\ 2 \in Index
      /\ \A b \in Blocks, j \in Index : m[b][j] \in Word
  BY MapParts, SizeFacts
<1>1. pd_index(page) \in Index /\ i \in Index
  BY PageSplit
<1>2. /\ IsDirectory(m[F], T)
      /\ \/ F = kernel_directory /\ Real(m[F])
         \/ Fake(m, m[F], D) /\ (F = kernel_directory => m[Table1][2].frame # Table1)
      /\ F # 0 => Bare(m[0])
  BY SMTT(30) DEF MapInv, Believed
<1>3. t \in T /\ t \notin U /\ t # kernel_directory /\ t \in Blocks
  BY <1>0, <1>1, <1>2, ZenonT(60) DEF IsDirectory
<1>4. x \in Blocks /\ (x = t \/ (x \in U \ Q /\ F # x))
  <2>1. Reaches(m, t)
    OBVIOUS
  <2> HIDE DEF t
  <2>2. /\ At(m, t) \in Blocks
        /\ At(m, t) = t \/ (At(m, t) \in U \ Q /\ (IsEntry(m[Table1][0]) => m[Table1][0].frame # At(m, t)))
    BY <1>3, <2>1, ReachFacts, ZenonT(60)
  <2> QED
    BY <2>2
<1>5. t = Table1 => F = kernel_directory /\ Real(m[F])
  <2>1. m[cr3][1].frame = Table1
    BY <1>0 DEF MapInv, RealMaps
  <2> QED
    BY <2>1, <1>0, <1>1, <1>2 DEF Fake
<1>6. x = Table1 /\ t = Table1 => m[Table1][2].frame = Table1
  <2>1. PageWords + 2 = Table1
    BY SizeFacts
  <2> QED
    BY <2>1, <1>0, KernelWalk DEF At
<1>7. pd_index(page) = 1 /\ F = kernel_directory /\ Real(m[F]) => t = Table1
  BY <1>0 DEF MapInv, RealMaps
<1>8. /\ page = kernel_directory => pd_index(page) = 1 /\ i = 0
      /\ page = kernel_directory + 1 => pd_index(page) = 1 /\ i = 1
  <2>1. PageWords + 0 = kernel_directory /\ PageWords + 1 = kernel_directory + 1
    BY SizeFacts, SMTT(30)
  <2> QED
    BY <2>1, <1>0, KernelPages, SMTT(30)
<1>9. MapInv(m2, T, D, U, Q \ {w.frame}, cr3)
  <2>1. CASE x = t
    <3>1. t = Table1 /\ i = 0 => IsEntry(m[Table1][0]) /\ m[Table1][0].frame = kernel_directory
      BY <1>5, SMTT(30)
    <3>2. ASSUME w.user, w.frame = 0,
                 \/ page = kernel_directory
                 \/ page = kernel_directory + 1 /\ (F = kernel_directory => m[Table1][2].frame # Table1)
          PROVE  \/ t = Table1 /\ i = 0
                 \/ \A d \in D, j \in Index : Real(m[d]) => m[d][j].frame # t
      <4>1. CASE Fake(m, m[F], D)
        BY <4>1, <1>1 DEF Fake
      <4>2. CASE F = kernel_directory /\ Real(m[F])
        <5>1. t = Table1 /\ m[Table1][2].frame = Table1
          BY <4>2, <3>2, <2>1, <1>6, <1>7, <1>8, SMTT(30)
        <5> QED
          BY <5>1, <4>2, <3>2, <1>8
      <4>3. Fake(m, m[F], D) \/ (F = kernel_directory /\ Real(m[F]))
        BY <1>2, ZenonT(60)
      <4> HIDE DEF t, i
      <4> QED
        BY <4>1, <4>2, <4>3, SMTT(30)
    <3>3. \/ ~IsEntry(w)
          \/ w.user /\ w.frame \in Q
          \/ /\ w.user /\ w.frame = 0
             /\ \/ t = Table1 /\ i = 0
                \/ \A d \in D, j \in Index : Real(m[d]) => m[d][j].frame # t
      BY <3>2, SMTT(30) DEF Mappable
    <3> HIDE DEF t, i
    <3>4. MapInv([m EXCEPT ![t][i] = w], T, D, U, Q \ {w.frame}, cr3)
      BY <3>1, <3>3, <1>1, <1>3, SetPteKeeps
    <3> QED
      BY <3>4, <2>1
  <2>2. CASE x \in U \ Q /\ F # x
    <3>1. m2 \in Memory /\ \A b \in Blocks \ {x} : m2[b] = m[b]
      <4>1. m \in Memory
        BY DEF MapInv
      <4> QED
        BY <4>1, <1>1, <1>4 DEF Memory
    <3> HIDE DEF m2, x
    <3>2. MapInv(m2, T, D, U, Q, cr3)
      BY <3>1, <2>2, UserRowKeeps, SMTT(30)
    <3> QED
      BY <3>2, SwitchKeeps, SMTT(30)
  <2> QED
    BY <2>1, <2>2, <1>4
<1>10. \A j \in Index : m2[Table1][j] = IF x = Table1 /\ j = i THEN w ELSE m[Table1][j]
  <2>1. m \in Memory
    BY DEF MapInv
  <2> QED
    BY <2>1, <1>0, <1>1, <1>4 DEF Memory
<1>11. w.frame # kernel_directory /\ w.frame # Table1
  <2>1. IsEntry(w) => w.frame \in Q \cup {0}
    BY DEF Mappable
  <2>2. ~IsEntry(w) => w.frame \notin Blocks
    BY EntryFacts
  <2>3. kernel_directory # 0 /\ Table1 # 0 /\ kernel_directory \in Blocks /\ Table1 \in Blocks
    BY SizeFacts, SMTT(30)
  <2> QED
    BY <2>1, <2>2, <2>3, <1>0
<1> HIDE DEF m2
<1>12. StayGone(m, m2)
  BY <1>0, <1>10, <1>11 DEF StayGone
<1>13. ASSUME page = kernel_directory, m2[Table1][0].frame = kernel_directory
       PROVE  m2[Table1][2].frame # Table1
  <2>1. F = kernel_directory
    BY <1>12, <1>13 DEF StayGone
  <2>2. CASE Fake(m, m[F], D) /\ m[Table1][2].frame # Table1
    BY <2>2, <1>12 DEF StayGone
  <2>3. CASE F = kernel_directory /\ Real(m[F])
    <3>1. t = Table1 /\ i = 0
      BY <2>3, <1>7, <1>8, <1>13
    <3>2. x # Table1
      BY <3>1, <1>0, <1>10, <1>11, <1>13
    <3>3. m[Table1][2].frame # Table1
      <4>1. PageWords + 2 = Table1
        BY SizeFacts
      <4>2. Hardware(m, cr3, Table1).frame = m[Table1][2].frame
        BY <4>1, <1>0, KernelWalk
      <4> QED
        BY <4>2, <3>1, <3>2 DEF At
    <3> QED
      BY <3>3, <1>12 DEF StayGone
  <2> QED
    BY <2>1, <2>2, <2>3, <1>2
<1> QED
  BY <1>9, <1>12, <1>13 DEF Store, CoverGone, m2



\* The words the kernel writes.
LEMMA WordsWritten ==
    /\ Absent \in Word /\ Junk \in Word /\ ~IsEntry(Absent) /\ ~IsEntry(Junk)
    /\ \A b \in Blocks : Entry(b, TRUE) \in Word /\ IsEntry(Entry(b, TRUE)) /\ Entry(b, TRUE).user /\ Entry(b, TRUE).frame = b
    /\ \A w \in Word : /\ [w EXCEPT !.user = TRUE] \in Word
                       /\ [w EXCEPT !.user = TRUE].frame = w.frame
                       /\ (w.user \/ TRUE) = TRUE
    /\ Absent.frame \notin Blocks
    /\ \A w \in {Absent, Junk} : Fill(w) \in [Index -> Word] /\ Bare(Fill(w))
<1>1. Absent \in Word /\ Junk \in Word /\ ~IsEntry(Absent) /\ ~IsEntry(Junk)
  BY DEF Absent, Junk, Word, IsEntry
<1>2. \A b \in Blocks : Entry(b, TRUE) \in Word /\ IsEntry(Entry(b, TRUE)) /\ Entry(b, TRUE).user /\ Entry(b, TRUE).frame = b
  BY SizeFacts DEF Entry, Word, IsEntry
<1>3. \A w \in Word : /\ [w EXCEPT !.user = TRUE] \in Word
                      /\ [w EXCEPT !.user = TRUE].frame = w.frame
  BY DEF Word
<1>4. \A w \in {Absent, Junk} : Fill(w) \in [Index -> Word] /\ Bare(Fill(w))
  BY <1>1 DEF Fill, Bare, Index
<1> QED
  BY <1>1, <1>2, <1>3, <1>4, EntryFacts

\* The entry is set, or the pointer to its table faults.
LEMMA SetEntryKeeps ==
    ASSUME NEW m, NEW T, NEW D, NEW U, NEW Q, MapInv(m, T, D, U, Q, cr3),
           IsEntry(m[Table1][0]), Real(m[cr3]), NEW F, F = m[Table1][0].frame,
           NEW page \in VPages, NEW pde, pde = m[F][pd_index(page)], IsEntry(pde),
           NEW w \in Word, Mappable(m, Q, F, page, w),
           SetEntry(m, pde.frame, page, w)
    PROVE  /\ MapInv(mem', T, D, U, Q \ {w.frame}, cr3)
           /\ fault' = "none" => StayGone(m, mem') /\ (IsEntry(w) => CoverGone(page, mem'))
<1>1. CASE ~Reaches(m, pde.frame)
  <2>1. mem' = m /\ fault' = "halted"
    BY <1>1 DEF SetEntry
  <2>2. MapInv(m, T, D, U, Q \ {w.frame}, cr3)
    BY SwitchKeeps, SMTT(30)
  <2> QED
    BY <2>1, <2>2, SMTT(30)
<1>2. CASE Reaches(m, pde.frame)
  <2> DEFINE m2 == Store(m, pde.frame, pt_index(page), w)
  <2>1. mem' = m2
    BY <1>2 DEF SetEntry
  <2>2. /\ MapInv(m2, T, D, U, Q \ {w.frame}, cr3)
        /\ StayGone(m, m2)
        /\ IsEntry(w) => CoverGone(page, m2)
    BY <1>2, EntrySet, ZenonT(60)
  <2> HIDE DEF m2
  <2> QED
    BY <2>1, <2>2, SMTT(30)
<1> QED
  BY <1>1, <1>2

\* vmm_map_page finds a table: its directory entry becomes a user entry.
LEMMA ThroughTableKeeps ==
    ASSUME NEW T, NEW D, NEW U, NEW Q, MapInv(mem, T, D, U, Q, cr3), Mapped(mem, kernel_directory),
           NEW page \in VPages, NEW pde, pde = DirectoryWord(mem, pd_index(page)), IsEntry(pde),
           NEW frame \in Blocks, Mappable(mem, Q, mem[Table1][0].frame, page, Entry(frame, TRUE)),
           MapThroughTable(pde, frame, page, TRUE)
    PROVE  /\ MapInv(mem', T, D, U, Q \ {frame}, cr3)
           /\ fault' = "none" => StayGone(mem, mem') /\ CoverGone(page, mem')
<1> DEFINE F == mem[Table1][0].frame
<1> DEFINE i == pd_index(page)
<1> DEFINE w == [pde EXCEPT !.user = TRUE]
<1> DEFINE m1 == [mem EXCEPT ![F][i] = w]
<1> DEFINE e == Entry(frame, TRUE)
<1>1. Real(mem[cr3]) /\ IsEntry(mem[Table1][0]) /\ At(mem, kernel_directory) = F
  BY DirectoryAt
<1>2. i \in Index /\ F \in Blocks
  BY <1>1, PageSplit, BelievedFacts
<1>3. pde = mem[F][i] /\ pde \in Word
  BY <1>1, <1>2, MapParts, SMTT(30) DEF DirectoryWord
<1>4. w \in Word /\ w.frame = pde.frame
  BY <1>3, WordsWritten
<1>5. IsEntry(w)
  BY <1>4, SMTT(30) DEF IsEntry
<1> HIDE DEF F, i, w
<1>6. MapInv(m1, T, D, U, Q, cr3) /\ Real(m1[cr3]) /\ m1[Table1] = mem[Table1] /\ m1[F][i] = w
  BY <1>1, <1>2, <1>3, <1>4, <1>5, SetPdeKeeps DEF F
<1>7. SetEntry(m1, w.frame, page, e)
  <2>1. [pde EXCEPT !.user = @ \/ TRUE] = w
    BY DEF w
  <2> QED
    BY <2>1, <1>1, <1>4 DEF MapThroughTable, Store, i, F
<1> HIDE DEF m1
<1>8. e \in Word /\ e.frame = frame /\ IsEntry(e)
  BY WordsWritten
<1>9. Mappable(m1, Q, F, page, e)
  BY <1>6 DEF Mappable, F
<1> HIDE DEF e
<1>10. IsEntry(m1[Table1][0]) /\ F = m1[Table1][0].frame
  BY <1>1, <1>6 DEF F
<1>11. w = m1[F][pd_index(page)]
  BY <1>6 DEF i
<1>12. /\ MapInv(mem', T, D, U, Q \ {e.frame}, cr3)
       /\ fault' = "none" => StayGone(m1, mem') /\ (IsEntry(e) => CoverGone(page, mem'))
  BY <1>5, <1>6, <1>7, <1>8, <1>9, <1>10, <1>11, SetEntryKeeps, ZenonT(60)
<1>13. StayGone(m1, mem') => StayGone(mem, mem')
  BY <1>6 DEF StayGone
<1> QED
  BY <1>8, <1>12, <1>13

\* A new table: block b, free until now, cleared and entered.
LEMMA NewTableKeeps ==
    ASSUME NEW T, NEW D, NEW U, NEW Q, MapInv(mem, T, D, U, Q, cr3), Mapped(mem, kernel_directory),
           NEW page \in VPages, ~IsEntry(DirectoryWord(mem, pd_index(page))),
           NEW frame \in Blocks, Mappable(mem, Q, mem[Table1][0].frame, page, Entry(frame, TRUE)),
           NEW b \in Frames \ (T \cup D \cup U),
           SetEntry(NewTable(mem, b, page, TRUE), b, page, Entry(frame, TRUE))
    PROVE  /\ MapInv(mem', T \cup {b}, D, U, Q \ {frame}, cr3)
           /\ fault' = "none" => StayGone(mem, mem') /\ CoverGone(page, mem')
<1> DEFINE F == mem[Table1][0].frame
<1> DEFINE i == pd_index(page)
<1> DEFINE w == Entry(b, TRUE)
<1> DEFINE m1 == [mem EXCEPT ![b] = Fill(Absent)]
<1> DEFINE m2 == [m1 EXCEPT ![F][i] = w]
<1> DEFINE e == Entry(frame, TRUE)
<1> DEFINE T2 == T \cup {b}
<1>1. Real(mem[cr3]) /\ IsEntry(mem[Table1][0]) /\ At(mem, kernel_directory) = F
  BY DirectoryAt
<1>2. i \in Index /\ F \in Blocks /\ F \notin T /\ (F = kernel_directory \/ F \in U \ Q \/ F = 0) /\ (F \in D => F = kernel_directory)
  BY <1>1, PageSplit, BelievedFacts
<1>3. /\ T \subseteq Blocks /\ D \subseteq Blocks /\ U \subseteq Blocks /\ cr3 \in D
      /\ 0 \notin T /\ 0 \notin D /\ 0 \notin U /\ Q \subseteq U /\ T \cap D = {} /\ T \cap U = {} /\ D \cap U = {}
      /\ Table1 \in T /\ Table0 \in T /\ kernel_directory \in D /\ b \in Blocks /\ b # 0
      /\ \A d \in Blocks, j \in Index : mem[d][j] \in Word
  <2>1. b \in Blocks /\ b # 0
    BY SizeFacts
  <2> QED
    BY <2>1, MapParts
<1>5. \A d \in T \cup D \cup {F} : d # b
  BY <1>2, <1>3
<1>6. /\ m1 \in Memory /\ Bare(m1[b]) /\ \A d \in Blocks \ {b} : m1[d] = mem[d]
  <2>1. mem \in Memory
    BY DEF MapInv
  <2>2. Fill(Absent) \in [Index -> Word] /\ Bare(Fill(Absent))
    BY WordsWritten
  <2> QED
    BY <2>1, <2>2, <1>3 DEF Memory
<1> HIDE DEF m1
<1>7. MapInv(m1, T, D, U, Q, cr3)
  <2>1. \A d \in Blocks : m1[d] = mem[d] \/ Bare(m1[d])
    BY <1>6
  <2>2. m1[kernel_directory] = mem[kernel_directory]
    BY <1>3, <1>5, <1>6
  <2> QED
    BY <2>1, <2>2, <1>6, WipeKeeps
<1>8. MapInv(m1, T2, D, U, Q, cr3)
  <2>1. T2 \subseteq Frames /\ T2 \cap D = {} /\ T2 \cap U = {} /\ T \subseteq T2
    BY DEF MapInv, Roles
  <2> HIDE DEF T2
  <2> QED
    BY <2>1, <1>7, MoreTables
<1>9. m1[Table1] = mem[Table1] /\ m1[F] = mem[F] /\ m1[cr3] = mem[cr3]
  BY <1>2, <1>3, <1>5, <1>6
<1>10. Real(m1[cr3]) /\ IsEntry(m1[Table1][0]) /\ F = m1[Table1][0].frame
  BY <1>1, <1>9
<1>11. At(m1, kernel_directory) = F
  BY <1>7, <1>10, DirectoryAt
<1>12. ~IsEntry(m1[F][i])
  BY <1>1, <1>9 DEF DirectoryWord
<1>13. Bare(m1[b])
  BY <1>6
<1>14. \A d \in D \cup {F}, j \in Index : m1[d][j].frame # b
  <2> SUFFICES ASSUME NEW d \in D \cup {F}, NEW j \in Index, m1[d][j].frame = b PROVE FALSE
    OBVIOUS
  <2>1. m1[d] = mem[d] /\ d \in Blocks
    BY <1>2, <1>3, <1>5, <1>6
  <2>2. IsDirectory(mem[d], T)
    BY <1>1 DEF MapInv, Believed, F
  <2>3. IsEntry(mem[d][j])
    BY <2>1, <1>3, EntryFacts
  <2> QED
    BY <2>1, <2>2, <2>3 DEF IsDirectory
<1>15. w \in Word /\ IsEntry(w) /\ w.frame = b
  BY <1>3, WordsWritten
<1> HIDE DEF F, i, w
<1>16. w.frame \in T2 \ {Table0, Table1}
  BY <1>3, <1>15
<1> HIDE DEF T2
<1>17. MapInv(m2, T2, D, U, Q, cr3) /\ Real(m2[cr3]) /\ m2[Table1] = m1[Table1] /\ m2[F][i] = w
  BY <1>2, <1>8, <1>10, <1>12, <1>13, <1>14, <1>15, <1>16, SetPdeKeeps, SMTT(30)
<1>18. NewTable(mem, b, page, TRUE) = m2
  BY <1>11 DEF NewTable, Store, m1, w, i
<1> HIDE DEF m2
<1>19. e \in Word /\ e.frame = frame /\ IsEntry(e)
  BY WordsWritten
<1>20. Mappable(m2, Q, F, page, e)
  BY <1>9, <1>17 DEF Mappable, F
<1>21. SetEntry(m2, w.frame, page, e)
  BY <1>15, <1>18
<1> HIDE DEF e
<1>22. IsEntry(m2[Table1][0]) /\ F = m2[Table1][0].frame /\ w = m2[F][pd_index(page)]
  BY <1>10, <1>17 DEF i
<1>23. /\ MapInv(mem', T2, D, U, Q \ {e.frame}, cr3)
       /\ fault' = "none" => StayGone(m2, mem') /\ (IsEntry(e) => CoverGone(page, mem'))
  BY <1>15, <1>17, <1>19, <1>20, <1>21, <1>22, SetEntryKeeps, ZenonT(60)
<1>24. StayGone(m2, mem') => StayGone(mem, mem')
  BY <1>9, <1>17 DEF StayGone
<1> QED
  BY <1>19, <1>23, <1>24 DEF T2


-----------------------------------------------------------------------------
(***************************************************************************)
(* The call in progress.                                                   *)
(***************************************************************************)
JobRecord ==
    [op : {"idle", "user", "load", "exec"}, first : Nat, pages : Nat, touched : Nat,
     got : Seq(Blocks), i : Nat]

\* The blocks it has got are user pages, each of them once; only process_create_user
\* goes on without a block.
BlocksGot(got, op, U) ==
    /\ \A j \in 1..Len(got) : got[j] \in U \cup {0} /\ (got[j] = 0 => op = "user")
    /\ \A j, n \in 1..Len(got) : got[j] = got[n] /\ got[j] # 0 => j = n

JobSound(jb, U) ==
    /\ jb \in JobRecord
    /\ jb.i <= Len(jb.got) /\ Len(jb.got) <= jb.pages /\ jb.first + jb.pages <= PageWords * PageWords
    /\ BlocksGot(jb.got, jb.op, U)
    /\ jb.op = "user" => jb.first = kernel_directory /\ jb.pages = 2
    /\ jb.op = "idle" => jb = Idle

\* Got, and still to be mapped.
ToMap(got, i) == {got[j] : j \in i + 1..Len(got)} \ {0}
Pending(jb) == ToMap(jb.got, jb.i)

\* Once the call has mapped a page at the directory's address.
Covered(jb, m, how) ==
    how = "none" /\ kernel_directory \in jb.first .. jb.first + jb.i - 1 =>
        CoverGone(kernel_directory, m)

\* Nothing in progress.
LEMMA IdleSound == \A U : JobSound(Idle, U) /\ Pending(Idle) = {} /\ \A m, how : Covered(Idle, m, how)
<1>1. Idle \in JobRecord /\ Idle.got = <<>> /\ Idle.i = 0 /\ Idle.first = 0 /\ Idle.pages = 0 /\ Idle.op = "idle"
  BY DEF Idle, JobRecord
<1>2. PageWords * PageWords \in Nat
  BY SizeFacts
<1>3. Pending(Idle) = {}
  BY <1>1 DEF Pending, ToMap
<1>4. \A m, how : Covered(Idle, m, how)
  BY <1>1 DEF Covered
<1>5. \A U : JobSound(Idle, U)
  BY <1>1, <1>2 DEF JobSound, BlocksGot
<1> QED
  BY <1>3, <1>4, <1>5

\* A call begins.
LEMMA BeginSound ==
    ASSUME NEW op \in {"user", "load", "exec"}, NEW first \in Nat, NEW pages \in Nat,
           first + pages <= PageWords * PageWords,
           op = "user" => first = kernel_directory /\ pages = 2, NEW touched \in Nat, NEW U, NEW jb,
           jb = [op |-> op, first |-> first, pages |-> pages, touched |-> touched, got |-> <<>>, i |-> 0]
    PROVE  JobSound(jb, U) /\ Pending(jb) = {} /\ \A m, how : Covered(jb, m, how)
<1>1. jb \in JobRecord /\ jb.got = <<>> /\ jb.i = 0 /\ jb.first = first /\ jb.pages = pages /\ jb.op = op
  <2>1. jb.got = <<>> /\ jb.i = 0 /\ jb.first = first /\ jb.pages = pages /\ jb.op = op
    OBVIOUS
  <2>2. op \in {"idle", "user", "load", "exec"} /\ <<>> \in Seq(Blocks) /\ 0 \in Nat
    OBVIOUS
  <2>3. jb \in JobRecord
    BY <2>2 DEF JobRecord
  <2> QED
    BY <2>1, <2>3
<1>2. PageWords * PageWords \in Nat
  BY SizeFacts
<1>3. Pending(jb) = {}
  BY <1>1 DEF Pending, ToMap
<1>4. \A m, how : Covered(jb, m, how)
  BY <1>1 DEF Covered
<1>5. JobSound(jb, U)
  BY <1>1, <1>2 DEF JobSound, BlocksGot
<1> QED
  BY <1>3, <1>4, <1>5

\* Sequences of blocks that grow by one.
LEMMA GotOne ==
    ASSUME NEW got \in Seq(Blocks), NEW op, NEW U, BlocksGot(got, op, U), NEW b \in Blocks, b \notin U,
           b = 0 => op = "user", NEW i \in Nat, i <= Len(got)
    PROVE  /\ Append(got, b) \in Seq(Blocks) /\ Len(Append(got, b)) = Len(got) + 1
           /\ BlocksGot(Append(got, b), op, U \cup {b})
           /\ ToMap(Append(got, b), i) = ToMap(got, i) \cup ({b} \ {0})
<1> DEFINE g == Append(got, b)
<1> DEFINE n == Len(got)
<1>1. /\ g \in Seq(Blocks) /\ Len(g) = n + 1 /\ g[n + 1] = b /\ n \in Nat
      /\ \A j \in 1..n : g[j] = got[j]
  OBVIOUS
<1> HIDE DEF g, n
<1>2. \A j \in 1..n + 1 : j \in 1..n \/ j = n + 1
  BY <1>1
<1>3. \A j \in 1..n : got[j] \in U \cup {0} /\ (got[j] = 0 => op = "user")
  BY DEF BlocksGot, n
<1>4. BlocksGot(g, op, U \cup {b})
  <2>1. \A j \in 1..n + 1 : g[j] \in U \cup {b} \cup {0} /\ (g[j] = 0 => op = "user")
    BY <1>1, <1>2, <1>3
  <2>2. \A j, k \in 1..n : got[j] = got[k] /\ got[j] # 0 => j = k
    BY DEF BlocksGot, n
  <2>3. \A j, k \in 1..n + 1 : g[j] = g[k] /\ g[j] # 0 => j = k
    BY <1>1, <1>2, <1>3, <2>2
  <2> QED
    BY <1>1, <2>1, <2>3 DEF BlocksGot
<1>5. ToMap(g, i) = ToMap(got, i) \cup ({b} \ {0})
  <2>1. i + 1..n + 1 = (i + 1..n) \cup {n + 1}
    BY <1>1 DEF n
  <2>2. \A j \in i + 1..n : g[j] = got[j]
    BY <1>1
  <2> QED
    BY <1>1, <2>1, <2>2 DEF ToMap, n
<1> QED
  BY <1>1, <1>4, <1>5 DEF g, n

GetNext(jb, b) == [jb EXCEPT !.got = Append(@, b)]
MapNext(jb) == [jb EXCEPT !.i = @ + 1]

\* The call gets a block, or does without.
LEMMA GetSound ==
    ASSUME NEW jb, NEW U, JobSound(jb, U), Len(jb.got) < jb.pages, jb.op # "idle",
           NEW b \in Blocks, b \notin U, b = 0 => jb.op = "user",
           NEW jb2, jb2 = GetNext(jb, b)
    PROVE  /\ JobSound(jb2, U \cup {b}) /\ Pending(jb2) = Pending(jb) \cup ({b} \ {0})
           /\ \A m, how : Covered(jb, m, how) => Covered(jb2, m, how)
<1> DEFINE got == jb.got
<1> DEFINE n == Len(got)
<1>1. /\ jb.op \in {"user", "load", "exec"} /\ jb.first \in Nat /\ jb.pages \in Nat
      /\ got \in Seq(Blocks) /\ jb.i \in Nat /\ n \in Nat /\ jb.i <= n /\ n < jb.pages
      /\ BlocksGot(got, jb.op, U)
  BY DEF JobSound, JobRecord
<1>2. /\ jb2 \in JobRecord /\ jb2.op = jb.op /\ jb2.first = jb.first /\ jb2.pages = jb.pages
      /\ jb2.i = jb.i /\ jb2.got = Append(got, b)
  <2>1. jb \in JobRecord /\ Append(jb.got, b) \in Seq(Blocks)
    BY <1>1 DEF JobSound
  <2> DEFINE g == Append(jb.got, b)
  <2>2. jb2 = [jb EXCEPT !.got = g] /\ g \in Seq(Blocks)
    BY <2>1 DEF GetNext
  <2> HIDE DEF g
  <2>3. jb2 \in JobRecord /\ jb2.op = jb.op /\ jb2.first = jb.first /\ jb2.pages = jb.pages
        /\ jb2.i = jb.i /\ jb2.got = g
    BY <2>1, <2>2 DEF JobRecord
  <2> QED
    BY <2>3 DEF g
<1> DEFINE op == jb.op
<1> DEFINE i == jb.i
<1>a. b = 0 => op = "user"
  OBVIOUS
<1>b. i \in Nat /\ i <= Len(got) /\ BlocksGot(got, op, U) /\ got \in Seq(Blocks)
  BY <1>1
<1> HIDE DEF got, op, i
<1>c. /\ Len(Append(got, b)) = n + 1 /\ BlocksGot(Append(got, b), op, U \cup {b})
      /\ ToMap(Append(got, b), i) = ToMap(got, i) \cup ({b} \ {0})
  BY <1>a, <1>b, GotOne
<1>3. /\ Len(Append(got, b)) = n + 1 /\ BlocksGot(Append(got, b), jb.op, U \cup {b})
      /\ ToMap(Append(got, b), jb.i) = ToMap(got, jb.i) \cup ({b} \ {0})
  BY <1>c DEF op, i
<1>4. n + 1 <= jb.pages /\ jb.i <= n + 1
  BY <1>1
<1>5. /\ jb.first + jb.pages <= PageWords * PageWords
      /\ jb.op = "user" => jb.first = kernel_directory /\ jb.pages = 2
  BY DEF JobSound
<1> HIDE DEF n
<1>6. JobSound(jb2, U \cup {b})
  BY <1>1, <1>2, <1>3, <1>4, <1>5 DEF JobSound
<1>7. Pending(jb2) = Pending(jb) \cup ({b} \ {0})
  BY <1>2, <1>3 DEF Pending, got
<1>8. \A m, how : Covered(jb, m, how) => Covered(jb2, m, how)
  BY <1>2 DEF Covered
<1> QED
  BY <1>6, <1>7, <1>8

\* The next of its blocks is mapped, or is lost.
LEMMA MapSound ==
    ASSUME NEW jb, NEW U, JobSound(jb, U), jb.i < Len(jb.got), 0 \notin U,
           NEW jb2, jb2 = MapNext(jb)
    PROVE  LET f == jb.got[jb.i + 1]
               page == jb.first + jb.i
           IN  /\ JobSound(jb2, U) /\ Pending(jb2) = Pending(jb) \ {f}
               /\ f \in Blocks /\ page \in VPages
               /\ \/ f \in Pending(jb)
                  \/ f = 0 /\ \/ page = kernel_directory
                              \/ /\ page = kernel_directory + 1
                                 /\ kernel_directory \in jb.first .. jb.first + jb.i - 1
               /\ kernel_directory \in jb2.first .. jb2.first + jb2.i - 1 =>
                     \/ page = kernel_directory
                     \/ kernel_directory \in jb.first .. jb.first + jb.i - 1
<1> DEFINE got == jb.got
<1> DEFINE n == Len(got)
<1> DEFINE i == jb.i
<1> DEFINE first == jb.first
<1> DEFINE f == got[i + 1]
<1>1. /\ jb.op \in {"idle", "user", "load", "exec"} /\ first \in Nat /\ jb.pages \in Nat
      /\ got \in Seq(Blocks) /\ i \in Nat /\ n \in Nat /\ i < n /\ n <= jb.pages
      /\ BlocksGot(got, jb.op, U)
      /\ first + jb.pages <= PageWords * PageWords
      /\ jb.op = "user" => first = kernel_directory /\ jb.pages = 2
  BY DEF JobSound, JobRecord
<1>2. /\ jb2 \in JobRecord /\ jb2.op = jb.op /\ jb2.first = first /\ jb2.pages = jb.pages
      /\ jb2.i = i + 1 /\ jb2.got = got
  BY DEF JobSound, JobRecord, MapNext
<1>a. jb.op # "idle"
  BY <1>1 DEF JobSound, Idle
<1> DEFINE pages == jb.pages
<1>b. pages \in Nat /\ n <= pages /\ first + pages <= PageWords * PageWords /\ PageWords * PageWords \in Nat
  BY <1>1, SizeFacts
<1> HIDE DEF n, i, first, pages
<1>3. i + 1 <= n /\ i + 1 \in 1..n /\ i + 1 \in Nat
  BY <1>1
<1>4. f \in Blocks
  BY <1>1, <1>3 DEF n
<1>5. JobSound(jb2, U)
  BY <1>1, <1>2, <1>3, <1>a DEF JobSound, n, i, first
<1>6. first + i \in VPages
  BY <1>1, <1>b DEF VPages
<1> HIDE DEF got
<1>7. /\ f \in U \cup {0} /\ (f = 0 => jb.op = "user")
      /\ \A j \in 1..n : got[j] = f /\ f # 0 => j = i + 1
  BY <1>3, <1>1 DEF BlocksGot, n
<1>8. ToMap(got, i + 1) = ToMap(got, i) \ {f}
  <2>1. i + 1..n = {i + 1} \cup (i + 1 + 1..n)
    BY <1>1
  <2>2. \A j \in i + 1 + 1..n : j \in 1..n /\ j # i + 1
    BY <1>1
  <2> QED
    BY <1>7, <2>1, <2>2 DEF ToMap, n
<1>9. f # 0 => f \in ToMap(got, i)
  <2>1. i + 1 \in i + 1..n
    BY <1>1
  <2> QED
    BY <2>1 DEF ToMap, n
<1>10. jb.op = "user" => \/ first + i = kernel_directory
                         \/ first + i = kernel_directory + 1 /\ kernel_directory \in first..first + i - 1
  <2> SUFFICES ASSUME jb.op = "user"
               PROVE  \/ first + i = kernel_directory
                      \/ first + i = kernel_directory + 1 /\ kernel_directory \in first..first + i - 1
    OBVIOUS
  <2>1. first = kernel_directory /\ pages = 2 /\ kernel_directory \in Nat
    BY <1>1, SizeFacts DEF pages
  <2>2. i = 0 \/ i = 1
    BY <1>1, <1>b, <2>1
  <2> QED
    BY <2>1, <2>2
<1>11. kernel_directory \in first .. first + (i + 1) - 1 =>
          first + i = kernel_directory \/ kernel_directory \in first .. first + i - 1
  <2>1. kernel_directory \in Nat
    BY SizeFacts
  <2> QED
    BY <2>1, <1>1
<1>12. Pending(jb2) = Pending(jb) \ {f} /\ (f # 0 => f \in Pending(jb))
  BY <1>2, <1>8, <1>9 DEF Pending, got, i
<1> QED
  BY <1>2, <1>4, <1>5, <1>6, <1>7, <1>10, <1>11, <1>12 DEF first, i, got


-----------------------------------------------------------------------------
(***************************************************************************)
(* The invariant of the page maps.  A block that is held and is no slab is *)
(* the kernel's, a directory, a user page or a table (or was taken for a   *)
(* table or a slab when a fault stopped the machine).                      *)
(***************************************************************************)
Kept == bitmap \ SlabPages
TableBlocks == Kept \ (0..Reserved - 1 \cup directories \cup user_frames)

MapsInv ==
    /\ JobSound(job, user_frames)
    /\ Covered(job, mem, fault)
    /\ directories \cup user_frames \subseteq Kept
    /\ MapInv(mem, TableBlocks, directories, user_frames, Pending(job), cr3)

VInv == IInv /\ MapsInv

\* The slabs are blocks that are held.
LEMMA SlabsHeld == ASSUME IInv PROVE SlabPages \subseteq bitmap /\ bitmap \subseteq Blocks /\ 0..Reserved - 1 \subseteq bitmap
<1>1. \A c \in Caches : SlabsOf(cache[c]) \subseteq bitmap
  BY DEF IInv, SlabInv, CacheSound
<1>2. bitmap \subseteq Blocks /\ 0..Reserved - 1 \subseteq bitmap
  BY PmmInvFacts DEF IInv
<1> QED
  BY <1>1, <1>2 DEF SlabPages

\* A block pmm_alloc_block finds has no part in any map.
LEMMA FreshFrame ==
    ASSUME VInv, NEW b, b = Pmm!bitmap_find_free, b # Pmm!NotFound, Pmm!TakeBlocks({b})
    PROVE  /\ b \in Frames \ (TableBlocks \cup directories \cup user_frames)
           /\ b \in Blocks /\ b # 0 /\ b \notin bitmap /\ b \notin SlabPages /\ bitmap' = bitmap \cup {b}
<1>1. PmmInv /\ SlabPages \subseteq bitmap /\ 0..Reserved - 1 \subseteq bitmap
  BY SlabsHeld DEF VInv, IInv
<1>2. b \in Blocks \ bitmap
  BY <1>1, Found
<1>3. bitmap' = bitmap \cup {b}
  BY <1>1, <1>2, Taken
<1>4. directories \cup user_frames \subseteq bitmap /\ TableBlocks \subseteq bitmap
  BY DEF VInv, MapsInv, Kept, TableBlocks
<1>5. b \in Frames
  BY <1>1, <1>2 DEF Frames
<1>6. b # 0
  BY <1>5, SizeFacts
<1> QED
  BY <1>1, <1>2, <1>3, <1>4, <1>5, <1>6

\* The slabs stay where they are.
LEMMA PagesUnmoved == ASSUME UNCHANGED slabVars PROVE SlabPages' = SlabPages
BY DEF slabVars, SlabPages

\* More blocks are held, and no table, directory or user page is given back.
LEMMA TablesGrow ==
    ASSUME VInv, bitmap' \subseteq Blocks, Kept \subseteq Kept', UNCHANGED <<directories, user_frames>>
    PROVE  /\ directories' \cup user_frames' \subseteq Kept'
           /\ \A m, Q, c : MapInv(m, TableBlocks, directories, user_frames, Q, c) =>
                               MapInv(m, TableBlocks', directories', user_frames', Q, c)
<1>1. directories' \cup user_frames' \subseteq Kept'
  BY DEF VInv, MapsInv
<1>2. /\ TableBlocks \subseteq TableBlocks' /\ TableBlocks' \subseteq Frames
      /\ TableBlocks' \cap directories = {} /\ TableBlocks' \cap user_frames = {}
  BY DEF TableBlocks, Frames, Kept
<1> HIDE DEF TableBlocks
<1>3. ASSUME NEW m, NEW Q, NEW c, MapInv(m, TableBlocks, directories, user_frames, Q, c)
      PROVE  MapInv(m, TableBlocks', directories, user_frames, Q, c)
  BY <1>2, <1>3, MoreTables
<1> QED
  BY <1>1, <1>3

\* Nothing is taken or given back.
LEMMA BlocksUnmoved ==
    ASSUME VInv, UNCHANGED pmmVars, UNCHANGED slabVars, UNCHANGED <<directories, user_frames>>
    PROVE  /\ directories' \cup user_frames' \subseteq Kept'
           /\ \A m, Q, c : MapInv(m, TableBlocks, directories, user_frames, Q, c) =>
                               MapInv(m, TableBlocks', directories', user_frames', Q, c)
<1>1. bitmap' = bitmap /\ SlabPages' = SlabPages
  BY PagesUnmoved DEF pmmVars
<1>2. bitmap' \subseteq Blocks /\ Kept \subseteq Kept'
  BY <1>1, SlabsHeld DEF VInv, Kept
<1> QED
  BY <1>2, TablesGrow

\* 3 GB is above a stack's worth of pages and below 4 GB.
LEMMA StackTop ==
    /\ UserStackTop \in Nat /\ PageWords <= UserStackTop /\ UserStackTop <= PageWords * PageWords
    /\ UserStackTop - 1 \in VPages
<1> DEFINE n == PageWords * PageWords
<1> DEFINE q == n \div 4
<1>1. PageWords \in Nat /\ PageWords >= 8
  BY SizeFacts
<1>2. n \in Nat /\ n >= 8 * PageWords
  <2>1. PageWords * PageWords = 8 * PageWords + (PageWords - 8) * PageWords
    BY <1>1
  <2>2. (PageWords - 8) * PageWords >= 0
    BY <1>1
  <2>3. (PageWords - 8) * PageWords \in Nat
    BY <1>1
  <2> QED
    BY <1>1, <2>1, <2>2, <2>3
<1> HIDE DEF n
<1>3. q \in Nat /\ 4 * q <= n /\ n <= 4 * q + 3
  BY <1>2
<1> HIDE DEF q
<1>4. UserStackTop = 3 * q
  BY DEF UserStackTop, q, n
<1>5. UserStackTop \in Nat /\ PageWords <= UserStackTop /\ UserStackTop <= n /\ UserStackTop - 1 \in 0..n - 1
  BY <1>1, <1>2, <1>3, <1>4
<1> QED
  BY <1>5 DEF VPages, n

-----------------------------------------------------------------------------
(***************************************************************************)
(* One lemma for each step of Vmm and of Slab.                             *)
(***************************************************************************)
\* process_create_user, elf_load and elf_exec.
LEMMA BeginMaps ==
    ASSUME VInv, process_create_user \/ elf_load \/ elf_exec, UNCHANGED slabVars
    PROVE  MapsInv'
<1>1. ASSUME NEW op \in {"user", "load", "exec"}, NEW first \in Nat, NEW pages \in Nat,
             first + pages <= PageWords * PageWords,
             op = "user" => first = kernel_directory /\ pages = 2, NEW touched \in Nat,
             Begin(op, first, pages, touched)
      PROVE  MapsInv'
  <2>1. /\ job' = [op |-> op, first |-> first, pages |-> pages, touched |-> touched,
                    got |-> <<>>, i |-> 0]
        /\ UNCHANGED <<mem, cr3, directories, fault, user_frames, overlay>> /\ UNCHANGED pmmVars
    BY <1>1 DEF Begin, Idle
  <2>2. JobSound(job', user_frames) /\ Pending(job') = {} /\ \A m, how : Covered(job', m, how)
    BY <1>1, <2>1, BeginSound
  <2>3. MapInv(mem, TableBlocks, directories, user_frames, {}, cr3)
    BY SwitchKeeps DEF VInv, MapsInv
  <2>4. /\ directories' \cup user_frames' \subseteq Kept'
        /\ MapInv(mem, TableBlocks', directories', user_frames', {}, cr3)
    BY <2>1, <2>3, BlocksUnmoved
  <2> QED
    BY <2>1, <2>2, <2>4 DEF MapsInv
<1>2. CASE process_create_user
  <2>1. kernel_directory \in Nat /\ kernel_directory + 2 <= PageWords * PageWords
    <3>1. kernel_directory + 1 \in VPages /\ kernel_directory = PageWords /\ PageWords \in Nat
      BY SizeFacts, KernelPages
    <3> QED
      BY <3>1 DEF VPages
  <2>2. UserCodePage = kernel_directory
    BY DEF UserCodePage, kernel_directory, Reserved
  <2> QED
    BY <2>1, <2>2, <1>1, <1>2 DEF process_create_user
<1>3. CASE elf_load
  <2>1. PICK segment \in Segments : Begin("load", segment[1], segment[2], segment[3])
    BY <1>3 DEF elf_load
  <2>2. /\ segment[1] \in Nat /\ segment[2] \in Nat /\ segment[3] \in Nat
        /\ segment[1] + segment[2] <= PageWords * PageWords
    <3> DEFINE n == PageWords * PageWords
    <3>1. /\ segment[1] \in Nat /\ segment[2] \in Nat /\ segment[3] \in Nat
          /\ segment[2] <= segment[3] /\ segment[1] + segment[3] <= n
      BY VmmAssumption
    <3>2. n \in Nat
      BY SizeFacts
    <3> HIDE DEF n
    <3>3. segment[1] + segment[2] <= n
      BY <3>1, <3>2
    <3> QED
      BY <3>1, <3>3 DEF n
  <2> QED
    BY <2>1, <2>2, <1>1
<1>4. CASE elf_exec
  <2>1. StackPages \in Nat /\ StackPages <= PageWords /\ PageWords \in Nat
    BY VmmAssumption
  <2> DEFINE n == PageWords * PageWords
  <2>2. n \in Nat /\ UserStackTop \in Nat /\ PageWords <= UserStackTop /\ UserStackTop <= n
    BY <2>1, StackTop
  <2> HIDE DEF n
  <2>3. UserStackTop - StackPages \in Nat /\ (UserStackTop - StackPages) + StackPages <= n
    BY <2>1, <2>2
  <2> QED
    BY <2>1, <2>3, <1>1, <1>4 DEF elf_exec, n
<1> QED
  BY <1>2, <1>3, <1>4

\* A page's block is taken, or there is none.
LEMMA AllocMaps ==
    ASSUME VInv, AllocPage, UNCHANGED slabVars
    PROVE  MapsInv'
<1> DEFINE b == Pmm!bitmap_find_free
<1>0. /\ JobSound(job, user_frames) /\ Covered(job, mem, fault)
      /\ MapInv(mem, TableBlocks, directories, user_frames, Pending(job), cr3)
  BY DEF VInv, MapsInv
<1>1. job.op # "idle" /\ Len(job.got) < job.pages /\ UNCHANGED <<mem, cr3, directories, fault, overlay>>
  BY DEF AllocPage, WantsBlock
<1>2. 0 \in Blocks /\ 0 \notin user_frames
  BY <1>0, MapParts, SizeFacts
<1>3. CASE /\ b # Pmm!NotFound /\ Pmm!TakeBlocks({b}) /\ user_frames' = user_frames \cup {b}
           /\ job' = GetNext(job, b)
  <2>1. /\ b \in Frames \ (TableBlocks \cup directories \cup user_frames)
        /\ b \in Blocks /\ b # 0 /\ b \notin bitmap /\ b \notin SlabPages /\ bitmap' = bitmap \cup {b}
    BY <1>3, FreshFrame
  <2> HIDE DEF b
  <2>2. /\ JobSound(job', user_frames \cup {b}) /\ Pending(job') = Pending(job) \cup ({b} \ {0})
        /\ \A m, how : Covered(job, m, how) => Covered(job', m, how)
    BY <1>0, <1>1, <1>3, <2>1, GetSound
  <2>3. MapInv(mem, TableBlocks, directories, user_frames \cup {b}, Pending(job) \cup {b}, cr3)
    BY <1>0, <2>1, MoreUsers
  <2>4. Kept' = Kept \cup {b} /\ TableBlocks' = TableBlocks
    <3>1. Kept' = Kept \cup {b}
      BY <2>1, PagesUnmoved DEF Kept
    <3> QED
      BY <3>1, <1>1, <1>3, <2>1 DEF TableBlocks
  <2>5. directories' \cup user_frames' \subseteq Kept'
    BY <2>4, <1>1, <1>3 DEF VInv, MapsInv
  <2>6. {b} \ {0} = {b}
    BY <2>1
  <2> QED
    BY <1>0, <1>1, <1>3, <2>2, <2>3, <2>4, <2>5, <2>6 DEF MapsInv
<1>4. CASE /\ job' = IF job.op = "user" THEN GetNext(job, 0) ELSE Idle
           /\ UNCHANGED user_frames /\ UNCHANGED pmmVars
  <2>1. directories' \cup user_frames' \subseteq Kept'
    BY <1>1, <1>4, BlocksUnmoved
  <2>2. CASE job' = GetNext(job, 0) /\ job.op = "user"
    <3>1. /\ JobSound(job', user_frames \cup {0}) /\ Pending(job') = Pending(job) \cup ({0} \ {0})
          /\ \A m, how : Covered(job, m, how) => Covered(job', m, how)
      BY <1>0, <1>1, <1>2, <2>2, GetSound
    <3>2. JobSound(job', user_frames)
      BY <3>1 DEF JobSound, BlocksGot
    <3>3. {0} \ {0} = {}
      OBVIOUS
    <3>4. MapInv(mem, TableBlocks', directories', user_frames', Pending(job), cr3)
      BY <1>0, <1>1, <1>4, BlocksUnmoved
    <3>5. Pending(job') = Pending(job)
      BY <3>1, <3>3
    <3> QED
      BY <1>0, <1>1, <1>4, <2>1, <3>1, <3>2, <3>4, <3>5 DEF MapsInv
  <2>3. CASE job' = Idle
    <3>1. JobSound(job', user_frames) /\ Pending(job') = {} /\ \A m, how : Covered(job', m, how)
      BY <2>3, IdleSound
    <3>2. MapInv(mem, TableBlocks, directories, user_frames, {}, cr3)
      BY <1>0, SwitchKeeps
    <3>3. MapInv(mem, TableBlocks', directories', user_frames', {}, cr3)
      BY <3>2, <1>1, <1>4, BlocksUnmoved
    <3> QED
      BY <1>1, <1>4, <2>1, <3>1, <3>3 DEF MapsInv
  <2> QED
    BY <1>4, <2>2, <2>3
<1> QED
  BY <1>3, <1>4 DEF AllocPage, GetNext


\* vmm_map_page, for a page of the call in progress.
LEMMA MapPageKeeps ==
    ASSUME VInv, NEW Q, MapInv(mem, TableBlocks, directories, user_frames, Q, cr3),
           NEW page \in VPages, NEW f \in Blocks,
           Mappable(mem, Q, mem[Table1][0].frame, page, Entry(f, TRUE)),
           vmm_map_page(f, page, TRUE), UNCHANGED slabVars, UNCHANGED <<directories, user_frames>>
    PROVE  /\ directories \cup user_frames \subseteq Kept'
           /\ MapInv(mem', TableBlocks', directories, user_frames, Q \ {f}, cr3)
           /\ fault' = "none" => StayGone(mem, mem') /\ CoverGone(page, mem')
<1> DEFINE pde == DirectoryWord(mem, pd_index(page))
<1>1. MapInv(mem, TableBlocks, directories, user_frames, Q \ {f}, cr3)
  BY SwitchKeeps
<1>2. ASSUME UNCHANGED pmmVars
      PROVE  /\ directories \cup user_frames \subseteq Kept'
             /\ \A m, P : MapInv(m, TableBlocks, directories, user_frames, P, cr3) =>
                              MapInv(m, TableBlocks', directories, user_frames, P, cr3)
  BY <1>2, BlocksUnmoved
<1>3. ASSUME mem' = mem, fault' # "none", UNCHANGED pmmVars
      PROVE  /\ directories \cup user_frames \subseteq Kept'
             /\ MapInv(mem', TableBlocks', directories, user_frames, Q \ {f}, cr3)
  BY <1>1, <1>2, <1>3
<1>4. CASE ~Mapped(mem, kernel_directory)
  BY <1>3, <1>4 DEF vmm_map_page, Stop
<1>5. CASE Mapped(mem, kernel_directory) /\ pde = Junk /\ Stop("wild") /\ UNCHANGED pmmVars
  BY <1>3, <1>5 DEF Stop
<1>6. CASE Mapped(mem, kernel_directory) /\ IsEntry(pde) /\ MapThroughTable(pde, f, page, TRUE)
  <2>1. /\ MapInv(mem', TableBlocks, directories, user_frames, Q \ {f}, cr3)
        /\ fault' = "none" => StayGone(mem, mem') /\ CoverGone(page, mem')
    BY <1>6, ThroughTableKeeps
  <2>2. UNCHANGED pmmVars
    BY <1>6 DEF MapThroughTable
  <2> QED
    BY <1>2, <2>1, <2>2
<1>7. CASE Mapped(mem, kernel_directory) /\ pde = Absent /\ MapNewTable(f, page, TRUE)
  <2> DEFINE b == Pmm!bitmap_find_free
  <2>0. ~IsEntry(pde)
    BY <1>7, WordsWritten
  <2>1. CASE b = Pmm!NotFound /\ UNCHANGED <<mem, fault, overlay>> /\ UNCHANGED pmmVars
    <3>1. StayGone(mem, mem')
      BY <2>1 DEF StayGone
    <3>2. CoverGone(page, mem)
      <4> SUFFICES ASSUME page = kernel_directory, mem[Table1][0].frame = kernel_directory
                   PROVE  mem[Table1][2].frame # Table1
        BY DEF CoverGone
      <4>1. Real(mem[cr3]) /\ IsEntry(mem[Table1][0]) /\ At(mem, kernel_directory) = kernel_directory
        BY <1>7, DirectoryAt
      <4>2. pd_index(kernel_directory) = 1
        <5>1. 0 \in Index /\ PageWords + 0 = kernel_directory
          BY SizeFacts
        <5> QED
          BY <5>1, KernelPages
      <4>3. ~IsEntry(mem[kernel_directory][1])
        BY <2>0, <4>1, <4>2 DEF DirectoryWord
      <4>4. ~Real(mem[kernel_directory])
        <5>1. Real(mem[kernel_directory]) => mem[kernel_directory][1].frame = Table1
          <6>1. kernel_directory \in directories /\ RealMaps(mem, directories)
            BY DEF MapInv, Roles
          <6> QED
            BY <6>1 DEF RealMaps
        <5>2. mem[kernel_directory][1] \in Word /\ Table1 \in Blocks
          BY MapParts, SizeFacts
        <5> QED
          BY <4>3, <5>1, <5>2, EntryFacts
      <4> QED
        BY <4>1, <4>4 DEF MapInv, Believed
    <3> QED
      BY <1>1, <1>2, <2>1, <3>1, <3>2
  <2>2. CASE /\ b # Pmm!NotFound /\ Pmm!TakeBlocks({b})
             /\ \/ Stop("halted") \/ Stop("wild")
                \/ SetEntry(NewTable(mem, b, page, TRUE), b, page, Entry(f, TRUE))
    <3>1. /\ b \in Frames \ (TableBlocks \cup directories \cup user_frames)
          /\ b \notin SlabPages /\ bitmap' = bitmap \cup {b}
      BY <2>2, FreshFrame
    <3> HIDE DEF b
    <3>2. Kept' = Kept \cup {b}
      BY <3>1, PagesUnmoved DEF Kept
    <3>3. TableBlocks' = TableBlocks \cup {b}
      BY <3>1, <3>2 DEF TableBlocks, Frames
    <3>4. directories \cup user_frames \subseteq Kept'
      BY <3>2 DEF VInv, MapsInv
    <3>5. CASE Stop("halted") \/ Stop("wild")
      <4>1. TableBlocks \cup {b} \subseteq Frames /\ (TableBlocks \cup {b}) \cap directories = {}
            /\ (TableBlocks \cup {b}) \cap user_frames = {}
        BY <3>1 DEF MapInv, Roles
      <4>2. MapInv(mem, TableBlocks \cup {b}, directories, user_frames, Q \ {f}, cr3)
        BY <4>1, <1>1, MoreTables
      <4> QED
        BY <4>2, <3>3, <3>4, <3>5 DEF Stop
    <3>6. CASE SetEntry(NewTable(mem, b, page, TRUE), b, page, Entry(f, TRUE))
      <4> HIDE DEF pde
      <4>1. /\ MapInv(mem', TableBlocks \cup {b}, directories, user_frames, Q \ {f}, cr3)
            /\ fault' = "none" => StayGone(mem, mem') /\ CoverGone(page, mem')
        <5>1. ~IsEntry(DirectoryWord(mem, pd_index(page)))
          BY <2>0 DEF pde
        <5>2. Mapped(mem, kernel_directory) /\ page \in VPages /\ f \in Blocks
          BY <1>7
        <5>3. MapInv(mem, TableBlocks, directories, user_frames, Q, cr3)
          OBVIOUS
        <5>4. Mappable(mem, Q, mem[Table1][0].frame, page, Entry(f, TRUE))
          OBVIOUS
        <5>5. b \in Frames \ (TableBlocks \cup directories \cup user_frames)
          BY <3>1
        <5>6. SetEntry(NewTable(mem, b, page, TRUE), b, page, Entry(f, TRUE))
          BY <3>6
        <5> QED
          BY <5>1, <5>2, <5>3, <5>4, <5>5, <5>6, NewTableKeeps, ZenonT(60)
      <4> QED
        BY <4>1, <3>3, <3>4
    <3> QED
      BY <2>2, <3>5, <3>6
  <2> QED
    BY <1>7, <2>1, <2>2 DEF MapNewTable
<1> HIDE DEF pde
<1> QED
  BY <1>4, <1>5, <1>6, <1>7 DEF vmm_map_page, pde

\* A page of the call in progress is mapped.
LEMMA MapMaps ==
    ASSUME VInv, MapPage, UNCHANGED slabVars
    PROVE  MapsInv'
<1> DEFINE f == job.got[job.i + 1]
<1> DEFINE page == job.first + job.i
<1> DEFINE Q == Pending(job)
<1>0. /\ JobSound(job, user_frames) /\ Covered(job, mem, fault)
      /\ MapInv(mem, TableBlocks, directories, user_frames, Q, cr3)
  BY DEF VInv, MapsInv
<1>1. /\ fault = "none" /\ job.i < Len(job.got) /\ vmm_map_page(f, page, TRUE)
      /\ job' = MapNext(job) /\ UNCHANGED <<cr3, directories, user_frames>>
  BY DEF MapPage, MapNext
<1>2. 0 \notin user_frames
  BY <1>0, MapParts
<1>3. /\ JobSound(job', user_frames) /\ Pending(job') = Q \ {f}
      /\ f \in Blocks /\ page \in VPages
      /\ \/ f \in Q
         \/ f = 0 /\ \/ page = kernel_directory
                     \/ /\ page = kernel_directory + 1
                        /\ kernel_directory \in job.first .. job.first + job.i - 1
      /\ kernel_directory \in job'.first .. job'.first + job'.i - 1 =>
            \/ page = kernel_directory
            \/ kernel_directory \in job.first .. job.first + job.i - 1
  BY <1>0, <1>1, <1>2, MapSound
<1>4. kernel_directory \in job.first .. job.first + job.i - 1 => CoverGone(kernel_directory, mem)
  BY <1>0, <1>1 DEF Covered
<1> HIDE DEF f, page, Q
<1>5. Entry(f, TRUE).user /\ Entry(f, TRUE).frame = f
  BY <1>3, WordsWritten
<1>6. Mappable(mem, Q, mem[Table1][0].frame, page, Entry(f, TRUE))
  BY <1>3, <1>4, <1>5 DEF Mappable, CoverGone
<1>7. /\ directories \cup user_frames \subseteq Kept'
      /\ MapInv(mem', TableBlocks', directories, user_frames, Q \ {f}, cr3)
      /\ fault' = "none" => StayGone(mem, mem') /\ CoverGone(page, mem')
  BY <1>0, <1>1, <1>3, <1>6, MapPageKeeps
<1>8. StayGone(mem, mem') /\ CoverGone(kernel_directory, mem) => CoverGone(kernel_directory, mem')
  BY DEF StayGone, CoverGone
<1>9. Covered(job', mem', fault')
  BY <1>3, <1>4, <1>7, <1>8 DEF Covered
<1> QED
  BY <1>1, <1>3, <1>7, <1>9 DEF MapsInv


\* The program is copied: only user pages, and block 0, change.
LEMMA FinishMaps ==
    ASSUME VInv, Finish, UNCHANGED slabVars
    PROVE  MapsInv'
<1> DEFINE Q == Pending(job)
<1>0. /\ JobSound(job, user_frames) /\ Covered(job, mem, fault)
      /\ MapInv(mem, TableBlocks, directories, user_frames, Q, cr3)
  BY DEF VInv, MapsInv
<1>1. /\ fault = "none" /\ job.op # "idle" /\ job.i = job.pages /\ job' = Idle
      /\ UNCHANGED <<cr3, directories, user_frames>> /\ UNCHANGED pmmVars
  BY DEF Finish
<1>2. JobSound(job', user_frames) /\ Pending(job') = {} /\ \A m, how : Covered(job', m, how)
  BY <1>1, IdleSound
<1>3. MapInv(mem', TableBlocks, directories, user_frames, {}, cr3)
  <2>0. MapInv(mem, TableBlocks, directories, user_frames, {}, cr3)
    BY <1>0, SwitchKeeps
  <2>1. CASE mem' = mem
    BY <2>0, <2>1
  <2>2. CASE /\ CopiedBlocks \subseteq user_frames \cup {0}
             /\ mem' = [b \in Blocks |-> IF b \in CopiedBlocks THEN Fill(Junk) ELSE mem[b]]
    <3>1. Fill(Junk) \in [Index -> Word] /\ Bare(Fill(Junk)) /\ mem \in Memory
      BY <2>0, WordsWritten DEF MapInv
    <3> DEFINE m2 == mem'
    <3>2. /\ m2 \in Memory /\ \A b \in Blocks : m2[b] = mem[b] \/ Bare(m2[b])
          /\ \A b \in Blocks \ (user_frames \cup {0}) : m2[b] = mem[b]
      BY <2>2, <3>1 DEF Memory
    <3>3. kernel_directory \in Blocks \ (user_frames \cup {0})
      BY <2>0, MapParts, SizeFacts
    <3> HIDE DEF m2
    <3>4. MapInv(m2, TableBlocks, directories, user_frames, {}, cr3)
      BY <2>0, <3>2, <3>3, WipeKeeps
    <3> QED
      BY <3>4 DEF m2
  <2> QED
    BY <2>1, <2>2 DEF Finish, Stop
<1>4. /\ directories' \cup user_frames' \subseteq Kept'
      /\ MapInv(mem', TableBlocks', directories', user_frames', {}, cr3)
  BY <1>1, <1>3, BlocksUnmoved
<1> QED
  BY <1>1, <1>2, <1>4 DEF MapsInv

\* vmm_unmap_page.
LEMMA UnmapMaps ==
    ASSUME VInv, UnmapPage(UserStackTop - 1), UNCHANGED slabVars
    PROVE  MapsInv'
<1> DEFINE page == UserStackTop - 1
<1> DEFINE pde == DirectoryWord(mem, pd_index(page))
<1> DEFINE F == mem[Table1][0].frame
<1>0. MapInv(mem, TableBlocks, directories, user_frames, Pending(job), cr3)
  BY DEF VInv, MapsInv
<1>1. /\ job = Idle /\ vmm_unmap_page(page)
      /\ UNCHANGED <<cr3, directories, job, user_frames>> /\ UNCHANGED pmmVars
  BY DEF UnmapPage
<1>2. JobSound(job', user_frames) /\ Pending(job') = {} /\ \A m, how : Covered(job', m, how)
  BY <1>1, IdleSound
<1>3. page \in VPages
  BY StackTop
<1> HIDE DEF page
<1>4. MapInv(mem, TableBlocks, directories, user_frames, {}, cr3)
  BY <1>0, SwitchKeeps
<1>5. MapInv(mem', TableBlocks, directories, user_frames, {}, cr3)
  <2>1. CASE mem' = mem
    BY <1>4, <2>1
  <2>2. CASE Mapped(mem, kernel_directory) /\ IsEntry(pde) /\ SetEntry(mem, pde.frame, page, Absent)
    <3>1. Real(mem[cr3]) /\ IsEntry(mem[Table1][0]) /\ At(mem, kernel_directory) = F
      BY <1>4, <2>2, DirectoryAt
    <3>2. pde = mem[F][pd_index(page)]
      BY <3>1 DEF DirectoryWord
    <3>3. Absent \in Word /\ Mappable(mem, {}, F, page, Absent)
      BY WordsWritten DEF Mappable
    <3> HIDE DEF pde
    <3>4. MapInv(mem', TableBlocks, directories, user_frames, {} \ {Absent.frame}, cr3)
      BY <1>3, <1>4, <2>2, <3>1, <3>2, <3>3, SetEntryKeeps, ZenonT(60)
    <3> QED
      BY <3>4
  <2> QED
    BY <1>1, <2>1, <2>2 DEF vmm_unmap_page, Stop
<1>6. /\ directories' \cup user_frames' \subseteq Kept'
      /\ MapInv(mem', TableBlocks', directories', user_frames', {}, cr3)
  BY <1>1, <1>5, BlocksUnmoved
<1> QED
  BY <1>1, <1>2, <1>6 DEF MapsInv

\* vmm_switch_directory: a directory that runs the kernel has its first table.
LEMMA SwitchMaps ==
    ASSUME VInv, NEW dir \in directories, vmm_switch_directory(dir), UNCHANGED slabVars
    PROVE  MapsInv'
<1>0. /\ JobSound(job, user_frames) /\ Covered(job, mem, fault)
      /\ MapInv(mem, TableBlocks, directories, user_frames, Pending(job), cr3)
  BY DEF VInv, MapsInv
<1>1. /\ UNCHANGED <<mem, directories, job, user_frames, overlay>> /\ UNCHANGED pmmVars
      /\ \/ RunsKernel(dir) /\ cr3' = dir /\ UNCHANGED fault
         \/ fault' = "wild" /\ UNCHANGED cr3
  BY DEF vmm_switch_directory
<1>2. ASSUME RunsKernel(dir) PROVE Real(mem[dir])
  <2>1. Hardware(mem, dir, 1).frame = 1
    <3>1. 1 \in 0..Reserved - 1
      BY SizeFacts DEF kernel_directory
    <3> QED
      BY <3>1, <1>2 DEF RunsKernel
  <2>2. pd_index(1) = 0 /\ pt_index(1) = 1 /\ 0 \in Index /\ 1 \in Index /\ 1 \in Blocks
    BY SizeFacts, KernelPages DEF Blocks
  <2> DEFINE pde == mem[dir][0]
  <2> DEFINE pte == mem[pde.frame][1]
  <2>3. pde \in Word /\ IsDirectory(mem[dir], TableBlocks)
    <3>1. pde \in Word
      BY <1>0, <2>2, MapParts
    <3> QED
      BY <3>1, <1>0 DEF MapInv
  <2>4. IsEntry(pde)
    <3>1. ~IsEntry(pde) => Hardware(mem, dir, 1) = pde
      BY <2>2 DEF Hardware
    <3> QED
      BY <2>1, <2>2, <2>3, <3>1, EntryFacts
  <2>5. pde.frame \in TableBlocks /\ pde.frame # Table1
    BY <2>2, <2>3, <2>4 DEF IsDirectory
  <2>6. pte \in Word
    BY <1>0, <2>2, <2>5, MapParts
  <2>7. pte.frame = 1 /\ IsEntry(pte) /\ pte.user \in BOOLEAN
    <3>1. Hardware(mem, dir, 1) = [pte EXCEPT !.user = @ /\ pde.user]
      BY <2>2, <2>4 DEF Hardware
    <3>2. pte.frame = 1
      BY <2>1, <2>6, <3>1 DEF Word
    <3> QED
      BY <2>2, <2>6, <3>2, EntryFacts, SMTT(30)
  <2>8. 1 \notin user_frames \cup {0}
    <3>1. user_frames \subseteq Frames
      BY <1>0 DEF MapInv, Roles
    <3>2. 1 \in 0..Reserved - 1
      BY SizeFacts DEF kernel_directory
    <3> QED
      BY <3>1, <3>2 DEF Frames
  <2>9. pde.frame \in {Table0, Table1}
    BY <1>0, <2>2, <2>5, <2>7, <2>8 DEF MapInv, TableWords
  <2> QED
    BY <2>5, <2>9 DEF Real
<1>3. MapInv(mem, TableBlocks, directories, user_frames, Pending(job), cr3')
  BY <1>0, <1>1, <1>2, SwitchKeeps
<1>4. /\ directories' \cup user_frames' \subseteq Kept'
      /\ MapInv(mem, TableBlocks', directories', user_frames', Pending(job), cr3')
  BY <1>1, <1>3, BlocksUnmoved
<1>5. Covered(job, mem, fault')
  BY <1>0, <1>1 DEF Covered
<1> QED
  BY <1>0, <1>1, <1>4, <1>5 DEF MapsInv


\* vmm_clone_directory: the copy goes to the new block.
LEMMA CloneMaps ==
    ASSUME VInv, vmm_clone_directory, UNCHANGED slabVars
    PROVE  MapsInv'
<1> DEFINE b == Pmm!bitmap_find_free
<1> DEFINE D2 == directories \cup {b}
<1> DEFINE Q == Pending(job)
<1> DEFINE F == mem[Table1][0].frame
<1>0. /\ JobSound(job, user_frames) /\ Covered(job, mem, fault)
      /\ MapInv(mem, TableBlocks, directories, user_frames, Q, cr3)
  BY DEF VInv, MapsInv
<1>1. /\ b # Pmm!NotFound /\ Pmm!TakeBlocks({b})
      /\ UNCHANGED <<cr3, job, user_frames>>
      /\ \/ mem' = mem /\ fault' # "none" /\ directories' = directories
         \/ /\ Mapped(mem, kernel_directory)
            /\ mem' = [mem EXCEPT ![b] = CloneOf(Source)] /\ directories' = D2
            /\ UNCHANGED fault
  BY DEF vmm_clone_directory, Stop
<1>2. /\ b \in Frames \ (TableBlocks \cup directories \cup user_frames)
      /\ b \in Blocks /\ b # 0 /\ b \notin SlabPages /\ bitmap' = bitmap \cup {b}
  BY <1>1, FreshFrame
<1> HIDE DEF b
<1>3. Kept' = Kept \cup {b}
  BY <1>2, PagesUnmoved DEF Kept
<1>7. CASE mem' = mem /\ fault' # "none" /\ directories' = directories
  <2>1. TableBlocks' = TableBlocks \cup {b}
    BY <1>1, <1>2, <1>3, <1>7 DEF TableBlocks, Frames
  <2>2. directories' \cup user_frames' \subseteq Kept'
    BY <1>1, <1>3, <1>7 DEF VInv, MapsInv
  <2>3. /\ TableBlocks \cup {b} \subseteq Frames /\ (TableBlocks \cup {b}) \cap directories = {}
        /\ (TableBlocks \cup {b}) \cap user_frames = {}
    BY <1>0, <1>2 DEF MapInv, Roles
  <2> HIDE DEF Q
  <2>4. MapInv(mem, TableBlocks \cup {b}, directories, user_frames, Q, cr3)
    BY <1>0, <2>3, MoreTables
  <2>5. Covered(job, mem, fault')
    BY <1>7 DEF Covered
  <2> QED
    BY <1>0, <1>1, <1>7, <2>1, <2>2, <2>4, <2>5 DEF MapsInv, Q
<1>8. CASE /\ Mapped(mem, kernel_directory)
           /\ mem' = [mem EXCEPT ![b] = CloneOf(Source)] /\ directories' = D2
           /\ UNCHANGED fault
  <2>1. Real(mem[cr3]) /\ IsEntry(mem[Table1][0]) /\ At(mem, kernel_directory) = F
    BY <1>0, <1>8, DirectoryAt
  <2>2. b # kernel_directory /\ b # cr3 /\ b # Table1 /\ Table1 \in Blocks
    BY <1>0, <1>2, MapParts, SizeFacts
  <2>3. F \in Blocks /\ mem \in Memory
    <3>1. F \in Blocks
      BY <1>0, <2>1, BelievedFacts
    <3> QED
      BY <3>1, <1>0 DEF MapInv
  <2>4. CloneOf(Source) = mem[F]
    BY <2>1, <2>3 DEF Source, CloneOf, Memory, Index
  <2> DEFINE m2 == [mem EXCEPT ![b] = mem[F]]
  <2>5. mem' = m2
    BY <1>8, <2>4
  <2>6. m2[Table1] = mem[Table1]
    BY <2>2, <2>3 DEF Memory
  <2>7. MapInv(m2, TableBlocks, D2, user_frames, Q, cr3)
    <3>1. MapInv(mem, TableBlocks, D2, user_frames, Q, cr3)
      BY <1>0, <1>2, MoreDirectories
    <3>2. Bare(mem[b])
      BY <1>0, <1>2 DEF MapInv
    <3>3. b \in D2 \ {cr3, kernel_directory}
      BY <2>2
    <3> HIDE DEF D2, F, Q
    <3> QED
      BY <2>1, <3>1, <3>2, <3>3, CopyKeeps DEF F
  <2> HIDE DEF m2
  <2>8. Covered(job, m2, fault)
    BY <1>0, <2>6 DEF Covered, CoverGone
  <2>9. TableBlocks' = TableBlocks
    BY <1>1, <1>2, <1>3, <1>8 DEF TableBlocks, Frames
  <2>10. D2 \cup user_frames \subseteq Kept'
    BY <1>3 DEF VInv, MapsInv
  <2> QED
    BY <1>0, <1>1, <1>8, <2>5, <2>7, <2>8, <2>9, <2>10 DEF MapsInv
<1> QED
  BY <1>1, <1>7, <1>8

WithActive(k, n) == [k EXCEPT !.num_active = n]

\* Placing a slab brings no other slab in.
LEMMA PlaceWithin ==
    ASSUME NEW k, Listed(k), NEW b \in Blocks, NEW inuse, NEW objects, NEW n
    PROVE  SlabsOf(WithActive(Place(k, b, inuse, objects), n)) \subseteq SlabsOf(k) \cup {b}
<1> DEFINE u == Unlink(k, b)
<1> DEFINE m == Place(k, b, inuse, objects)
<1>1. /\ u \in CacheRecord
      /\ ToSet(u.full) \subseteq ToSet(k.full) /\ ToSet(u.partial) \subseteq ToSet(k.partial)
      /\ ToSet(u.empty) \subseteq ToSet(k.empty)
  BY UnlinkFacts
<1>2. u.full \in Seq(Blocks) /\ u.partial \in Seq(Blocks) /\ u.empty \in Seq(Blocks)
  BY <1>1 DEF CacheRecord
<1>3. \A q \in {u.full, u.partial, u.empty} : ToSet(<<b>> \o q) = {b} \cup ToSet(q)
  BY <1>2, ConsFacts
<1>4. m \in {[u EXCEPT !.full = <<b>> \o u.full], [u EXCEPT !.empty = <<b>> \o u.empty],
             [u EXCEPT !.partial = <<b>> \o u.partial]}
  BY DEF Place
<1> HIDE DEF u, m
<1>5. /\ m.full \in {u.full, <<b>> \o u.full} /\ m.empty \in {u.empty, <<b>> \o u.empty}
      /\ m.partial \in {u.partial, <<b>> \o u.partial}
      /\ WithActive(m, n).full = m.full /\ WithActive(m, n).partial = m.partial
      /\ WithActive(m, n).empty = m.empty
  BY <1>1, <1>4 DEF CacheRecord, WithActive
<1> QED
  BY <1>1, <1>3, <1>5 DEF SlabsOf, m

\* What a step of the slab allocator may do to the page maps: it writes over
\* a block that plays no part in them.
SlabEffect ==
    /\ Kept \subseteq Kept' /\ SlabPages' \subseteq SlabPages \cup (bitmap' \ bitmap)
    /\ UNCHANGED <<cr3, directories, job, user_frames, overlay>>
    /\ \/ mem' = mem
       \/ \E b \in Blocks \ (TableBlocks \cup directories) : mem' = [mem EXCEPT ![b] = Fill(Junk)]

\* Such a step keeps the maps.
LEMMA SlabMaps ==
    ASSUME VInv, IInv', fault = "none", SlabEffect
    PROVE  MapsInv'
<1>0. /\ JobSound(job, user_frames) /\ Covered(job, mem, fault)
      /\ MapInv(mem, TableBlocks, directories, user_frames, Pending(job), cr3)
  BY DEF VInv, MapsInv
<1>1. bitmap' \subseteq Blocks
  BY DEF IInv, PmmInv, Manager!Inv, Manager!TypeOK, Manager!Blocks, Blocks
<1>2. MapInv(mem', TableBlocks, directories, user_frames, Pending(job), cr3) /\ mem'[Table1] = mem[Table1]
  <2>1. CASE mem' = mem
    BY <1>0, <2>1
  <2>2. ASSUME NEW b \in Blocks \ (TableBlocks \cup directories), mem' = [mem EXCEPT ![b] = Fill(Junk)]
        PROVE  MapInv(mem', TableBlocks, directories, user_frames, Pending(job), cr3) /\ mem'[Table1] = mem[Table1]
    <3> DEFINE m2 == [mem EXCEPT ![b] = Fill(Junk)]
    <3>1. Fill(Junk) \in [Index -> Word] /\ Bare(Fill(Junk)) /\ mem \in Memory
      BY <1>0, WordsWritten DEF MapInv
    <3>2. m2 \in Memory /\ (\A d \in Blocks : m2[d] = mem[d] \/ Bare(m2[d])) /\ \A d \in Blocks \ {b} : m2[d] = mem[d]
      BY <3>1 DEF Memory
    <3>3. kernel_directory \in Blocks \ {b} /\ Table1 \in Blocks \ {b}
      BY <1>0, <2>2, MapParts, SizeFacts
    <3> HIDE DEF m2
    <3>4. MapInv(m2, TableBlocks, directories, user_frames, Pending(job), cr3)
      BY <1>0, <3>2, <3>3, WipeKeeps
    <3> QED
      BY <2>2, <3>2, <3>3, <3>4 DEF m2
  <2> QED
    BY <2>1, <2>2 DEF SlabEffect
<1>3. /\ directories' \cup user_frames' \subseteq Kept'
      /\ MapInv(mem', TableBlocks', directories', user_frames', Pending(job), cr3)
  BY <1>1, <1>2, TablesGrow DEF SlabEffect
<1>4. Covered(job, mem', fault')
  BY <1>0, <1>2 DEF Covered, CoverGone
<1> QED
  BY <1>0, <1>3, <1>4 DEF MapsInv, SlabEffect


\* One cache's slabs change: none becomes a slab but the blocks of S.
LEMMA OneCache ==
    ASSUME IInv, NEW c \in Caches, NEW k, NEW S, SlabsOf(k) \subseteq SlabsOf(cache[c]) \cup S,
           cache' = [cache EXCEPT ![c] = k], S \cap Kept = {}, bitmap \ bitmap' \subseteq SlabPages
    PROVE  Kept \subseteq Kept' /\ SlabPages' \subseteq SlabPages \cup S
<1>1. \A d \in Caches : cache'[d] = IF d = c THEN k ELSE cache[d]
  BY DEF IInv, SlabInv, SlabTypes
<1>2. SlabPages' \subseteq SlabPages \cup S
  BY <1>1 DEF SlabPages
<1> QED
  BY <1>2 DEF Kept

\* The slab kmem_cache_alloc looks at is one of the cache's.
LEMMA CandidateListed ==
    ASSUME IInv, NEW c \in Caches, HasCandidate(cache[c])
    PROVE  Candidate(cache[c]) \in SlabPages /\ Candidate(cache[c]) \in Blocks
<1>1. Listed(cache[c])
  BY DEF IInv, SlabInv, CacheSound
<1>2. /\ cache[c].partial \in Seq(Blocks) /\ cache[c].empty \in Seq(Blocks) /\ SlabsOf(cache[c]) \subseteq Blocks
      /\ Once(cache[c].partial) /\ Once(cache[c].empty)
  BY <1>1, ListedFacts DEF Listed
<1>3. \A q \in {cache[c].partial, cache[c].empty} : q # <<>> => Head(q) \in ToSet(q)
  BY <1>2, EndsFacts
<1>4. Candidate(cache[c]) \in SlabsOf(cache[c])
  BY <1>3 DEF HasCandidate, Candidate, SlabsOf
<1> QED
  BY <1>2, <1>4 DEF SlabPages

\* kmem_cache_alloc.
LEMMA CacheAllocEffect ==
    ASSUME VInv, NEW c \in Caches, kmem_cache_alloc(c)
    PROVE  SlabEffect
<1>0. IInv /\ fault = "none" /\ CacheSound(cache[c], slab, lent, bitmap) /\ cache[c].live
  BY DEF VInv, IInv, SlabInv, kmem_cache_alloc
<1>1. ASSUME UNCHANGED slabVars, UNCHANGED <<mem, cr3, directories, job, user_frames, overlay>>, bitmap \subseteq bitmap'
      PROVE  SlabEffect
  BY <1>1, PagesUnmoved DEF Kept, SlabEffect
<1>2. ASSUME NEW k, NEW s, NEW b \in Blocks, Listed(k), SlabsOf(k) \subseteq SlabsOf(cache[c]) \cup {b},
             b \in SlabPages \cup (bitmap' \ bitmap), bitmap \subseteq bitmap', AllocFrom(c, k, s, b)
      PROVE  SlabEffect
  <2> DEFINE k2 == [Place(k, b, Pop(s).inuse, s.objects) EXCEPT !.num_active = @ + 1]
  <2> DEFINE p == Place(k, b, Pop(s).inuse, s.objects)
  <2>a. k2 = WithActive(p, p.num_active + 1)
    BY DEF WithActive
  <2>b. \A n : SlabsOf(WithActive(p, n)) \subseteq SlabsOf(k) \cup {b}
    BY <1>2, PlaceWithin
  <2>1. SlabsOf(k2) \subseteq SlabsOf(k) \cup {b}
    BY <2>a, <2>b
  <2>2. /\ cache' = [cache EXCEPT ![c] = k2] /\ mem' = [mem EXCEPT ![b] = Fill(Junk)]
        /\ UNCHANGED <<cr3, directories, job, user_frames, overlay>>
    BY <1>2 DEF AllocFrom
  <2> HIDE DEF k2
  <2>3. SlabsOf(k2) \subseteq SlabsOf(cache[c]) \cup {b} /\ {b} \cap Kept = {} /\ bitmap \ bitmap' \subseteq SlabPages
    BY <1>2, <2>1 DEF Kept
  <2>4. Kept \subseteq Kept' /\ SlabPages' \subseteq SlabPages \cup {b}
    BY <1>0, <2>2, <2>3, OneCache
  <2>5. b \notin TableBlocks \cup directories
    BY <2>3 DEF VInv, MapsInv, TableBlocks
  <2> QED
    BY <1>2, <2>2, <2>4, <2>5 DEF SlabEffect
<1>3. CASE AllocFails(c)
  BY <1>1, <1>3 DEF AllocFails, vmmVars, pmmVars
<1>4. CASE AllocExisting(c)
  <2> DEFINE b == Candidate(cache[c])
  <2>0. bitmap' = bitmap
    BY <1>4 DEF AllocExisting, pmmVars
  <2>1. CASE UNCHANGED slabVars /\ UNCHANGED <<mem, cr3, directories, job, user_frames, overlay>>
    BY <1>1, <2>0, <2>1
  <2>2. CASE AllocFrom(c, cache[c], slab[b], b)
    <3>1. Listed(cache[c]) /\ b \in Blocks /\ b \in SlabPages
      BY <1>0, <1>4, CandidateListed DEF AllocExisting, CacheSound
    <3> HIDE DEF b
    <3>2. SlabsOf(cache[c]) \subseteq SlabsOf(cache[c]) \cup {b}
      OBVIOUS
    <3> QED
      BY <1>2, <2>0, <2>2, <3>1, <3>2
  <2> QED
    BY <1>4, <2>1, <2>2 DEF AllocExisting, StopSlab, vmmVars
<1>5. CASE AllocFromNew(c)
  <2> DEFINE b == Pmm!bitmap_find_free
  <2> DEFINE n == calculate_objects_per_slab(cache[c])
  <2> DEFINE s == [objects |-> n, inuse |-> 0, freelist |-> [i \in 1..n |-> i]]
  <2> DEFINE k == [cache[c] EXCEPT !.empty = <<b>> \o @, !.num_slabs = @ + 1]
  <2>0. b # Pmm!NotFound /\ Pmm!TakeBlocks({b})
    BY <1>5 DEF AllocFromNew
  <2>1. /\ b \in Frames \ (TableBlocks \cup directories \cup user_frames)
        /\ b \in Blocks /\ b \notin bitmap /\ bitmap' = bitmap \cup {b}
    BY <2>0, FreshFrame
  <2>2. CASE UNCHANGED slabVars /\ UNCHANGED <<mem, cr3, directories, job, user_frames, overlay>>
    BY <1>1, <2>1, <2>2
  <2>3. CASE n > 0 /\ AllocFrom(c, k, s, b)
    <3>1. n \in Nat /\ cache[c] \in CacheRecord /\ SlabInv(cache, slab, lent, bitmap) /\ cache[c].empty \in Seq(Blocks)
      <4>1. cache[c] \in CacheRecord /\ SlabInv(cache, slab, lent, bitmap)
        BY <1>0 DEF IInv, CacheSound, Listed
      <4> QED
        BY <4>1, ObjectsFit DEF CacheRecord
    <3> HIDE DEF b
    <3>2. SlabInv([cache EXCEPT ![c] = k], [slab EXCEPT ![b] = s], lent, bitmap \cup {b})
      BY <1>0, <2>1, <2>3, <3>1, GrowKeeps
    <3>3. [cache EXCEPT ![c] = k][c] = k
      BY <3>1 DEF SlabInv, SlabTypes
    <3> DEFINE e == <<b>> \o cache[c].empty
    <3> DEFINE ns == cache[c].num_slabs + 1
    <3>4. ToSet(e) = {b} \cup ToSet(cache[c].empty)
      BY <2>1, <3>1, ConsFacts
    <3>5. k.full = cache[c].full /\ k.partial = cache[c].partial /\ k.empty = e
      <4>1. k = [cache[c] EXCEPT !.empty = e, !.num_slabs = ns]
        OBVIOUS
      <4> HIDE DEF k, e, ns
      <4> QED
        BY <3>1, <4>1 DEF CacheRecord
    <3> HIDE DEF k, s, e
    <3>6. Listed(k)
      BY <3>2, <3>3 DEF SlabInv, CacheSound
    <3>7. SlabsOf(k) \subseteq SlabsOf(cache[c]) \cup {b}
      BY <3>4, <3>5 DEF SlabsOf
    <3>8. b \in bitmap' \ bitmap /\ bitmap \subseteq bitmap'
      BY <2>1
    <3> QED
      BY <1>2, <2>1, <2>3, <3>6, <3>7, <3>8
  <2> QED
    BY <1>5, <2>2, <2>3 DEF AllocFromNew, StopSlab
<1> QED
  BY <1>3, <1>4, <1>5 DEF kmem_cache_alloc

\* kmem_cache_free.
LEMMA CacheFreeEffect ==
    ASSUME VInv, NEW c \in Caches, NEW b, NEW i, kmem_cache_free(c, b, i)
    PROVE  SlabEffect
<1>0. /\ IInv /\ Listed(cache[c]) /\ fault = "none" /\ bitmap' = bitmap
      /\ b \in SlabsOf(cache[c]) /\ UNCHANGED <<mem, cr3, directories, job, user_frames, overlay>>
  BY DEF VInv, IInv, SlabInv, CacheSound, kmem_cache_free, SlabsOf, pmmVars, vmmVars, StopSlab
<1>1. b \in Blocks
  BY <1>0, ListedFacts
<1>2. CASE cache' = cache
  <2>1. Kept' = Kept /\ SlabPages' = SlabPages
    BY <1>0, <1>2 DEF Kept, SlabPages
  <2> QED
    BY <1>0, <2>1 DEF SlabEffect
<1>3. ASSUME NEW s, cache' = [cache EXCEPT ![c] = [Place(cache[c], b, s.inuse, s.objects) EXCEPT !.num_active = @ - 1]]
      PROVE  SlabEffect
  <2> DEFINE k2 == [Place(cache[c], b, s.inuse, s.objects) EXCEPT !.num_active = @ - 1]
  <2> DEFINE p == Place(cache[c], b, s.inuse, s.objects)
  <2>a. k2 = WithActive(p, p.num_active - 1)
    BY DEF WithActive
  <2>b. \A n : SlabsOf(WithActive(p, n)) \subseteq SlabsOf(cache[c]) \cup {b}
    BY <1>0, <1>1, PlaceWithin
  <2>1. SlabsOf(k2) \subseteq SlabsOf(cache[c]) \cup {b}
    BY <2>a, <2>b
  <2>2. cache' = [cache EXCEPT ![c] = k2]
    BY <1>3
  <2> HIDE DEF k2
  <2>3. SlabsOf(k2) \subseteq SlabsOf(cache[c]) \cup {} /\ {} \cap Kept = {} /\ bitmap \ bitmap' \subseteq SlabPages
    BY <1>0, <2>1
  <2>4. Kept \subseteq Kept' /\ SlabPages' \subseteq SlabPages \cup {}
    BY <1>0, <2>2, <2>3, OneCache
  <2> QED
    BY <1>0, <2>4 DEF SlabEffect
<1> QED
  BY <1>2, <1>3 DEF kmem_cache_free, StopSlab, slabVars

\* kmem_cache_destroy, kmem_cache_create and kmem_cache_shrink.
LEMMA CacheChangeEffect ==
    ASSUME VInv, NEW c \in Caches,
           \/ kmem_cache_destroy(c) \/ kmem_cache_shrink(c)
           \/ \E size \in Sizes : kmem_cache_create(c, size)
    PROVE  SlabEffect
<1>0. /\ IInv /\ PmmInv /\ CacheSound(cache[c], slab, lent, bitmap) /\ SlabsOf(cache[c]) \subseteq bitmap
      /\ SlabsOf(cache[c]) \subseteq SlabPages /\ SlabsOf(cache[c]) \subseteq Frames /\ IsFiniteSet(lent)
  BY DEF VInv, IInv, SlabInv, CacheSound, SlabPages, SlabTypes
<1>1. UNCHANGED <<mem, cr3, directories, job, user_frames, overlay>>
  BY DEF kmem_cache_destroy, kmem_cache_shrink, kmem_cache_create, vmmVars
<1>2. ASSUME NEW k, SlabsOf(k) \subseteq SlabsOf(cache[c]), cache' = [cache EXCEPT ![c] = k],
             bitmap \ bitmap' \subseteq SlabsOf(cache[c])
      PROVE  SlabEffect
  <2>1. SlabsOf(k) \subseteq SlabsOf(cache[c]) \cup {} /\ {} \cap Kept = {} /\ bitmap \ bitmap' \subseteq SlabPages
    BY <1>0, <1>2
  <2>2. Kept \subseteq Kept' /\ SlabPages' \subseteq SlabPages \cup {}
    BY <1>0, <1>2, <2>1, OneCache
  <2> QED
    BY <1>1, <2>2 DEF SlabEffect
<1>3. ASSUME NEW B, B \subseteq SlabsOf(cache[c]), DestroySlabs(B)
      PROVE  bitmap \ bitmap' \subseteq SlabsOf(cache[c])
  <2>1. B \subseteq bitmap /\ B \cap (0..Reserved - 1) = {} /\ Pmm!GiveBack(B)
    BY <1>0, <1>3 DEF Frames, DestroySlabs
  <2>2. bitmap' = bitmap \ B
    BY <1>0, <2>1, GivenBack
  <2> QED
    BY <1>3, <2>2
<1>4. CASE kmem_cache_destroy(c)
  <2>1. SlabsOf(NoCache) = {}
    BY NewCacheFacts, BareCache
  <2> QED
    BY <2>1, <1>2, <1>3, <1>4 DEF kmem_cache_destroy
<1>5. ASSUME NEW size \in Sizes, kmem_cache_create(c, size) PROVE SlabEffect
  <2>0. size \in Nat
    BY SlabAssumption
  <2>1. SlabsOf(NewCache(size)) = {}
    BY <2>0, NewCacheFacts, BareCache
  <2> QED
    BY <2>1, <1>2, <1>5 DEF kmem_cache_create, pmmVars
<1>6. CASE kmem_cache_shrink(c)
  <2> DEFINE k == cache[c]
  <2> DEFINE B == ToSet(Front(k.empty))
  <2>1. Len(k.empty) > 1 /\ DestroySlabs(B) /\ cache' = [cache EXCEPT ![c] = Shrunk(cache[c])]
    BY <1>6 DEF kmem_cache_shrink
  <2> HIDE DEF k
  <2>2. SlabsOf(Shrunk(k)) = SlabsOf(k) \ B /\ B \subseteq ToSet(k.empty)
    BY <1>0, <2>1, ShrunkFacts DEF k
  <2>3. B \subseteq SlabsOf(k)
    BY <2>2 DEF SlabsOf
  <2> HIDE DEF B
  <2> QED
    BY <1>2, <1>3, <2>1, <2>2, <2>3 DEF k
<1> QED
  BY <1>4, <1>5, <1>6


\* Every step of the slab allocator.
LEMMA SlabNextEffect ==
    ASSUME VInv, SlabNext
    PROVE  SlabEffect /\ fault = "none"
<1>1. SlabEffect
  BY CacheAllocEffect, CacheFreeEffect, CacheChangeEffect DEF SlabNext
<1> QED
  BY <1>1, ZenonT(60) DEF SlabNext, kmem_cache_alloc, kmem_cache_free, kmem_cache_destroy, kmem_cache_create, kmem_cache_shrink


\* Memory after vmm_init.
LEMMA InitMemory ==
    ASSUME Init
    PROVE  /\ SlabPages = {} /\ TableBlocks = {Table0, Table1} /\ directories \cup user_frames \subseteq Kept
           /\ directories = {kernel_directory} /\ user_frames = {} /\ cr3 = kernel_directory /\ job = Idle /\ fault = "none"
           /\ mem \in Memory
           /\ mem[kernel_directory][0] = Entry(Table0, FALSE) /\ mem[kernel_directory][1] = Entry(Table1, FALSE)
           /\ \A i \in Index : i # 0 /\ i # 1 => mem[kernel_directory][i] = Absent
           /\ \A t \in {Table0, Table1}, i \in Index : /\ mem[t][i] = Entry((t - Table0) * PageWords + i, FALSE)
                                                      /\ (t - Table0) * PageWords + i \in Blocks
           /\ \A b \in Blocks \ {kernel_directory, Table0, Table1} : mem[b] = Fill(Absent)
<1>0. IInv /\ vmm_init /\ slab_init
  BY InitKeeps DEF Init
<1>1. /\ PageWords \in Nat /\ PageWords >= 8 /\ TotalBlocks \in Nat /\ TotalBlocks >= 2 * PageWords
      /\ kernel_directory = PageWords /\ Table0 = PageWords + 1 /\ Table1 = PageWords + 2 /\ Reserved = PageWords
      /\ kernel_directory \in Blocks /\ Table0 \in Blocks /\ Table1 \in Blocks /\ 0 \in Blocks
      /\ 0 \in Index /\ 1 \in Index /\ 2 \in Index
  BY SizeFacts DEF kernel_directory
<1>2. SlabPages = {}
  <2>1. PICK size \in [Caches -> Sizes] : cache = [c \in Caches |-> NewCache(size[c])]
    BY <1>0 DEF slab_init
  <2>2. ASSUME NEW c \in Caches PROVE SlabsOf(cache[c]) = {}
    <3>1. size[c] \in Nat /\ cache[c] = NewCache(size[c])
      BY <2>1, SlabAssumption
    <3> QED
      BY <3>1, NewCacheFacts, BareCache
  <2> QED
    BY <2>2 DEF SlabPages
<1>3. /\ bitmap = 0..PageWords + 2 /\ directories = {kernel_directory} /\ user_frames = {}
      /\ cr3 = kernel_directory /\ job = Idle /\ fault = "none"
  BY <1>0, <1>1 DEF vmm_init
<1>4. TableBlocks = {Table0, Table1} /\ directories \cup user_frames \subseteq Kept
  BY <1>1, <1>2, <1>3 DEF TableBlocks, Kept
<1> DEFINE directoryRow == [i \in Index |-> IF i < 2 THEN Entry(Table0 + i, FALSE) ELSE Absent]
<1> DEFINE tableRow(b) == [i \in Index |-> Entry((b - Table0) * PageWords + i, FALSE)]
<1>15. Table0 + 0 = Table0 /\ Table0 + 1 = Table1 /\ Table0 # Table1 /\ kernel_directory # Table0 /\ kernel_directory # Table1
  BY <1>1
<1>5. mem = [b \in Blocks |-> CASE b = kernel_directory -> directoryRow
                               [] b \in {Table0, Table1} -> tableRow(b)
                               [] OTHER -> Fill(Absent)]
  <2>1. \A b \in Blocks : b - kernel_directory - 1 = b - Table0
    BY <1>1 DEF Blocks
  <2> QED
    BY <1>0, <2>1 DEF vmm_init, IdentityEntry, Index, Table0, Table1
<1> HIDE DEF directoryRow, tableRow
<1>6. /\ mem = [b \in Blocks |-> mem[b]] /\ mem[kernel_directory] = directoryRow
      /\ \A t \in {Table0, Table1} : mem[t] = tableRow(t)
      /\ \A b \in Blocks \ {kernel_directory, Table0, Table1} : mem[b] = Fill(Absent)
  BY <1>1, <1>5, <1>15
<1>7. \A i \in Index : mem[kernel_directory][i] = IF i < 2 THEN Entry(Table0 + i, FALSE) ELSE Absent
  BY <1>6 DEF directoryRow
<1>8. \A t \in {Table0, Table1}, i \in Index : mem[t][i] = Entry((t - Table0) * PageWords + i, FALSE)
  BY <1>6 DEF tableRow
<1>9. \A b \in Blocks \ {kernel_directory, Table0, Table1} : mem[b] = Fill(Absent)
  BY <1>6
<1>10. \A i \in Index : i \in Nat /\ i < PageWords
  BY <1>1 DEF Index
<1>11. \A t \in {Table0, Table1}, i \in Index : (t - Table0) * PageWords + i \in Blocks
  <2>1. ASSUME NEW i \in Index PROVE (Table0 - Table0) * PageWords + i \in Blocks /\ (Table1 - Table0) * PageWords + i \in Blocks
    <3>1. Table0 - Table0 = 0 /\ Table1 - Table0 = 1
      BY <1>1
    <3>2. 0 * PageWords + i = i /\ 1 * PageWords + i = PageWords + i
      BY <1>1, <1>10
    <3> QED
      BY <3>1, <3>2, <1>1, <1>10 DEF Blocks
  <2> QED
    BY <2>1
<1>12. \A f \in Blocks : Entry(f, FALSE) \in Word /\ IsEntry(Entry(f, FALSE)) /\ Entry(f, FALSE).frame = f /\ Entry(f, FALSE).user = FALSE
  BY <1>1 DEF Entry, Word, IsEntry, Blocks
<1>13. Absent \in Word /\ ~IsEntry(Absent) /\ Absent.frame \notin Blocks /\ Fill(Absent) \in [Index -> Word] /\ Bare(Fill(Absent))
  BY WordsWritten
<1>14. \A i \in Index : i < 2 => i = 0 \/ i = 1
  BY <1>10
<1>16. /\ mem[kernel_directory][0] = Entry(Table0, FALSE) /\ mem[kernel_directory][1] = Entry(Table1, FALSE)
       /\ \A i \in Index : i # 0 /\ i # 1 => mem[kernel_directory][i] = Absent
  <2>1. 0 < 2 /\ 1 < 2
    OBVIOUS
  <2>2. mem[kernel_directory][0] = Entry(Table0 + 0, FALSE) /\ mem[kernel_directory][1] = Entry(Table0 + 1, FALSE)
    BY <1>1, <1>7, <2>1
  <2> QED
    BY <1>7, <1>14, <1>15, <2>2
<1>17. mem \in Memory
  <2>1. ASSUME NEW b \in Blocks PROVE mem[b] \in [Index -> Word]
    <3>1. CASE b = kernel_directory
      <4>1. mem[b] = [i \in Index |-> mem[b][i]]
        BY <1>6, <3>1 DEF directoryRow
      <4>2. \A i \in Index : mem[b][i] \in Word
        BY <3>1, <1>1, <1>12, <1>13, <1>16, ZenonT(60)
      <4> QED
        BY <4>1, <4>2
    <3>2. CASE b \in {Table0, Table1}
      <4>1. mem[b] = [i \in Index |-> mem[b][i]]
        BY <1>6, <3>2 DEF tableRow
      <4>2. \A i \in Index : mem[b][i] \in Word
        BY <3>2, <1>8, <1>11, <1>12
      <4> QED
        BY <4>1, <4>2
    <3>3. CASE b \notin {kernel_directory, Table0, Table1}
      BY <3>3, <1>9, <1>13
    <3> QED
      BY <3>1, <3>2, <3>3
  <2> QED
    BY <1>6, <2>1 DEF Memory
<1> QED
  BY <1>2, <1>3, <1>4, <1>8, <1>9, <1>11, <1>16, <1>17

\* vmm_init.
LEMMA InitMaps == Init => MapsInv
<1> SUFFICES ASSUME Init PROVE MapsInv
  OBVIOUS
<1>1. /\ PageWords \in Nat /\ PageWords >= 8 /\ TotalBlocks \in Nat /\ TotalBlocks >= 2 * PageWords
      /\ kernel_directory = PageWords /\ Table0 = PageWords + 1 /\ Table1 = PageWords + 2 /\ Reserved = PageWords
      /\ kernel_directory \in Blocks /\ Table0 \in Blocks /\ Table1 \in Blocks /\ 0 \in Blocks
      /\ 0 \in Index /\ 1 \in Index /\ 2 \in Index
  BY SizeFacts DEF kernel_directory
<1>3. directories = {kernel_directory} /\ user_frames = {} /\ cr3 = kernel_directory /\ job = Idle
  BY InitMemory
<1>4. TableBlocks = {Table0, Table1} /\ directories \cup user_frames \subseteq Kept
  BY InitMemory
<1>8. \A t \in {Table0, Table1}, i \in Index : mem[t][i] = Entry((t - Table0) * PageWords + i, FALSE)
  BY InitMemory
<1>9. \A b \in Blocks \ {kernel_directory, Table0, Table1} : mem[b] = Fill(Absent)
  BY InitMemory
<1>11. \A t \in {Table0, Table1}, i \in Index : (t - Table0) * PageWords + i \in Blocks
  BY InitMemory
<1>12. \A f \in Blocks : Entry(f, FALSE) \in Word /\ IsEntry(Entry(f, FALSE)) /\ Entry(f, FALSE).frame = f /\ Entry(f, FALSE).user = FALSE
  BY <1>1 DEF Entry, Word, IsEntry, Blocks
<1>13. Absent \in Word /\ ~IsEntry(Absent) /\ Absent.frame \notin Blocks /\ Fill(Absent) \in [Index -> Word] /\ Bare(Fill(Absent))
  BY WordsWritten
<1>15. Table0 # Table1 /\ kernel_directory # Table0 /\ kernel_directory # Table1
  BY <1>1
<1>16. /\ mem[kernel_directory][0] = Entry(Table0, FALSE) /\ mem[kernel_directory][1] = Entry(Table1, FALSE)
       /\ \A i \in Index : i # 0 /\ i # 1 => mem[kernel_directory][i] = Absent
  BY InitMemory
<1>17. mem \in Memory
  BY InitMemory
<1>18. TableWords(mem, TableBlocks, user_frames) /\ MappedOnce(mem, TableBlocks)
  <2>1. \A t \in TableBlocks, i \in Index : ~mem[t][i].user /\ mem[t][i].frame = (t - Table0) * PageWords + i
    BY <1>4, <1>8, <1>11, <1>12, ZenonT(60)
  <2> QED
    BY <2>1, <1>4 DEF TableWords, MappedOnce
<1>19. IsDirectory(mem[kernel_directory], TableBlocks) /\ Real(mem[kernel_directory])
  <2> DEFINE row == mem[kernel_directory]
  <2>1. row[0].frame = Table0 /\ row[1].frame = Table1
    BY <1>1, <1>12, <1>16
  <2>2. \A i \in Index : i # 0 /\ i # 1 => ~IsEntry(row[i]) /\ row[i].frame \notin Blocks
    BY <1>13, <1>16
  <2> HIDE DEF row
  <2>3. \A i \in Index : IsEntry(row[i]) => i = 0 \/ i = 1
    BY <2>2
  <2>4. IsDirectory(row, TableBlocks)
    BY <1>1, <1>4, <1>15, <2>1, <2>2, <2>3 DEF IsDirectory
  <2> QED
    BY <2>1, <2>4 DEF Real, row
<1>20. RealMaps(mem, directories)
  <2>1. mem[kernel_directory][1].frame = Table1
    BY <1>1, <1>12, <1>16
  <2>2. ASSUME NEW i \in Index, IsEntry(mem[kernel_directory][i])
        PROVE  ZeroOnly(mem[mem[kernel_directory][i].frame], mem[kernel_directory][i].frame)
    <3> DEFINE t == mem[kernel_directory][i].frame
    <3>1. t \in {Table0, Table1}
      BY <2>2, <1>4, <1>19 DEF IsDirectory
    <3> HIDE DEF t
    <3>2. \A j \in Index : ~mem[t][j].user
      BY <3>1, <1>8, <1>11, <1>12
    <3>3. Entry(0, TRUE).user
      BY DEF Entry
    <3> QED
      BY <3>2, <3>3 DEF ZeroOnly, t
  <2> QED
    BY <2>1, <2>2, <1>3 DEF RealMaps
<1>21. Believed(mem, TableBlocks, directories)
  <2>1. mem[Table1][0].frame = kernel_directory
    <3>1. (Table1 - Table0) * PageWords + 0 = kernel_directory
      BY <1>1
    <3>2. mem[Table1][0] = Entry((Table1 - Table0) * PageWords + 0, FALSE)
      BY <1>1, <1>8, Zenon
    <3>3. mem[Table1][0] = Entry(kernel_directory, FALSE)
      BY <3>1, <3>2, Zenon
    <3> QED
      BY <3>3, <1>1, <1>12, Zenon
  <2>2. Bare(mem[0])
    BY <1>1, <1>9, <1>13
  <2> QED
    BY <2>1, <2>2, <1>19 DEF Believed
<1>22. Roles(TableBlocks, directories, user_frames)
  BY <1>1, <1>3, <1>4, <1>15 DEF Roles, Frames
<1>23. Unmapped(mem, TableBlocks, user_frames, {})
  BY DEF Unmapped
<1>24. \A b \in Blocks \ (TableBlocks \cup directories \cup user_frames \cup {0}) : Bare(mem[b])
  BY <1>3, <1>4, <1>9, <1>13
<1>25. MapInv(mem, TableBlocks, directories, user_frames, {}, cr3)
  BY <1>3, <1>17, <1>18, <1>19, <1>20, <1>21, <1>22, <1>23, <1>24 DEF MapInv
<1>26. JobSound(job, user_frames) /\ Pending(job) = {} /\ Covered(job, mem, fault)
  BY <1>3, IdleSound
<1> QED
  BY <1>4, <1>25, <1>26 DEF MapsInv

\* Every step.
LEMMA NextMaps == VInv /\ [Next]_vars => VInv'
<1> SUFFICES ASSUME VInv, [Next]_vars PROVE VInv'
  OBVIOUS
<1>0. IInv'
  BY NextKeeps DEF VInv
<1>1. ASSUME UNCHANGED vars PROVE MapsInv'
  <2>1. UNCHANGED pmmVars /\ UNCHANGED slabVars /\ UNCHANGED <<mem, cr3, directories, job, fault, user_frames>>
    BY <1>1 DEF vars, pmmVars, slabVars
  <2>2. /\ directories' \cup user_frames' \subseteq Kept'
        /\ MapInv(mem, TableBlocks', directories', user_frames', Pending(job), cr3)
    <3>1. MapInv(mem, TableBlocks, directories, user_frames, Pending(job), cr3)
      BY DEF VInv, MapsInv
    <3> QED
      BY <2>1, <3>1, BlocksUnmoved
  <2>3. JobSound(job, user_frames) /\ Covered(job, mem, fault)
    BY DEF VInv, MapsInv
  <2> QED
    BY <2>1, <2>2, <2>3 DEF MapsInv
<1>2. ASSUME VmmNext, UNCHANGED slabVars PROVE MapsInv'
  BY <1>2, BeginMaps, AllocMaps, MapMaps, FinishMaps, UnmapMaps, CloneMaps, SwitchMaps DEF VmmNext
<1>3. ASSUME SlabNext PROVE MapsInv'
  BY <1>0, <1>3, SlabNextEffect, SlabMaps
<1> QED
  BY <1>0, <1>1, <1>2, <1>3 DEF VInv, Next, Halted

\* Whatever is mapped over the kernel's own addresses, the invariant of the page
\* maps holds: directories name tables, tables map user pages or the identity,
\* and a clone shares its tables with the directory it was taken from.
THEOREM MapInvariant == Spec => []VInv
BY InitKeeps, InitMaps, NextMaps, PTL DEF Spec, VInv

-----------------------------------------------------------------------------
(***************************************************************************)
(* The kernel's own words.  While the machine runs, tables and directories *)
(* hold no word but what the kernel wrote; when it stops, this is so of    *)
(* the tables that a directory names.                                      *)
(***************************************************************************)
Shaped(m) == DOMAIN m = Blocks /\ \A b \in Blocks : DOMAIN m[b] = Index
Written(m, B) == \A b \in B, i \in Index : m[b][i] # Junk

WrittenThrough(m, D) ==
    \A d \in D, i \in Index :
        /\ m[d][i] # Junk
        /\ IsEntry(m[d][i]) => \A j \in Index : m[m[d][i].frame][j] # Junk

DirectoriesWritten == WrittenThrough(mem, directories)

WInv ==
    /\ fault = "none" => Written(mem, TableBlocks \cup directories)
    /\ fault \notin {"wild", "overrun"} => DirectoriesWritten

\* The words the kernel stores are not Junk.
LEMMA KernelWords ==
    /\ Absent # Junk /\ \A w \in Word : IsEntry(w) => w # Junk
    /\ \A f \in Blocks, u \in BOOLEAN : Entry(f, u) # Junk
    /\ \A w \in Word : IsEntry(w) => [w EXCEPT !.user = @ \/ TRUE] # Junk
<1>1. ~IsEntry(Junk)
  BY DEF Junk, IsEntry
<1>2. \A f \in Blocks, u \in BOOLEAN : IsEntry(Entry(f, u))
  BY SizeFacts DEF Entry, IsEntry
<1>3. \A w \in Word : IsEntry(w) => IsEntry([w EXCEPT !.user = @ \/ TRUE])
  BY DEF Word, IsEntry
<1>4. Absent # Junk
  BY DEF Absent, Junk
<1> QED
  BY <1>1, <1>2, <1>3, <1>4

\* A store of such a word, wherever it goes.
LEMMA StoreWritten ==
    ASSUME NEW m, Shaped(m), NEW B, B \subseteq Blocks, Written(m, B), NEW page, NEW i, NEW w, w # Junk
    PROVE  Shaped(Store(m, page, i, w)) /\ Written(Store(m, page, i, w), B)
<1> DEFINE x == At(m, page)
<1> DEFINE m2 == [m EXCEPT ![x][i] = w]
<1> HIDE DEF x
<1>1. DOMAIN m2 = Blocks /\ \A b \in Blocks : m2[b] = IF b = x THEN [m[x] EXCEPT ![i] = w] ELSE m[b]
  BY DEF Shaped
<1>2. \A b \in Blocks : DOMAIN m[b] = Index
  BY DEF Shaped
<1>3. \A b \in Blocks : DOMAIN m2[b] = Index
  BY <1>1, <1>2
<1>4. \A b \in Blocks, j \in Index : m2[b][j] = m[b][j] \/ m2[b][j] = w
  BY <1>1, <1>2
<1>5. Written(m2, B)
  BY <1>4 DEF Written
<1> HIDE DEF m2
<1>6. Shaped(m2)
  BY <1>1, <1>3 DEF Shaped
<1> QED
  BY <1>5, <1>6 DEF Store, m2, x

\* A whole block is written.
LEMMA BlockWritten ==
    ASSUME NEW m, Shaped(m), NEW B, B \subseteq Blocks, Written(m, B), NEW b \in Blocks,
           NEW row, DOMAIN row = Index, \A i \in Index : row[i] # Junk
    PROVE  LET m2 == [m EXCEPT ![b] = row]
           IN  Shaped(m2) /\ Written(m2, B \cup {b})
BY DEF Shaped, Written

\* SetEntry, from a memory that is written.
LEMMA SetEntryWritten ==
    ASSUME NEW m, Shaped(m), NEW B, B \subseteq Blocks, Written(m, B),
           NEW t, NEW page, NEW w, w # Junk, SetEntry(m, t, page, w)
    PROVE  Written(mem', B)
<1>1. Written(Store(m, t, pt_index(page), w), B)
  BY StoreWritten
<1> QED
  BY <1>1 DEF SetEntry

\* The state's memory has that shape.
LEMMA MemoryShaped ==
    ASSUME VInv
    PROVE  /\ Shaped(mem) /\ mem \in Memory /\ TableBlocks \cup directories \subseteq Blocks
           /\ (TableBlocks \cup directories) \cap (user_frames \cup {0}) = {}
<1>1. MapInv(mem, TableBlocks, directories, user_frames, Pending(job), cr3)
  BY DEF VInv, MapsInv
<1>2. mem \in Memory
  BY <1>1 DEF MapInv
<1>3. Shaped(mem)
  BY <1>2 DEF Memory, Shaped
<1> QED
  BY <1>1, <1>2, <1>3, MapParts

\* The directory entry the kernel finds is a word.
LEMMA DirectoryWordFacts ==
    ASSUME VInv, Mapped(mem, kernel_directory), NEW page \in VPages
    PROVE  DirectoryWord(mem, pd_index(page)) \in Word
<1>1. MapInv(mem, TableBlocks, directories, user_frames, Pending(job), cr3)
  BY DEF VInv, MapsInv
<1>2. Real(mem[cr3]) /\ IsEntry(mem[Table1][0]) /\ At(mem, kernel_directory) = mem[Table1][0].frame
  BY <1>1, DirectoryAt
<1>3. mem[Table1][0].frame \in Blocks /\ pd_index(page) \in Index
  BY <1>1, <1>2, BelievedFacts, PageSplit
<1> QED
  BY <1>1, <1>2, <1>3, MapParts DEF DirectoryWord

\* What a step leaves: the tables and directories written, or all as it was
\* in a machine that has stopped.
Left == \/ Written(mem', TableBlocks' \cup directories')
        \/ fault' # "none" /\ UNCHANGED <<mem, directories>>

\* Nothing new is a table or a directory.
LEMMA NoNewRoles ==
    ASSUME Written(mem, TableBlocks \cup directories), mem' = mem, directories' = directories,
           Kept' \subseteq Kept \cup user_frames', user_frames \subseteq user_frames'
    PROVE  Left
<1>1. TableBlocks' \subseteq TableBlocks
  BY DEF TableBlocks
<1> HIDE DEF TableBlocks
<1> QED
  BY <1>1 DEF Left, Written

\* vmm_map_page, for the call in progress.
LEMMA MapLeaves ==
    ASSUME VInv, Written(mem, TableBlocks \cup directories), MapPage, UNCHANGED slabVars
    PROVE  Left
<1> DEFINE f == job.got[job.i + 1]
<1> DEFINE page == job.first + job.i
<1> DEFINE B == TableBlocks \cup directories
<1> DEFINE pde == DirectoryWord(mem, pd_index(page))
<1> DEFINE e == Entry(f, TRUE)
<1>1. vmm_map_page(f, page, TRUE) /\ job.i < Len(job.got) /\ UNCHANGED <<directories, user_frames>>
  BY DEF MapPage
<1>2. f \in Blocks /\ page \in VPages
  <2>1. JobSound(job, user_frames) /\ MapInv(mem, TableBlocks, directories, user_frames, Pending(job), cr3)
    BY DEF VInv, MapsInv
  <2>2. 0 \notin user_frames
    BY <2>1, MapParts
  <2> QED
    BY <1>1, <2>1, <2>2, MapSound
<1>3. e # Junk /\ Shaped(mem) /\ B \subseteq Blocks
  <2>1. TRUE \in BOOLEAN
    OBVIOUS
  <2> QED
    BY <1>2, <2>1, KernelWords, MemoryShaped
<1>4. ASSUME UNCHANGED pmmVars PROVE TableBlocks' = TableBlocks
  BY <1>1, <1>4, PagesUnmoved DEF TableBlocks, Kept, pmmVars
<1> HIDE DEF f, page, e
<1>5. ASSUME MapThroughTable(pde, f, page, TRUE), Mapped(mem, kernel_directory), IsEntry(pde) PROVE Left
  <2>1. [pde EXCEPT !.user = @ \/ TRUE] # Junk
    BY <1>2, <1>5, DirectoryWordFacts, KernelWords
  <2> DEFINE m == Store(mem, kernel_directory, pd_index(page), [pde EXCEPT !.user = @ \/ TRUE])
  <2>2. Shaped(m) /\ Written(m, B)
    <3> HIDE DEF pde
    <3> QED
      BY <1>3, <2>1, StoreWritten
  <2>3. SetEntry(m, pde.frame, page, e) /\ UNCHANGED pmmVars
    BY <1>5 DEF MapThroughTable, e
  <2> HIDE DEF m, pde
  <2>4. Written(mem', B)
    BY <1>3, <2>2, <2>3, SetEntryWritten
  <2> QED
    BY <1>1, <1>4, <2>3, <2>4 DEF Left
<1>6. ASSUME MapNewTable(f, page, TRUE) PROVE Left
  <2> DEFINE b == Pmm!bitmap_find_free
  <2>1. CASE b = Pmm!NotFound /\ UNCHANGED <<mem, fault, overlay>> /\ UNCHANGED pmmVars
    BY <1>1, <1>4, <2>1 DEF Left
  <2>2. CASE b # Pmm!NotFound /\ Pmm!TakeBlocks({b}) /\ SetEntry(NewTable(mem, b, page, TRUE), b, page, e)
    <3>1. /\ b \in Frames \ (TableBlocks \cup directories \cup user_frames)
          /\ b \in Blocks /\ b \notin SlabPages /\ bitmap' = bitmap \cup {b}
      BY <2>2, FreshFrame
    <3> HIDE DEF b
    <3>2. TableBlocks' = TableBlocks \cup {b}
      <4>1. Kept' = Kept \cup {b}
        BY <3>1, PagesUnmoved DEF Kept
      <4> QED
        BY <1>1, <3>1, <4>1 DEF TableBlocks, Frames
    <3> DEFINE m1 == [mem EXCEPT ![b] = Fill(Absent)]
    <3>3. Shaped(m1) /\ Written(m1, B \cup {b})
      <4>1. DOMAIN Fill(Absent) = Index /\ \A i \in Index : Fill(Absent)[i] # Junk
        BY KernelWords DEF Fill, Index
      <4> QED
        BY <1>3, <3>1, <4>1, BlockWritten
    <3>4. Entry(b, TRUE) # Junk /\ B \cup {b} \subseteq Blocks
      <4>1. TRUE \in BOOLEAN
        OBVIOUS
      <4> QED
        BY <1>3, <3>1, <4>1, KernelWords
    <3> HIDE DEF m1
    <3> DEFINE m2 == Store(m1, kernel_directory, pd_index(page), Entry(b, TRUE))
    <3>5. Shaped(m2) /\ Written(m2, B \cup {b})
      <4> HIDE DEF B
      <4> QED
        BY <3>3, <3>4, StoreWritten
    <3>6. NewTable(mem, b, page, TRUE) = m2
      BY DEF NewTable, m1
    <3> HIDE DEF m2
    <3>7. SetEntry(m2, b, page, e)
      BY <2>2, <3>6
    <3>8. Written(mem', B \cup {b})
      <4> HIDE DEF B
      <4> QED
        BY <1>3, <3>4, <3>5, <3>7, SetEntryWritten
    <3> QED
      BY <1>1, <3>2, <3>8 DEF Left, Written
  <2>3. CASE Stop("halted") \/ Stop("wild")
    BY <1>1, <2>3 DEF Left, Stop
  <2> QED
    BY <1>6, <2>1, <2>2, <2>3 DEF MapNewTable, e
<1>7. CASE Stop("halted") \/ Stop("wild")
  BY <1>1, <1>7 DEF Left, Stop
<1> QED
  BY <1>1, <1>5, <1>6, <1>7 DEF vmm_map_page

\* vmm_unmap_page.
LEMMA UnmapLeaves ==
    ASSUME VInv, Written(mem, TableBlocks \cup directories), UnmapPage(UserStackTop - 1), UNCHANGED slabVars
    PROVE  Left
<1> DEFINE page == UserStackTop - 1
<1>1. /\ vmm_unmap_page(page) /\ UNCHANGED <<directories, user_frames>> /\ UNCHANGED pmmVars
  BY DEF UnmapPage
<1> HIDE DEF page
<1>2. TableBlocks' = TableBlocks
  BY <1>1, PagesUnmoved DEF TableBlocks, Kept, pmmVars
<1>3. ASSUME NEW t, SetEntry(mem, t, page, Absent) PROVE Left
  <2>1. Written(mem', TableBlocks \cup directories)
    BY <1>3, MemoryShaped, KernelWords, SetEntryWritten
  <2> QED
    BY <1>1, <1>2, <2>1 DEF Left
<1>4. CASE mem' = mem
  BY <1>1, <1>2, <1>4 DEF Left
<1> QED
  BY <1>1, <1>3, <1>4 DEF vmm_unmap_page, Stop

\* vmm_clone_directory copies no word of a program's.
LEMMA CloneLeaves ==
    ASSUME VInv, Written(mem, TableBlocks \cup directories), vmm_clone_directory, UNCHANGED slabVars
    PROVE  Left
<1> DEFINE b == Pmm!bitmap_find_free
<1> DEFINE B == TableBlocks \cup directories
<1>1. /\ b # Pmm!NotFound /\ Pmm!TakeBlocks({b}) /\ user_frames' = user_frames
      /\ \/ mem' = mem /\ fault' # "none" /\ directories' = directories
         \/ /\ Junk \notin {Source[i] : i \in 0..PageWords - 1}
            /\ mem' = [mem EXCEPT ![b] = CloneOf(Source)] /\ directories' = directories \cup {b}
  BY DEF vmm_clone_directory, Stop
<1>2. /\ b \in Frames \ (TableBlocks \cup directories \cup user_frames)
      /\ b \in Blocks /\ b \notin SlabPages /\ bitmap' = bitmap \cup {b}
  BY <1>1, FreshFrame
<1> HIDE DEF b
<1>3. CASE mem' = mem /\ fault' # "none" /\ directories' = directories
  BY <1>3 DEF Left
<1>4. CASE /\ Junk \notin {Source[i] : i \in 0..PageWords - 1}
           /\ mem' = [mem EXCEPT ![b] = CloneOf(Source)] /\ directories' = directories \cup {b}
  <2>1. DOMAIN CloneOf(Source) = Index /\ \A i \in Index : CloneOf(Source)[i] # Junk
    BY <1>4 DEF CloneOf, Index
  <2>2. Written(mem', B \cup {b})
    <3> DEFINE row == CloneOf(Source)
    <3>1. DOMAIN row = Index /\ \A i \in Index : row[i] # Junk
      BY <2>1
    <3>2. mem' = [mem EXCEPT ![b] = row]
      BY <1>4
    <3> HIDE DEF row
    <3> QED
      BY <1>2, <3>1, <3>2, MemoryShaped, BlockWritten
  <2>3. TableBlocks' \subseteq TableBlocks \cup {b}
    <3>1. Kept' = Kept \cup {b}
      BY <1>2, PagesUnmoved DEF Kept
    <3> QED
      BY <1>1, <1>4, <3>1 DEF TableBlocks
  <2> HIDE DEF TableBlocks
  <2> QED
    BY <1>4, <2>2, <2>3 DEF Left, Written
<1> QED
  BY <1>1, <1>3, <1>4

\* A program is copied to user pages, and to block 0.
LEMMA FinishLeaves ==
    ASSUME VInv, Written(mem, TableBlocks \cup directories), Finish, UNCHANGED slabVars
    PROVE  Left
<1>1. UNCHANGED <<directories, user_frames>> /\ UNCHANGED pmmVars
  BY DEF Finish
<1>2. TableBlocks' = TableBlocks
  BY <1>1, PagesUnmoved DEF TableBlocks, Kept, pmmVars
<1>3. CASE mem' = mem
  BY <1>1, <1>2, <1>3 DEF Left
<1>4. CASE /\ CopiedBlocks \subseteq user_frames \cup {0}
           /\ mem' = [b \in Blocks |-> IF b \in CopiedBlocks THEN Fill(Junk) ELSE mem[b]]
  <2>1. \A b \in TableBlocks \cup directories : mem'[b] = mem[b]
    BY <1>4, MemoryShaped
  <2> QED
    BY <1>1, <1>2, <2>1 DEF Left, Written
<1> QED
  BY <1>3, <1>4 DEF Finish, Stop

\* No slab is forgotten while its block is held.
LEMMA SlabsNotForgotten ==
    ASSUME IInv, NEW c \in Caches, NEW k, cache' = [cache EXCEPT ![c] = k],
           (SlabsOf(cache[c]) \cup (bitmap' \ bitmap)) \cap bitmap' \subseteq SlabsOf(k)
    PROVE  Kept' \subseteq Kept
<1>1. \A d \in Caches : cache'[d] = IF d = c THEN k ELSE cache[d]
  BY DEF IInv, SlabInv, SlabTypes
<1>2. SlabPages \cap bitmap' \subseteq SlabPages'
  <2> SUFFICES ASSUME NEW d \in Caches, NEW b \in SlabsOf(cache[d]), b \in bitmap' PROVE b \in SlabPages'
    BY DEF SlabPages
  <2>1. b \in SlabsOf(cache'[d])
    BY <1>1
  <2> QED
    BY <2>1 DEF SlabPages
<1>3. SlabsOf(k) \subseteq SlabPages'
  BY <1>1 DEF SlabPages
<1> QED
  BY <1>2, <1>3 DEF Kept

\* Placing a slab keeps all of them.
LEMMA PlaceKeepsAll ==
    ASSUME NEW k, Listed(k), NEW b \in Blocks, NEW inuse, NEW objects, NEW n
    PROVE  SlabsOf(k) \cup {b} \subseteq SlabsOf(WithActive(Place(k, b, inuse, objects), n))
<1> DEFINE u == Unlink(k, b)
<1> DEFINE m == Place(k, b, inuse, objects)
<1>1. /\ u \in CacheRecord
      /\ ToSet(u.full) = ToSet(k.full) \ {b} /\ ToSet(u.partial) = ToSet(k.partial) \ {b}
      /\ ToSet(u.empty) = ToSet(k.empty) \ {b}
  BY UnlinkFacts
<1>2. u.full \in Seq(Blocks) /\ u.partial \in Seq(Blocks) /\ u.empty \in Seq(Blocks)
  BY <1>1 DEF CacheRecord
<1>3. \A q \in {u.full, u.partial, u.empty} : ToSet(<<b>> \o q) = {b} \cup ToSet(q)
  BY <1>2, ConsFacts
<1>4. m \in {[u EXCEPT !.full = <<b>> \o u.full], [u EXCEPT !.empty = <<b>> \o u.empty],
             [u EXCEPT !.partial = <<b>> \o u.partial]}
  BY DEF Place
<1> HIDE DEF u, m
<1>5. /\ \/ m.full = <<b>> \o u.full /\ m.empty = u.empty /\ m.partial = u.partial
         \/ m.full = u.full /\ m.empty = <<b>> \o u.empty /\ m.partial = u.partial
         \/ m.full = u.full /\ m.empty = u.empty /\ m.partial = <<b>> \o u.partial
      /\ WithActive(m, n).full = m.full /\ WithActive(m, n).partial = m.partial
      /\ WithActive(m, n).empty = m.empty
  BY <1>1, <1>4 DEF CacheRecord, WithActive
<1>6. ToSet(m.full) \cup ToSet(m.partial) \cup ToSet(m.empty) =
         ToSet(u.full) \cup ToSet(u.partial) \cup ToSet(u.empty) \cup {b}
  BY <1>3, <1>5
<1> QED
  BY <1>1, <1>5, <1>6 DEF SlabsOf, m

\* The slab allocator, while it runs, leaves no block it holds without a list.
LEMMA SlabsKept ==
    ASSUME VInv, SlabNext, fault' = "none"
    PROVE  Kept' \subseteq Kept
<1>0. IInv /\ PmmInv /\ SlabInv(cache, slab, lent, bitmap)
  BY DEF VInv, IInv
<1>1. ASSUME UNCHANGED slabVars, bitmap' = bitmap PROVE Kept' \subseteq Kept
  BY <1>1, PagesUnmoved DEF Kept
<1>2. ASSUME NEW c \in Caches, NEW k, NEW b \in Blocks, NEW inuse, NEW objects, NEW n, Listed(k),
             SlabsOf(cache[c]) \subseteq SlabsOf(k), bitmap' \subseteq bitmap \cup {b},
             cache' = [cache EXCEPT ![c] = WithActive(Place(k, b, inuse, objects), n)]
      PROVE  Kept' \subseteq Kept
  <2> DEFINE k2 == WithActive(Place(k, b, inuse, objects), n)
  <2>1. SlabsOf(k) \cup {b} \subseteq SlabsOf(k2)
    BY <1>2, PlaceKeepsAll
  <2>2. cache' = [cache EXCEPT ![c] = k2]
    BY <1>2
  <2> HIDE DEF k2
  <2> QED
    BY <1>0, <1>2, <2>1, <2>2, SlabsNotForgotten
<1>3. ASSUME NEW c \in Caches, kmem_cache_alloc(c) PROVE Kept' \subseteq Kept
  <2>1. CASE AllocFails(c)
    BY <1>1, <2>1 DEF AllocFails, pmmVars
  <2>2. CASE AllocExisting(c)
    <3> DEFINE b == Candidate(cache[c])
    <3> DEFINE s == slab[b]
    <3>0. bitmap' = bitmap
      BY <2>2 DEF AllocExisting, pmmVars
    <3>1. Listed(cache[c]) /\ b \in Blocks
      BY <1>0, <2>2, CandidateListed DEF AllocExisting, SlabInv, CacheSound
    <3>2. CASE UNCHANGED slabVars
      BY <1>1, <3>0, <3>2
    <3>3. CASE AllocFrom(c, cache[c], s, b)
      <4> DEFINE p == Place(cache[c], b, Pop(s).inuse, s.objects)
      <4>1. cache' = [cache EXCEPT ![c] = WithActive(p, p.num_active + 1)]
        BY <3>3 DEF AllocFrom, WithActive
      <4> HIDE DEF b, s
      <4> QED
        BY <1>2, <3>0, <3>1, <4>1
    <3> QED
      BY <2>2, <3>2, <3>3 DEF AllocExisting, StopSlab
  <2>3. CASE AllocFromNew(c)
    <3> DEFINE b == Pmm!bitmap_find_free
    <3> DEFINE n == calculate_objects_per_slab(cache[c])
    <3> DEFINE s == [objects |-> n, inuse |-> 0, freelist |-> [i \in 1..n |-> i]]
    <3> DEFINE k == [cache[c] EXCEPT !.empty = <<b>> \o @, !.num_slabs = @ + 1]
    <3>1. b # Pmm!NotFound /\ Pmm!TakeBlocks({b}) /\ n > 0 /\ AllocFrom(c, k, s, b)
      BY <2>3 DEF AllocFromNew, StopSlab
    <3>2. b \in Frames /\ b \in Blocks /\ b \notin bitmap /\ bitmap' = bitmap \cup {b}
      BY <3>1, FreshFrame
    <3>3. n \in Nat /\ cache[c] \in CacheRecord /\ cache[c].empty \in Seq(Blocks) /\ cache[c].live
      <4>1. cache[c] \in CacheRecord /\ cache[c].live
        BY <1>0, <1>3 DEF SlabInv, CacheSound, Listed, kmem_cache_alloc
      <4> QED
        BY <4>1, ObjectsFit DEF CacheRecord
    <3> HIDE DEF b
    <3>4. SlabInv([cache EXCEPT ![c] = k], [slab EXCEPT ![b] = s], lent, bitmap \cup {b})
      BY <1>0, <3>1, <3>2, <3>3, GrowKeeps
    <3>5. [cache EXCEPT ![c] = k][c] = k
      BY <1>0 DEF SlabInv, SlabTypes
    <3> DEFINE e == <<b>> \o cache[c].empty
    <3> DEFINE ns == cache[c].num_slabs + 1
    <3>6. ToSet(e) = {b} \cup ToSet(cache[c].empty)
      BY <3>2, <3>3, ConsFacts
    <3>7. k.full = cache[c].full /\ k.partial = cache[c].partial /\ k.empty = e
      <4>1. k = [cache[c] EXCEPT !.empty = e, !.num_slabs = ns]
        OBVIOUS
      <4> HIDE DEF k, e, ns
      <4> QED
        BY <3>3, <4>1 DEF CacheRecord
    <3> DEFINE p == Place(k, b, Pop(s).inuse, s.objects)
    <3>8. cache' = [cache EXCEPT ![c] = WithActive(p, p.num_active + 1)]
      BY <3>1 DEF AllocFrom, WithActive
    <3> HIDE DEF k, s, e
    <3>9. Listed(k)
      BY <3>4, <3>5 DEF SlabInv, CacheSound
    <3>10. SlabsOf(cache[c]) \subseteq SlabsOf(k)
      BY <3>6, <3>7 DEF SlabsOf
    <3> QED
      BY <1>2, <3>2, <3>8, <3>9, <3>10
  <2> QED
    BY <1>3, <2>1, <2>2, <2>3 DEF kmem_cache_alloc
<1>4. ASSUME NEW c \in Caches, NEW b, NEW i, kmem_cache_free(c, b, i) PROVE Kept' \subseteq Kept
  <2>0. /\ Listed(cache[c]) /\ bitmap' = bitmap /\ b \in SlabsOf(cache[c])
    BY <1>0, <1>4 DEF SlabInv, CacheSound, kmem_cache_free, SlabsOf, pmmVars
  <2>1. b \in Blocks
    BY <2>0, ListedFacts
  <2>2. CASE cache' = cache
    BY <2>0, <2>2 DEF Kept, SlabPages
  <2>3. ASSUME NEW s, cache' = [cache EXCEPT ![c] = [Place(cache[c], b, s.inuse, s.objects) EXCEPT !.num_active = @ - 1]]
        PROVE  Kept' \subseteq Kept
    <3> DEFINE p == Place(cache[c], b, s.inuse, s.objects)
    <3>1. cache' = [cache EXCEPT ![c] = WithActive(p, p.num_active - 1)]
      BY <2>3 DEF WithActive
    <3> QED
      BY <1>2, <2>0, <2>1, <3>1
  <2> QED
    BY <1>4, <2>2, <2>3 DEF kmem_cache_free, StopSlab, slabVars
<1>5. ASSUME NEW c \in Caches, kmem_cache_destroy(c) \/ kmem_cache_shrink(c) PROVE Kept' \subseteq Kept
  <2>0. /\ CacheSound(cache[c], slab, lent, bitmap) /\ SlabsOf(cache[c]) \subseteq bitmap
        /\ SlabsOf(cache[c]) \subseteq Frames /\ IsFiniteSet(lent)
    BY <1>0 DEF SlabInv, CacheSound, SlabTypes
  <2>1. ASSUME NEW B, B \subseteq SlabsOf(cache[c]), DestroySlabs(B) PROVE bitmap' = bitmap \ B
    <3>1. B \subseteq bitmap /\ B \cap (0..Reserved - 1) = {} /\ Pmm!GiveBack(B)
      BY <2>0, <2>1 DEF Frames, DestroySlabs
    <3> QED
      BY <1>0, <3>1, GivenBack
  <2>2. CASE kmem_cache_destroy(c)
    <3>1. bitmap' = bitmap \ SlabsOf(cache[c]) /\ cache' = [cache EXCEPT ![c] = NoCache]
      BY <2>1, <2>2 DEF kmem_cache_destroy
    <3> QED
      BY <1>0, <3>1, SlabsNotForgotten
  <2>3. CASE kmem_cache_shrink(c)
    <3> DEFINE k == cache[c]
    <3> DEFINE B == ToSet(Front(k.empty))
    <3>1. Len(k.empty) > 1 /\ DestroySlabs(B) /\ cache' = [cache EXCEPT ![c] = Shrunk(cache[c])]
      BY <2>3 DEF kmem_cache_shrink
    <3> HIDE DEF k
    <3>2. SlabsOf(Shrunk(k)) = SlabsOf(k) \ B /\ B \subseteq ToSet(k.empty)
      BY <2>0, <3>1, ShrunkFacts DEF k
    <3>3. B \subseteq SlabsOf(k)
      BY <3>2 DEF SlabsOf
    <3> HIDE DEF B
    <3>4. bitmap' = bitmap \ B
      BY <2>1, <3>1, <3>3 DEF k
    <3> QED
      BY <1>0, <3>1, <3>2, <3>4, SlabsNotForgotten DEF k
  <2> QED
    BY <1>5, <2>2, <2>3
<1>6. ASSUME NEW c \in Caches, NEW size \in Sizes, kmem_cache_create(c, size) PROVE Kept' \subseteq Kept
  <2>1. ~cache[c].live /\ bitmap' = bitmap /\ cache' = [cache EXCEPT ![c] = NewCache(size)]
    BY <1>6 DEF kmem_cache_create, pmmVars
  <2>2. SlabsOf(cache[c]) = {}
    BY <1>0, <2>1 DEF SlabInv, CacheSound
  <2> QED
    BY <1>0, <2>1, <2>2, SlabsNotForgotten
<1> QED
  BY <1>3, <1>4, <1>5, <1>6 DEF SlabNext

\* Every step of a machine that runs.
LEMMA NextLeaves ==
    ASSUME VInv, Written(mem, TableBlocks \cup directories), fault = "none", Next
    PROVE  Left
<1>1. ASSUME mem' = mem, directories' = directories, user_frames' = user_frames, UNCHANGED pmmVars, UNCHANGED slabVars
      PROVE  Left
  <2>1. Kept' = Kept
    BY <1>1, PagesUnmoved DEF Kept, pmmVars
  <2> QED
    BY <1>1, <2>1, NoNewRoles
<1>2. ASSUME VmmNext, UNCHANGED slabVars PROVE Left
  <2>1. CASE process_create_user \/ elf_load \/ elf_exec
    BY <1>1, <1>2, <2>1 DEF process_create_user, elf_load, elf_exec, Begin
  <2>2. CASE AllocPage
    <3> DEFINE b == Pmm!bitmap_find_free
    <3>1. CASE b # Pmm!NotFound /\ Pmm!TakeBlocks({b}) /\ user_frames' = user_frames \cup {b}
      <4>1. bitmap' = bitmap \cup {b}
        BY <3>1, FreshFrame
      <4>2. Kept' \subseteq Kept \cup user_frames'
        BY <1>2, <3>1, <4>1, PagesUnmoved DEF Kept
      <4> QED
        BY <2>2, <3>1, <4>2, NoNewRoles DEF AllocPage
    <3>2. CASE UNCHANGED user_frames /\ UNCHANGED pmmVars
      BY <1>1, <1>2, <2>2, <3>2 DEF AllocPage
    <3> QED
      BY <2>2, <3>1, <3>2 DEF AllocPage
  <2>3. CASE MapPage
    BY <1>2, <2>3, MapLeaves
  <2>4. CASE Finish
    BY <1>2, <2>4, FinishLeaves
  <2>5. CASE UnmapPage(UserStackTop - 1)
    BY <1>2, <2>5, UnmapLeaves
  <2>6. CASE vmm_clone_directory
    BY <1>2, <2>6, CloneLeaves
  <2>7. ASSUME NEW dir \in directories, vmm_switch_directory(dir) PROVE Left
    BY <1>1, <1>2, <2>7 DEF vmm_switch_directory
  <2> QED
    BY <1>2, <2>1, <2>2, <2>3, <2>4, <2>5, <2>6, <2>7 DEF VmmNext
<1>3. ASSUME SlabNext PROVE Left
  <2>1. SlabEffect
    BY <1>3, SlabNextEffect
  <2>2. CASE fault' # "none" /\ mem' = mem
    BY <2>1, <2>2 DEF Left, SlabEffect
  <2>3. CASE fault' = "none"
    <3>1. TableBlocks' \subseteq TableBlocks /\ directories' = directories
      <4>1. Kept' \subseteq Kept
        BY <1>3, <2>3, SlabsKept
      <4> QED
        BY <2>1, <4>1 DEF SlabEffect, TableBlocks
    <3>2. \A b \in TableBlocks \cup directories : mem'[b] = mem[b]
      BY <2>1, MemoryShaped DEF SlabEffect, Memory
    <3> HIDE DEF TableBlocks
    <3> QED
      BY <3>1, <3>2 DEF Left, Written
  <2>4. fault' # "none" => mem' = mem
    <3>1. ASSUME NEW c \in Caches, kmem_cache_alloc(c), fault' # "none" PROVE mem' = mem
      BY <3>1 DEF kmem_cache_alloc, AllocFails, AllocExisting, AllocFromNew, AllocFrom, StopSlab, vmmVars
    <3>2. ASSUME NEW c \in Caches, NEW b, NEW i, kmem_cache_free(c, b, i) PROVE mem' = mem
      BY <3>2 DEF kmem_cache_free, StopSlab, vmmVars
    <3>3. ASSUME NEW c \in Caches, kmem_cache_destroy(c) \/ kmem_cache_shrink(c) PROVE mem' = mem
      BY <3>3 DEF kmem_cache_destroy, kmem_cache_shrink, vmmVars
    <3>4. ASSUME NEW c \in Caches, NEW size \in Sizes, kmem_cache_create(c, size) PROVE mem' = mem
      BY <3>4 DEF kmem_cache_create, vmmVars
    <3> QED
      BY <1>3, <3>1, <3>2, <3>3, <3>4, SMTT(30) DEF SlabNext
  <2> QED
    BY <2>2, <2>3, <2>4
<1> QED
  BY <1>2, <1>3 DEF Next, Halted

\* Directories and their tables, from what a step leaves.
LEMMA NextWritten == VInv /\ VInv' /\ WInv /\ [Next]_vars => WInv'
<1> SUFFICES ASSUME VInv, VInv', WInv, [Next]_vars PROVE WInv'
  OBVIOUS
<1>1. CASE UNCHANGED vars
  <2>1. UNCHANGED <<mem, directories, fault, user_frames, bitmap, cache>> /\ SlabPages' = SlabPages
    BY <1>1 DEF vars, SlabPages
  <2>2. TableBlocks' = TableBlocks
    BY <2>1 DEF TableBlocks, Kept
  <2> QED
    BY <2>1, <2>2 DEF WInv, DirectoriesWritten
<1>2. CASE Next /\ fault = "none"
  <2>1. Left
    BY <1>2, NextLeaves DEF WInv
  <2>2. CASE fault' # "none" /\ UNCHANGED <<mem, directories>>
    BY <1>2, <2>2 DEF WInv, DirectoriesWritten
  <2>3. CASE Written(mem', TableBlocks' \cup directories')
    <3> DEFINE m == mem'
    <3> DEFINE D == directories'
    <3> DEFINE T == TableBlocks'
    <3>1. \A d \in D : IsDirectory(m[d], T)
      BY DEF VInv, MapsInv, MapInv
    <3>2. Written(m, T \cup D)
      BY <2>3
    <3> HIDE DEF m, D, T
    <3>3. WrittenThrough(m, D)
      BY <3>1, <3>2 DEF Written, IsDirectory, WrittenThrough
    <3>4. DirectoriesWritten'
      BY <3>3 DEF DirectoriesWritten, m, D
    <3>5. Written(mem', TableBlocks' \cup directories')
      BY <2>3
    <3> QED
      BY <3>4, <3>5 DEF WInv
  <2> QED
    BY <2>1, <2>2, <2>3 DEF Left
<1>3. CASE fault # "none" /\ UNCHANGED vars
  BY <1>1, <1>3
<1>4. Next /\ fault # "none" => UNCHANGED vars
  <2>1. SlabNext => fault = "none"
    BY SlabNextEffect
  <2>2. VmmNext => fault = "none"
    BY DEF VmmNext, process_create_user, elf_load, elf_exec, Begin, AllocPage, MapPage, Finish,
           UnmapPage, vmm_clone_directory, vmm_switch_directory
  <2> QED
    BY <2>1, <2>2 DEF Next, Halted
<1> QED
  BY <1>1, <1>2, <1>4

\* vmm_init writes entries and zeroes.
LEMMA InitWritten == Init => WInv
<1> SUFFICES ASSUME Init PROVE WInv
  OBVIOUS
<1>1. /\ TableBlocks = {Table0, Table1} /\ directories = {kernel_directory} /\ mem \in Memory
      /\ mem[kernel_directory][0] = Entry(Table0, FALSE) /\ mem[kernel_directory][1] = Entry(Table1, FALSE)
      /\ \A i \in Index : i # 0 /\ i # 1 => mem[kernel_directory][i] = Absent
      /\ \A t \in {Table0, Table1}, i \in Index : /\ mem[t][i] = Entry((t - Table0) * PageWords + i, FALSE)
                                                 /\ (t - Table0) * PageWords + i \in Blocks
  BY InitMemory
<1>2. Table0 \in Blocks /\ Table1 \in Blocks
  BY SizeFacts
<1>3. \A f \in Blocks : Entry(f, FALSE) # Junk
  BY KernelWords
<1>4. \A t \in {Table0, Table1}, i \in Index : mem[t][i] # Junk
  BY <1>1, <1>3
<1>5. \A i \in Index : mem[kernel_directory][i] # Junk
  BY <1>1, <1>2, <1>3, KernelWords
<1>6. Written(mem, TableBlocks \cup directories)
  BY <1>1, <1>4, <1>5 DEF Written
<1>7. IsDirectory(mem[kernel_directory], TableBlocks)
  BY <1>1, InitMaps DEF MapsInv, MapInv
<1>8. DirectoriesWritten
  BY <1>1, <1>4, <1>5, <1>7 DEF DirectoriesWritten, WrittenThrough, IsDirectory
<1> QED
  BY <1>6, <1>8 DEF WInv

\* UserPagesPrivate, for every size of memory and any number of programs and
\* clones: as long as the kernel neither is about to obey a program's words nor
\* elf_load to write beyond a program's pages, no directory and no table they
\* name holds a word that is not the kernel's, and none opens a block of the
\* kernel, of a directory, of a table or of a slab to user code.
THEOREM UserPagesStayPrivate == Spec => []UserPagesPrivate
<1>1. VInv /\ WInv => UserPagesPrivate
  <2> SUFFICES ASSUME VInv, WInv PROVE UserPagesPrivate
    OBVIOUS
  <2>0. /\ MapInv(mem, TableBlocks, directories, user_frames, Pending(job), cr3)
        /\ user_frames \subseteq Kept
    BY DEF VInv, MapsInv
  <2>1. ASSUME NEW dir \in directories, NEW j \in Index, IsEntry(mem[dir][j]), NEW i \in Index,
               IsEntry(mem[mem[dir][j].frame][i]), mem[mem[dir][j].frame][i].user
        PROVE  mem[mem[dir][j].frame][i].frame \in user_frames \cup {0}
    <3>1. mem[dir][j].frame \in TableBlocks
      BY <2>0, <2>1 DEF MapInv, IsDirectory
    <3> QED
      BY <2>0, <2>1, <3>1 DEF MapInv, TableWords
  <2>2. Tables \subseteq TableBlocks
    <3>1. kernel_directory \in directories /\ IsDirectory(mem[kernel_directory], TableBlocks)
      BY <2>0 DEF MapInv, Roles
    <3> QED
      BY <3>1 DEF Tables, PresentIn, IsDirectory, Index
  <2>3. user_frames \cap (directories \cup TableBlocks) = {} /\ user_frames \cap (0..Reserved - 1) = {}
    BY <2>0 DEF MapInv, Roles, Frames
  <2>4. user_frames \cap SlabPages = {}
    BY <2>0 DEF Kept
  <2>5. user_frames \cap (0..Reserved - 1 \cup directories \cup Tables \cup SlabPages) = {}
    BY <2>2, <2>3, <2>4
  <2>6. fault \notin {"wild", "overrun"} =>
          \A dir \in directories, i \in Index :
             /\ mem[dir][i] # Junk
             /\ IsEntry(mem[dir][i]) => \A j \in Index : mem[mem[dir][i].frame][j] # Junk
    BY DEF WInv, DirectoriesWritten, WrittenThrough
  <2> QED
    BY <2>1, <2>5, <2>6 DEF UserPagesPrivate, Index
<1>2. Spec => []WInv
  BY InitWritten, MapInvariant, NextWritten, PTL DEF Spec
<1> QED
  BY <1>1, <1>2, MapInvariant, PTL


-----------------------------------------------------------------------------
(***************************************************************************)
(* The kernel's own map, as long as nothing is mapped over the addresses   *)
(* of physical memory.  T are the tables, D the directories.               *)
(***************************************************************************)
IdentityTables(m) ==
    \A i \in Index : m[Table0][i] = Entry(i, FALSE) /\ m[Table1][i] = Entry(PageWords + i, FALSE)

\* The kernel's directory names tables it can reach through their own addresses.
DirectoryWords(m) ==
    \A i \in Index :
        \/ m[kernel_directory][i] = Absent
        \/ IsEntry(m[kernel_directory][i]) /\ m[kernel_directory][i].frame \in IdentityPages

\* No page at a block's address is mapped but the identity pages.
NothingOver(m) ==
    \A i, j \in Index :
        IsEntry(m[kernel_directory][i]) /\ i * PageWords + j \in Blocks \ IdentityPages =>
            ~IsEntry(m[m[kernel_directory][i].frame][j])

\* A directory has the tables of the kernel's, those that were there when it was made.
SharedBy(m, d) ==
    /\ m[d][0].frame = Table0 /\ m[d][1].frame = Table1
    /\ \A i \in Index : IsEntry(m[d][i]) => m[d][i].frame = m[kernel_directory][i].frame

KernelMap(m, T, D) ==
    /\ m \in Memory /\ T \subseteq Blocks /\ D \subseteq Blocks /\ T \cap D = {}
    /\ kernel_directory \in D /\ Table0 \in T /\ Table1 \in T
    /\ IdentityTables(m)
    /\ IsDirectory(m[kernel_directory], T) /\ DirectoryWords(m) /\ NothingOver(m)
    /\ \A d \in D \cap IdentityPages : SharedBy(m, d)

\* The identity pages by their indexes.
LEMMA IdentityFacts ==
    /\ IdentityPages \subseteq Blocks /\ IdentityPages \subseteq VPages
    /\ kernel_directory \in IdentityPages /\ Table0 \in IdentityPages /\ Table1 \in IdentityPages
    /\ \A page \in VPages : page \in IdentityPages <=> pd_index(page) = 0 \/ pd_index(page) = 1
    /\ \A page \in IdentityPages :
          \E i \in Index : pt_index(page) = i /\ ((page = i /\ pd_index(page) = 0) \/ (page = PageWords + i /\ pd_index(page) = 1))
<1>1. PageWords \in Nat /\ PageWords >= 8 /\ TotalBlocks \in Nat /\ TotalBlocks >= 2 * PageWords
      /\ kernel_directory = PageWords /\ Table0 = PageWords + 1 /\ Table1 = PageWords + 2
  BY SizeFacts
<1>2. \A page \in IdentityPages : \E i \in Index : page = i \/ page = PageWords + i
  <2> TAKE page \in IdentityPages
  <2>1. page \in Index \/ (page - PageWords \in Index /\ page = PageWords + (page - PageWords))
    BY <1>1 DEF IdentityPages, Index
  <2> QED
    BY <2>1
<1>3. \A page \in IdentityPages :
          \E i \in Index : pt_index(page) = i /\ ((page = i /\ pd_index(page) = 0) \/ (page = PageWords + i /\ pd_index(page) = 1))
  BY <1>2, KernelPages
<1>4. IdentityPages \subseteq VPages
  BY <1>2, KernelPages
<1>5. IdentityPages \subseteq Blocks /\ kernel_directory \in IdentityPages /\ Table0 \in IdentityPages /\ Table1 \in IdentityPages
  BY <1>1 DEF IdentityPages, Blocks
<1>6. ASSUME NEW page \in VPages, pd_index(page) = 0 \/ pd_index(page) = 1 PROVE page \in IdentityPages
  <2>1. pt_index(page) \in Index /\ page = pd_index(page) * PageWords + pt_index(page)
    BY PageSplit
  <2> DEFINE j == pt_index(page)
  <2>2. j \in Nat /\ j < PageWords
    BY <1>1, <2>1 DEF Index
  <2> HIDE DEF j
  <2>3. page = j \/ page = PageWords + j
    <3>1. 0 * PageWords + j = j /\ 1 * PageWords + j = PageWords + j
      BY <1>1, <2>2
    <3> QED
      BY <1>6, <2>1, <3>1 DEF j
  <2> QED
    BY <1>1, <2>2, <2>3 DEF IdentityPages
<1>7. \A page \in VPages : page \in IdentityPages => pd_index(page) = 0 \/ pd_index(page) = 1
  BY <1>3
<1> QED
  BY <1>3, <1>4, <1>5, <1>6, <1>7

\* The words of memory and the entries of a directory under the kernel's map.
LEMMA KernelMapParts ==
    ASSUME NEW m, NEW T, NEW D, KernelMap(m, T, D)
    PROVE  /\ m \in Memory /\ \A b \in Blocks, i \in Index : m[b][i] \in Word
           /\ T \subseteq Blocks /\ D \subseteq Blocks /\ T \cap D = {}
           /\ kernel_directory \in D /\ Table0 \in T /\ Table1 \in T
           /\ SharedBy(m, kernel_directory)
           /\ IsEntry(m[kernel_directory][0]) /\ IsEntry(m[kernel_directory][1])
           /\ \A i \in Index : IsEntry(m[kernel_directory][i]) =>
                 /\ m[kernel_directory][i].frame \in T /\ m[kernel_directory][i].frame \in IdentityPages
                 /\ m[kernel_directory][i].frame = Table0 => i = 0
                 /\ m[kernel_directory][i].frame = Table1 => i = 1
                 /\ \A j \in Index : m[kernel_directory][j].frame = m[kernel_directory][i].frame => i = j
<1>1. m \in Memory /\ T \subseteq Blocks /\ D \subseteq Blocks /\ T \cap D = {}
      /\ kernel_directory \in D /\ Table0 \in T /\ Table1 \in T
  BY DEF KernelMap
<1>2. \A b \in Blocks, i \in Index : m[b][i] \in Word
  BY <1>1 DEF Memory
<1>3. SharedBy(m, kernel_directory)
  BY <1>1, IdentityFacts DEF KernelMap
<1>4. IsEntry(m[kernel_directory][0]) /\ IsEntry(m[kernel_directory][1])
  BY <1>2, <1>3, SizeFacts, EntryFacts DEF SharedBy
<1>5. ASSUME NEW i \in Index, IsEntry(m[kernel_directory][i])
      PROVE  /\ m[kernel_directory][i].frame \in T /\ m[kernel_directory][i].frame \in IdentityPages
             /\ m[kernel_directory][i].frame = Table0 => i = 0
             /\ m[kernel_directory][i].frame = Table1 => i = 1
             /\ \A j \in Index : m[kernel_directory][j].frame = m[kernel_directory][i].frame => i = j
  <2>1. ~IsEntry(Absent)
    BY WordsWritten
  <2>2. m[kernel_directory][i].frame \in IdentityPages
    BY <1>5, <2>1 DEF KernelMap, DirectoryWords
  <2> QED
    BY <1>5, <2>2 DEF KernelMap, IsDirectory
<1> QED
  BY <1>1, <1>2, <1>3, <1>4, <1>5

\* The processor's walk under the kernel's map.
LEMMA KernelMapWalk ==
    ASSUME NEW m, NEW T, NEW D, KernelMap(m, T, D), NEW d \in D \cap IdentityPages
    PROVE  /\ \A page \in IdentityPages : Hardware(m, d, page) = Entry(page, FALSE)
           /\ \A page \in (Blocks \ IdentityPages) \cap VPages : ~IsEntry(Hardware(m, d, page))
<1>0. /\ \A b \in Blocks, i \in Index : m[b][i] \in Word
      /\ d \in Blocks /\ T \subseteq Blocks /\ Table0 \in T /\ Table1 \in T /\ kernel_directory \in Blocks
  BY KernelMapParts
<1>1. SharedBy(m, d) /\ IdentityTables(m)
  BY DEF KernelMap
<1>2. m[d][0].frame = Table0 /\ m[d][1].frame = Table1 /\ IsEntry(m[d][0]) /\ IsEntry(m[d][1])
  BY <1>0, <1>1, SizeFacts, EntryFacts DEF SharedBy
<1>3. \A page \in IdentityPages : Hardware(m, d, page) = Entry(page, FALSE)
  <2> TAKE page \in IdentityPages
  <2>1. PICK i \in Index : pt_index(page) = i /\ ((page = i /\ pd_index(page) = 0) \/ (page = PageWords + i /\ pd_index(page) = 1))
    BY IdentityFacts
  <2>2. ASSUME NEW pde, pde = m[d][pd_index(page)], IsEntry(pde), m[pde.frame][i] = Entry(page, FALSE)
        PROVE  Hardware(m, d, page) = Entry(page, FALSE)
    <3>1. Hardware(m, d, page) = [Entry(page, FALSE) EXCEPT !.user = @ /\ pde.user]
      BY <2>1, <2>2 DEF Hardware
    <3>2. Entry(page, FALSE).user = FALSE /\ (FALSE /\ pde.user) = FALSE
      BY DEF Entry
    <3> QED
      BY <3>1, <3>2 DEF Entry
  <2>3. CASE page = i /\ pd_index(page) = 0
    BY <1>1, <1>2, <2>2, <2>3 DEF IdentityTables
  <2>4. CASE page = PageWords + i /\ pd_index(page) = 1
    BY <1>1, <1>2, <2>2, <2>4 DEF IdentityTables
  <2> QED
    BY <2>1, <2>3, <2>4
<1>4. ASSUME NEW page \in (Blocks \ IdentityPages) \cap VPages PROVE ~IsEntry(Hardware(m, d, page))
  <2> DEFINE i == pd_index(page)
  <2> DEFINE j == pt_index(page)
  <2> DEFINE pde == m[d][i]
  <2> DEFINE pte == m[pde.frame][j]
  <2>1. i \in Index /\ j \in Index /\ page = i * PageWords + j /\ page \in VPages
    BY PageSplit
  <2>2. CASE ~IsEntry(pde)
    BY <2>2, SMTT(30) DEF Hardware
  <2>3. CASE IsEntry(pde)
    <3>1. pde \in Word /\ pde.frame \in Blocks
      BY <1>0, <2>1, <2>3, EntryFacts
    <3>2. pde.frame = m[kernel_directory][i].frame /\ IsEntry(m[kernel_directory][i])
      <4>1. pde.frame = m[kernel_directory][i].frame
        BY <1>1, <2>1, <2>3 DEF SharedBy
      <4>2. m[kernel_directory][i] \in Word
        BY <1>0, <2>1
      <4> QED
        BY <3>1, <4>1, <4>2, EntryFacts
    <3>3. ~IsEntry(pte)
      <4>1. i * PageWords + j \in Blocks \ IdentityPages
        BY <2>1
      <4> HIDE DEF i, j
      <4> QED
        BY <2>1, <3>2, <4>1 DEF KernelMap, NothingOver
    <3>4. pte \in Word /\ Hardware(m, d, page) = [pte EXCEPT !.user = @ /\ pde.user]
      BY <1>0, <2>1, <2>3, <3>1 DEF Hardware
    <3> QED
      BY <3>3, <3>4 DEF Word, IsEntry
  <2> QED
    BY <2>2, <2>3
<1> QED
  BY <1>3, <1>4

\* A pointer of the kernel's reaches its block, and only below 8 MB.
LEMMA KernelMapReach ==
    ASSUME NEW m, NEW T, NEW D, KernelMap(m, T, D), cr3 \in D \cap IdentityPages
    PROVE  /\ \A b \in Blocks : Reaches(m, b) <=> b \in IdentityPages
           /\ \A b \in IdentityPages : At(m, b) = b
           /\ Mapped(m, kernel_directory)
<1>1. /\ \A page \in IdentityPages : Hardware(m, cr3, page) = Entry(page, FALSE)
      /\ \A page \in (Blocks \ IdentityPages) \cap VPages : ~IsEntry(Hardware(m, cr3, page))
  BY KernelMapWalk
<1>2. \A page \in IdentityPages : Entry(page, FALSE).frame = page /\ IsEntry(Entry(page, FALSE))
  BY SizeFacts, IdentityFacts DEF Entry, IsEntry
<1> QED
  BY <1>1, <1>2, IdentityFacts DEF Reaches, Mapped, At


\* No table and no directory is written.
LEMMA KernelMapOther ==
    ASSUME NEW m, NEW T, NEW D, KernelMap(m, T, D), NEW m2 \in Memory, \A b \in T \cup D : m2[b] = m[b]
    PROVE  KernelMap(m2, T, D)
<1>1. /\ m2[kernel_directory] = m[kernel_directory] /\ m2[Table0] = m[Table0] /\ m2[Table1] = m[Table1]
      /\ \A d \in D : m2[d] = m[d]
  BY KernelMapParts
<1>2. \A i \in Index : IsEntry(m[kernel_directory][i]) => m2[m[kernel_directory][i].frame] = m[m[kernel_directory][i].frame]
  BY KernelMapParts
<1>3. IdentityTables(m2) /\ DirectoryWords(m2)
  BY <1>1 DEF KernelMap, IdentityTables, DirectoryWords
<1>4. NothingOver(m2)
  BY <1>1, <1>2 DEF KernelMap, NothingOver
<1>5. \A d \in D \cap IdentityPages : SharedBy(m2, d)
  BY <1>1 DEF KernelMap, SharedBy
<1> QED
  BY <1>1, <1>3, <1>4, <1>5 DEF KernelMap

\* An entry of a table is written, for a page above physical memory.
LEMMA KernelMapPte ==
    ASSUME NEW m, NEW T, NEW D, KernelMap(m, T, D), NEW i \in Index, NEW j \in Index, NEW t,
           IsEntry(m[kernel_directory][i]), t = m[kernel_directory][i].frame,
           i * PageWords + j \notin Blocks,
           NEW m2 \in Memory, \A b \in Blocks \ {t} : m2[b] = m[b],
           \A n \in Index \ {j} : m2[t][n] = m[t][n]
    PROVE  KernelMap(m2, T, D)
<1>0. /\ T \subseteq Blocks /\ D \subseteq Blocks /\ T \cap D = {} /\ kernel_directory \in D /\ Table0 \in T /\ Table1 \in T
      /\ t \in T /\ t \in Blocks /\ (t = Table0 => i = 0) /\ (t = Table1 => i = 1)
      /\ \A n \in Index : IsEntry(m[kernel_directory][n]) =>
            m[kernel_directory][n].frame \in T /\ (m[kernel_directory][n].frame = t => n = i)
  BY KernelMapParts
<1>1. i # 0 /\ i # 1
  <2>1. i * PageWords + j \in VPages /\ pd_index(i * PageWords + j) = i
    BY PageSplit
  <2> DEFINE page == i * PageWords + j
  <2> HIDE DEF page
  <2>2. page \notin IdentityPages /\ page \in VPages /\ pd_index(page) = i
    BY <2>1, IdentityFacts DEF page
  <2> QED
    BY <2>2, IdentityFacts
<1>2. m2[Table0] = m[Table0] /\ m2[Table1] = m[Table1] /\ \A d \in D : m2[d] = m[d]
  BY <1>0, <1>1
<1>3. IdentityTables(m2) /\ DirectoryWords(m2) /\ m2[kernel_directory] = m[kernel_directory]
  BY <1>0, <1>2 DEF KernelMap, IdentityTables, DirectoryWords
<1>4. NothingOver(m2)
  <2> SUFFICES ASSUME NEW x \in Index, NEW y \in Index, IsEntry(m[kernel_directory][x]),
                      x * PageWords + y \in Blocks \ IdentityPages
               PROVE  ~IsEntry(m2[m[kernel_directory][x].frame][y])
    BY <1>3 DEF NothingOver
  <2> DEFINE s == m[kernel_directory][x].frame
  <2>1. s \in T /\ (s = t => x = i)
    BY <1>0
  <2>2. ~IsEntry(m[s][y])
    BY DEF KernelMap, NothingOver
  <2> HIDE DEF s
  <2>3. ASSUME s = t PROVE ~IsEntry(m2[s][y])
    <3>1. y # j
      BY <2>1, <2>3
    <3> QED
      BY <3>1, <2>2, <2>3
  <2>4. ASSUME s # t PROVE ~IsEntry(m2[s][y])
    BY <1>0, <2>1, <2>2, <2>4
  <2> QED
    BY <2>3, <2>4 DEF s
<1>5. \A d \in D \cap IdentityPages : SharedBy(m2, d)
  BY <1>2, <1>3 DEF KernelMap, SharedBy
<1> QED
  BY <1>3, <1>4, <1>5 DEF KernelMap

\* The kernel's directory is written with the frames it has.
LEMMA KernelMapSame ==
    ASSUME NEW m, NEW T, NEW D, KernelMap(m, T, D), NEW m2 \in Memory,
           \A b \in Blocks \ {kernel_directory} : m2[b] = m[b],
           \A i \in Index : /\ m2[kernel_directory][i].frame = m[kernel_directory][i].frame
                            /\ m[kernel_directory][i] = Absent => m2[kernel_directory][i] = Absent
    PROVE  KernelMap(m2, T, D)
<1>0. /\ T \subseteq Blocks /\ D \subseteq Blocks /\ T \cap D = {} /\ kernel_directory \in D /\ Table0 \in T /\ Table1 \in T
      /\ \A n \in Index : IsEntry(m[kernel_directory][n]) => m[kernel_directory][n].frame \in T
  BY KernelMapParts
<1>1. /\ \A i \in Index : IsEntry(m2[kernel_directory][i]) <=> IsEntry(m[kernel_directory][i])
      /\ \A b \in T : m2[b] = m[b]
  BY <1>0 DEF IsEntry
<1>2. IdentityTables(m2)
  BY <1>0, <1>1 DEF KernelMap, IdentityTables
<1>3. DirectoryWords(m2)
  BY <1>1 DEF KernelMap, DirectoryWords
<1>4. NothingOver(m2)
  BY <1>0, <1>1 DEF KernelMap, NothingOver
<1>5. IsDirectory(m2[kernel_directory], T)
  BY <1>1 DEF KernelMap, IsDirectory
<1>6. ASSUME NEW d \in D \cap IdentityPages PROVE SharedBy(m2, d)
  <2>1. SharedBy(m, d) /\ 0 \in Index /\ 1 \in Index
    BY SizeFacts DEF KernelMap
  <2>2. CASE d = kernel_directory
    BY <2>1, <2>2 DEF SharedBy
  <2>3. CASE d # kernel_directory
    BY <1>0, <2>1, <2>3 DEF SharedBy
  <2> QED
    BY <2>2, <2>3
<1> QED
  BY <1>0, <1>2, <1>3, <1>4, <1>5, <1>6 DEF KernelMap

\* A table without an entry is entered in the kernel's directory.
LEMMA KernelMapTable ==
    ASSUME NEW m, NEW T, NEW D, KernelMap(m, T, D), NEW i \in Index, m[kernel_directory][i] = Absent,
           NEW b \in IdentityPages, b \in T, b # Table0, b # Table1, Bare(m[b]),
           \A n \in Index : m[kernel_directory][n].frame # b,
           NEW m2 \in Memory, \A d \in Blocks \ {kernel_directory} : m2[d] = m[d],
           \A n \in Index \ {i} : m2[kernel_directory][n] = m[kernel_directory][n],
           m2[kernel_directory][i].frame = b
    PROVE  KernelMap(m2, T, D)
<1>0. /\ T \subseteq Blocks /\ D \subseteq Blocks /\ T \cap D = {} /\ kernel_directory \in D /\ Table0 \in T /\ Table1 \in T
      /\ IsEntry(m[kernel_directory][0]) /\ IsEntry(m[kernel_directory][1])
      /\ \A n \in Index : IsEntry(m[kernel_directory][n]) => m[kernel_directory][n].frame \in T
      /\ \A x \in Blocks, n \in Index : m[x][n] \in Word
  BY KernelMapParts
<1>1. i # 0 /\ i # 1 /\ ~IsEntry(m[kernel_directory][i]) /\ 0 \in Index /\ 1 \in Index
  BY <1>0, WordsWritten, SizeFacts
<1>2. \A s \in T : m2[s] = m[s]
  BY <1>0
<1>3. IsEntry(m2[kernel_directory][i])
  BY <1>0, SizeFacts DEF IsEntry
<1>4. IdentityTables(m2)
  BY <1>0, <1>2 DEF KernelMap, IdentityTables
<1>5. DirectoryWords(m2)
  BY <1>3 DEF KernelMap, DirectoryWords
<1>6. NothingOver(m2)
  <2> SUFFICES ASSUME NEW x \in Index, NEW y \in Index, IsEntry(m2[kernel_directory][x]),
                      x * PageWords + y \in Blocks \ IdentityPages
               PROVE  ~IsEntry(m2[m2[kernel_directory][x].frame][y])
    BY DEF NothingOver
  <2>1. CASE x = i
    BY <1>2, <2>1 DEF Bare
  <2>2. CASE x # i
    BY <1>0, <1>2, <2>2 DEF KernelMap, NothingOver
  <2> QED
    BY <2>1, <2>2
<1>7. IsDirectory(m2[kernel_directory], T)
  BY <1>1 DEF KernelMap, IsDirectory
<1>8. ASSUME NEW d \in D \cap IdentityPages PROVE SharedBy(m2, d)
  <2>1. SharedBy(m, d)
    BY DEF KernelMap
  <2>2. CASE d = kernel_directory
    BY <1>1, <2>1, <2>2 DEF SharedBy
  <2>3. CASE d # kernel_directory
    <3>1. m2[d] = m[d]
      BY <1>0, <2>3
    <3>2. ~IsEntry(m[d][i])
      <4>1. IsEntry(m[d][i]) => m[d][i].frame = m[kernel_directory][i].frame
        BY <2>1 DEF SharedBy
      <4> QED
        BY <4>1, <1>1 DEF IsEntry
    <3> QED
      BY <3>1, <3>2, <2>1 DEF SharedBy
  <2> QED
    BY <2>2, <2>3
<1> QED
  BY <1>0, <1>4, <1>5, <1>6, <1>7, <1>8 DEF KernelMap

\* More tables, and more directories the kernel cannot reach.
LEMMA KernelMapMore ==
    ASSUME NEW m, NEW T, NEW D, KernelMap(m, T, D), NEW T2, NEW D2,
           T \subseteq T2, T2 \subseteq Blocks, D \subseteq D2, D2 \subseteq Blocks,
           T2 \cap D2 = {}, D2 \cap IdentityPages \subseteq D
    PROVE  KernelMap(m, T2, D2)
BY DEF KernelMap, IsDirectory

\* The kernel's directory is copied to a new one.
LEMMA KernelMapCopy ==
    ASSUME NEW m, NEW T, NEW D, KernelMap(m, T, D), NEW b \in Blocks \ (T \cup D),
           NEW m2, m2 = [m EXCEPT ![b] = m[kernel_directory]]
    PROVE  KernelMap(m2, T, D \cup {b})
<1>0. m \in Memory /\ T \subseteq Blocks /\ D \subseteq Blocks /\ kernel_directory \in D /\ kernel_directory \in Blocks
      /\ T \cap D = {} /\ SharedBy(m, kernel_directory)
  BY KernelMapParts
<1>1. m2 \in Memory /\ (\A x \in T \cup D : m2[x] = m[x]) /\ m2[b] = m[kernel_directory]
  BY <1>0 DEF Memory
<1>2. KernelMap(m2, T, D)
  BY <1>1, KernelMapOther
<1>3. SharedBy(m2, b)
  <2>1. m2[kernel_directory] = m[kernel_directory] /\ m2[b] = m[kernel_directory]
    BY <1>0, <1>1
  <2> QED
    BY <1>0, <2>1 DEF SharedBy
<1> QED
  BY <1>0, <1>2, <1>3 DEF KernelMap


-----------------------------------------------------------------------------
(***************************************************************************)
(* The invariant, and a lemma for each step that maps nothing over the     *)
(* addresses of physical memory.                                           *)
(***************************************************************************)
NoObjectFits == \E c \in Caches : calculate_objects_per_slab(cache[c]) = 0

KParts ==
    /\ KernelMap(mem, TableBlocks, directories)
    /\ SlabPages \subseteq IdentityPages
    /\ cr3 \in IdentityPages
    /\ directories \subseteq IdentityPages
    /\ fault # "wild"
    /\ fault = "halted" => IdentityPages \subseteq bitmap \/ NoObjectFits

KInv == overlay = {} => KParts

\* Pointers of the kernel's in such a state.
LEMMA KernelPointers ==
    ASSUME VInv, KParts
    PROVE  /\ cr3 \in directories \cap IdentityPages
           /\ \A b \in Blocks : Reaches(mem, b) <=> b \in IdentityPages
           /\ \A b \in IdentityPages : At(mem, b) = b
           /\ Mapped(mem, kernel_directory)
           /\ \A i \in Index : DirectoryWord(mem, i) = mem[kernel_directory][i]
<1>1. cr3 \in directories \cap IdentityPages
  BY DEF VInv, MapsInv, MapInv, KParts
<1>2. KernelMap(mem, TableBlocks, directories)
  BY DEF KParts
<1>3. /\ \A b \in Blocks : Reaches(mem, b) <=> b \in IdentityPages
      /\ \A b \in IdentityPages : At(mem, b) = b
      /\ Mapped(mem, kernel_directory)
  BY <1>1, <1>2, KernelMapReach
<1>4. At(mem, kernel_directory) = kernel_directory
  BY <1>3, IdentityFacts
<1> QED
  BY <1>1, <1>3, <1>4 DEF DirectoryWord

\* pmm_alloc_block goes above 8 MB when there is nothing left below.
LEMMA UsedUp ==
    ASSUME VInv, NEW b, b = Pmm!bitmap_find_free, b # Pmm!NotFound, b \notin IdentityPages
    PROVE  IdentityPages \subseteq bitmap
<1>1. b \in Blocks /\ \A x \in Blocks : x < b => x \in bitmap
  BY Found DEF VInv, IInv
<1>2. IdentityPages \subseteq Blocks
  BY IdentityFacts
<1>3. \A x \in IdentityPages : x < b
  BY <1>1, SizeFacts DEF IdentityPages, Blocks
<1> QED
  BY <1>1, <1>2, <1>3

\* The roles of the blocks grow with the step.
LEMMA KernelMapGrows ==
    ASSUME VInv', Kept \subseteq Kept', (directories' \cup user_frames') \cap TableBlocks = {},
           directories \subseteq directories', directories' \cap IdentityPages \subseteq directories,
           NEW m, KernelMap(m, TableBlocks, directories)
    PROVE  KernelMap(m, TableBlocks', directories')
<1>1. MapInv(mem', TableBlocks', directories', user_frames', Pending(job'), cr3')
  BY DEF VInv, MapsInv
<1>2. TableBlocks' \subseteq Blocks /\ directories' \subseteq Blocks /\ TableBlocks' \cap directories' = {}
  BY <1>1, MapParts
<1>3. TableBlocks \subseteq TableBlocks'
  BY DEF TableBlocks
<1> HIDE DEF TableBlocks
<1> QED
  BY <1>2, <1>3, KernelMapMore

\* No block changes its role.
LEMMA KernelMapStays ==
    ASSUME VInv, VInv', UNCHANGED slabVars, UNCHANGED <<directories, user_frames>>, bitmap \subseteq bitmap',
           NEW m, KernelMap(m, TableBlocks, directories)
    PROVE  KernelMap(m, TableBlocks', directories')
<1>1. Kept \subseteq Kept'
  BY PagesUnmoved DEF Kept
<1>2. (directories' \cup user_frames') \cap TableBlocks = {} /\ directories' \cap IdentityPages \subseteq directories
  BY DEF TableBlocks
<1> QED
  BY <1>1, <1>2, KernelMapGrows

\* process_create_user, elf_load and elf_exec.
LEMMA BeginSoundly ==
    ASSUME VInv, VInv', KParts, process_create_user \/ elf_load \/ elf_exec, UNCHANGED slabVars
    PROVE  KParts'
<1>1. fault = "none" /\ UNCHANGED <<mem, cr3, directories, fault, user_frames, overlay>> /\ UNCHANGED pmmVars
  BY DEF process_create_user, elf_load, elf_exec, Begin
<1>2. KernelMap(mem, TableBlocks', directories')
  BY <1>1, KernelMapStays DEF KParts, pmmVars
<1> QED
  BY <1>1, <1>2, PagesUnmoved DEF KParts, NoObjectFits, pmmVars, slabVars

\* A block is taken for a user page.
LEMMA AllocSoundly ==
    ASSUME VInv, VInv', KParts, AllocPage, UNCHANGED slabVars
    PROVE  KParts'
<1> DEFINE b == Pmm!bitmap_find_free
<1>0. fault = "none" /\ UNCHANGED <<mem, cr3, directories, fault, overlay>>
  BY DEF AllocPage
<1>1. KernelMap(mem, TableBlocks', directories')
  <2>1. CASE /\ b # Pmm!NotFound /\ Pmm!TakeBlocks({b}) /\ user_frames' = user_frames \cup {b}
             /\ job' = GetNext(job, b)
    <3>1. b \notin TableBlocks /\ b \in Blocks /\ bitmap' = bitmap \cup {b}
      BY <2>1, FreshFrame
    <3> HIDE DEF b
    <3>2. Kept \subseteq Kept'
      BY <3>1, PagesUnmoved DEF Kept
    <3>3. (directories' \cup user_frames') \cap TableBlocks = {} /\ directories' \cap IdentityPages \subseteq directories
      BY <1>0, <2>1, <3>1 DEF TableBlocks
    <3> QED
      BY <1>0, <3>2, <3>3, KernelMapGrows DEF KParts
  <2>2. CASE /\ job' = IF job.op = "user" THEN GetNext(job, 0) ELSE Idle
             /\ UNCHANGED user_frames /\ UNCHANGED pmmVars
    BY <1>0, <2>2, KernelMapStays DEF KParts, pmmVars
  <2> QED
    BY <2>1, <2>2 DEF AllocPage, GetNext
<1> QED
  BY <1>0, <1>1, PagesUnmoved DEF KParts


\* The entry of a page above physical memory is set.
LEMMA SetEntrySoundly ==
    ASSUME NEW m, NEW T, NEW D, KernelMap(m, T, D), cr3 \in D \cap IdentityPages,
           NEW page \in VPages, NEW t, IsEntry(m[kernel_directory][pd_index(page)]),
           t = m[kernel_directory][pd_index(page)].frame,
           NEW w \in Word, SetEntry(m, t, page, w), overlay' = {}
    PROVE  KernelMap(mem', T, D) /\ page \notin Blocks /\ fault' = fault
<1> DEFINE i == pd_index(page)
<1> DEFINE j == pt_index(page)
<1>0. i \in Index /\ j \in Index /\ page = i * PageWords + j
  BY PageSplit
<1>1. t \in IdentityPages /\ t \in Blocks /\ m \in Memory
  BY <1>0, KernelMapParts
<1>2. Reaches(m, t) /\ At(m, t) = t
  BY <1>1, KernelMapReach
<1>3. mem' = [m EXCEPT ![t][j] = w] /\ page \notin Blocks /\ fault' = fault
  BY <1>2 DEF SetEntry, Store
<1> HIDE DEF i, j
<1> DEFINE m2 == [m EXCEPT ![t][j] = w]
<1>4. /\ m2 \in Memory /\ (\A b \in Blocks \ {t} : m2[b] = m[b])
      /\ \A n \in Index \ {j} : m2[t][n] = m[t][n]
  BY <1>0, <1>1 DEF Memory
<1> HIDE DEF m2
<1>5. i * PageWords + j \notin Blocks
  BY <1>0, <1>3
<1>6. KernelMap(m2, T, D)
  BY <1>0, <1>4, <1>5, KernelMapPte DEF i
<1> QED
  BY <1>3, <1>6 DEF m2

\* The table exists.
LEMMA ThroughTableSoundly ==
    ASSUME VInv, KParts, NEW page \in VPages, NEW f \in Blocks, NEW pde,
           pde = mem[kernel_directory][pd_index(page)], IsEntry(pde),
           MapThroughTable(pde, f, page, TRUE), overlay' = {}
    PROVE  KernelMap(mem', TableBlocks, directories) /\ page \notin Blocks /\ fault' = fault
<1> DEFINE i == pd_index(page)
<1> DEFINE w == [pde EXCEPT !.user = @ \/ TRUE]
<1> DEFINE m == [mem EXCEPT ![kernel_directory][i] = w]
<1>0. /\ i \in Index /\ KernelMap(mem, TableBlocks, directories) /\ kernel_directory \in Blocks /\ mem \in Memory
      /\ cr3 \in directories \cap IdentityPages /\ At(mem, kernel_directory) = kernel_directory
      /\ \A b \in Blocks, n \in Index : mem[b][n] \in Word
  <2>1. i \in Index /\ KernelMap(mem, TableBlocks, directories) /\ kernel_directory \in Blocks
    BY PageSplit, SizeFacts DEF KParts
  <2>2. cr3 \in directories \cap IdentityPages /\ At(mem, kernel_directory) = kernel_directory
    BY KernelPointers, IdentityFacts
  <2> QED
    BY <2>1, <2>2, KernelMapParts
<1>1. w \in Word /\ w.frame = pde.frame
  <2>1. pde \in Word
    BY <1>0
  <2>2. w = [pde EXCEPT !.user = TRUE]
    BY <2>1
  <2> QED
    BY <2>1, <2>2, WordsWritten
<1>2. SetEntry(m, pde.frame, page, Entry(f, TRUE))
  BY <1>0 DEF MapThroughTable, Store
<1> HIDE DEF i, w
<1>3. /\ m \in Memory /\ (\A b \in Blocks \ {kernel_directory} : m[b] = mem[b])
      /\ \A n \in Index \ {i} : m[kernel_directory][n] = mem[kernel_directory][n]
      /\ m[kernel_directory][i] = w
  BY <1>0, <1>1 DEF Memory
<1> HIDE DEF m
<1>4. ~IsEntry(Absent)
  BY WordsWritten
<1>5. \A n \in Index : /\ m[kernel_directory][n].frame = mem[kernel_directory][n].frame
                       /\ mem[kernel_directory][n] = Absent => m[kernel_directory][n] = Absent
  BY <1>0, <1>1, <1>3, <1>4 DEF i
<1>6. KernelMap(m, TableBlocks, directories)
  BY <1>0, <1>3, <1>5, KernelMapSame
<1>7. IsEntry(m[kernel_directory][pd_index(page)]) /\ pde.frame = m[kernel_directory][pd_index(page)].frame
  BY <1>1, <1>3 DEF i, IsEntry
<1>8. Entry(f, TRUE) \in Word
  BY WordsWritten
<1> QED
  BY <1>0, <1>2, <1>6, <1>7, <1>8, SetEntrySoundly

\* No table yet, and a block for one below 8 MB.
LEMMA NewTableSoundly ==
    ASSUME VInv, KParts, NEW page \in VPages, NEW f \in Blocks,
           mem[kernel_directory][pd_index(page)] = Absent,
           NEW b \in IdentityPages, b \notin TableBlocks \cup directories,
           SetEntry(NewTable(mem, b, page, TRUE), b, page, Entry(f, TRUE)), overlay' = {},
           NEW T2, T2 = TableBlocks \cup {b}
    PROVE  KernelMap(mem', T2, directories) /\ page \notin Blocks /\ fault' = fault
<1> DEFINE i == pd_index(page)
<1> DEFINE D == directories
<1> DEFINE m1 == [mem EXCEPT ![b] = Fill(Absent)]
<1> DEFINE m2 == [m1 EXCEPT ![kernel_directory][i] = Entry(b, TRUE)]
<1>0. /\ i \in Index /\ KernelMap(mem, TableBlocks, D) /\ kernel_directory \in Blocks /\ mem \in Memory
      /\ cr3 \in D \cap IdentityPages /\ b \in Blocks
      /\ TableBlocks \subseteq Blocks /\ D \subseteq Blocks /\ TableBlocks \cap D = {}
      /\ kernel_directory \in D /\ Table0 \in TableBlocks /\ Table1 \in TableBlocks
      /\ \A x \in Blocks, n \in Index : mem[x][n] \in Word
      /\ \A n \in Index : IsEntry(mem[kernel_directory][n]) => mem[kernel_directory][n].frame \in TableBlocks
  <2>1. i \in Index /\ KernelMap(mem, TableBlocks, D) /\ kernel_directory \in Blocks /\ b \in Blocks
    BY PageSplit, SizeFacts, IdentityFacts DEF KParts
  <2>2. cr3 \in D \cap IdentityPages
    BY KernelPointers
  <2> QED
    BY <2>1, <2>2, KernelMapParts
<1>1. Fill(Absent) \in [Index -> Word] /\ Bare(Fill(Absent))
  BY WordsWritten
<1> HIDE DEF i, D
<1>2. m1 \in Memory /\ (\A x \in Blocks \ {b} : m1[x] = mem[x]) /\ m1[b] = Fill(Absent)
  BY <1>0, <1>1 DEF Memory
<1>3. KernelMap(m1, TableBlocks, D)
  <2>1. \A x \in TableBlocks \cup D : m1[x] = mem[x]
    BY <1>0, <1>2 DEF D
  <2> HIDE DEF m1
  <2> QED
    BY <1>0, <1>2, <2>1, KernelMapOther
<1>4. KernelMap(m1, T2, D)
  <2>1. /\ TableBlocks \subseteq T2 /\ T2 \subseteq Blocks /\ D \subseteq D /\ T2 \cap D = {}
        /\ D \cap IdentityPages \subseteq D
    BY <1>0 DEF D
  <2> HIDE DEF m1
  <2> QED
    BY <1>0, <1>3, <2>1, KernelMapMore
<1>5. At(m1, kernel_directory) = kernel_directory
  <2> HIDE DEF m1
  <2> QED
    BY <1>0, <1>4, KernelMapReach, IdentityFacts
<1>6. SetEntry(m2, b, page, Entry(f, TRUE))
  BY <1>0, <1>5 DEF NewTable, Store, i
<1>7. Entry(b, TRUE) \in Word /\ Entry(b, TRUE).frame = b /\ IsEntry(Entry(b, TRUE)) /\ Entry(f, TRUE) \in Word
  BY <1>0, WordsWritten
<1> HIDE DEF m1
<1>8. /\ m2 \in Memory /\ (\A x \in Blocks \ {kernel_directory} : m2[x] = m1[x])
      /\ (\A n \in Index \ {i} : m2[kernel_directory][n] = m1[kernel_directory][n])
      /\ m2[kernel_directory][i] = Entry(b, TRUE)
  BY <1>0, <1>2, <1>7 DEF Memory
<1> HIDE DEF m2
<1>9. m1[kernel_directory] = mem[kernel_directory] /\ b # kernel_directory
  BY <1>0, <1>2 DEF D
<1>10. \A n \in Index : m1[kernel_directory][n].frame # b
  <2> TAKE n \in Index
  <2>1. mem[kernel_directory][n] \in Word
    BY <1>0
  <2> QED
    BY <1>0, <1>9, <2>1, EntryFacts
<1>11. KernelMap(m2, T2, D)
  <2>1. m1[kernel_directory][i] = Absent /\ b \in T2 /\ b # Table0 /\ b # Table1 /\ Bare(m1[b])
    BY <1>0, <1>1, <1>2, <1>9 DEF i
  <2>2. m2[kernel_directory][i].frame = b
    BY <1>7, <1>8
  <2>3. i \in Index /\ m2 \in Memory /\ \A n \in Index \ {i} : m2[kernel_directory][n] = m1[kernel_directory][n]
    BY <1>0, <1>8
  <2>4. \A x \in Blocks \ {kernel_directory} : m2[x] = m1[x]
    BY <1>8
  <2> QED
    BY <1>4, <1>10, <2>1, <2>2, <2>3, <2>4, KernelMapTable, ZenonT(60)
<1>12. IsEntry(m2[kernel_directory][pd_index(page)]) /\ b = m2[kernel_directory][pd_index(page)].frame
  BY <1>7, <1>8 DEF i
<1>13. KernelMap(mem', T2, D) /\ page \notin Blocks /\ fault' = fault
  BY <1>0, <1>6, <1>7, <1>11, <1>12, SetEntrySoundly
<1> QED
  BY <1>13 DEF D


\* vmm_map_page, with no page mapped over physical memory.
LEMMA MapPageSoundly ==
    ASSUME VInv, VInv', KParts, fault = "none", NEW page \in VPages, NEW f \in Blocks,
           vmm_map_page(f, page, TRUE), overlay' = {},
           UNCHANGED slabVars, UNCHANGED <<directories, user_frames>>
    PROVE  /\ KernelMap(mem', TableBlocks', directories')
           /\ \/ fault' = "none"
              \/ fault' = "halted" /\ IdentityPages \subseteq bitmap'
<1> DEFINE i == pd_index(page)
<1> DEFINE pde == mem[kernel_directory][i]
<1>0. /\ i \in Index /\ Mapped(mem, kernel_directory) /\ DirectoryWord(mem, i) = pde
      /\ \A b \in Blocks : Reaches(mem, b) <=> b \in IdentityPages
      /\ \A b \in IdentityPages : At(mem, b) = b
      /\ KernelMap(mem, TableBlocks, directories) /\ IdentityPages \subseteq Blocks
  BY PageSplit, KernelPointers, IdentityFacts DEF KParts
<1>1. pde # Junk
  <2>1. ~IsEntry(Junk) /\ Junk # Absent
    BY WordsWritten DEF Junk, Absent
  <2> QED
    BY <1>0, <2>1 DEF KernelMap, DirectoryWords
<1>2. \/ pde = Absent /\ MapNewTable(f, page, TRUE)
      \/ IsEntry(pde) /\ MapThroughTable(pde, f, page, TRUE)
  BY <1>0, <1>1 DEF vmm_map_page
<1>3. CASE IsEntry(pde) /\ MapThroughTable(pde, f, page, TRUE)
  <2>1. KernelMap(mem', TableBlocks, directories) /\ page \notin Blocks /\ fault' = fault
    BY <1>3, ThroughTableSoundly
  <2>2. bitmap' = bitmap
    BY <1>3 DEF MapThroughTable, pmmVars
  <2> QED
    BY <1>0, <2>1, <2>2, KernelMapStays
<1>4. CASE pde = Absent /\ MapNewTable(f, page, TRUE)
  <2> DEFINE b == Pmm!bitmap_find_free
  <2>1. CASE b = Pmm!NotFound /\ UNCHANGED <<mem, fault, overlay>> /\ UNCHANGED pmmVars
    BY <1>0, <2>1, KernelMapStays DEF pmmVars
  <2>2. CASE /\ b # Pmm!NotFound /\ Pmm!TakeBlocks({b})
             /\ \/ NoPage(b) /\ Stop("halted")
                \/ OtherPage(b) /\ Stop("wild")
                \/ OwnPage(b) /\ SetEntry(NewTable(mem, b, page, TRUE), b, page, Entry(f, TRUE))
    <3>1. b \notin TableBlocks \cup directories \cup user_frames /\ b \in Blocks /\ b \in Frames
          /\ b \notin SlabPages /\ bitmap' = bitmap \cup {b}
      BY <2>2, FreshFrame
    <3>2. b \notin IdentityPages => IdentityPages \subseteq bitmap
      BY <2>2, UsedUp
    <3> HIDE DEF b
    <3>3. CASE NoPage(b) /\ Stop("halted")
      <4>1. KernelMap(mem', TableBlocks', directories')
        BY <1>0, <3>1, <3>3, KernelMapStays DEF Stop
      <4> QED
        BY <1>0, <3>1, <3>2, <3>3, <4>1 DEF Stop, NoPage
    <3>5. ~OtherPage(b)
      BY <1>0, <3>1 DEF OtherPage
    <3>4. CASE OwnPage(b) /\ SetEntry(NewTable(mem, b, page, TRUE), b, page, Entry(f, TRUE))
      <4>1. b \in IdentityPages
        BY <1>0, <3>1, <3>4 DEF OwnPage
      <4>2. Kept' = Kept \cup {b}
        BY <3>1, PagesUnmoved DEF Kept
      <4>3. TableBlocks' = TableBlocks \cup {b}
        BY <3>1, <4>2 DEF TableBlocks, Frames
      <4> DEFINE T2 == TableBlocks'
      <4> HIDE DEF T2
      <4>5. KernelMap(mem', T2, directories) /\ page \notin Blocks /\ fault' = fault
        <5>1. T2 = TableBlocks \cup {b}
          BY <4>3 DEF T2
        <5>2. mem[kernel_directory][pd_index(page)] = Absent /\ b \notin TableBlocks \cup directories
          BY <1>4, <3>1
        <5> QED
          BY <3>4, <4>1, <5>1, <5>2, NewTableSoundly
      <4> QED
        BY <1>0, <4>5 DEF T2
    <3> QED
      BY <2>2, <3>3, <3>4, <3>5
  <2> QED
    BY <1>4, <2>1, <2>2 DEF MapNewTable
<1> QED
  BY <1>2, <1>3, <1>4

\* A page of the call in progress is mapped.
LEMMA MapSoundly ==
    ASSUME VInv, VInv', KParts, MapPage, UNCHANGED slabVars, overlay' = {}
    PROVE  KParts'
<1> DEFINE f == job.got[job.i + 1]
<1> DEFINE page == job.first + job.i
<1>0. JobSound(job, user_frames) /\ MapInv(mem, TableBlocks, directories, user_frames, Pending(job), cr3)
  BY DEF VInv, MapsInv
<1>1. /\ fault = "none" /\ job.i < Len(job.got) /\ vmm_map_page(f, page, TRUE)
      /\ job' = MapNext(job) /\ UNCHANGED <<cr3, directories, user_frames>>
  BY DEF MapPage, MapNext
<1>2. 0 \notin user_frames /\ job \in JobRecord
  BY <1>0, MapParts DEF JobSound
<1>3. f \in Blocks /\ page \in VPages
  BY <1>0, <1>1, <1>2, MapSound
<1>4. /\ KernelMap(mem', TableBlocks', directories')
      /\ \/ fault' = "none"
         \/ fault' = "halted" /\ IdentityPages \subseteq bitmap'
  BY <1>1, <1>3, MapPageSoundly
<1> QED
  BY <1>1, <1>4, PagesUnmoved DEF KParts

\* A program is copied: no table and no directory is written.
LEMMA FinishSoundly ==
    ASSUME VInv, VInv', KParts, Finish, UNCHANGED slabVars
    PROVE  KParts'
<1>0. /\ KernelMap(mem, TableBlocks, directories)
      /\ MapInv(mem, TableBlocks, directories, user_frames, Pending(job), cr3)
  BY DEF VInv, MapsInv, KParts
<1>1. /\ fault = "none" /\ UNCHANGED <<cr3, directories, user_frames, overlay>> /\ UNCHANGED pmmVars
  BY DEF Finish, Stop
<1>2. KernelMap(mem', TableBlocks, directories) /\ fault' \in {"none", "nopage", "overrun"}
  <2>1. CASE mem' = mem /\ fault' \in {"nopage", "overrun"}
    BY <1>0, <2>1
  <2>2. CASE /\ CopiedBlocks \subseteq user_frames \cup {0}
             /\ mem' = [b \in Blocks |-> IF b \in CopiedBlocks THEN Fill(Junk) ELSE mem[b]]
             /\ fault' = fault
    <3>1. Fill(Junk) \in [Index -> Word] /\ mem \in Memory
      BY <1>0, WordsWritten DEF MapInv
    <3> DEFINE m2 == mem'
    <3>2. m2 \in Memory /\ \A b \in Blocks : m2[b] = mem[b] \/ b \in user_frames \cup {0}
      BY <2>2, <3>1 DEF Memory
    <3> HIDE DEF m2
    <3>3. \A b \in TableBlocks \cup directories : m2[b] = mem[b]
      BY <1>0, <3>2, MapParts
    <3>4. KernelMap(m2, TableBlocks, directories)
      BY <1>0, <3>2, <3>3, KernelMapOther
    <3> QED
      BY <1>1, <2>2, <3>4 DEF m2
  <2> QED
    BY <2>1, <2>2 DEF Finish, Stop
<1>3. KernelMap(mem', TableBlocks', directories')
  BY <1>1, <1>2, KernelMapStays DEF pmmVars
<1> QED
  BY <1>1, <1>2, <1>3, PagesUnmoved DEF KParts

\* vmm_unmap_page, for a page above physical memory.
LEMMA UnmapSoundly ==
    ASSUME VInv, VInv', KParts, UnmapPage(UserStackTop - 1), UNCHANGED slabVars, overlay' = {}
    PROVE  KParts'
<1> DEFINE page == UserStackTop - 1
<1> DEFINE pde == mem[kernel_directory][pd_index(page)]
<1>1. /\ fault = "none" /\ job = Idle /\ vmm_unmap_page(page)
      /\ UNCHANGED <<cr3, directories, job, user_frames>> /\ UNCHANGED pmmVars
  BY DEF UnmapPage
<1>2. page \in VPages
  BY StackTop
<1> HIDE DEF page
<1>3. /\ pd_index(page) \in Index /\ Mapped(mem, kernel_directory) /\ DirectoryWord(mem, pd_index(page)) = pde
      /\ KernelMap(mem, TableBlocks, directories) /\ cr3 \in directories \cap IdentityPages
  BY <1>2, PageSplit, KernelPointers DEF KParts
<1>4. pde # Junk
  <2>1. ~IsEntry(Junk) /\ Junk # Absent
    BY WordsWritten DEF Junk, Absent
  <2> QED
    BY <1>3, <2>1 DEF KernelMap, DirectoryWords
<1>5. KernelMap(mem', TableBlocks, directories) /\ fault' = fault
  <2>1. CASE UNCHANGED <<mem, fault>>
    BY <1>3, <2>1
  <2>2. CASE IsEntry(pde) /\ SetEntry(mem, pde.frame, page, Absent)
    <3>1. Absent \in Word
      BY WordsWritten
    <3> QED
      BY <1>2, <1>3, <2>2, <3>1, SetEntrySoundly
  <2> QED
    BY <1>1, <1>3, <1>4, <2>1, <2>2 DEF vmm_unmap_page
<1>6. KernelMap(mem', TableBlocks', directories')
  BY <1>1, <1>5, KernelMapStays DEF pmmVars
<1> QED
  BY <1>1, <1>5, <1>6, PagesUnmoved DEF KParts

\* vmm_switch_directory: every directory runs the kernel.
LEMMA SwitchSoundly ==
    ASSUME VInv, VInv', KParts, NEW dir \in directories, vmm_switch_directory(dir), UNCHANGED slabVars
    PROVE  KParts'
<1>1. fault = "none" /\ UNCHANGED <<mem, directories, job, user_frames, overlay>> /\ UNCHANGED pmmVars
  BY DEF vmm_switch_directory
<1>2. dir \in IdentityPages /\ KernelMap(mem, TableBlocks, directories)
  BY <1>1 DEF KParts
<1>3. RunsKernel(dir)
  <2>1. \A page \in IdentityPages : Hardware(mem, dir, page) = Entry(page, FALSE)
    BY <1>2, KernelMapWalk
  <2>2. 0..Reserved - 1 \subseteq IdentityPages
    BY SizeFacts DEF Reserved, IdentityPages
  <2> QED
    BY <2>1, <2>2 DEF RunsKernel, Entry
<1>4. cr3' = dir /\ fault' = fault
  BY <1>3 DEF vmm_switch_directory
<1>5. KernelMap(mem', TableBlocks', directories')
  BY <1>1, <1>2, KernelMapStays DEF pmmVars
<1> QED
  BY <1>1, <1>2, <1>4, <1>5, PagesUnmoved DEF KParts

\* vmm_clone_directory: the copy is made below 8 MB, or there is no block left there.
LEMMA CloneSoundly ==
    ASSUME VInv, VInv', KParts, vmm_clone_directory, UNCHANGED slabVars
    PROVE  KParts'
<1> DEFINE b == Pmm!bitmap_find_free
<1>0. /\ KernelMap(mem, TableBlocks, directories) /\ Mapped(mem, kernel_directory)
      /\ At(mem, kernel_directory) = kernel_directory /\ mem \in Memory /\ kernel_directory \in Blocks
      /\ \A x \in Blocks : Reaches(mem, x) <=> x \in IdentityPages
      /\ \A x \in IdentityPages : At(mem, x) = x
  <2>1. KernelMap(mem, TableBlocks, directories)
    BY DEF KParts
  <2> QED
    BY <2>1, KernelPointers, KernelMapParts, IdentityFacts, SizeFacts
<1>a. Source = mem[kernel_directory] /\ \A i \in Index : Source[i] # Junk
  <2>1. Source = mem[kernel_directory] /\ DirectoryWords(mem)
    BY <1>0 DEF Source, KernelMap
  <2>2. ~IsEntry(Junk) /\ Junk # Absent
    BY WordsWritten DEF Junk, Absent
  <2> QED
    BY <2>1, <2>2 DEF DirectoryWords
<1>b. b \in Blocks
  BY FreshFrame DEF vmm_clone_directory
<1>1. /\ fault = "none" /\ b # Pmm!NotFound /\ Pmm!TakeBlocks({b})
      /\ UNCHANGED <<cr3, job, user_frames, overlay>>
      /\ \/ /\ Reaches(mem, b) /\ fault' = fault /\ directories' = directories \cup {b}
            /\ mem' = [mem EXCEPT ![b] = CloneOf(Source)]
         \/ ~Reaches(mem, b) /\ mem' = mem /\ fault' = "halted" /\ directories' = directories
  <2>1. Junk \notin {Source[i] : i \in 0..PageWords - 1}
    BY <1>a DEF Index
  <2>2. ~OtherPage(b)
    BY <1>0, <1>b DEF OtherPage
  <2> QED
    BY <1>0, <2>1, <2>2 DEF vmm_clone_directory, Stop, OwnPage, NoPage
<1>2. b \notin TableBlocks \cup directories \cup user_frames /\ b \in Blocks /\ bitmap' = bitmap \cup {b}
  BY <1>1, FreshFrame
<1>3. b \notin IdentityPages => IdentityPages \subseteq bitmap
  BY <1>1, UsedUp
<1> HIDE DEF b
<1>4. Kept \subseteq Kept' /\ TableBlocks \subseteq TableBlocks'
  <2>1. Kept \subseteq Kept'
    BY <1>2, PagesUnmoved DEF Kept
  <2> QED
    BY <1>1, <1>2, <2>1 DEF TableBlocks
<1>5. CASE /\ Reaches(mem, b) /\ fault' = fault /\ directories' = directories \cup {b}
           /\ mem' = [mem EXCEPT ![b] = CloneOf(Source)]
  <2>1. b \in IdentityPages
    BY <1>0, <1>2, <1>5
  <2>2. CloneOf(Source) = mem[kernel_directory]
    BY <1>0, <1>a DEF CloneOf, Memory, Index
  <2>3. mem' = [mem EXCEPT ![b] = mem[kernel_directory]]
    BY <1>5, <2>2
  <2>4. KernelMap(mem', TableBlocks, directories')
    BY <1>0, <1>2, <1>5, <2>3, KernelMapCopy
  <2>5. KernelMap(mem', TableBlocks', directories')
    <3>1. MapInv(mem', TableBlocks', directories', user_frames', Pending(job'), cr3')
      BY DEF VInv, MapsInv
    <3>2. TableBlocks' \subseteq Blocks /\ directories' \subseteq Blocks /\ TableBlocks' \cap directories' = {}
      BY <3>1, MapParts
    <3> HIDE DEF TableBlocks
    <3> QED
      BY <1>4, <2>4, <3>2, KernelMapMore
  <2> QED
    BY <1>1, <1>5, <2>1, <2>5, PagesUnmoved DEF KParts
<1>6. CASE ~Reaches(mem, b) /\ mem' = mem /\ fault' = "halted" /\ directories' = directories
  <2>1. b \notin IdentityPages
    BY <1>0, <1>2, <1>6
  <2>2. (directories' \cup user_frames') \cap TableBlocks = {} /\ directories' \cap IdentityPages \subseteq directories
    BY <1>1, <1>6 DEF TableBlocks
  <2>3. KernelMap(mem, TableBlocks', directories')
    BY <1>0, <1>4, <1>6, <2>2, KernelMapGrows
  <2> QED
    BY <1>1, <1>2, <1>3, <1>6, <2>1, <2>3, PagesUnmoved DEF KParts
<1> QED
  BY <1>1, <1>5, <1>6


\* The slab allocator's pointers reach its slabs, and a new one below 8 MB.
LEMMA SlabPointers ==
    ASSUME VInv, KParts, SlabNext
    PROVE  \/ fault' = "none" /\ bitmap' \ bitmap \subseteq IdentityPages
           \/ /\ fault' = "halted" /\ UNCHANGED slabVars
              /\ IdentityPages \subseteq bitmap' \/ NoObjectFits
<1> DEFINE Goal == \/ fault' = "none" /\ bitmap' \ bitmap \subseteq IdentityPages
                   \/ /\ fault' = "halted" /\ UNCHANGED slabVars
                      /\ IdentityPages \subseteq bitmap' \/ NoObjectFits
<1>0. /\ \A b \in Blocks : Reaches(mem, b) <=> b \in IdentityPages
      /\ \A b \in IdentityPages : At(mem, b) = b
      /\ SlabPages \subseteq IdentityPages /\ IdentityPages \subseteq Blocks /\ IInv
  BY KernelPointers, IdentityFacts DEF KParts, VInv
<1>1. \A b \in IdentityPages : ~NoPage(b) /\ ~OtherPage(b)
  BY <1>0 DEF NoPage, OtherPage
<1>2. ASSUME NEW c \in Caches, kmem_cache_alloc(c) PROVE Goal
  <2>0. fault = "none"
    BY <1>2 DEF kmem_cache_alloc
  <2>1. CASE AllocFails(c)
    BY <2>0, <2>1 DEF AllocFails, vmmVars, pmmVars
  <2>2. CASE AllocExisting(c)
    <3> DEFINE b == Candidate(cache[c])
    <3>1. b \in IdentityPages
      BY <1>0, <2>2, CandidateListed DEF AllocExisting
    <3>2. ~NoPage(b) /\ ~OtherPage(b)
      BY <1>1, <3>1
    <3>3. fault' = fault /\ bitmap' = bitmap
      BY <2>2, <3>2 DEF AllocExisting, AllocFrom, vmmVars, pmmVars
    <3> QED
      BY <2>0, <3>3
  <2>3. CASE AllocFromNew(c)
    <3> DEFINE b == Pmm!bitmap_find_free
    <3>1. b # Pmm!NotFound /\ Pmm!TakeBlocks({b})
      BY <2>3 DEF AllocFromNew
    <3>2. b \in Blocks /\ bitmap' = bitmap \cup {b}
      BY <3>1, FreshFrame
    <3>3. b \notin IdentityPages => IdentityPages \subseteq bitmap
      BY <3>1, UsedUp
    <3>4. \/ NoPage(b) /\ StopSlab("halted")
          \/ OtherPage(b) /\ StopSlab("wild")
          \/ calculate_objects_per_slab(cache[c]) = 0 /\ StopSlab("halted")
          \/ OwnPage(b) /\ fault' = fault
      BY <2>3 DEF AllocFromNew, AllocFrom
    <3> HIDE DEF b
    <3>5. CASE NoPage(b) /\ StopSlab("halted")
      BY <1>1, <3>2, <3>3, <3>5 DEF StopSlab
    <3>6. ~OtherPage(b)
      BY <1>0, <3>2 DEF OtherPage
    <3>7. CASE calculate_objects_per_slab(cache[c]) = 0 /\ StopSlab("halted")
      BY <3>7 DEF StopSlab, NoObjectFits
    <3>8. CASE OwnPage(b) /\ fault' = fault
      BY <1>0, <2>0, <3>2, <3>8 DEF OwnPage
    <3> QED
      BY <3>4, <3>5, <3>6, <3>7, <3>8
  <2> QED
    BY <1>2, <2>1, <2>2, <2>3 DEF kmem_cache_alloc
<1>3. ASSUME NEW c \in Caches, NEW b, NEW i, kmem_cache_free(c, b, i) PROVE Goal
  <2>1. b \in SlabPages
    BY <1>3 DEF kmem_cache_free, SlabPages, SlabsOf
  <2>2. ~NoPage(b) /\ ~OtherPage(b)
    BY <1>0, <1>1, <2>1
  <2> QED
    BY <1>3, <2>2 DEF kmem_cache_free, vmmVars, pmmVars
<1>4. ASSUME NEW c \in Caches, NEW B, DestroySlabs(B), fault = "none", UNCHANGED vmmVars PROVE Goal
  <2>1. bitmap' = bitmap \ B
    BY <1>4 DEF DestroySlabs, Pmm!GiveBack
  <2> QED
    BY <1>4, <2>1 DEF vmmVars
<1>5. ASSUME NEW c \in Caches, NEW size \in Sizes, kmem_cache_create(c, size) PROVE Goal
  BY <1>5 DEF kmem_cache_create, vmmVars, pmmVars
<1> HIDE DEF Goal
<1>6. Goal
  BY <1>2, <1>3, <1>4, <1>5 DEF SlabNext, kmem_cache_destroy, kmem_cache_shrink
<1> QED
  BY <1>6 DEF Goal

\* Every step of the slab allocator.
LEMMA SlabSoundly ==
    ASSUME VInv, VInv', KParts, SlabNext
    PROVE  KParts'
<1>1. SlabEffect /\ fault = "none"
  BY SlabNextEffect
<1>2. \/ fault' = "none" /\ bitmap' \ bitmap \subseteq IdentityPages
      \/ /\ fault' = "halted" /\ UNCHANGED slabVars
         /\ IdentityPages \subseteq bitmap' \/ NoObjectFits
  BY SlabPointers
<1>3. SlabPages' \subseteq IdentityPages
  BY <1>1, <1>2, PagesUnmoved DEF SlabEffect, KParts
<1>4. fault' = "halted" => (IdentityPages \subseteq bitmap \/ NoObjectFits)'
  BY <1>2 DEF NoObjectFits, slabVars
<1>5. KernelMap(mem', TableBlocks, directories)
  <2>1. KernelMap(mem, TableBlocks, directories)
    BY DEF KParts
  <2>2. ASSUME NEW b \in Blocks \ (TableBlocks \cup directories), mem' = [mem EXCEPT ![b] = Fill(Junk)]
        PROVE  KernelMap(mem', TableBlocks, directories)
    <3> DEFINE m2 == [mem EXCEPT ![b] = Fill(Junk)]
    <3>1. mem \in Memory /\ Fill(Junk) \in [Index -> Word] /\ TableBlocks \cup directories \subseteq Blocks
      BY <2>1, KernelMapParts, WordsWritten
    <3>2. m2 \in Memory /\ \A d \in TableBlocks \cup directories : m2[d] = mem[d]
      BY <3>1 DEF Memory
    <3> HIDE DEF m2
    <3>3. KernelMap(m2, TableBlocks, directories)
      BY <2>1, <3>2, KernelMapOther
    <3> QED
      BY <2>2, <3>3 DEF m2
  <2> QED
    BY <1>1, <2>1, <2>2 DEF SlabEffect
<1>6. KernelMap(mem', TableBlocks', directories')
  <2>1. /\ Kept \subseteq Kept' /\ (directories' \cup user_frames') \cap TableBlocks = {}
        /\ directories \subseteq directories' /\ directories' \cap IdentityPages \subseteq directories
        /\ directories' = directories
    BY <1>1 DEF SlabEffect, TableBlocks
  <2> DEFINE m2 == mem'
  <2> HIDE DEF m2
  <2>2. KernelMap(m2, TableBlocks', directories')
    BY <1>5, <2>1, KernelMapGrows DEF m2
  <2> QED
    BY <2>2 DEF m2
<1> QED
  BY <1>1, <1>2, <1>3, <1>4, <1>6 DEF KParts, SlabEffect


\* vmm_init and slab_init.
LEMMA InitSoundly == Init => KParts
<1> SUFFICES ASSUME Init PROVE KParts
  OBVIOUS
<1>0. /\ SlabPages = {} /\ TableBlocks = {Table0, Table1} /\ directories = {kernel_directory}
      /\ cr3 = kernel_directory /\ job = Idle /\ fault = "none" /\ mem \in Memory
      /\ mem[kernel_directory][0] = Entry(Table0, FALSE) /\ mem[kernel_directory][1] = Entry(Table1, FALSE)
      /\ \A i \in Index : i # 0 /\ i # 1 => mem[kernel_directory][i] = Absent
      /\ \A t \in {Table0, Table1}, i \in Index : mem[t][i] = Entry((t - Table0) * PageWords + i, FALSE)
  BY InitMemory
<1>1. /\ PageWords \in Nat /\ kernel_directory = PageWords /\ Table0 = PageWords + 1 /\ Table1 = PageWords + 2
      /\ kernel_directory \in Blocks /\ Table0 \in Blocks /\ Table1 \in Blocks /\ 0 \in Index /\ 1 \in Index
  BY SizeFacts
<1>2. Table0 # Table1 /\ kernel_directory # Table0 /\ kernel_directory # Table1
  BY <1>1
<1>3. /\ \A f \in {Table0, Table1} : IsEntry(Entry(f, FALSE)) /\ Entry(f, FALSE).frame = f
      /\ ~IsEntry(Absent) /\ Absent.frame \notin Blocks
  BY <1>1, SizeFacts, WordsWritten DEF Entry, IsEntry
<1>4. IdentityTables(mem)
  <2> SUFFICES ASSUME NEW i \in Index
               PROVE  mem[Table0][i] = Entry(i, FALSE) /\ mem[Table1][i] = Entry(PageWords + i, FALSE)
    BY DEF IdentityTables
  <2>1. Table0 - Table0 = 0 /\ Table1 - Table0 = 1 /\ i \in Int
    BY <1>1 DEF Index
  <2>2. 0 * PageWords + i = i /\ 1 * PageWords + i = PageWords + i
    BY <1>1, <2>1
  <2> QED
    BY <1>0, <2>1, <2>2
<1> DEFINE row == mem[kernel_directory]
<1>5. row[0].frame = Table0 /\ row[1].frame = Table1 /\ \A i \in Index : i # 0 /\ i # 1 => row[i] = Absent
  BY <1>0, <1>3
<1>6. IsDirectory(row, TableBlocks) /\ DirectoryWords(mem)
  <2>1. DirectoryWords(mem)
    <3>1. Table0 \in IdentityPages /\ Table1 \in IdentityPages
      BY IdentityFacts
    <3> QED
      BY <1>0, <1>3, <1>5, <3>1 DEF DirectoryWords
  <2> HIDE DEF row
  <2>2. \A i \in Index : IsEntry(row[i]) => i = 0 \/ i = 1
    BY <1>3, <1>5
  <2>3. \A i \in Index : row[i].frame \in Blocks => i = 0 \/ i = 1
    BY <1>3, <1>5
  <2>4. IsDirectory(row, TableBlocks)
    BY <1>0, <1>1, <1>2, <1>5, <2>2, <2>3 DEF IsDirectory
  <2> QED
    BY <2>1, <2>4
<1>7. NothingOver(mem)
  <2> SUFFICES ASSUME NEW i \in Index, NEW j \in Index, IsEntry(mem[kernel_directory][i]),
                      i * PageWords + j \in Blocks \ IdentityPages
               PROVE  FALSE
    BY DEF NothingOver
  <2>1. i = 0 \/ i = 1
    BY <1>3, <1>5
  <2> DEFINE page == i * PageWords + j
  <2>2. page \in VPages /\ pd_index(page) = i
    BY PageSplit
  <2> HIDE DEF page
  <2>3. page \in IdentityPages
    BY <2>1, <2>2, IdentityFacts
  <2> QED
    BY <2>3 DEF page
<1>8. SharedBy(mem, kernel_directory)
  BY <1>5 DEF SharedBy
<1>9. KernelMap(mem, TableBlocks, directories)
  BY <1>0, <1>1, <1>2, <1>4, <1>6, <1>7, <1>8 DEF KernelMap
<1> QED
  BY <1>0, <1>9, IdentityFacts DEF KParts

\* overlay is never forgotten.
LEMMA OverlayGrows == VInv /\ [Next]_vars => overlay \subseteq overlay'
<1> SUFFICES ASSUME VInv, [Next]_vars PROVE overlay \subseteq overlay'
  OBVIOUS
<1>1. ASSUME NEW m, NEW t, NEW page, NEW w, SetEntry(m, t, page, w) PROVE overlay \subseteq overlay'
  BY <1>1 DEF SetEntry
<1>2. ASSUME NEW f, NEW page, vmm_map_page(f, page, TRUE) PROVE overlay \subseteq overlay'
  BY <1>1, <1>2 DEF vmm_map_page, MapNewTable, MapThroughTable, Stop
<1>3. ASSUME NEW page, vmm_unmap_page(page) PROVE overlay \subseteq overlay'
  BY <1>1, <1>3 DEF vmm_unmap_page, Stop
<1>4. ASSUME VmmNext PROVE overlay \subseteq overlay'
  <2>1. MapPage => overlay \subseteq overlay'
    BY <1>2 DEF MapPage
  <2>2. \A page : UnmapPage(page) => overlay \subseteq overlay'
    BY <1>3 DEF UnmapPage
  <2>3. process_create_user \/ elf_load \/ elf_exec => overlay' = overlay
    BY DEF process_create_user, elf_load, elf_exec, Begin
  <2>4. AllocPage \/ Finish \/ vmm_clone_directory => overlay' = overlay
    BY DEF AllocPage, Finish, vmm_clone_directory, Stop
  <2>5. \A dir : vmm_switch_directory(dir) => overlay' = overlay
    BY DEF vmm_switch_directory
  <2> QED
    BY <1>4, <2>1, <2>2, <2>3, <2>4, <2>5 DEF VmmNext
<1>5. ASSUME SlabNext PROVE overlay' = overlay
  BY <1>5, SlabNextEffect DEF SlabEffect
<1> QED
  BY <1>4, <1>5 DEF Next, Halted, vars

\* Every step.
LEMMA NextSoundly == VInv /\ VInv' /\ KInv /\ [Next]_vars => KInv'
<1> SUFFICES ASSUME VInv, VInv', KInv, [Next]_vars, overlay' = {} PROVE KParts'
  BY DEF KInv
<1>0. KParts
  BY OverlayGrows DEF KInv
<1>1. ASSUME UNCHANGED vars PROVE KParts'
  <2>1. UNCHANGED slabVars /\ UNCHANGED <<mem, cr3, directories, job, fault, user_frames, bitmap>>
    BY <1>1 DEF vars, slabVars
  <2>2. KernelMap(mem', TableBlocks', directories')
    BY <1>0, <2>1, KernelMapStays DEF KParts
  <2>3. NoObjectFits' = NoObjectFits
    BY <2>1 DEF NoObjectFits, slabVars
  <2> QED
    BY <1>0, <2>1, <2>2, <2>3, PagesUnmoved DEF KParts
<1>2. ASSUME VmmNext, UNCHANGED slabVars PROVE KParts'
  <2>1. CASE process_create_user \/ elf_load \/ elf_exec
    BY <1>0, <1>2, <2>1, BeginSoundly
  <2>2. CASE AllocPage
    BY <1>0, <1>2, <2>2, AllocSoundly
  <2>3. CASE MapPage
    BY <1>0, <1>2, <2>3, MapSoundly
  <2>4. CASE Finish
    BY <1>0, <1>2, <2>4, FinishSoundly
  <2>5. CASE UnmapPage(UserStackTop - 1)
    BY <1>0, <1>2, <2>5, UnmapSoundly
  <2>6. CASE vmm_clone_directory
    BY <1>0, <1>2, <2>6, CloneSoundly
  <2>7. ASSUME NEW dir \in directories, vmm_switch_directory(dir) PROVE KParts'
    BY <1>0, <1>2, <2>7, SwitchSoundly
  <2> QED
    BY <1>2, <2>1, <2>2, <2>3, <2>4, <2>5, <2>6, <2>7 DEF VmmNext
<1>3. ASSUME SlabNext PROVE KParts'
  BY <1>0, <1>3, SlabSoundly
<1> QED
  BY <1>1, <1>2, <1>3 DEF Next, Halted

(***************************************************************************)
(* KernelMapSound, for every size of memory: as long as no call has mapped *)
(* a page over the addresses of physical memory, the identity map stands   *)
(* in every directory vmm_clone_directory made, vmm_map_page reads what    *)
(* the processor walks, and a pointer of the kernel's fails only when the  *)
(* blocks below 8 MB are used up or no object fits a slab.                 *)
(***************************************************************************)
THEOREM KernelMapStaysSound == Spec => []KernelMapSound
<1>1. VInv /\ KInv => KernelMapSound
  <2> SUFFICES ASSUME VInv, KParts PROVE
        /\ \A dir \in directories, page \in IdentityPages : Hardware(mem, dir, page) = Entry(page, FALSE)
        /\ \A page \in UNION {PagesOf(i) : i \in PresentIn(kernel_directory)} :
              vmm_get_physical_address(page).frame = Hardware(mem, kernel_directory, page).frame
    BY DEF KInv, KernelMapSound, KParts, NoObjectFits
  <2>0. KernelMap(mem, TableBlocks, directories)
    BY DEF KParts
  <2>1. ASSUME NEW dir \in directories, NEW page \in IdentityPages
        PROVE  Hardware(mem, dir, page) = Entry(page, FALSE)
    BY <2>0, KernelMapWalk DEF KParts
  <2>2. ASSUME NEW i \in PresentIn(kernel_directory), NEW page \in PagesOf(i)
        PROVE  vmm_get_physical_address(page).frame = Hardware(mem, kernel_directory, page).frame
    <3>1. i \in Index /\ IsEntry(mem[kernel_directory][i])
      BY DEF PresentIn, Index
    <3>2. pd_index(page) = i /\ pt_index(page) \in Index
      <4>1. PageWords \in Nat /\ i \in Nat /\ i < PageWords
        BY <3>1, SizeFacts DEF Index
      <4> DEFINE n == i * PageWords
      <4> DEFINE n2 == (i + 1) * PageWords
      <4>2. n \in Nat /\ n2 = n + PageWords
        BY <4>1
      <4>3. page \in n..n2 - 1
        BY DEF PagesOf
      <4> HIDE DEF n, n2
      <4>4. page \in n..n + PageWords - 1
        BY <4>1, <4>2, <4>3
      <4> DEFINE j == page - n
      <4>5. j \in Index /\ page = n + j
        BY <4>1, <4>2, <4>4 DEF Index
      <4> HIDE DEF j
      <4>6. pd_index(i * PageWords + j) = i /\ pt_index(i * PageWords + j) = j
        BY <3>1, <4>5, PageSplit
      <4> QED
        BY <4>5, <4>6 DEF n
    <3> DEFINE pde == mem[kernel_directory][i]
    <3>3. pde.frame \in IdentityPages /\ pde.frame \in Blocks /\ \A b \in Blocks, k \in Index : mem[b][k] \in Word
      BY <2>0, <3>1, KernelMapParts
    <3>4. DirectoryWord(mem, i) = pde /\ At(mem, pde.frame) = pde.frame
      BY <3>1, <3>3, KernelPointers
    <3> DEFINE pte == mem[pde.frame][pt_index(page)]
    <3>5. vmm_get_physical_address(page) = pte
      BY <3>1, <3>2, <3>4 DEF vmm_get_physical_address
    <3>6. Hardware(mem, kernel_directory, page) = [pte EXCEPT !.user = @ /\ pde.user]
      BY <3>1, <3>2 DEF Hardware
    <3>7. pte \in Word
      BY <3>2, <3>3
    <3> HIDE DEF pte, pde
    <3> QED
      BY <3>5, <3>6, <3>7 DEF Word
  <2> QED
    BY <2>1, <2>2
<1>2. Init => KInv
  BY InitSoundly DEF KInv
<1>3. Spec => []KInv
  BY <1>2, MapInvariant, NextSoundly, PTL DEF Spec
<1> QED
  BY <1>1, <1>3, MapInvariant, PTL

=============================================================================
