----------------------------- MODULE PmmProofs -----------------------------
(***************************************************************************)
(* Proofs about Pmm, for every size of memory and of the bitmap's words.   *)
(*                                                                         *)
(* The inductive invariant is the conjunction of the properties the runs   *)
(* check: UsedIsExact needs the blocks handed out to have been free, which *)
(* is what the searches promise; OneOwner needs BlocksAccounted, because   *)
(* a clear bit only means "no owner" when every owned block has its bit    *)
(* set.                                                                    *)
(***************************************************************************)
EXTENDS Pmm, FiniteSetTheorems, WellFoundedInduction, TLAPS

Inv == TypeOK /\ OneOwner /\ BlocksAccounted /\ UsedIsExact

-----------------------------------------------------------------------------
(***************************************************************************)
(* Least, the first index at which a scanning loop of pmm.c stops, exists  *)
(* whenever the loop stops at all.                                         *)
(***************************************************************************)
LEMMA LeastIsMember ==
    ASSUME NEW S \in SUBSET Nat, S # {}
    PROVE  Least(S) \in S /\ \A y \in S : Least(S) <= y
<1> DEFINE R == {ss \in Nat \X Nat : ss[1] < ss[2]}
<1>1. IsWellFoundedOn(R, Nat)
  BY NatLessThanWellFounded DEF OpToRel
<1>a. \A y, z \in Nat : y < z => <<y, z>> \in R
  OBVIOUS
<1> HIDE DEF R
<1>2. PICK x \in S : \A y \in S : ~(<<y, x>> \in R)
  BY <1>1, WFMin
<1>3. \A y \in S : x <= y
  <2> TAKE y \in S
  <2>1. x \in Nat /\ y \in Nat
    OBVIOUS
  <2>2. ~(y < x)
    BY <1>2, <1>a, <2>1, Zenon
  <2> QED
    BY <2>1, <2>2
<1> QED
  BY <1>3 DEF Least

(***************************************************************************)
(* Bit b is bit b % 32 of entry b / 32: every bit lies in the entry that   *)
(* bitmap_set and bitmap_test compute for it.                              *)
(***************************************************************************)
LEMMA WordOfBit ==
    ASSUME NEW bit \in Nat, bit < Words * WordBits
    PROVE  \E word \in 0..Words - 1 : bit \in BitsOf(word)
<1> DEFINE word == bit \div WordBits
<1>1. WordBits \in Nat /\ WordBits > 0 /\ Words \in Nat
  BY PmmAssumption
<1>2. /\ word \in Nat
      /\ bit % WordBits \in 0..WordBits - 1
      /\ bit = WordBits * word + (bit % WordBits)
  BY <1>1
<1>3. word < Words
  BY <1>1, <1>2
<1>4. word \in 0..Words - 1
  BY <1>1, <1>2, <1>3
<1> HIDE DEF word
<1>5. bit \in BitsOf(word)
  BY <1>1, <1>2 DEF BitsOf
<1> QED
  BY <1>4, <1>5

\* The entries of pmm_bitmap cover consecutive, disjoint ranges of bits.
LEMMA WordOrder ==
    ASSUME NEW v \in Nat, NEW w \in Nat, NEW W \in Nat \ {0}
    PROVE  /\ v * W < w * W + W => v <= w
           /\ v < w => v * W + W <= w * W
<1>1. ASSUME v > w PROVE v * W >= w * W + W
  <2> DEFINE d == v - w - 1
  <2>1. d \in Nat /\ v = w + 1 + d
    BY <1>1
  <2> HIDE DEF d
  <2>2. v * W = w * W + W + d * W /\ d * W >= 0
    BY <2>1
  <2> QED
    BY <2>1, <2>2
<1>2. ASSUME v < w PROVE v * W + W <= w * W
  <2> DEFINE d == w - v - 1
  <2>1. d \in Nat /\ w = v + 1 + d
    BY <1>2
  <2> HIDE DEF d
  <2>2. w * W = v * W + W + d * W /\ d * W >= 0
    BY <2>1
  <2> QED
    BY <2>1, <2>2
<1> QED
  BY <1>1, <1>2

(***************************************************************************)
(* bitmap_find_free scans entry by entry and compares with total_blocks    *)
(* only inside an entry that has room; it still finds the lowest free      *)
(* block below total_blocks exactly when there is one.                     *)
(***************************************************************************)
THEOREM FindFreeCorrect ==
    ASSUME TypeOK
    PROVE  FindsLowestFree
<1> USE PmmAssumption
<1> DEFINE bits == Words * WordBits
<1>0. WordBits \in Nat \ {0} /\ Words \in Nat /\ TotalBlocks \in Nat /\ TotalBlocks <= bits
  OBVIOUS
<1>1. CASE WordsWithRoom = {}
  <2>1. bitmap_find_free = NotFound
    BY <1>1 DEF bitmap_find_free
  <2>2. Blocks \subseteq bitmap
    <3> SUFFICES ASSUME NEW bit \in Blocks PROVE bit \in bitmap
      OBVIOUS
    <3>1. bit \in Nat /\ bit < bits
      BY <1>0 DEF Blocks
    <3>2. PICK word \in 0..Words - 1 : bit \in BitsOf(word)
      BY <3>1, WordOfBit
    <3> QED
      BY <1>1, <3>2 DEF WordsWithRoom
  <2> QED
    BY <2>1, <2>2 DEF FindsLowestFree
<1>2. CASE WordsWithRoom # {}
  <2> DEFINE w == Least(WordsWithRoom)
  <2> DEFINE S == {bit \in BitsOf(w) : bit >= TotalBlocks \/ bit \notin bitmap}
  <2> DEFINE stop == Least(S)
  <2>1. bitmap_find_free = IF stop >= TotalBlocks THEN NotFound ELSE stop
    BY <1>2 DEF bitmap_find_free
  <2>2. w \in WordsWithRoom /\ \A v \in WordsWithRoom : w <= v
    <3>1. WordsWithRoom \in SUBSET Nat
      BY <1>0 DEF WordsWithRoom
    <3> QED
      BY <1>2, <3>1, LeastIsMember
  <2>3. w \in Nat /\ w < Words /\ \E bit \in BitsOf(w) : bit \notin bitmap
    BY <2>2, <1>0 DEF WordsWithRoom
  <2> HIDE DEF w
  <2>4. S \in SUBSET Nat /\ S # {}
    <3>1. w * WordBits \in Nat
      BY <2>3, <1>0
    <3> QED
      BY <3>1, <2>3, <1>0 DEF BitsOf
  <2>5. stop \in S /\ \A y \in S : stop <= y
    BY <2>4, LeastIsMember
  <2> HIDE DEF stop
  <2>6. stop \in Nat /\ stop \in BitsOf(w) /\ stop < bits
    <3>1. stop \in Nat /\ stop \in BitsOf(w)
      BY <2>4, <2>5
    <3>2. w * WordBits + WordBits <= bits
      BY <2>3, <1>0, WordOrder
    <3>3. w * WordBits \in Nat /\ bits \in Nat
      BY <2>3, <1>0
    <3> QED
      BY <3>1, <3>2, <3>3, <1>0 DEF BitsOf
  <2>7. \A bit \in 0..stop - 1 : bit \in bitmap
    <3> SUFFICES ASSUME NEW bit \in 0..stop - 1 PROVE bit \in bitmap
      OBVIOUS
    <3>1. bit \in Nat /\ bit < stop /\ bit < bits
      BY <2>6, <1>0
    <3>2. PICK v \in 0..Words - 1 : bit \in BitsOf(v)
      BY <3>1, WordOfBit
    <3>3. v <= w
      <4>1. v \in Nat /\ v * WordBits \in Nat /\ w * WordBits \in Nat
        BY <2>3, <1>0
      <4>2. v * WordBits < w * WordBits + WordBits
        BY <4>1, <3>1, <3>2, <2>6, <1>0 DEF BitsOf
      <4> QED
        BY <4>1, <4>2, <2>3, <1>0, WordOrder
    <3>4. CASE v = w
      BY <3>4, <3>1, <3>2, <2>5, <2>6
    <3>5. CASE v < w
      <4>1. v \notin WordsWithRoom
        BY <3>5, <2>2, <2>3, <1>0
      <4> QED
        BY <4>1, <3>2 DEF WordsWithRoom
    <3> QED
      BY <3>3, <3>4, <3>5, <2>3, <1>0
  <2>8. CASE stop >= TotalBlocks
    <3>1. Blocks \subseteq bitmap
      BY <2>8, <2>7, <2>6, <1>0 DEF Blocks
    <3> QED
      BY <3>1, <2>8, <2>1 DEF FindsLowestFree
  <2>9. CASE stop < TotalBlocks
    <3>1. bitmap_find_free = stop
      BY <2>9, <2>1, <2>6, <1>0
    <3>2. stop \in Blocks /\ stop \notin bitmap /\ stop # NotFound
      BY <2>9, <2>5, <2>6, <1>0 DEF Blocks, NotFound
    <3>3. 0..stop - 1 \subseteq bitmap
      BY <2>7
    <3> QED
      BY <3>1, <3>2, <3>3 DEF FindsLowestFree
  <2> QED
    BY <2>8, <2>9, <2>6, <1>0
<1> QED
  BY <1>1, <1>2

\* A run that bitmap_find_free_contiguous returns is a run of free blocks.
LEMMA ContiguousIsFree ==
    ASSUME NEW count \in Nat, bitmap_find_free_contiguous(count) # NotFound
    PROVE  Run(bitmap_find_free_contiguous(count), count) \in SUBSET (Blocks \ bitmap)
<1>1. Starts(count) \in SUBSET Nat /\ Starts(count) # {}
  BY PmmAssumption DEF Starts, Blocks, bitmap_find_free_contiguous
<1>2. bitmap_find_free_contiguous(count) \in Starts(count)
  BY <1>1, LeastIsMember DEF bitmap_find_free_contiguous
<1> QED
  BY <1>2 DEF Starts
-----------------------------------------------------------------------------
\* The bits of the blocks that exist can be counted.
LEMMA BlocksFinite ==
    /\ IsFiniteSet(Blocks)
    /\ \A S \in SUBSET Blocks : IsFiniteSet(S) /\ Cardinality(S) \in Nat
<1>1. IsFiniteSet(Blocks)
  BY PmmAssumption, FS_Interval DEF Blocks
<1> QED
  BY <1>1, FS_Subset, FS_CardinalityType

\* Adding free blocks to the bitmap adds their number to the count.
LEMMA CountAdded ==
    ASSUME NEW S \in SUBSET Blocks, NEW T \in SUBSET (Blocks \ S)
    PROVE  /\ Cardinality(S \cup T) = Cardinality(S) + Cardinality(T)
           /\ Cardinality(S \cup T) \in Nat
<1>1. S \cap T = {} /\ S \cup T \in SUBSET Blocks
  OBVIOUS
<1>2. IsFiniteSet(S) /\ IsFiniteSet(T) /\ Cardinality(S) \in Nat /\ Cardinality(T) \in Nat
  BY BlocksFinite
<1>3. Cardinality(S \cup T) = Cardinality(S) + Cardinality(T) - Cardinality(S \cap T)
  BY <1>2, FS_Union
<1>4. Cardinality(S \cap T) = 0
  BY <1>1, FS_EmptySet
<1> QED
  BY <1>2, <1>3, <1>4

\* pmm_alloc_block and pmm_alloc_blocks, once the search has found free blocks.
LEMMA TakePreserves ==
    ASSUME Inv, NEW blocks \in SUBSET (Blocks \ bitmap), TakeBlocks(blocks)
    PROVE  Inv'
<1> USE DEF Inv
<1>1. bitmap \in SUBSET Blocks /\ owners \in [Blocks -> Nat]
  BY DEF TypeOK
<1>2. /\ Cardinality(bitmap \cup blocks) = Cardinality(bitmap) + Cardinality(blocks)
      /\ Cardinality(bitmap \cup blocks) \in Nat
  BY <1>1, CountAdded
<1>3. UsedIsExact' /\ used_blocks' \in Nat
  BY <1>2 DEF UsedIsExact, TakeBlocks
<1>4. held' = held \cup blocks
  BY <1>1 DEF held, TakeBlocks
<1>5. \A b \in blocks : owners[b] = 0
  <2>1. \A b \in blocks : b \notin held
    BY DEF BlocksAccounted
  <2> QED
    BY <2>1, <1>1 DEF held
<1>6. TypeOK'
  BY <1>1, <1>3 DEF TypeOK, TakeBlocks
<1>7. BlocksAccounted'
  BY <1>4 DEF BlocksAccounted, TakeBlocks
<1>8. OneOwner'
  <2>1. \A b \in Blocks : owners'[b] <= 1
    BY <1>1, <1>5 DEF OneOwner, TakeBlocks
  <2>2. blocks \cap pinned = {} /\ blocks \cap KernelBlocks = {}
    BY DEF BlocksAccounted
  <2> QED
    BY <2>1, <2>2, <1>4 DEF OneOwner, TakeBlocks
<1> QED
  BY <1>3, <1>6, <1>7, <1>8

\* pmm_free_block and pmm_free_blocks, on blocks that callers hold or that
\* are free already.
LEMMA GiveBackPreserves ==
    ASSUME Inv, NEW blocks \in SUBSET Blocks, blocks \cap bitmap \subseteq held,
           GiveBack(blocks)
    PROVE  Inv'
<1> USE DEF Inv
<1>1. bitmap \in SUBSET Blocks /\ owners \in [Blocks -> Nat]
  BY DEF TypeOK
<1>2. /\ Cardinality(bitmap \ blocks) = Cardinality(bitmap) - Cardinality(bitmap \cap blocks)
      /\ Cardinality(bitmap \ blocks) \in Nat
  <2>1. IsFiniteSet(bitmap) /\ bitmap \ blocks \in SUBSET Blocks
    BY <1>1, BlocksFinite
  <2> QED
    BY <2>1, BlocksFinite, FS_Difference
<1>3. bitmap \cap blocks = blocks \cap bitmap
  OBVIOUS
<1>4. UsedIsExact' /\ used_blocks' \in Nat
  BY <1>2, <1>3 DEF UsedIsExact, GiveBack
<1>5. held' = held \ blocks
  BY <1>1 DEF held, GiveBack
<1>6. TypeOK'
  BY <1>1, <1>4 DEF TypeOK, GiveBack
<1>7. BlocksAccounted'
  <2>1. blocks \cap (KernelBlocks \cup pinned) = {}
    BY DEF BlocksAccounted, OneOwner
  <2> QED
    BY <2>1, <1>5 DEF BlocksAccounted, GiveBack
<1>8. OneOwner'
  <2>1. \A b \in Blocks : owners'[b] <= 1
    BY <1>1 DEF OneOwner, GiveBack
  <2> QED
    BY <2>1, <1>5 DEF OneOwner, GiveBack
<1> QED
  BY <1>4, <1>6, <1>7, <1>8

\* pmm_reserve_region, on any region of memory.
LEMMA ReservePreserves ==
    ASSUME Inv, NEW start \in Nat, NEW size \in Nat, pmm_reserve_region(start, size)
    PROVE  Inv'
<1> USE DEF Inv
<1> DEFINE fresh == RegionBlocks(start, size) \ bitmap
<1>1. bitmap \in SUBSET Blocks /\ fresh \in SUBSET (Blocks \ bitmap)
  BY DEF TypeOK, RegionBlocks
<1>2. /\ bitmap' = bitmap \cup fresh
      /\ used_blocks' = used_blocks + Cardinality(fresh)
      /\ pinned' = pinned \cup fresh
      /\ owners' = owners
  BY DEF pmm_reserve_region
<1> HIDE DEF fresh
<1>3. /\ Cardinality(bitmap \cup fresh) = Cardinality(bitmap) + Cardinality(fresh)
      /\ Cardinality(bitmap \cup fresh) \in Nat
  BY <1>1, CountAdded
<1>4. UsedIsExact' /\ used_blocks' \in Nat
  BY <1>2, <1>3 DEF UsedIsExact
<1>5. held' = held
  BY <1>2 DEF held
<1>6. TypeOK'
  BY <1>1, <1>2, <1>4 DEF TypeOK
<1>7. BlocksAccounted'
  BY <1>2, <1>5 DEF BlocksAccounted
<1>8. OneOwner'
  <2>1. fresh \cap held = {} /\ fresh \cap KernelBlocks = {}
    BY <1>1 DEF BlocksAccounted
  <2> QED
    BY <2>1, <1>2, <1>5 DEF OneOwner
<1> QED
  BY <1>4, <1>6, <1>7, <1>8

\* pmm_alloc_block as a whole, the failing search included.
LEMMA AllocBlockPreserves ==
    ASSUME Inv, pmm_alloc_block
    PROVE  Inv' \/ UNCHANGED vars
<1>1. CASE bitmap_find_free = NotFound /\ UNCHANGED vars
  BY <1>1
<1>2. CASE bitmap_find_free # NotFound /\ TakeBlocks({bitmap_find_free})
  <2>1. bitmap_find_free \in Blocks \ bitmap
    BY <1>2, FindFreeCorrect DEF Inv, FindsLowestFree
  <2> QED
    BY <2>1, <1>2, TakePreserves
<1> QED
  BY <1>1, <1>2 DEF pmm_alloc_block

\* pmm_init marks the kernel's blocks and counts them.
LEMMA InitInv == Init => Inv
<1> SUFFICES ASSUME Init PROVE Inv
  OBVIOUS
<1> USE PmmAssumption DEF Init
<1>1. KernelBlocks \subseteq Blocks
  BY DEF KernelBlocks, Blocks
<1>2. Cardinality(KernelBlocks) = Reserved
  BY FS_Interval DEF KernelBlocks
<1>3. held = {}
  BY DEF held
<1> QED
  BY <1>1, <1>2, <1>3 DEF Inv, TypeOK, OneOwner, BlocksAccounted, UsedIsExact

\* No call into pmm.c breaks the invariant.
LEMMA NextInv == Inv /\ [Next]_vars => Inv'
<1> SUFFICES ASSUME Inv, [Next]_vars PROVE Inv'
  OBVIOUS
<1>0. ASSUME UNCHANGED vars PROVE Inv'
  BY <1>0 DEF vars, Inv, TypeOK, OneOwner, BlocksAccounted, UsedIsExact, held
<1>1. CASE pmm_alloc_block
  BY <1>0, <1>1, AllocBlockPreserves
<1>2. ASSUME NEW count \in Counts, pmm_alloc_blocks(count) PROVE Inv'
  <2>1. count \in Nat
    BY PmmAssumption
  <2>2. CASE count > 1 /\ bitmap_find_free_contiguous(count) # NotFound
                      /\ TakeBlocks(Run(bitmap_find_free_contiguous(count), count))
    BY <2>1, <2>2, ContiguousIsFree, TakePreserves
  <2> QED
    BY <1>0, <1>1, <1>2, <2>2 DEF pmm_alloc_blocks
<1>3. ASSUME NEW block \in Blocks, pmm_free_block(block) PROVE Inv'
  <2>1. {block} \in SUBSET Blocks /\ {block} \cap bitmap \subseteq held
    BY <1>3 DEF pmm_free_block
  <2> QED
    BY <2>1, <1>3, GiveBackPreserves DEF pmm_free_block
<1>4. ASSUME NEW start \in Blocks, NEW count \in Counts, pmm_free_blocks(start, count)
      PROVE  Inv'
  BY <1>4, GiveBackPreserves DEF pmm_free_blocks
<1>5. ASSUME NEW region \in Regions, pmm_reserve_region(region[1], region[2])
      PROVE  Inv'
  <2>1. region[1] \in Nat /\ region[2] \in Nat
    BY PmmAssumption
  <2> QED
    BY <2>1, <1>5, ReservePreserves
<1> QED
  BY <1>0, <1>1, <1>2, <1>3, <1>4, <1>5 DEF Next

(***************************************************************************)
(* The four properties together, for every memory size: they are           *)
(* inductive only as a conjunction.                                        *)
(***************************************************************************)
THEOREM PmmSafe == Spec => []Inv
  BY InitInv, NextInv, PTL DEF Spec

\* The bits set are always bits of blocks that exist.
THEOREM PmmTypeOK == Spec => []TypeOK
<1>1. Inv => TypeOK
  BY DEF Inv
<1> QED
  BY <1>1, PmmSafe, PTL

\* No block is ever handed to two callers, to a caller and a reserved region,
\* or taken from the kernel's first 4 MB.
THEOREM PmmOneOwner == Spec => []OneOwner
<1>1. Inv => OneOwner
  BY DEF Inv
<1> QED
  BY <1>1, PmmSafe, PTL

\* The bitmap is exactly the kernel's, the callers' and the reserved blocks.
THEOREM PmmBlocksAccounted == Spec => []BlocksAccounted
<1>1. Inv => BlocksAccounted
  BY DEF Inv
<1> QED
  BY <1>1, PmmSafe, PTL

\* used_blocks is always the number of bits set.
THEOREM PmmUsedIsExact == Spec => []UsedIsExact
<1>1. Inv => UsedIsExact
  BY DEF Inv
<1> QED
  BY <1>1, PmmSafe, PTL

\* In every reachable state the search finds the lowest free block if there is one.
THEOREM PmmFindsLowestFree == Spec => []FindsLowestFree
<1>1. Inv => FindsLowestFree
  BY FindFreeCorrect DEF Inv
<1> QED
  BY <1>1, PmmSafe, PTL


-----------------------------------------------------------------------------
(***************************************************************************)
(* The loop of bitmap_find_free_contiguous.  Its recursive function exists *)
(* by induction over the bits looked at.  After i bits, found is the       *)
(* length of the run of clear bits that ends at bit i-1: the run starts at *)
(* bit 0 or behind a bit set, and that determines it.                      *)
(***************************************************************************)
LEMMA SetInduction ==
    ASSUME NEW S, 0 \in S, \A n \in Nat : n \in S => n + 1 \in S
    PROVE  \A n \in Nat : n \in S
<1> SUFFICES ASSUME Nat \ S # {} PROVE FALSE
  OBVIOUS
<1> DEFINE n == Least(Nat \ S)
<1>1. n \in Nat \ S /\ \A m \in Nat \ S : n <= m
  BY LeastIsMember
<1> HIDE DEF n
<1>2. n # 0 /\ n - 1 \in Nat
  BY <1>1
<1>3. n - 1 \in S
  BY <1>1, <1>2
<1> QED
  BY <1>1, <1>2, <1>3

ScanStep(scan, i) ==
    IF i = 0 THEN [found |-> 0, start |-> 0]
    ELSE IF i - 1 \in bitmap THEN [scan[i - 1] EXCEPT !.found = 0]
    ELSE [found |-> scan[i - 1].found + 1,
          start |-> IF scan[i - 1].found = 0 THEN i - 1 ELSE scan[i - 1].start]

Scanned(scan, k) == scan = [i \in 0..k |-> ScanStep(scan, i)]

LEMMA ScanExists == Scanned(Scan, TotalBlocks)
<1> DEFINE S == {k \in Nat : \E scan : Scanned(scan, k)}
<1>1. 0 \in S
  <2> DEFINE zero == [found |-> 0, start |-> 0]
             f == [i \in 0..0 |-> zero]
  <2>1. \A i \in 0..0 : ScanStep(f, i) = zero
    BY DEF ScanStep
  <2>2. Scanned(f, 0)
    BY <2>1 DEF Scanned
  <2> QED
    BY <2>2
<1>2. ASSUME NEW k \in Nat, k \in S PROVE k + 1 \in S
  <2>1. PICK f : Scanned(f, k)
    BY <1>2
  <2> DEFINE g == [i \in 0..k + 1 |-> IF i = k + 1 THEN ScanStep(f, i) ELSE f[i]]
             h == [i \in 0..k + 1 |-> ScanStep(g, i)]
  <2>2. ASSUME NEW i \in 0..k + 1 PROVE g[i] = h[i]
    <3>1. g[i] = ScanStep(f, i)
      BY <2>1 DEF Scanned
    <3>2. ScanStep(f, i) = ScanStep(g, i)
      <4>1. CASE i = 0
        BY <4>1 DEF ScanStep
      <4>2. CASE i # 0
        <5>1. g[i - 1] = f[i - 1]
          BY <4>2
        <5> HIDE DEF g
        <5> QED
          BY <5>1 DEF ScanStep
      <4> QED
        BY <4>1, <4>2
    <3>3. h[i] = ScanStep(g, i)
      OBVIOUS
    <3> QED
      BY <3>1, <3>2, <3>3
  <2>3. g = h
    <3> HIDE DEF g
    <3>1. g = [i \in 0..k + 1 |-> g[i]]
      BY DEF g
    <3> QED
      BY <2>2, <3>1
  <2>4. Scanned(g, k + 1)
    BY <2>3 DEF Scanned
  <2> QED
    BY <2>4
<1>3. \E scan : Scanned(scan, TotalBlocks)
  <2> HIDE DEF S
  <2>1. TotalBlocks \in S
    BY <1>1, <1>2, SetInduction, PmmAssumption
  <2> QED
    BY <2>1 DEF S
<1>4. Scan = CHOOSE scan : Scanned(scan, TotalBlocks)
  BY DEF Scan, Scanned, ScanStep
<1> QED
  BY <1>3, <1>4

\* The n bits before bit i are clear, and no longer run ends there.
EndsRun(i, n) ==
    /\ n \in 0..i
    /\ \A b \in i - n..i - 1 : b \notin bitmap
    /\ n = i \/ i - n - 1 \in bitmap

LEMMA RunIsUnique ==
    ASSUME NEW i \in Nat, NEW m, NEW n, EndsRun(i, m), EndsRun(i, n)
    PROVE  m = n
<1>1. m \in 0..i /\ n \in 0..i
  BY DEF EndsRun
<1>2. ASSUME NEW x \in 0..i, NEW y \in 0..i, EndsRun(i, x), EndsRun(i, y), x < y PROVE FALSE
  <2>1. i - x - 1 \in bitmap
    BY <1>2 DEF EndsRun
  <2>2. i - x - 1 \in i - y..i - 1
    BY <1>2
  <2> QED
    BY <2>1, <2>2, <1>2 DEF EndsRun
<1> QED
  BY <1>1, <1>2

LEMMA ScanFinds ==
    ASSUME NEW i \in 0..TotalBlocks
    PROVE  /\ EndsRun(i, Scan[i].found)
           /\ Scan[i].found # 0 => Scan[i].start = i - Scan[i].found
<1> DEFINE Holds(n) == /\ Scan[n] = [found |-> Scan[n].found, start |-> Scan[n].start]
                       /\ EndsRun(n, Scan[n].found)
                       /\ Scan[n].found # 0 => Scan[n].start = n - Scan[n].found
           S == {n \in Nat : n <= TotalBlocks => Holds(n)}
<1>1. \A n \in 0..TotalBlocks : Scan[n] = ScanStep(Scan, n)
  BY ScanExists DEF Scanned
<1>2. TotalBlocks \in Nat
  BY PmmAssumption
<1>3. 0 \in S
  <2>1. Scan[0] = [found |-> 0, start |-> 0]
    <3>1. 0 \in 0..TotalBlocks
      BY <1>2
    <3>2. Scan[0] = ScanStep(Scan, 0)
      BY <3>1, <1>1
    <3> QED
      BY <3>2 DEF ScanStep
  <2>2. EndsRun(0, 0)
    BY DEF EndsRun
  <2> QED
    BY <2>1, <2>2
<1>4. ASSUME NEW n \in Nat, n \in S PROVE n + 1 \in S
  <2> SUFFICES ASSUME n + 1 <= TotalBlocks PROVE Holds(n + 1)
    OBVIOUS
  <2> DEFINE s == Scan[n]
             t == Scan[n + 1]
  <2>1. Holds(n)
    BY <1>2, <1>4
  <2>2. t = IF n \in bitmap THEN [s EXCEPT !.found = 0]
            ELSE [found |-> s.found + 1, start |-> IF s.found = 0 THEN n ELSE s.start]
    <3>1. n + 1 \in 0..TotalBlocks /\ n + 1 # 0 /\ (n + 1) - 1 = n
      BY <1>2
    <3> QED
      BY <3>1, <1>1 DEF ScanStep
  <2> HIDE DEF s, t
  <2>3. /\ s = [found |-> s.found, start |-> s.start]
        /\ EndsRun(n, s.found) /\ (s.found # 0 => s.start = n - s.found)
    BY <2>1 DEF s
  <2>4. s.found \in 0..n /\ (\A b \in n - s.found..n - 1 : b \notin bitmap)
        /\ (s.found = n \/ n - s.found - 1 \in bitmap)
    BY <2>3 DEF EndsRun
  <2>5. CASE n \in bitmap
    <3>1. t = [found |-> 0, start |-> s.start]
      BY <2>2, <2>3, <2>5
    <3>2. EndsRun(n + 1, 0)
      BY <2>5 DEF EndsRun
    <3> QED
      BY <3>1, <3>2 DEF t
  <2>6. CASE n \notin bitmap
    <3> DEFINE from == IF s.found = 0 THEN n ELSE s.start
    <3>1. t = [found |-> s.found + 1, start |-> from]
      BY <2>2, <2>6
    <3>2. from = (n + 1) - (s.found + 1)
      BY <2>3, <2>4
    <3>3. EndsRun(n + 1, s.found + 1)
      <4>1. s.found + 1 \in 0..n + 1
        BY <2>4
      <4>2. \A b \in (n + 1) - (s.found + 1)..(n + 1) - 1 : b = n \/ b \in n - s.found..n - 1
        BY <2>4
      <4>3. (n + 1) - (s.found + 1) - 1 = n - s.found - 1
        BY <2>4
      <4>4. \A b \in (n + 1) - (s.found + 1)..(n + 1) - 1 : b \notin bitmap
        BY <4>2, <2>4, <2>6
      <4>5. s.found + 1 = n + 1 \/ (n + 1) - (s.found + 1) - 1 \in bitmap
        BY <4>3, <2>4
      <4> QED
        BY <4>1, <4>4, <4>5 DEF EndsRun
    <3> HIDE DEF from
    <3> QED
      BY <3>1, <3>2, <3>3 DEF t
  <2> QED
    BY <2>5, <2>6
<1> HIDE DEF Holds
<1>5. i \in S
  <2> HIDE DEF S
  <2> QED
    BY <1>2, <1>3, <1>4, SetInduction
<1> QED
  BY <1>2, <1>5 DEF Holds

(***************************************************************************)
(* Where found reaches count a run of count clear bits ends, and behind    *)
(* the start of every such run found reaches count by its end.             *)
(***************************************************************************)
LEMMA HitsAreRuns ==
    ASSUME TypeOK, NEW count \in Nat \ {0}
    PROVE  /\ \A i \in 0..TotalBlocks : Scan[i].found = count =>
                 i - count \in Starts(count) /\ Scan[i].start = i - count
           /\ \A start \in Starts(count) : \E i \in 0..TotalBlocks :
                 Scan[i].found = count /\ i <= start + count
<1>1. TotalBlocks \in Nat
  BY PmmAssumption
<1>2. ASSUME NEW i \in 0..TotalBlocks, Scan[i].found = count
      PROVE  i - count \in Starts(count) /\ Scan[i].start = i - count
  <2>1. EndsRun(i, count) /\ Scan[i].start = i - count
    BY <1>2, ScanFinds
  <2>2. i - count \in Blocks
    BY <2>1, <1>1 DEF EndsRun, Blocks
  <2>3. ASSUME NEW b \in Run(i - count, count) PROVE b \in Blocks \ bitmap
    <3>1. b \in i - count..i - 1
      BY <1>1 DEF Run
    <3>2. b \in Blocks
      BY <3>1, <2>2, <1>1 DEF Blocks
    <3> QED
      BY <3>1, <3>2, <2>1 DEF EndsRun
  <2> QED
    BY <2>1, <2>2, <2>3 DEF Starts
<1>3. ASSUME NEW start \in Starts(count)
      PROVE  \E i \in 0..TotalBlocks : Scan[i].found = count /\ i <= start + count
  <2>1. /\ start \in 0..TotalBlocks - 1
        /\ \A b \in start..start + count - 1 : b \in 0..TotalBlocks - 1 /\ b \notin bitmap
    BY DEF Starts, Blocks, Run
  <2> DEFINE end == start + count
  <2>2. end \in 0..TotalBlocks
    <3>1. end - 1 \in start..start + count - 1
      BY <2>1
    <3>2. end - 1 \in 0..TotalBlocks - 1
      BY <2>1, <3>1
    <3> QED
      BY <3>2, <2>1, <1>1
  <2> DEFINE n == Scan[end].found
             i == end - n + count
  <2>3. EndsRun(end, n)
    BY <2>2, ScanFinds
  <2>4. n \in 0..end /\ (\A b \in end - n..end - 1 : b \notin bitmap)
        /\ (n = end \/ end - n - 1 \in bitmap)
    BY <2>3 DEF EndsRun
  <2> HIDE DEF n
  <2>5. n >= count
    <3> SUFFICES ASSUME n < count PROVE FALSE
      BY <2>4, <2>2
    <3>1. end - n - 1 \in start..start + count - 1
      BY <2>1, <2>4
    <3>2. n # end
      BY <2>1
    <3> QED
      BY <3>1, <3>2, <2>1, <2>4
  <2>6. i \in 0..TotalBlocks /\ i <= start + count
    BY <2>1, <2>2, <2>4, <2>5, <1>1
  <2>7. EndsRun(i, count)
    <3>1. i - count = end - n /\ i - 1 <= end - 1 /\ count \in 0..i
      BY <2>1, <2>4, <2>5
    <3>2. \A b \in i - count..i - 1 : b \in end - n..end - 1
      BY <3>1, <2>1, <2>4, <2>6
    <3>3. count = i \/ i - count - 1 \in bitmap
      BY <3>1, <2>1, <2>4
    <3> QED
      BY <3>1, <3>2, <3>3, <2>4 DEF EndsRun
  <2>8. Scan[i].found = count
    <3>1. EndsRun(i, Scan[i].found)
      BY <2>6, ScanFinds
    <3>2. i \in Nat
      BY <2>6
    <3> HIDE DEF i
    <3> QED
      BY <3>1, <3>2, <2>7, RunIsUnique
  <2> QED
    BY <2>6, <2>8
<1> QED
  BY <1>2, <1>3

(***************************************************************************)
(* The single pass of bitmap_find_free_contiguous returns the lowest run   *)
(* of free blocks that is long enough, and fails only if there is none     *)
(* (pmm.c:49-64).                                                          *)
(***************************************************************************)
THEOREM PmmScanFindsLowestRun == Spec => []ScanFindsLowestRun
<1>1. TypeOK => ScanFindsLowestRun
  <2> SUFFICES ASSUME TypeOK, NEW count \in Counts \ {0}
               PROVE  ScanResult(count) = bitmap_find_free_contiguous(count)
    BY DEF ScanFindsLowestRun
  <2> DEFINE hits == {i \in 0..TotalBlocks : Scan[i].found = count}
             first == Least(hits)
             low == Least(Starts(count))
  <2>1. count \in Nat \ {0} /\ TotalBlocks \in Nat
    BY PmmAssumption
  <2>2. /\ \A i \in hits : i - count \in Starts(count) /\ Scan[i].start = i - count
        /\ \A start \in Starts(count) : \E i \in hits : i <= start + count
    BY <2>1, HitsAreRuns
  <2>3. hits \in SUBSET Nat /\ Starts(count) \in SUBSET Nat
    BY <2>1 DEF Starts, Blocks
  <2>4. ScanResult(count) = IF hits = {} THEN NotFound ELSE Scan[first].start
    BY DEF ScanResult
  <2>5. bitmap_find_free_contiguous(count) = IF Starts(count) = {} THEN NotFound ELSE low
    BY DEF bitmap_find_free_contiguous
  <2> HIDE DEF hits
  <2>6. hits = {} <=> Starts(count) = {}
    BY <2>2
  <2>7. ASSUME hits # {} PROVE Scan[first].start = low
    <3>1. first \in hits /\ \A i \in hits : first <= i
      BY <2>3, <2>7, LeastIsMember
    <3>2. low \in Starts(count) /\ \A s \in Starts(count) : low <= s
      BY <2>3, <2>6, <2>7, LeastIsMember
    <3> HIDE DEF first, low
    <3>3. PICK i \in hits : i <= low + count
      BY <2>2, <3>2
    <3>4. first - count \in Starts(count) /\ Scan[first].start = first - count
      BY <2>2, <3>1
    <3>5. low <= first - count /\ first <= i
      BY <3>1, <3>2, <3>4
    <3>6. first \in Nat /\ low \in Nat /\ i \in Nat
      BY <2>3, <3>1, <3>2
    <3>7. low = first - count
      BY <3>3, <3>5, <3>6, <2>1
    <3> QED
      BY <3>4, <3>7
  <2> QED
    BY <2>4, <2>5, <2>6, <2>7
<1> QED
  BY <1>1, PmmTypeOK, PTL

=============================================================================
