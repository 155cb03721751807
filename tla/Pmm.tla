-------------------------------- MODULE Pmm --------------------------------
(***************************************************************************)
(* The physical memory manager, kernel/pmm.c: one bit per 4 KB block.      *)
(*                                                                         *)
(* The bitmap is the set of blocks whose bit is set.  Every function is    *)
(* one step; memory addresses are block numbers, except in                 *)
(* pmm_reserve_region, whose rounding is kept.                             *)
(*                                                                         *)
(* owners and pinned are history variables: how many callers were given a  *)
(* block and have not given it back, and the blocks pmm_reserve_region     *)
(* took.                                                                   *)
(***************************************************************************)
EXTENDS Integers, FiniteSets

CONSTANTS
    TotalBlocks,    \* total_blocks after pmm_init: 32768 for 128 MB
    Reserved,       \* blocks pmm_init takes for the kernel: 1024
    WordBits,       \* bits in an entry of pmm_bitmap: 32
    Words,          \* BITMAP_SIZE
    BlockSize,      \* PMM_BLOCK_SIZE
    Counts,         \* block counts asked for
    Regions         \* <<start, size>> arguments of pmm_reserve_region, in bytes

(***************************************************************************)
(* pmm_init caps total_blocks at the size of the bitmap; it marks the      *)
(* first 1024 blocks without looking at total_blocks, which is right as    *)
(* long as there are that many.                                            *)
(***************************************************************************)
ASSUME PmmAssumption ==
    /\ TotalBlocks \in Nat /\ Reserved \in Nat /\ WordBits \in Nat \ {0} /\ Words \in Nat
    /\ Reserved <= TotalBlocks
    /\ TotalBlocks <= Words * WordBits
    /\ BlockSize \in Nat \ {0}
    /\ Counts \subseteq Nat
    /\ Regions \subseteq Nat \X Nat

VARIABLES bitmap, used_blocks, owners, pinned

vars == <<bitmap, used_blocks, owners, pinned>>

Blocks == 0..TotalBlocks - 1

KernelBlocks == 0..Reserved - 1

held == {block \in Blocks : owners[block] > 0}

NotFound == -1      \* 0xFFFFFFFF, no block number

Least(S) == CHOOSE x \in S : \A y \in S : x <= y

-----------------------------------------------------------------------------
BitsOf(word) == word * WordBits .. word * WordBits + WordBits - 1

\* The entries of pmm_bitmap that are not 0xFFFFFFFF.
WordsWithRoom == {word \in 0..Words - 1 : \E bit \in BitsOf(word) : bit \notin bitmap}

\* Mutant of bitmap_find_free: only the first entry of pmm_bitmap is searched.
FindFreeFirstWordOnly ==
    LET room == {bit \in BitsOf(0) : bit < TotalBlocks /\ bit \notin bitmap}
    IN  IF room = {} THEN NotFound ELSE Least(room)

\* Within an entry the scan stops at a bit past total_blocks or at a clear one.
bitmap_find_free ==
    IF WordsWithRoom = {} THEN NotFound
    ELSE LET stop == Least({bit \in BitsOf(Least(WordsWithRoom)) :
                              bit >= TotalBlocks \/ bit \notin bitmap})
         IN  IF stop >= TotalBlocks THEN NotFound ELSE stop

Run(start, count) == start .. start + count - 1

\* Where a run of count clear bits below total_blocks starts.
Starts(count) == {start \in Blocks : Run(start, count) \subseteq Blocks \ bitmap}

bitmap_find_free_contiguous(count) ==
    IF Starts(count) = {} THEN NotFound ELSE Least(Starts(count))

\* The loop of a mutant: the run is not restarted at a used block.
ScanNeverRestarts[i \in 0..TotalBlocks] ==
    IF i = 0 THEN [found |-> 0, start |-> 0]
    ELSE LET s == ScanNeverRestarts[i - 1]
         IN  IF i - 1 \in bitmap THEN s
             ELSE [found |-> s.found + 1, start |-> IF s.found = 0 THEN i - 1 ELSE s.start]

\* The loop of bitmap_find_free_contiguous: found and start after it has
\* looked at bits 0 .. i-1.
Scan[i \in 0..TotalBlocks] ==
    IF i = 0 THEN [found |-> 0, start |-> 0]
    ELSE LET s == Scan[i - 1]
         IN  IF i - 1 \in bitmap THEN [s EXCEPT !.found = 0]
             ELSE [found |-> s.found + 1, start |-> IF s.found = 0 THEN i - 1 ELSE s.start]

\* Mutant of ScanResult, over ScanNeverRestarts.
ScanResultGaps(count) ==
    LET hits == {i \in 0..TotalBlocks : ScanNeverRestarts[i].found = count}
    IN  IF hits = {} THEN NotFound ELSE ScanNeverRestarts[Least(hits)].start

\* The loop returns the first time found reaches count.
ScanResult(count) ==
    LET hits == {i \in 0..TotalBlocks : Scan[i].found = count}
    IN  IF hits = {} THEN NotFound ELSE Scan[Least(hits)].start

-----------------------------------------------------------------------------
\* Mutant of TakeBlocks: a multi-block request is counted as one block.
TakeBlocksCountOne(blocks) ==
    /\ bitmap' = bitmap \cup blocks
    /\ used_blocks' = used_blocks + 1
    /\ owners' = [b \in Blocks |-> IF b \in blocks THEN owners[b] + 1 ELSE owners[b]]
    /\ UNCHANGED pinned

\* The blocks are marked used and counted; the caller gets them.
TakeBlocks(blocks) ==
    /\ bitmap' = bitmap \cup blocks
    /\ used_blocks' = used_blocks + Cardinality(blocks)
    /\ owners' = [b \in Blocks |-> IF b \in blocks THEN owners[b] + 1 ELSE owners[b]]
    /\ UNCHANGED pinned

pmm_alloc_block ==
    \/ bitmap_find_free = NotFound /\ UNCHANGED vars
    \/ bitmap_find_free # NotFound /\ TakeBlocks({bitmap_find_free})

pmm_alloc_blocks(count) ==
    \/ count = 0 /\ UNCHANGED vars
    \/ count = 1 /\ pmm_alloc_block
    \/ count > 1 /\ bitmap_find_free_contiguous(count) = NotFound /\ UNCHANGED vars
    \/ count > 1 /\ bitmap_find_free_contiguous(count) # NotFound
                 /\ TakeBlocks(Run(bitmap_find_free_contiguous(count), count))

\* pmm_free_block on each of the blocks: a clear bit is left alone.
GiveBack(blocks) ==
    /\ bitmap' = bitmap \ blocks
    /\ used_blocks' = used_blocks - Cardinality(blocks \cap bitmap)
    /\ owners' = [b \in Blocks |-> IF b \in blocks THEN 0 ELSE owners[b]]
    /\ UNCHANGED pinned

\* Mutant of pmm_free_blocks: the loop runs once too often.
FreeBlocksOneTooMany(start, count) ==
    /\ Run(start, count) \subseteq Blocks
    /\ Run(start, count) \cap bitmap \subseteq held
    /\ GiveBack(Run(start, count + 1))

\* A caller gives back a run of its blocks, some of them perhaps twice.
pmm_free_blocks(start, count) ==
    /\ Run(start, count) \subseteq Blocks
    /\ Run(start, count) \cap bitmap \subseteq held
    /\ GiveBack(Run(start, count))

pmm_free_block(block) ==
    /\ block \in held \cup (Blocks \ bitmap)
    /\ GiveBack({block})

(***************************************************************************)
(* start is rounded down and size up, so the last block of an unaligned    *)
(* region may be left out.                                                 *)
(***************************************************************************)
RegionBlocks(start, size) ==
    Run(start \div BlockSize, (size + BlockSize - 1) \div BlockSize) \cap Blocks

\* Mutant of pmm_reserve_region: takes blocks that are in use.
ReserveTakesUsed(start, size) ==
    /\ bitmap' = bitmap \cup RegionBlocks(start, size)
    /\ used_blocks' = used_blocks + Cardinality(RegionBlocks(start, size))
    /\ pinned' = pinned \cup RegionBlocks(start, size)
    /\ UNCHANGED owners

pmm_reserve_region(start, size) ==
    LET fresh == RegionBlocks(start, size) \ bitmap
    IN  /\ bitmap' = bitmap \cup fresh
        /\ used_blocks' = used_blocks + Cardinality(fresh)
        /\ pinned' = pinned \cup fresh
        /\ UNCHANGED owners

-----------------------------------------------------------------------------
\* pmm_init
Init ==
    /\ bitmap = KernelBlocks
    /\ used_blocks = Reserved
    /\ owners = [b \in Blocks |-> 0]
    /\ pinned = {}

Next ==
    \/ pmm_alloc_block
    \/ \E count \in Counts : pmm_alloc_blocks(count)
    \/ \E block \in Blocks : pmm_free_block(block)
    \/ \E start \in Blocks, count \in Counts : pmm_free_blocks(start, count)
    \/ \E region \in Regions : pmm_reserve_region(region[1], region[2])

Spec == Init /\ [][Next]_vars

-----------------------------------------------------------------------------
(***************************************************************************)
(* Properties.                                                             *)
(***************************************************************************)

\* The bits set are bits of blocks that exist, so bitmap_find_free never
\* hands out a block past total_blocks.
TypeOK ==
    /\ bitmap \subseteq Blocks
    /\ owners \in [Blocks -> Nat]
    /\ pinned \subseteq Blocks
    /\ used_blocks \in Nat

(***************************************************************************)
(* used_blocks, which the shell's memory commands report and               *)
(* pmm_get_free_memory subtracts, is the number of bits set, whatever mix  *)
(* of single, contiguous, repeated and overlapping requests came before.   *)
(***************************************************************************)
UsedIsExact == used_blocks = Cardinality(bitmap)

(***************************************************************************)
(* The bits set are exactly the kernel's blocks, the blocks callers hold   *)
(* and the reserved regions: no block leaks, and a block somebody uses is  *)
(* never free for the next request.                                        *)
(***************************************************************************)
BlocksAccounted == bitmap = KernelBlocks \cup held \cup pinned

(***************************************************************************)
(* No block has two users: it is handed to one caller at a time, and       *)
(* never while it is the kernel's or in a reserved region.                 *)
(***************************************************************************)
OneOwner ==
    /\ \A block \in Blocks : owners[block] <= 1
    /\ held \cap pinned = {}
    /\ (held \cup pinned) \cap KernelBlocks = {}

(***************************************************************************)
(* The word-by-word search finds a block whenever one is free, and the     *)
(* lowest one.                                                             *)
(***************************************************************************)
FindsLowestFree ==
    /\ bitmap_find_free = NotFound <=> Blocks \subseteq bitmap
    /\ bitmap_find_free # NotFound =>
          /\ bitmap_find_free \in Blocks \ bitmap
          /\ 0..bitmap_find_free - 1 \subseteq bitmap

(***************************************************************************)
(* The single pass of bitmap_find_free_contiguous returns the lowest run   *)
(* of free blocks that is long enough, and fails only if there is none.    *)
(***************************************************************************)
ScanFindsLowestRun ==
    \A count \in Counts \ {0} : ScanResult(count) = bitmap_find_free_contiguous(count)
=============================================================================
