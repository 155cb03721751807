-------------------------------- MODULE Heap --------------------------------
(***************************************************************************)
(* The kernel heap, kernel/memory.c: a list of blocks, each a header       *)
(* followed by its bytes, that starts as one free block.                   *)
(*                                                                         *)
(* Addresses are offsets from HEAP_START.  Every function is one step.     *)
(* size_t does not wrap: requests are sizes of structures, 4096, 8192 and  *)
(* lengths of buffers that are in memory already.                          *)
(*                                                                         *)
(* lent is a history variable: the size asked for, by pointer a caller has *)
(* got from kmalloc and not yet given to kfree.                            *)
(***************************************************************************)
EXTENDS Integers

CONSTANTS
    HeapSize,   \* HEAP_SIZE
    Header,     \* sizeof(heap_block_t): 12
    Align,      \* 16
    MinSplit,   \* a block is split when more than this is left over: 16
    Sizes       \* sizes asked for

ASSUME HeapAssumption ==
    /\ HeapSize \in Nat /\ Header \in Nat \ {0} /\ Align \in Nat \ {0} /\ MinSplit \in Nat
    /\ Header <= HeapSize
    /\ Sizes \subseteq Nat

VARIABLES
    blocks,     \* the headers in the list, by address
    lent

vars == <<blocks, lent>>

Nil == -1       \* NULL, no offset into the heap

HeapBlock == [size : Nat, is_free : BOOLEAN, next : Int]

Starts == DOMAIN blocks

\* The first byte after a block.
End(block) == block + Header + blocks[block].size

-----------------------------------------------------------------------------
\* Mutant of Aligned: rounds down.
AlignedDown(size) == (size \div Align) * Align

\* (size + 15) & ~15
Aligned(size) == ((size + (Align - 1)) \div Align) * Align

Fits(size) == {block \in Starts : blocks[block].is_free /\ blocks[block].size >= size}

\* The walk along next meets the blocks in the order of their addresses.
FirstFit(size) == CHOOSE block \in Fits(size) : \A other \in Fits(size) : block <= other

\* Mutant of Walk: the size is not compared.
WalkAnyFree(size) ==
    LET walk[b \in Starts \cup {Nil}] ==
          IF b = Nil THEN Nil
          ELSE IF blocks[b].is_free THEN b
          ELSE walk[blocks[b].next]
    IN  walk[0]

\* kmalloc's loop: from heap_head along next to the first free block that is
\* large enough.
Walk(size) ==
    LET walk[b \in Starts \cup {Nil}] ==
          IF b = Nil THEN Nil
          ELSE IF blocks[b].is_free /\ blocks[b].size >= size THEN b
          ELSE walk[blocks[b].next]
    IN  walk[0]

CanSplit(block, size) == blocks[block].size > size + Header + MinSplit

\* The block is cut to size; what is left becomes a free block after it.
Split(block, size) ==
    LET new_block == block + Header + size
    IN  blocks' = [b \in Starts \cup {new_block} |->
            IF b = block
            THEN [size |-> size, is_free |-> FALSE, next |-> new_block]
            ELSE IF b = new_block
            THEN [size |-> blocks[block].size - size - Header, is_free |-> TRUE,
                  next |-> blocks[block].next]
            ELSE blocks[b]]

TakeWhole(block) == blocks' = [blocks EXCEPT ![block].is_free = FALSE]

Lend(ptr, size) ==
    lent' = [p \in DOMAIN lent \cup {ptr} |-> IF p = ptr THEN size ELSE lent[p]]

\* kmalloc on the block the walk stops at.
Allocate(block, size) ==
    /\ \/ CanSplit(block, Aligned(size)) /\ Split(block, Aligned(size))
       \/ ~CanSplit(block, Aligned(size)) /\ TakeWhole(block)
    /\ Lend(block + Header, size)

kmalloc(size) ==
    \/ Fits(Aligned(size)) = {} /\ UNCHANGED vars
    \/ Fits(Aligned(size)) # {} /\ Allocate(FirstFit(Aligned(size)), size)

-----------------------------------------------------------------------------
\* Mutant of MergesWithNext: is_free of the next block is not tested.
MergesAlways(block) == blocks[block].next # Nil

MergesWithNext(block) ==
    blocks[block].next # Nil /\ blocks[blocks[block].next].is_free

\* Mutant of Merge: the bytes of the absorbed header are lost.
MergeLosesHeader(block) ==
    LET after == blocks[block].next
    IN  blocks' = [b \in Starts \ {after} |->
            IF b = block
            THEN [size |-> blocks[block].size + blocks[after].size,
                  is_free |-> TRUE, next |-> blocks[after].next]
            ELSE blocks[b]]

Merge(block) ==
    LET after == blocks[block].next
    IN  blocks' = [b \in Starts \ {after} |->
            IF b = block
            THEN [size |-> blocks[block].size + Header + blocks[after].size,
                  is_free |-> TRUE, next |-> blocks[after].next]
            ELSE blocks[b]]

Release(block) == blocks' = [blocks EXCEPT ![block].is_free = TRUE]

\* Only a pointer that kmalloc returned is freed, and once.
kfree(ptr) ==
    /\ \/ MergesWithNext(ptr - Header) /\ Merge(ptr - Header)
       \/ ~MergesWithNext(ptr - Header) /\ Release(ptr - Header)
    /\ lent' = [p \in DOMAIN lent \ {ptr} |-> lent[p]]

-----------------------------------------------------------------------------
\* heap_init
Init ==
    /\ blocks = [b \in {0} |-> [size |-> HeapSize - Header, is_free |-> TRUE, next |-> Nil]]
    /\ lent = [p \in {} |-> 0]

Next ==
    \/ \E size \in Sizes : kmalloc(size)
    \/ \E ptr \in DOMAIN lent : kfree(ptr)

Spec == Init /\ [][Next]_vars

-----------------------------------------------------------------------------
(***************************************************************************)
(* Properties.                                                             *)
(***************************************************************************)

\* Headers hold values of their fields' types.
TypeOK ==
    /\ Starts \subseteq Nat
    /\ blocks \in [Starts -> HeapBlock]
    /\ DOMAIN lent \subseteq Nat
    /\ lent \in [DOMAIN lent -> Nat]

(***************************************************************************)
(* The list tiles the heap, whatever mix of splits and merges came before: *)
(* it starts at heap_head, every block ends where its next begins, the     *)
(* last one at the end of the heap, and no two blocks overlap.             *)
(***************************************************************************)
Tiling ==
    /\ 0 \in Starts
    /\ \A b \in Starts : IF blocks[b].next = Nil THEN End(b) = HeapSize
                         ELSE blocks[b].next \in Starts /\ End(b) = blocks[b].next
    /\ \A b \in Starts : End(b) <= HeapSize
    /\ \A b, c \in Starts : b < c => End(b) <= c

(***************************************************************************)
(* The blocks not free are exactly those callers hold: none leaks, and a   *)
(* block in use is not merged into its neighbour.                          *)
(***************************************************************************)
UsedIsLent ==
    /\ \A ptr \in DOMAIN lent : ptr - Header \in Starts /\ ~blocks[ptr - Header].is_free
    /\ \A b \in Starts : ~blocks[b].is_free => b + Header \in DOMAIN lent

(***************************************************************************)
(* A caller's block has the bytes it asked for, and at most the padding of *)
(* one alignment and one unsplit remainder more.                           *)
(***************************************************************************)
LentFits ==
    \A ptr \in DOMAIN lent :
        /\ blocks[ptr - Header].size >= lent[ptr]
        /\ blocks[ptr - Header].size <= Aligned(lent[ptr]) + Header + MinSplit

(***************************************************************************)
(* What callers write to is theirs alone: the bytes two callers asked for  *)
(* do not overlap, lie inside the heap, and hold no header of the list.    *)
(***************************************************************************)
PayloadsDisjoint ==
    \A ptr \in DOMAIN lent :
        /\ ptr + lent[ptr] <= HeapSize
        /\ \A other \in DOMAIN lent : ptr < other => ptr + lent[ptr] <= other
        /\ \A b \in Starts : ~(ptr - Header < b /\ b < ptr + lent[ptr])

(***************************************************************************)
(* The loop ends, finds a block whenever the list has one that fits, and   *)
(* then the one at the lowest address (memory.c:31-50).                    *)
(***************************************************************************)
WalkFindsFirstFit ==
    \A size \in Sizes :
        Walk(Aligned(size)) = IF Fits(Aligned(size)) = {} THEN Nil ELSE FirstFit(Aligned(size))
=============================================================================
