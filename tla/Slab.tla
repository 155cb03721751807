-------------------------------- MODULE Slab --------------------------------
(***************************************************************************)
(* The slab allocator, kernel/slab.c: caches of equal objects in one-block *)
(* slabs taken from the physical memory manager.                           *)
(*                                                                         *)
(* A slab is known by its block; its free list, kept in the objects        *)
(* themselves, is the sequence of their indexes.  The lists of a cache are *)
(* sequences with the list head's next first.  The slab's memory is used   *)
(* through the identity map, so every access goes through Vmm's walk.      *)
(* Descriptors come from kmalloc, which may fail at any call (external     *)
(* here; Heap has it).                                                     *)
(*                                                                         *)
(* lent is a history variable: the objects handed out and not given back.  *)
(***************************************************************************)
EXTENDS Vmm, SequencesExt

CONSTANTS
    Caches,
    Sizes,              \* sizes of objects caches are created for
    BlockBytes,         \* PMM_BLOCK_SIZE
    DescriptorBytes,    \* sizeof(slab_t)
    PointerBytes,       \* sizeof(void*), also sizeof(slab_obj_t)
    MaxSlabs            \* bound on the slabs of a cache

ASSUME SlabAssumption ==
    /\ Sizes \subseteq Nat
    /\ BlockBytes \in Nat /\ DescriptorBytes \in Nat /\ PointerBytes \in Nat \ {0}
    /\ DescriptorBytes < BlockBytes
    /\ MaxSlabs \in Nat

VARIABLES
    cache,      \* descriptor of each cache
    slab,       \* descriptor of the slab in each block
    lent

slabVars == <<cache, slab, lent>>

NoSlab == [objects |-> 0, inuse |-> 0, freelist |-> <<>>]

\* The size asked for, aligned, and at least a free-list pointer.
AlignedSize(size) ==
    LET aligned == ((size + PointerBytes - 1) \div PointerBytes) * PointerBytes
    IN  IF aligned < PointerBytes THEN PointerBytes ELSE aligned

NewCache(size) ==
    [live |-> TRUE, object_size |-> AlignedSize(size), num_active |-> 0, num_slabs |-> 0,
     full |-> <<>>, partial |-> <<>>, empty |-> <<>>]
NoCache == [NewCache(0) EXCEPT !.live = FALSE]

calculate_objects_per_slab(k) == (BlockBytes - DescriptorBytes) \div k.object_size

Objects(b) == {b} \X (1..slab[b].objects)

-----------------------------------------------------------------------------
StopSlab(how) ==
    /\ fault' = how
    /\ UNCHANGED <<mem, cr3, directories, job, user_frames, overlay>>
    /\ UNCHANGED slabVars

Unlink(k, b) ==
    [k EXCEPT !.full = RemoveFirst(@, b),
              !.partial = RemoveFirst(@, b),
              !.empty = RemoveFirst(@, b)]

\* Mutant of Place: a slab stays partial when its last object is taken.
PlaceNeverFull(k, b, inuse, objects) ==
    IF inuse = 0 THEN [Unlink(k, b) EXCEPT !.empty = <<b>> \o @]
    ELSE [Unlink(k, b) EXCEPT !.partial = <<b>> \o @]

\* list_del, then list_add to the list for that many objects in use.
Place(k, b, inuse, objects) ==
    CASE inuse = objects -> [Unlink(k, b) EXCEPT !.full = <<b>> \o @]
      [] inuse = 0 -> [Unlink(k, b) EXCEPT !.empty = <<b>> \o @]
      [] OTHER -> [Unlink(k, b) EXCEPT !.partial = <<b>> \o @]

\* Mutant of Pop: the object stays on the free list.
PopKeeps(s) == [s EXCEPT !.inuse = @ + 1]

\* obj = slab->freelist; slab->freelist = obj->next; slab->inuse++.
Pop(s) == [s EXCEPT !.inuse = @ + 1, !.freelist = Tail(@)]

\* k and s are the cache and slab b as they are when the object is taken;
\* the slab's block holds free-list links and objects, no page entries.
AllocFrom(c, k, s, b) ==
    /\ cache' = [cache EXCEPT ![c] = [Place(k, b, Pop(s).inuse, s.objects) EXCEPT !.num_active = @ + 1]]
    /\ slab' = [slab EXCEPT ![b] = Pop(s)]
    /\ lent' = lent \cup {<<b, Head(s.freelist)>>}
    /\ mem' = [mem EXCEPT ![b] = Fill(Junk)]
    /\ UNCHANGED <<cr3, directories, job, fault, user_frames, overlay>>

\* The slab kmem_cache_alloc looks at: the first partial, else the first empty.
Candidate(k) == IF k.partial # <<>> THEN Head(k.partial) ELSE Head(k.empty)
HasCandidate(k) == k.partial # <<>> \/ k.empty # <<>>

AllocExisting(c) ==
    LET b == Candidate(cache[c])
    IN  /\ HasCandidate(cache[c])
        /\ \/ slab[b].freelist = <<>> /\ UNCHANGED slabVars /\ UNCHANGED vmmVars
           \/ /\ slab[b].freelist # <<>>
              /\ \/ NoPage(b) /\ StopSlab("halted")
                 \/ OtherPage(b) /\ StopSlab("wild")
                 \/ OwnPage(b) /\ AllocFrom(c, cache[c], slab[b], b)
        /\ UNCHANGED pmmVars

(***************************************************************************)
(* slab_create, then the first object of the new slab.  With no object to  *)
(* a slab the loop that links the free list counts down from 0 - 1: it     *)
(* writes through all of memory until a page is missing.                   *)
(***************************************************************************)
AllocFromNew(c) ==
    LET b == Pmm!bitmap_find_free
        n == calculate_objects_per_slab(cache[c])
        s == [objects |-> n, inuse |-> 0, freelist |-> [i \in 1..n |-> i]]
        k == [cache[c] EXCEPT !.empty = <<b>> \o @, !.num_slabs = @ + 1]
    IN  /\ ~HasCandidate(cache[c])
        /\ cache[c].num_slabs < MaxSlabs
        /\ b # Pmm!NotFound
        /\ Pmm!TakeBlocks({b})
        /\ \/ NoPage(b) /\ StopSlab("halted")
           \/ OtherPage(b) /\ StopSlab("wild")
           \/ OwnPage(b) /\ n = 0 /\ StopSlab("halted")
           \/ OwnPage(b) /\ n > 0 /\ AllocFrom(c, k, s, b)

\* kmalloc or pmm_alloc_block failed: NULL, and nothing is kept.
AllocFails(c) ==
    /\ ~HasCandidate(cache[c])
    /\ UNCHANGED slabVars /\ UNCHANGED vmmVars /\ UNCHANGED pmmVars

kmem_cache_alloc(c) ==
    /\ fault = "none" /\ cache[c].live
    /\ AllocExisting(c) \/ AllocFromNew(c) \/ AllocFails(c)

-----------------------------------------------------------------------------
\* Mutant of FindSlab: only the full slabs are searched.
FindSlabFullOnly(c, b) == b \in ToSet(cache[c].full)

\* The search goes over the full and the partial slabs.
FindSlab(c, b) == b \in ToSet(cache[c].full) \cup ToSet(cache[c].partial)

\* A holder of an object gives it back.
kmem_cache_free(c, b, i) ==
    LET s == [slab[b] EXCEPT !.inuse = @ - 1, !.freelist = <<i>> \o @]
    IN  /\ fault = "none" /\ cache[c].live
        /\ <<b, i>> \in lent
        /\ b \in ToSet(cache[c].full) \cup ToSet(cache[c].partial) \cup ToSet(cache[c].empty)
        /\ \/ ~FindSlab(c, b) /\ lent' = lent \ {<<b, i>>} /\ UNCHANGED <<cache, slab>> /\ UNCHANGED vmmVars
           \/ FindSlab(c, b) /\ NoPage(b) /\ StopSlab("halted")
           \/ FindSlab(c, b) /\ OtherPage(b) /\ StopSlab("wild")
           \/ /\ FindSlab(c, b) /\ OwnPage(b)
              /\ slab' = [slab EXCEPT ![b] = s]
              /\ cache' = [cache EXCEPT ![c] =
                             [Place(cache[c], b, s.inuse, s.objects) EXCEPT !.num_active = @ - 1]]
              /\ lent' = lent \ {<<b, i>>}
              /\ UNCHANGED vmmVars
        /\ UNCHANGED pmmVars

\* slab_destroy on each of the slabs.
DestroySlabs(blocks) ==
    /\ Pmm!GiveBack(blocks)
    /\ slab' = [b \in Blocks |-> IF b \in blocks THEN NoSlab ELSE slab[b]]

SlabsOf(k) == ToSet(k.full) \cup ToSet(k.partial) \cup ToSet(k.empty)

\* Called, as its header asks, when every object has been given back.
kmem_cache_destroy(c) ==
    /\ fault = "none" /\ cache[c].live
    /\ \A object \in lent : object[1] \notin SlabsOf(cache[c])
    /\ DestroySlabs(SlabsOf(cache[c]))
    /\ cache' = [cache EXCEPT ![c] = NoCache]
    /\ UNCHANGED lent /\ UNCHANGED vmmVars

\* A failing kmalloc leaves the cache uncreated.
kmem_cache_create(c, size) ==
    /\ fault = "none" /\ ~cache[c].live
    /\ cache' = [cache EXCEPT ![c] = NewCache(size)]
    /\ UNCHANGED <<slab, lent>> /\ UNCHANGED vmmVars /\ UNCHANGED pmmVars

\* Mutant of Shrunk: every empty slab goes, and the count of slabs does not follow.
ShrunkAll(k) == [k EXCEPT !.empty = <<>>]

\* The cache keeps the last of its empty slabs.
Shrunk(k) == [k EXCEPT !.empty = <<Last(@)>>, !.num_slabs = @ - (Len(k.empty) - 1)]

kmem_cache_shrink(c) ==
    /\ fault = "none" /\ cache[c].live
    /\ Len(cache[c].empty) > 1
    /\ DestroySlabs(ToSet(Front(cache[c].empty)))
    /\ cache' = [cache EXCEPT ![c] = Shrunk(@)]
    /\ UNCHANGED lent /\ UNCHANGED vmmVars

-----------------------------------------------------------------------------
\* slab_init has created every cache.
slab_init ==
    /\ \E size \in [Caches -> Sizes] : cache = [c \in Caches |-> NewCache(size[c])]
    /\ slab = [b \in Blocks |-> NoSlab]
    /\ lent = {}

SlabNext ==
    \E c \in Caches :
        \/ kmem_cache_alloc(c)
        \/ \E b \in Blocks : \E i \in 1..slab[b].objects : kmem_cache_free(c, b, i)
        \/ kmem_cache_destroy(c)
        \/ \E size \in Sizes : kmem_cache_create(c, size)
        \/ kmem_cache_shrink(c)

=============================================================================
