---------------------------- MODULE KernelMemory ----------------------------
(***************************************************************************)
(* The slab allocator and virtual memory over one physical memory manager, *)
(* with the pages of the one reached through the map of the other.         *)
(***************************************************************************)
EXTENDS Slab

vars == <<bitmap, used_blocks, owners, pinned,
          mem, cr3, directories, job, fault, user_frames, overlay,
          cache, slab, lent>>

Init == vmm_init /\ slab_init

\* The loop at the end of page_fault_handler.
Halted == fault # "none" /\ UNCHANGED vars

Next ==
    \/ VmmNext /\ UNCHANGED slabVars
    \/ SlabNext
    \/ Halted

Spec == Init /\ [][Next]_vars

-----------------------------------------------------------------------------
(***************************************************************************)
(* Properties.                                                             *)
(***************************************************************************)
SlabPages == UNION {SlabsOf(cache[c]) : c \in Caches}

ListedOnce(k) == Cardinality(SlabsOf(k)) = Len(k.full) + Len(k.partial) + Len(k.empty)

(***************************************************************************)
(* kmem_cache_alloc and kmem_cache_free move slabs between three lists by  *)
(* the count of objects in use.  Whatever their order: every slab is on    *)
(* one list, the one for its count, so an allocation never meets a slab    *)
(* without a free object and shrinking never destroys one in use; and      *)
(* num_slabs and num_active are exact.                                     *)
(***************************************************************************)
SlabsSorted ==
    \A c \in Caches :
        LET k == cache[c]
        IN  /\ ListedOnce(k)
            /\ k.num_slabs = Cardinality(SlabsOf(k))
            /\ k.num_active = Cardinality({object \in lent : object[1] \in SlabsOf(k)})
            /\ \A b \in ToSet(k.full) : slab[b].inuse = slab[b].objects
            /\ \A b \in ToSet(k.empty) : slab[b].inuse = 0
            /\ \A b \in ToSet(k.partial) : slab[b].inuse \in 1..slab[b].objects - 1

(***************************************************************************)
(* Every object is either lent to one holder or once on its slab's free    *)
(* list, inuse counts the lent ones, and all of a slab's objects end       *)
(* inside its block.                                                       *)
(***************************************************************************)
ObjectsAccounted ==
    /\ \A b \in SlabPages :
          LET free == {<<b, i>> : i \in ToSet(slab[b].freelist)}
          IN  /\ Cardinality(free) = Len(slab[b].freelist)
              /\ free \cap lent = {}
              /\ free \cup (lent \cap Objects(b)) = Objects(b)
              /\ slab[b].inuse = Cardinality(lent \cap Objects(b))
    /\ \A object \in lent : object[1] \in SlabPages
    /\ \A c \in Caches : \A b \in SlabsOf(cache[c]) :
          slab[b].objects * cache[c].object_size <= BlockBytes

PresentIn(dir) == {i \in 0..PageWords - 1 : IsEntry(mem[dir][i])}
PagesOf(i) == i * PageWords .. (i + 1) * PageWords - 1
Tables == {mem[kernel_directory][i].frame : i \in PresentIn(kernel_directory)}

(***************************************************************************)
(* As long as nothing is mapped over the addresses of physical memory, the *)
(* kernel map is sound: in the kernel directory and in every clone the     *)
(* identity pages map to themselves for the kernel only, what vmm_map_page *)
(* and vmm_get_physical_address read through pointers is what the          *)
(* processor walks, no pointer leads to another page, and a kernel pointer *)
(* faults only when the blocks below 8 MB are used up or a cache has no    *)
(* object to a slab.                                                       *)
(***************************************************************************)
KernelMapSound ==
    overlay = {} =>
        /\ \A dir \in directories, page \in IdentityPages :
              Hardware(mem, dir, page) = Entry(page, FALSE)
        /\ fault = "none" =>
              \A page \in UNION {PagesOf(i) : i \in PresentIn(kernel_directory)} :
                  vmm_get_physical_address(page).frame = Hardware(mem, kernel_directory, page).frame
        /\ fault # "wild"
        /\ fault = "halted" => \/ IdentityPages \cap Blocks \subseteq bitmap
                               \/ \E c \in Caches : calculate_objects_per_slab(cache[c]) = 0

(***************************************************************************)
(* Directories and tables hold what the kernel wrote and nothing else, and *)
(* no page a user process can write is a block of the kernel, of a         *)
(* directory, of a table or of a slab.  The one exception is block 0:      *)
(* process_create_user maps it when pmm_alloc_block returns 0.  This holds *)
(* until the kernel is about to take directory words from a user's page,   *)
(* which comes with the first call of vmm.c after process_create_user has  *)
(* filled the page at 0x400000, or elf_load to write beyond a program's    *)
(* pages.                                                                  *)
(***************************************************************************)
UserPagesPrivate ==
    fault \notin {"wild", "overrun"} =>
        /\ \A dir \in directories, i \in 0..PageWords - 1 :
              LET pde == mem[dir][i]
              IN  /\ pde # Junk
                  /\ IsEntry(pde) =>
                        \A j \in 0..PageWords - 1 :
                            LET pte == mem[pde.frame][j]
                            IN  /\ pte # Junk
                                /\ IsEntry(pte) /\ pte.user /\ pde.user =>
                                      pte.frame \in user_frames \cup {0}
        /\ user_frames \cap (0..Reserved - 1 \cup directories \cup Tables \cup SlabPages) = {}

(***************************************************************************)
(* What the comments in process_create_user promise: after its two calls   *)
(* of vmm_map_page the block taken for the stack is mapped, for the user,  *)
(* at the page below which the new process's esp starts.                   *)
(***************************************************************************)
UserStackMapped ==
    job.op = "user" /\ job.i = 2 /\ fault = "none" =>
        Hardware(mem, cr3, UserStackPage) = Entry(job.got[2], TRUE)

=============================================================================
