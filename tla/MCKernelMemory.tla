--------------------------- MODULE MCKernelMemory ---------------------------
(***************************************************************************)
(* KernelMemory on pages of eight words: the kernel has blocks 0-7, the    *)
(* directory and its tables 8-10, the identity map ends behind block 15.   *)
(***************************************************************************)
EXTENDS KernelMemory

\* A program linked at 4 MB, as userspace/linker.ld has it, whose data begin in
\* the middle of a page; and one where the identity map ends.
MCSegments == {<<8, 1, 2>>, <<16, 1, 1>>}

\* The objects of a slab differ only in where they are on its free list and in
\* whether they are lent: each is named by its first place there.
SlabShape(b) ==
    LET free == slab[b].freelist
        Name(i) == Min({j \in DOMAIN free : free[j] = free[i]})
    IN  <<slab[b].objects, slab[b].inuse,
          [i \in DOMAIN free |-> <<Name(i), <<b, free[i]>> \in lent>>],
          Cardinality({object \in lent : object[1] = b})>>

\* The state up to the names of objects.
ObjectsAlike ==
    <<bitmap, used_blocks, owners, pinned, mem, cr3, directories, job, fault,
      user_frames, overlay, cache, [b \in Blocks |-> SlabShape(b)]>>

=============================================================================
