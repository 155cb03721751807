-------------------------------- MODULE Vmm --------------------------------
(***************************************************************************)
(* Virtual memory, kernel/vmm.c, and the code that maps user pages:        *)
(* process_create_user, elf_load, elf_exec and process_fork's clone.       *)
(*                                                                         *)
(* The kernel reaches its directory and tables through virtual addresses   *)
(* equal to their physical ones; the processor walks them physically from  *)
(* cr3.  Both walks are modelled, on a memory of pages of PageWords words: *)
(* a word is absent (0), an entry, or Junk: any word the kernel has not    *)
(* written as an entry, a program's or an object's.                        *)
(*                                                                         *)
(* A page fault stops the machine: "halted" when the kernel follows a      *)
(* pointer to its own data, "nopage" when it copies a program.  The model  *)
(* also stops, since from there on anything may happen: "wild" when the    *)
(* kernel or the processor is about to obey words that are not the         *)
(* kernel's, or to fill a block through an address where another one       *)
(* answers; "overrun" when elf_load is about to copy a program over a      *)
(* block that is no program's.                                             *)
(*                                                                         *)
(* Each pmm call is one step, as a tick may switch between any two of      *)
(* them; one call that maps user pages is in progress at a time (the       *)
(* shell makes them).  Blocks come from Pmm.  user_frames and overlay are  *)
(* history variables: the blocks taken for user pages, and the virtual     *)
(* pages at addresses of physical memory that were mapped anew or unmapped.*)
(***************************************************************************)
EXTENDS Integers, FiniteSets, Sequences

CONSTANTS
    TotalBlocks,        \* total_blocks of pmm.c
    WordBits, Words,    \* shape of pmm_bitmap
    PageWords,          \* entries of a directory or table: 1024
    StackPages,         \* stack_pages of elf_exec: 4
    Segments,           \* <<page, pages, touched>> of a PT_LOAD segment, see elf_load
    MaxClones,          \* bound on process_fork
    MaxUserFrames       \* bound on the blocks taken for user pages

(***************************************************************************)
(* pmm_init keeps the first 4 MB, one table's worth of blocks; vmm_init    *)
(* maps 8 MB, two tables' worth; elf_exec's stack ends where the entries   *)
(* of the last quarter of the directory begin, at 3 GB.  The 8 MB are      *)
(* there (pmm_init is told of 128), and a segment ends below 4 GB; it      *)
(* touches at least the pages that are mapped for it.                      *)
(***************************************************************************)
Reserved == PageWords
IdentityPages == 0..2 * PageWords - 1
UserStackTop == 3 * ((PageWords * PageWords) \div 4)
UserCodePage == PageWords               \* 0x400000
UserStackPage == PageWords + 1          \* 0x401000

ASSUME VmmAssumption ==
    /\ PageWords \in Nat /\ PageWords % 4 = 0 /\ PageWords >= 8
    /\ TotalBlocks \in Nat /\ TotalBlocks >= 2 * PageWords
    /\ WordBits \in Nat \ {0} /\ Words \in Nat /\ TotalBlocks <= Words * WordBits
    /\ StackPages \in 1..PageWords
    /\ Segments \subseteq Nat \X Nat \X Nat
    /\ \A segment \in Segments : /\ segment[2] <= segment[3]
                                 /\ segment[1] + segment[3] <= PageWords * PageWords
    /\ MaxClones \in Nat /\ MaxUserFrames \in Nat

VARIABLES
    bitmap, used_blocks, owners, pinned,    \* of Pmm
    mem,            \* [block -> [word index -> word]]
    cr3,            \* the directory the processor walks
    directories,    \* cr3 of the processes: kernel_directory and its clones
    job,            \* the call in progress in process context
    fault,          \* "none", "halted", "nopage", "wild" or "overrun"
    user_frames, overlay

pmmVars == <<bitmap, used_blocks, owners, pinned>>
vmmVars == <<mem, cr3, directories, job, fault, user_frames, overlay>>

Pmm == INSTANCE Pmm WITH BlockSize <- PageWords, Counts <- {}, Regions <- {}

Blocks == 0..TotalBlocks - 1
VPages == 0..PageWords * PageWords - 1

Absent == [frame |-> -1, user |-> FALSE]
Junk == [frame |-> -2, user |-> FALSE]
Entry(frame, user) == [frame |-> frame, user |-> user]
IsEntry(word) == word.frame >= 0
Fill(word) == [i \in 0..PageWords - 1 |-> word]

-----------------------------------------------------------------------------
(***************************************************************************)
(* The walks.  Hardware: the processor's, in memory m from directory dir;  *)
(* the word that ends it, an entry only if the page is mapped.             *)
(***************************************************************************)
pd_index(page) == page \div PageWords
pt_index(page) == page % PageWords

Hardware(m, dir, page) ==
    LET pde == m[dir][pd_index(page)]
    IN  IF ~IsEntry(pde) THEN pde
        ELSE LET pte == m[pde.frame][pt_index(page)]
             IN  [pte EXCEPT !.user = @ /\ pde.user]

Mapped(m, page) == IsEntry(Hardware(m, cr3, page))

\* The block behind a virtual page the kernel dereferences.
At(m, page) == Hardware(m, cr3, page).frame

\* A pointer into block b, by its physical address, works.
Reaches(m, b) == b \in VPages /\ Mapped(m, b)

\* Block b answers at its own address; at no address; at somebody else's.
OwnPage(b) == Reaches(mem, b) /\ At(mem, b) = b
NoPage(b) == ~Reaches(mem, b)
OtherPage(b) == Reaches(mem, b) /\ At(mem, b) # b

kernel_directory == Reserved

\* kernel_directory[i], through the pointer.
DirectoryWord(m, i) == m[At(m, kernel_directory)][i]

\* What vmm_get_physical_address reads.
vmm_get_physical_address(page) ==
    LET pde == DirectoryWord(mem, pd_index(page))
    IN  IF ~IsEntry(pde) THEN pde ELSE mem[At(mem, pde.frame)][pt_index(page)]

-----------------------------------------------------------------------------
\* page_fault_handler, or the end of what the model can tell.
Stop(how) == fault' = how /\ UNCHANGED <<mem, overlay>>

Store(m, page, i, word) == [m EXCEPT ![At(m, page)][i] = word]

\* A table in block b: cleared, and entered in the directory.
NewTable(m, b, page, user) ==
    Store([m EXCEPT ![b] = Fill(Absent)], kernel_directory, pd_index(page), Entry(b, user))

\* The entry is set through the table's own virtual address.
SetEntry(m, table, page, entry) ==
    \/ ~Reaches(m, table) /\ mem' = m /\ fault' = "halted" /\ UNCHANGED overlay
    \/ /\ Reaches(m, table)
       /\ mem' = Store(m, table, pt_index(page), entry)
       /\ overlay' = overlay \cup ({page} \cap Blocks)
       /\ UNCHANGED fault

\* The table exists; a user page makes its directory entry a user entry.
MapThroughTable(pde, frame, page, user) ==
    /\ SetEntry(Store(mem, kernel_directory, pd_index(page),
                      [pde EXCEPT !.user = @ \/ user]),
                pde.frame, page, Entry(frame, user))
    /\ UNCHANGED pmmVars

\* No table yet: allocate one, or print a message and return.
MapNewTable(frame, page, user) ==
    LET b == Pmm!bitmap_find_free
    IN  \/ b = Pmm!NotFound /\ UNCHANGED <<mem, fault, overlay>> /\ UNCHANGED pmmVars
        \/ /\ b # Pmm!NotFound
           /\ Pmm!TakeBlocks({b})
           /\ \/ NoPage(b) /\ Stop("halted")
              \/ OtherPage(b) /\ Stop("wild")
              \/ /\ OwnPage(b)
                 /\ SetEntry(NewTable(mem, b, page, user), b, page, Entry(frame, user))

vmm_map_page(frame, page, user) ==
    \/ ~Mapped(mem, kernel_directory) /\ Stop("halted") /\ UNCHANGED pmmVars
    \/ /\ Mapped(mem, kernel_directory)
       /\ LET pde == DirectoryWord(mem, pd_index(page))
          IN  \/ pde = Junk /\ Stop("wild") /\ UNCHANGED pmmVars
              \/ pde = Absent /\ MapNewTable(frame, page, user)
              \/ IsEntry(pde) /\ MapThroughTable(pde, frame, page, user)

vmm_unmap_page(page) ==
    \/ ~Mapped(mem, kernel_directory) /\ Stop("halted")
    \/ /\ Mapped(mem, kernel_directory)
       /\ LET pde == DirectoryWord(mem, pd_index(page))
          IN  \/ pde = Junk /\ Stop("wild")
              \/ pde = Absent /\ UNCHANGED <<mem, fault, overlay>>
              \/ IsEntry(pde) /\ SetEntry(mem, pde.frame, page, Absent)

-----------------------------------------------------------------------------
(***************************************************************************)
(* The calls that map user pages: op is process_create_user, elf_load (one *)
(* segment) or elf_exec; pages from first on, blocks got so far, i of them *)
(* mapped.  process_create_user takes both its blocks before it maps       *)
(* either, and does not look whether it got them: pmm_alloc_block's 0 is   *)
(* block 0.  elf_load and elf_exec take and map page by page.              *)
(*                                                                         *)
(* touched: how many pages from first on the program is written to.  That  *)
(* is the code page for process_create_user and none for elf_exec.         *)
(* elf_load maps as many pages as p_memsz fills from the start of a page,  *)
(* and writes p_filesz or p_memsz bytes, the greater, from p_vaddr on: an  *)
(* address in the middle of a page, or a p_filesz above p_memsz, takes it  *)
(* beyond the pages it has mapped.                                         *)
(***************************************************************************)
Idle == [op |-> "idle", first |-> 0, pages |-> 0, touched |-> 0, got |-> <<>>, i |-> 0]

Begin(op, first, pages, touched) ==
    /\ fault = "none" /\ job = Idle
    /\ Cardinality(user_frames) + pages <= MaxUserFrames
    /\ job' = [Idle EXCEPT !.op = op, !.first = first, !.pages = pages, !.touched = touched]
    /\ UNCHANGED <<mem, cr3, directories, fault, user_frames, overlay>> /\ UNCHANGED pmmVars

process_create_user == Begin("user", UserCodePage, 2, 1)
elf_load == \E segment \in Segments : Begin("load", segment[1], segment[2], segment[3])
elf_exec == Begin("exec", UserStackTop - StackPages, StackPages, 0)

WantsBlock ==
    /\ Len(job.got) < job.pages
    /\ job.op = "user" \/ job.i = Len(job.got)

AllocPage ==
    /\ fault = "none" /\ job.op # "idle" /\ WantsBlock
    /\ LET b == Pmm!bitmap_find_free
       IN  \/ /\ b # Pmm!NotFound
              /\ Pmm!TakeBlocks({b})
              /\ user_frames' = user_frames \cup {b}
              /\ job' = [job EXCEPT !.got = Append(@, b)]
           \/ /\ b = Pmm!NotFound
              /\ job' = IF job.op = "user" THEN [job EXCEPT !.got = Append(@, 0)] ELSE Idle
              /\ UNCHANGED user_frames /\ UNCHANGED pmmVars
    /\ UNCHANGED <<mem, cr3, directories, fault, overlay>>

MapPage ==
    /\ fault = "none" /\ ~WantsBlock /\ job.i < Len(job.got)
    /\ vmm_map_page(job.got[job.i + 1], job.first + job.i, TRUE)
    /\ job' = [job EXCEPT !.i = @ + 1]
    /\ UNCHANGED <<cr3, directories, user_frames>>

CopiedPages == job.first .. job.first + job.touched - 1
CopiedBlocks == {At(mem, page) : page \in CopiedPages}

\* The program's code and data go to the blocks behind its pages.
Finish ==
    /\ fault = "none" /\ job.op # "idle" /\ job.i = job.pages
    /\ \/ /\ \E page \in CopiedPages : ~Mapped(mem, page)
          /\ Stop("nopage")
       \/ /\ \A page \in CopiedPages : Mapped(mem, page)
          /\ ~(CopiedBlocks \subseteq user_frames \cup {0})
          /\ Stop("overrun")
       \/ /\ \A page \in CopiedPages : Mapped(mem, page)
          /\ CopiedBlocks \subseteq user_frames \cup {0}
          /\ mem' = [b \in Blocks |-> IF b \in CopiedBlocks THEN Fill(Junk) ELSE mem[b]]
          /\ UNCHANGED <<fault, overlay>>
    /\ job' = Idle
    /\ UNCHANGED <<cr3, directories, user_frames>> /\ UNCHANGED pmmVars

\* Nothing in the kernel calls it yet; here, for a program that has been loaded.
UnmapPage(page) ==
    /\ fault = "none" /\ job = Idle /\ user_frames # {}
    /\ vmm_unmap_page(page)
    /\ UNCHANGED <<cr3, directories, job, user_frames>> /\ UNCHANGED pmmVars

\* Mutant of CloneOf: only the last quarter, the kernel's by the comment, is shared.
CloneOfUpper(directory) ==
    [i \in 0..PageWords - 1 |-> IF i < 3 * (PageWords \div 4) THEN Absent ELSE directory[i]]

\* Both loops together copy every entry: all tables are shared.
CloneOf(directory) == [i \in 0..PageWords - 1 |-> directory[i]]

\* The words vmm_clone_directory copies.
Source == mem[At(mem, kernel_directory)]

\* process_fork's call: without a block the fork fails.
vmm_clone_directory ==
    /\ fault = "none" /\ Cardinality(directories) <= MaxClones
    /\ LET b == Pmm!bitmap_find_free
       IN  /\ b # Pmm!NotFound
           /\ Pmm!TakeBlocks({b})
           /\ \/ /\ NoPage(b) \/ ~Mapped(mem, kernel_directory)
                 /\ Stop("halted") /\ UNCHANGED directories
              \/ /\ Reaches(mem, b) /\ Mapped(mem, kernel_directory)
                 /\ OtherPage(b) \/ Junk \in {Source[i] : i \in 0..PageWords - 1}
                 /\ Stop("wild") /\ UNCHANGED directories
              \/ /\ OwnPage(b) /\ Mapped(mem, kernel_directory)
                 /\ Junk \notin {Source[i] : i \in 0..PageWords - 1}
                 /\ mem' = [mem EXCEPT ![b] = CloneOf(Source)]
                 /\ directories' = directories \cup {b}
                 /\ UNCHANGED <<fault, overlay>>
    /\ UNCHANGED <<cr3, job, user_frames>>

\* The kernel's own code and data can still be fetched.
RunsKernel(dir) == \A page \in 0..Reserved - 1 : Hardware(mem, dir, page).frame = page

\* schedule loads the next process's directory.
vmm_switch_directory(dir) ==
    /\ fault = "none" /\ dir # cr3
    /\ \/ RunsKernel(dir) /\ cr3' = dir /\ UNCHANGED fault
       \/ ~RunsKernel(dir) /\ fault' = "wild" /\ UNCHANGED cr3
    /\ UNCHANGED <<mem, directories, job, user_frames, overlay>> /\ UNCHANGED pmmVars

-----------------------------------------------------------------------------
\* Mutant of IdentityEntry: the kernel's pages are open to user code.
IdentityUser(frame) == Entry(frame, TRUE)

\* vmm_map_page(addr, addr, PTE_PRESENT | PTE_RW).
IdentityEntry(frame) == Entry(frame, FALSE)

(***************************************************************************)
(* After vmm_init: the directory and two tables in the first three blocks, *)
(* the identity map in them, the rest of memory zero, as the emulator the  *)
(* Makefile starts gives it.                                               *)
(***************************************************************************)
vmm_init ==
    /\ bitmap = 0..Reserved + 2
    /\ used_blocks = Reserved + 3
    /\ owners = [b \in Blocks |-> IF b \in Reserved..Reserved + 2 THEN 1 ELSE 0]
    /\ pinned = {}
    /\ mem = [b \in Blocks |->
                 CASE b = kernel_directory ->
                        [i \in 0..PageWords - 1 |->
                           IF i < 2 THEN Entry(kernel_directory + 1 + i, FALSE) ELSE Absent]
                   [] b \in {kernel_directory + 1, kernel_directory + 2} ->
                        [i \in 0..PageWords - 1 |->
                           IdentityEntry((b - kernel_directory - 1) * PageWords + i)]
                   [] OTHER -> Fill(Absent)]
    /\ cr3 = kernel_directory
    /\ directories = {kernel_directory}
    /\ job = Idle
    /\ fault = "none"
    /\ user_frames = {}
    /\ overlay = {}

VmmNext ==
    \/ process_create_user
    \/ elf_load
    \/ elf_exec
    \/ AllocPage
    \/ MapPage
    \/ Finish
    \/ \E page \in {UserStackTop - 1} : UnmapPage(page)
    \/ vmm_clone_directory
    \/ \E dir \in directories : vmm_switch_directory(dir)

=============================================================================
