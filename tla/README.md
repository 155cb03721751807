# ValcOS in TLA+

TLA+ specifications of the core of ValcOS (a small 32-bit x86 kernel in C and
assembly), the TLC configurations that check them on small instances, and
TLAPS proofs of the results that hold for every instance. Source paths are
relative to the repository root (`kernel/process.c` is `src/kernel/process.c`
in `PROJECT.json`).

Everything is run from this directory:

    tlc -workers 2 -config sched_safety.cfg MCSched
    tlapm HeapProofs.tla

## 1. The system

ValcOS is one kernel image. After a straight-line boot (`kernel/kernel.c`)
the processor runs *processes*, which are kernel threads or user-mode threads,
under a timer interrupt. There is one processor, no lock and almost no masking
of interrupts: a timer tick that calls `schedule` may switch from one process
to another between any two instructions of process code. Within an interrupt
handler interrupts are off.

### Components, state and operations

| component | state | operations | used by |
|---|---|---|---|
| process table and scheduler, `kernel/process.c`, `process.asm` | PCBs (a slab cache), `ready_queue`, `current_process`, `next_pid`, saved stack pointers | create, create_user, fork, kill, yield, wait, block, unblock, set_priority, `schedule`, `switch_to_task` | timer tick, system calls, shell, work queue |
| signals, `kernel/signal.c` | `pending_signals` and `signal_handlers` of each PCB | send_signal, do_signal, sys_signal, sys_sigaction | `schedule` calls do_signal, do_signal calls process_kill, which calls `schedule` |
| physical memory, `kernel/pmm.c` | the bitmap, `used_blocks` | alloc_block(s), free_block(s), reserve_region | slab, virtual memory, process creation |
| kernel heap, `kernel/memory.c` | the list of blocks | kmalloc, kfree | almost everything |
| slab allocator, `kernel/slab.c` | caches; full, partial and empty slabs; free lists inside the objects | cache create, grow, alloc, free, shrink, destroy | PCBs |
| work queue, `kernel/workqueue.c`, `include/list.h` | `work_queue`, `pending` of each work, `pending_work_count` | schedule_work, flush_work, worker_thread | any process, and work functions themselves |
| timer, `drivers/timer.c` | tick counter, callback table | tick, register and unregister a callback, waits | `schedule`, kernel timers |
| kernel timers, `kernel/ktimer.c` | list of timers with expiry times | add, del, mod, run | functions of timers, which may change the list |
| virtual memory, `kernel/vmm.c`, and the ELF loader, `kernel/elf.c` | page directory and tables, cr3 | map, unmap, look up, clone and switch a directory, page fault; load a segment, make a stack | process creation, fork, shell |
| FAT12, `fs/fat12.c` | FAT, root directory, data clusters of a disk image in memory | create, append, overwrite, delete, read, list | shell |
| VFS, `kernel/vfs.c` | descriptor table, one for all processes | open, close, read, write | system calls |
| sockets and network devices, `kernel/socket.c`, `skbuff.c`, `netdevice.c`, `drivers/net/loopback.c` | sockets with receive queues, packets, the device list | create, bind, send, receive, close, register | loopback only |
| registries, `kernel/blkdev.c`, `kernel/device.c` | requests, device list, `next_major` | allocate and free a request, register and unregister a device | none yet |
| console: `drivers/keyboard.c`, `drivers/vga.c`, `kernel/shell.c` | ring buffer, shift and E0 state; cells and cursor; line, history | keyboard interrupt, getchar; putchar, scroll, clear; the shell's loop | shell |
| the rest | log, graphics, RTC, floppy, descriptor tables, string functions, user samples | | |

### What is hard, and what correctness means

- **Scheduler and signals.** `schedule`, `do_signal`, `process_kill` call one
  another, and the running process may be freed by any of them. Correct means:
  every PCB is either queued or free, pid 0 survives, pids are unique, only the
  current process is `RUNNING`, the processor goes round in order, no ready
  process starves, and a signal takes effect.
- **Allocators (pmm, heap, slab).** Long sequences of legal calls with splits,
  merges, partial frees, and sizes that are not multiples of the word, the
  alignment or the page. Correct means: nothing is handed to two owners,
  nothing leaks, the counters are exact, a request that can be met is met.
- **Work queue.** Lock-free in the bad sense: list surgery in two threads with
  preemption between any two stores. Correct means: no wild pointer, nothing
  run twice, nothing lost, a flush that waits.
- **Kernel timers.** A timer's function changes the list that is being walked,
  and the interrupt walks a list a process is in the middle of changing.
  Two processes may be in the same call, and a tick may come between the stores
  that register a callback. Correct means: the list is a ring of the active
  timers, no timer fires early or is passed over, every walk ends.
- **FAT12.** Failure halfway through an operation of several writes; chains
  and sizes must agree, chains must be acyclic and disjoint.
- **Console.** A ring buffer at its limit, filled by an interrupt while it is
  read; runs of scan codes that carry state from one interrupt to the next; a
  cursor that wraps and scrolls while the shell counts characters.
- **Virtual memory.** The kernel edits its page tables through the addresses
  those tables map; one set of tables is shared by all processes; allocations
  fail halfway. Correct means: the kernel's map stays what it is, the two ways
  of reading a table agree, a user can write no page of the kernel.
- **Objects behind handles.** Allocations of two parts of which the second
  fails, queues that must be drained, a shared table without a lock. Correct
  means: every object has one holder.

`PROJECT.json` lists each hazard at its line with the properties that cover it.

## 2. Modules

| module | models | state | grain |
|---|---|---|---|
| `Sched`, `MCSched`, `SchedProofs` | `kernel/process.c`, `process.asm`, `signal.c`, process calls of `syscall.c`, the tick of `drivers/timer.c`, the PCB slab's free list | `pcb`, `ready_queue`, `current_process`, `freelist`, `next_pid`, `cpu_stack`, `fault` | one handler per step |
| `Pmm`, `MCPmm`, `PmmProofs` | `kernel/pmm.c` | `bitmap`, `used_blocks`, history `owners`, `pinned` | one call per step |
| `Heap`, `HeapProofs` | `kernel/memory.c` | `blocks`, history `lent` | one call per step |
| `FatTable` | the packed FAT of `fs/fat12.c` and its accessors | none: operators on the bytes | |
| `Fat12`, `MCFat12`, `Fat12Proofs` | `fs/fat12.c` | `table` (bytes of both FATs), `root`, `data`, `current_dir_cluster`, `current_path` | one call per step |
| `FileStore` | what the file operations promise | `files` | one call per step |
| `WorkQueue`, `MCWorkQueue`, `DeferredWorkProofs` | `kernel/workqueue.c`, `list_add_tail` and `list_del` of `include/list.h` | `mem` (shared memory), `local` (pc and locals of each thread), history `log` | one load or store per step |
| `Vmm` | `kernel/vmm.c`, `kernel/elf.c`, the user pages of `process_create_user` | `mem` (words of every block), `cr3`, `directories`, `job`, `fault`, those of `Pmm`, history `user_frames`, `overlay` | one call of pmm or vmm per step |
| `Slab` | `kernel/slab.c` | `cache`, `slab`, history `lent`; extends `Vmm` | one call per step |
| `KernelMemory`, `MCKernelMemory`, `KernelMemoryProofs` | `Slab`, `Vmm` and `Pmm` together | all of the above | |
| `ListHead` | `include/list.h` | none: operators on links | |
| `Timers`, `MCTimers`, `DeferredWorkProofs` | `drivers/timer.c`, `kernel/ktimer.c` | `links`, `timer`, `count`, `clock`, `slots`, `walk`, `proc`, `callers`, history `due`, `wrapped`, `harm` | process: one load or store per step; interrupt: one timer of the walk per step |
| `Keyboard` | `drivers/keyboard.c` | `ring`, `buffer_start`, `buffer_end`, `shift_pressed`, `extended_mode`, `sending`, history `pressed`, `typed`, `reads` | one interrupt or read per step |
| `Vga` | `drivers/vga.c` | none: operators on a screen | |
| `Shell`, `MCShell`, `ShellProofs` | `kernel/shell.c` over `Keyboard` and `Vga` | `line`, `history`, `history_idx`, `screen`, history `entered`, `astray` | one character per step |
| `KernelObjects`, `KernelObjectsProofs` | `kernel/vfs.c`, `socket.c`, `skbuff.c`, `netdevice.c`, `blkdev.c`, `device.c`, the loopback driver | `heap`, `fd_table`, `call`, `sockets`, `bios`, `loopback`, `devices`, `next_major`, history `lost`, `raced` | VFS: one access per step; the rest one call |

### Sched

Each C function is an operator of the same name from kernel state to kernel
state (a record of all the variables), so that calls nest as they do in the
code; `schedule` and what ends in it are actions. Each action of `Next` is a
call a process can make (`Yield`, `Create`, `CreateUser`, `Fork`, `ForkFails`,
`Exit`, `Kill`, `Block`, `Unblock`, `SetPriority`, `SendSignal`, `SetHandler`)
or the timer tick (`Tick`).

A PCB is named by its slot in the slab, because the code goes on using slots it
has freed: `process_kill` of the running process unlinks and frees the PCB
while `current_process` still points to it. What happens afterwards is modelled
as the code does it:

- while the slice lasts, the dead process goes on running;
- when `schedule` next searches for a successor it starts at the NULL link that
  `list_del` left; the page fault handler halts (`fault = "null_walk"`);
- when `do_signal` kills the process being switched out, `switch_to_task`
  stores the stack pointer in the first word of the freed PCB, which is the
  slab's free-list link (`Wild`); the allocation that follows it gets a stack
  address (`AllocWild`, `fault = "wild_alloc"`);
- a child forked before its parent was ever switched out has a saved stack
  pointer of 0 (`fault = "null_stack"`).

A stopped machine takes no step, which is why the Sched runs do not check for
deadlock. `esp` and `cpu_stack` are abstracted to the process for which the
stack was allocated. Left out: `cr3` (in `Vmm`) and the TSS, `total_runtime`, names, the
read-only listings. `process_create` does not test for a NULL PCB; the model
stops creating when slots or pids are used up.

### Pmm

The bitmap is the set of bits that are set. `bitmap_find_free` keeps its two
levels: the first word that is not full, then the first bit in it that is clear
or past `total_blocks`. `pmm_reserve_region` keeps its rounding. A caller frees
runs of blocks it holds, possibly with blocks it freed before, which the code
ignores. `Scan` is the loop for a contiguous run as the code has it, and
`ScanFindsLowestRun` compares it with the definition by quantifiers that the
calls use. `MCPmm` adds the regions a run reserves.

### Heap

Addresses are offsets into the heap. `kmalloc` aligns, takes the first fit,
splits if more than a header and 16 bytes are left; `kfree` merges forward
only. `Walk` is the loop along `next` as the code has it.

Callers free only pointers they got, once. `size_t` does not wrap: callers ask
for sizes of structures, for 4096 and 8192, and for lengths of buffers.

### FatTable, Fat12 and FileStore

`FatTable` has `fat12_get_fat_entry` and `fat12_set_fat_entry` on the bytes:
two 12-bit entries in three bytes, the second FAT a mirror of the first.
`Fat12` extends it. A file operation with a loop over sectors sets FAT entries
in a certain order; the step computes that sequence of settings (`FreeChain`,
`Links`) and applies it to the bytes (`SetEntries`). The loops that ask
`fat12_find_free_cluster` for one cluster after another get the free clusters in
ascending order (`Grab`), as many as there are: that is where a full disk cuts a
write or an append short. A sector's contents are abstracted to the file it was
written for, its place in the data of that call and its length.

`FileStore` is the abstract specification: a map from names to texts, in which
a write replaces one text and an append extends it, by all of the data or by
its first sectors. `Fat12!ImplementsFileStore` maps the disk to it by following
the chains as `fat12_read_file` does.

Only the shell calls the file system, so calls do not overlap. `MaxPath` is a
bound of the model, not of the code: each `cd` appends to `current_path`
(`fs/fat12.c:468-471`) without looking whether its 256 bytes are full, and what
happens then is left out. Names that do
not parse as 8.3 change nothing and are left out. The disk starts as zeros,
which is what lies where the code looks for it: the code takes 200 for the
number of reserved sectors, the boot sector and the image builder 1024. That
the place is inside the kernel's bss, and that `TOTAL_CLUSTERS` exceeds the
entries of a FAT, is recorded under the hazards and assumed away here.

### WorkQueue

The build does not optimise, so every access of the C text is one memory
access, `++` is a load and a store, and arguments are evaluated from right to
left. Page 0 is mapped, so a store through a NULL link goes through unnoticed.
`Caller` is a process that schedules works and flushes them; `Worker` is
`worker_thread`, whose work functions may schedule a work each.

Bounds: each work is accepted at most `MaxAccepted` times; `flush_work` is
called by the process only. The works the process schedules and those the work
functions schedule are disjoint (`WorkQueueAssumption`): no caller in the
repository gives one work to both, and the test of `pending` in `schedule_work`
could let both link it at once, which breaks every property.

### Vmm, Slab and KernelMemory

The kernel keeps pointers to its page directory and tables that are their
physical addresses, and relies on the identity map of the first 8 MB; the
processor walks the tables from `cr3` with physical addresses only. `Vmm` has
both: `mem` gives the words of every block, `Hardware` is the processor's walk,
and each read or write by the kernel goes to the block the processor finds
behind the kernel's pointer (`At`). The model stops at a `fault`: a pointer to
nowhere (`"halted"`, `page_fault_handler`); a copy to a page that could not be
mapped (`"nopage"`); a kernel pointer that leads to a page of somebody else, or
directory words about to be taken from a page a user's program fills (`"wild"`);
and a copy of `elf_load` that goes into a page which is not the program's
(`"overrun"`). The directory is small, so that one page of
`PageWords` words stands for 1024 entries and 4 KB alike: `UserCodePage` is the
page whose address is that of the block of the kernel's directory, as 0x400000
is in the code.

`process_create_user`, `elf_load` and `elf_exec` are jobs of several steps, one
for each call of `pmm_alloc_block` and `vmm_map_page`; other work runs in
between. A job knows how many pages it maps and how many its program is copied
to (`touched`): `elf_load` maps what `p_memsz` fills from the start of a page and
copies from `p_vaddr`, which may lie in the middle of one. One job is under way
at a time, as if programs were started by one process. `vmm_unmap_page` has no caller and is taken to be called on a program's
page. Blocks come from `Pmm` by INSTANCE. `Slab` extends `Vmm` because its
objects lie in identity-mapped blocks; a free list is a sequence of indexes.
`kmem_cache_destroy` is called when all objects are back; `kmalloc` of a
descriptor may fail at any call. The TLB is taken to be flushed by `invlpg`
and `cr3`, which the code issues.

### ListHead and Timers

`ListHead` has the list operations on a record of links. Inside the interrupt
they are used whole; in process context `Timers` takes them apart into loads
and stores (`AddSteps`, `DelSteps`), and the tick may come between any two. The
function of an expiring timer does nothing, arms or deletes any timer; a periodic
callback touches neither timers nor slots. `tick` and `jiffies` wrap at
`Modulus`; `wrapped` holds the deadlines computed past the end.

Three things can destroy the list, and `harm` records them: a timer that expires
while a process is inside a list operation ("raced"), a function that deletes or
moves the timer the walk has saved ("moved"), and a second process that enters
`ktimer_add`, `ktimer_del` or `ktimer_mod` while the first is inside one
("preempted"): `timer_handler` calls `schedule` (`drivers/timer.c:48`), and no
lock or masking keeps the second out. Nothing in the code rules any of them out.
`Preempted` is therefore possible at every point of a call, and past a harm the
model stops: of two overlapping calls it follows none. What the properties of the
list say is about everything before, including ticks in the middle of a call at
which nothing expires and calls of several processes one after the other.

The calls of `timer.c` are followed for any number of processes at once
(`Callers`), store by store: `timer_register_callback` finds a slot free, stores
the callback, the interval and `next_tick` (computed a step before it is stored),
and only then sets `active`. In between ticks pass and others find the same slot
free. So an active slot's `next_tick` may be the present tick or lie behind it;
what holds is that it is what was asked for, and that the next tick calls it
(`DeadlinesKept`). An unregister that clears the callback of a slot somebody
else has taken makes the handler call address 0 (`harm = "null"`).

### Keyboard, Vga and Shell

A key press is the run of scan codes the controller sends for it. `Shell` takes
a character whenever there is one; interrupts come in between. The commands of
`shell_execute_command` are abstracted to what they leave on the screen; output
of other processes while a line is being edited is left out.

### KernelObjects

An object is the address `kmalloc` returned, so that a freed address comes back
as another object and a stale pointer is seen. The descriptor table is one
array for all processes and `vfs_open` and `vfs_close` are taken apart at each
access to it. `raced` records whether two opens overlapped, or a close and any
other call. No run looks behind a racing close (`BeforeRacingClose`): it can
free a file twice, and the properties say so.

## 3. What the runs check

| run | expect | instance | result |
|---|---|---|---|
| `sched_safety` | pass | 3 slots, pids 0..2, slices of 2 or 3 ticks (by priority), SIGTERM, renicing | slots accounted for, pid 0 stays first and pids ascend, only the current process is RUNNING, round-robin order |
| `sched_live` | pass | 3 slots, SIGKILL, no renicing, fair tick | a ready process runs; SIGKILL removes its target |
| `sched_exit` | violation | slices of 4 | an exited process goes on running |
| `pmm` | pass | 10 blocks in three words of 4 bits, 2 of them the kernel's | one owner, no leak, exact count, both searches find the lowest room |
| `heap` | pass | 140 bytes, header 12, alignment 16, requests 0, 1, 20, 48 | the list tiles the heap; used means lent; requests fit; no overlap; first fit |
| `fat12` | pass | 4 clusters, 2 root entries, 3 names, sectors of 2 bytes, data of 0, 1 and 3 sectors | FATs equal; chains partition the used clusters; sizes within chains; lookup finds every entry; the shell's directory exists; implements `FileStore` |
| `workqueue` | pass | 3 works, 2 threads, each work accepted twice | no NULL link followed, nothing run twice, flush never returns on a queued work |
| `memory` | pass | 17 blocks, pages of 8 words, one cache of objects of 17 or 64 bytes in slabs of 64, at most 2 slabs, 2 user pages (a segment loaded at 4 MB, whose data reach into the next page, or one at the end of the identity map, and a stack page of `elf_exec`, or the two of `process_create_user`), 1 clone | slabs on the right list and counted; objects lent once; the kernel's map sound until it is mapped over; directories and tables hold the kernel's words only, and user pages are never the kernel's but for block 0, until a "wild" or an "overrun" |
| `user_stack` | violation | the same | the stack of a user process is not mapped |
| `timers` | pass | either 2 timers with delays 1 and 2, or 2 processes with one slot, a callback for every tick and waits of 2; counters modulo 4 | until it is harmed the list is a ring of the active timers; nothing early, nothing passed over; next ticks and waits kept, however late a registration ends; every walk ends |
| `console` | pass | 16 scan codes, ring of 3, line of 5, history of 2, screen of 4 by 3 | the ring holds the newest characters; every key types once; the screen shows the line; the history is the last lines |
| `objects` | pass | 5 objects, 2 descriptors, 2 processes, 1 device | every object has one holder; files are lost only by racing calls |

**Why the bounds are enough.** *Sched*: three processes are the fewest for
which round-robin order differs from "the other one" and for which a freed slot
can be reused while it is still current and a third process looks on; slices of
2 and 3 ticks reach expiry, survival of a tick and a difference by priority
(`PriorityStep` 128 makes priority 128 worth one tick more, as 64 does in the
code). *Pmm*: the last word has bits past `total_blocks`, requests cross words
and include 0 and more than fits, regions are unaligned and pass the end.
*Heap*: 140 bytes hold up to five blocks; all combinations of split, exact fit,
too small a remainder, forward merge and fragmentation occur. *Fat12*: four clusters
are two pairs that share bytes; data of three sectors fails after 0, 1 and 2 of
them when another file holds the rest; three names for two entries reach a full
directory and the reuse of a deleted entry before a live one. *WorkQueue*: three
works are needed for a lost tail with both neighbours live; a second acceptance
is needed to meet a work whose `pending` flag was lost. *Memory*: eight words are
the fewest for which the last quarter of the directory and the identity map are
apart; the allocator reaches the last block and the block past the identity map,
and fails when a table, a slab or a clone is wanted. It does not fail there when
a user page is wanted (`AllocPage`'s second alternative takes another clone and
twice the states): that case is left to the theorems of section 4;
objects of 17 bytes fit twice into a slab and those of 64 not at all.
*Timers*: two timers are the fewest with a "next" one to disturb and for two
that keep re-arming each other; modulo 4 the counters wrap several times. Two
processes and one slot are the fewest for a slot taken twice, and an interval of
1 is the one a single late tick overtakes. The calls of `ktimer.c` and those of
`timer.c` share the clock and no store, so `MCTimers` looks at one kind or the
other in a behaviour (`scope`); the theorems have both at once.
*Console*: the ring overflows, a line reaches the end of a row, the screen
scrolls, the history shifts. *Objects*: a socket with two packets fills the
heap, and so does one packet with a file and a device. Most of these
properties are proved for all sizes besides (section 4).

`LiveState` in `MCSched`, `MCFat12` and `MCWorkQueue` is a VIEW that blanks values no step
and no property can read before they are overwritten (freed PCBs other than the
current one; sectors of free clusters; dead locals) and, in `MCSched`, tells
priorities apart only by the slice they give, the one thing read of them.
`ObjectsAlike` in `MCKernelMemory` does the same for the objects of a slab, which
differ only in their place on its free list and in being lent.

**Fairness.** `Sched!FairSpec` assumes only that the timer keeps ticking:
processes run with interrupts enabled. Nothing is assumed of what processes
call. `sched_live` tries no renicing, because `process_set_priority` refills
the slice: a process reniced before each expiry keeps the processor for ever,
and the property fails for that reason. `Timers!Spec` assumes
the same of the whole handler: ticks keep coming, and the handler, which runs
with interrupts off, goes on until it returns. `WalkEnds` therefore holds or
fails by what the functions do. No process is assumed ever to make a call.

**Deadlock** is checked in `pmm`, `heap`, `fat12`, `memory`, `timers` and
`objects`. It is off in the Sched runs (the machine may halt), in the WorkQueue
run (the process may have nothing left to schedule within the bound, or spin in
a flush on a flag that stays set) and in `console` (the shell waits for a key
when the bound on codes is reached).

### Disagreements found

Shown by a run:

1. `sys_exit` calls `schedule`, "Never returns" (`kernel/syscall.c:15`); with
   ticks left in the slice it returns, and the freed process goes on
   (`sched_exit`).
2. `process_create_user` maps the code page of a process at 0x400000, where the
   kernel reads its own page directory; the mapping of the stack at 0x401000
   then goes into the code page (`user_stack`).

Part of the models, and without a run of their own:

3. `process_fork` allocates and copies a kernel stack for the child but leaves
   the child's saved stack pointer in the parent's (`kernel/process.c:411`).
4. `do_signal`'s SIGCONT case is "Continue process" (`kernel/signal.c:59`), but
   a blocked process is never switched out, so never gets there.
5. `flush_work`, "Wait for work to complete" (`include/workqueue.h:39`), waits
   for `pending`, which is cleared before the function is called.
6. `schedule_work` links behind a tail that `worker_thread` may be removing;
   the work is lost and can never be scheduled again.
7. `loopback_xmit` frees the packet, while "Packets sent to loopback are
   immediately received" (`drivers/net/loopback.c:10`).

Limits the properties state as exceptions, because the code has them: a ring of
unread keys that fills loses them all (`RingHoldsNewest`); the key after an
arrow key under NumLock types nothing (`KeysTyped`); a backspace in column 0
leaves the character on the screen (`ScreenShowsLine`); deadlines past the end
of the counters fire at once (`TimersPunctual`, `DeadlinesKept`, `WalkEnds`);
`process_create_user` maps block 0 for the user when no block is left
(`UserPagesPrivate`); a page table above 8 MB, or a slab too small for one
object, stops the machine (`KernelMapSound`). And those that end what a model
says, because nothing in the code prevents them: overlapping calls of `ktimer.c`,
a moved saved timer, a timer that expires inside a call, a callback cleared under
its new owner (`harm`); directory words taken from a user's page, a program
copied beyond its pages (`fault`); a close that races another call (`raced`).

## 4. What is proved

`PmmProofs`, from `PmmAssumption` (the kernel's blocks exist:
`Reserved <= TotalBlocks`; the bitmap is large enough:
`TotalBlocks <= Words * WordBits`):

- `PmmTypeOK`, `PmmOneOwner`, `PmmBlocksAccounted`, `PmmUsedIsExact`,
  `PmmFindsLowestFree`.
- `PmmScanFindsLowestRun`: after bit i, `found` in the loop of
  `bitmap_find_free_contiguous` is the length of the run of clear bits that ends
  there, which is determined by the bit in front of it being set. So the first
  time it reaches `count` is at the end of the lowest run.
- The inductive invariant is the conjunction of `TypeOK`, `OneOwner`,
  `BlocksAccounted` and `UsedIsExact`. They need one
  another: the count stays exact because blocks handed out were free, a free
  bit means "no owner" because every owned block has its bit set. The lemmas
  about the searches (`FindFreeCorrect`: the word-by-word search returns the
  lowest free block exactly if there is one; the contiguous search returns a
  run of free blocks) are where the argument is.

`HeapProofs`, from `HeapAssumption` (header and alignment at least 1, the heap
holds one header):

- `HeapTypeOK`, `HeapTiling`, `HeapUsedIsLent`, `HeapLentFits`,
  `HeapPayloadsDisjoint`.
- The inductive invariant is `TypeOK /\ Tiling /\ UsedIsLent /\ LentFits`.
  `Tiling` says more than that neighbours are adjacent: no two blocks overlap,
  which is what lets a split or a merge be local. `UsedIsLent` is needed so
  that `kfree` works on a block of the list. `PayloadsDisjoint` follows.

- `HeapWalkFindsFirstFit`: `kmalloc`'s walk from a block comes to the lowest
  block ahead of it that is free and large enough. That function of the block
  satisfies the equation of the loop, and it is the only one that does: of the
  blocks at which another solution differed, take the highest.

`Fat12Proofs`, from `FatAssumption` (every cluster has its entry in the table)
and `Fat12Assumption` (clusters lie below 4088, where the chain values that are
no cluster begin; no name is the mark of an unused or deleted entry):

- `SetChangesOneEntry`: reading any entry after one was set gives the value set
  for that entry and the old value for every other one. The argument is by the
  position of the two entries: the same, the two that share a byte (even then
  odd, odd then even), or apart. `SetKeepsMirror`: FAT 2 stays equal to FAT 1.
- From these, what a run of settings leaves: each entry the last value it was
  set to. So freeing a chain frees its clusters and no other, and linking the
  clusters found makes a chain of them.
- Every operation, cut short or not, gives one directory entry a new chain, made
  of clusters that were free or its own, and frees the rest of its old one. One
  lemma shows that such a step keeps the chains finite, disjoint and together
  equal to the clusters in use, so each operation has to show only what it does
  to its own entry.
- The inductive invariant `FInv` (`FileSystemSound`) is the chains (`ChainsInv`),
  the names (`NamesSound`), `SizeWithinChain`, what the data area and directories
  hold (`DataSound`, `DirsSound`) and where the shell is (`PathSound`).
  `PathSound` speaks of the cluster and the name of the current directory,
  because the code compares the one and prints the other. `FatsAgree`,
  `SizesHold`, `NothingHidden`, `DirectoryStays` and `NothingLeaks` follow.
- `FilesKeepTheirText`, the refinement of `FileStore`: by step, an operation
  adds an entry, removes one or changes the text of one, and leaves the contents
  of all others (`Kept`), because no cluster it writes is in their chains. Reading
  a file back gives what the steps of a write put there, sector by sector, also
  when the disk was full after some of them.

`SchedProofs`, from `SchedAssumption`:

- `SchedTypeOK`, `SchedPcbsAccounted`, `SchedQueueAscending`,
  `SchedRunningIsCurrent`, and the action property `SchedRoundRobin`.
- The inductive invariant is stated of a kernel state `k`, not of the variables,
  because `schedule`, `do_signal` and `process_kill` call one another and each
  must find it in the state the other hands over: `Sound(k)` is the types, the
  slots split between queue and free list, pids ascending below `next_pid`, and,
  as long as nothing has gone wrong, no `RUNNING` process but the current one.
  Each operator gets a lemma that it keeps `Sound`; the search along the queue
  gets one that it stops at the next ready pid, which is what the order of
  switches needs. `RUNNING` must be in the invariant for the order to hold: the
  search accepts a `RUNNING` process too.

`DeferredWorkProofs`, on the timers, from `TimersAssumption` (timers, slots and processes
have different names; the counters' modulus is at least 1; delays, waits and
intervals are below it, intervals and delays at least 1):

- `TimersDeadlinesKept`, from `TInv`: a deadline that has not wrapped, be it a
  slot's or one a process has computed and not stored yet, is the present tick
  plus the ticks still due, or is not ahead of the present tick when none are
  (`Met`). The second case is what the time between two stores of
  `timer_register_callback` leaves true. When the handler passes, an active slot
  that is due is called and its next tick is its interval away, so no active slot
  has ticks due = 0 during a walk; `CallbacksOnTime` adds what each process
  between two stores knows (its slot, a real interval).
- `TimersListSound` and `TimersArePunctual`, from `ListInv`: until the list is
  harmed (a timer expires inside a call, a function moves the saved timer, or two
  processes' calls overlap) there is a ring of nodes that `next` spells at *every* store of
  `list_add_tail` and `list_del` (that is why an interrupt in the middle of
  either can walk), that `prev` spells but for the store to come, that holds the
  active timers but for the one being changed, and of which the walk has passed
  only timers that are not due. The count is off by one while its increment or
  decrement is to come. The steps of the walk keep the ring because a
  function that moves the saved next timer counts as harm.

`DeferredWorkProofs`, on the work queue, from `WorkQueueAssumption`:

- `WorkerNeverMeetsNull`, `NoExtraRun` and the action property `FlushWaits`, from
  `QInv` (`TornQueue`).
- The list may be torn: `schedule_work` links a work behind a tail that the worker
  is unlinking, and then works are lost, or `prev` of the head names a work no
  `next` leads to. `QInv` does not say which works the list holds, then. It says
  what no interleaving can break: no link of the head or of a linked work names a
  work that is not linked and queued (`PointsToLinked`), no two name the same one
  (`OneLinkEach`), the links lead on as long as a thread still needs them
  (`LeadsOn`), and what each thread has read is still so, or has been changed
  only by the store the other is about to make (`AddSound`, `TakenSound`,
  `BeforeIsHead`, `AfterSound`, `RemovedOnce`). `Counted` ties it to the history:
  a work was taken off as often as it was accepted, or once less while it is
  queued. A lost work is one no link names: it harms nothing, and its `pending`
  stays set, which is why `flush_work` waits for it for ever rather than return.

`ShellProofs`, from the assumptions of `Keyboard` and `Shell` (the command
buffer fits the rows that scrolling leaves, 256 in 24 rows of 80 in the code):

- `ShellRingHoldsNewest`: the invariant says where in the buffer each of the
  last `BufferSize` characters is, read or not; the property itself is not
  inductive, since a wrap makes old cells unread again.
- `ShellHistoryKept`, by comparing history and lines entered index by index.
- `ShellKeysTyped`, from `KeyInv`: which codes of the last key are still to come
  fixes what the handler holds of shift and E0 and whether the character has been
  typed (`OwnE0`, `LeftE0`, `HeldShift`, `TypingCode`, a table for each key). At the
  end of a key shift is up, and an E0 is left exactly by an arrow key with NumLock.
- `ShellScreenShowsLine`, from `ScreenInv`: the letters before the cursor are the
  line. Putting a character at the end of the last row scrolls; the text moves
  with the cursor, and all of it stays on the screen because the command buffer
  fits the rows that are left. For `vga_print` this goes by induction over the
  characters printed: whatever the redrawing prints first, the letters at the end
  of a text stand before the cursor afterwards.

`KernelObjectsProofs`, from `ObjectsAssumption`:

- `ObjectsOwned`, `ObjectsLostOnlyByRaces`.
- The invariant is the types, what a call in progress may rely on while no other
  has raced it (`CloseAlone`, `OpenAlone`), and the ownership itself together
  with `Apart`: two sockets never share an address. Every operation exchanges
  the holdings of one caller for others, or grows or shrinks them: three lemmas
  about sets carry the argument, and a bijection turns it into a count.

`KernelMemoryProofs`, from `VmmAssumption` and `SlabAssumption`. The former says
that a directory has at least 8 words, that the 8 MB `vmm_init` maps are there
(`TotalBlocks >= 2 * PageWords`; `kernel.c` tells `pmm_init` of 128 MB), that the
bitmap has a bit for every block, and that a program's segments end within the
address space:

- `SlabsStaySorted`, `ObjectsStayAccounted`, and `MemoryManagerSound`, which
  carries the results of `PmmProofs` (taken with `INSTANCE`, its lemmas about one
  call cited for the calls the two clients make) over to the composition.
- The inductive invariant is `PmmInv /\ SlabInv`. `SlabInv` is stated of a cache
  table, slab table, lent objects and bitmap, because an allocation that grows a
  cache makes two changes in one step and the second must find it in between.
  It adds to the properties what makes them inductive: no two caches share a
  slab; every slab's bit is set, so the block `pmm_alloc_block` returns is nobody's
  slab; a cache that is not there has none. That `kmem_cache_free` always finds
  the slab it searches for on two of the three lists, and that shrinking destroys
  no lent object, both follow from one lemma: an empty slab has nothing lent.
- `UserPagesStayPrivate`, from `MapInvariant`: `VInv` adds to the above what each
  block is for (`TableBlocks`, `directories`, `user_frames`, disjoint, all held) and
  what a word in each may say (`MapInv`). A table's user entries name user pages,
  each page in one place only, or block 0; its other entries are the identity map;
  a directory's entries name tables, each once. The hard part is what happens once
  the page at the kernel's directory has been mapped over: the kernel then edits
  whatever block lies behind its pointer (`Believed`). That block is still a
  directory in form, because it was a fresh page without entries, and it shares
  no table with one the processor uses (`Fake`), so nothing the kernel writes
  there reaches the map of a running process. `WInv` says that the words of
  directories and tables are the kernel's own: it holds while the kernel edits such
  a fresh page, and ends where a program has been copied into the page and the next
  call takes its words for entries, which is "wild".
- `KernelMapStaysSound`, from `VInv /\ KInv`. `KInv` says, as long as nothing has
  been mapped over the kernel's addresses: the two identity tables are whole and
  every directory shares the kernel's tables, slabs and directories lie below
  8 MB, the pages a job has mapped so far lie above. Then a kernel pointer leads to
  the block it names, the walk by pointers and the processor's walk agree, and
  the machine can halt only because no block below 8 MB is left or because a
  slab holds no object: the two excuses the property states.

**Induction.** The library's induction theorems take an operator as a
parameter, which the provers cannot instantiate. `SetInduction`, proved from the
well-foundedness of < on the numbers, takes a *set* of numbers instead. With it a
recursive function (`Scan`, `SetEntries`, `Chain`, `vga_print`, `Intended`) is shown
to exist, for tlapm takes its equation as a definition by CHOOSE, and then what it
computes is shown for every argument.

**Only model-checked.** Liveness (`ReadyRuns`, `KillTakesEffect`, `WalkEnds`):
fairness is out of the prover's reach. The two runs that expect a violation show
an execution, which is no theorem. All other properties of the runs are proved.

## 5. Plan

Modelled, in this order: scheduler and signals; physical memory, heap and work
queue; FAT12; virtual memory and slab over physical memory; timers; console;
objects behind handles. Proved: physical memory, heap and the packed FAT first,
then scheduler, console, timers, objects, slabs and page maps, then the torn work
queue, the file system with its refinement, the loops of the two allocators, and
the keys and the screen. What is left:

1. A finer grain for `schedule`, `kmalloc` and `pmm_alloc_block` preempted by a
   tick (the hazards without a property in `PROJECT.json`).
2. The TLB of `Vmm`, if a change of the code ever leaves out an `invlpg`.

## 6. Not modelled

- `kernel/printk.c`, `drivers/vga_gfx.c`, `drivers/rtc.c`, `kernel/string.c`:
  formatting, drawing, port I/O and byte loops, without state that others
  depend on.
- The shell's parsing and printing.
- Boot code, GDT, IDT, TSS: straight-line initialisation.
- `drivers/floppy.c`: a dialogue with a controller whose behaviour the
  repository does not describe; nothing calls it, since the file system works
  on the copy of the disk in memory. (`received_irq` is not cleared before a
  command, so a late interrupt would satisfy the next wait.)
- `kernel/fork.c`: a second copy of `process_fork` that the build leaves out.
- `blkdev_register` and `blkdev_submit_bio`: no caller and no driver;
  `socket_bind`: two stores nothing reads; `vfs_read` and `vfs_write`: no file
  has operations to call.
- User programs and C library stubs.
