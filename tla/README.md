# BobOS: specifications of the kernel

This directory specifies the core of the BobOS kernel (the repository calls it
*theBud OS*) in TLA+, model-checks it with TLC on small instances and proves
theorems about it with TLAPS. The reference is the code in `src/28_posix/`, the
last of the 28 snapshots of the kernel. Each module directory of the repository
is a full copy of the kernel up to that point; `process.c`, `paging.c`, `pmm.c`,
`mmap.c`, `fs.c`, `pipe.c`, `vfs.c` and `heap.c` are the same files from
`24_threads` to `28_posix`, so what is said here holds for each of the five.
Three parts exist only elsewhere and are taken from there: the priority
scheduler (`src/25_scheduler/`), the network stack (`src/26_network/`) and the
garbage collector of the browser track
(`src/browser/B09_garbage_collector/`).

## Inventory

The kernel runs on one 32-bit CPU. All vectors are interrupt gates: a system
call, a fault or an interrupt runs to its `iret` without being interrupted, so
concurrency is the interleaving of *handlers*, and of handlers with code at user
level and in kernel processes (which run with interrupts enabled). There is one
exception: `scheduler_tick` executes `sti; hlt` when it finds nobody to run, and
from there on a timer interrupt starts the same handler inside itself.

| Part | State it keeps | Operations | What is hard about it |
|---|---|---|---|
| processes, threads, signals, scheduler (`process.c`) | `proc_table[8]`, `current`, `next_pid`, `proc_count`; the ring `next` | create, fork, thread create, wait, exit, fault, kill, set handler, timer tick | hand-over of the CPU from seven places; ticks nested in the halt of the scheduler; a parent asleep while its child ends; slots that are used again; who frees an address space |
| page frames (`pmm.c`) | bitmap, one count per frame | alloc, free, incref, decref | a count that is off by one shows long after, in another process |
| paging (`paging.c`, `mmap.c`) | page directories and tables, `vm_regions[8]` of each process, the TLB | clone, free, CoW fault, demand fault, mmap | sharing between processes; regions anywhere, also where other pages are; frames that run out half-way; stale translations |
| ELF loader, exec (`elf_loader.c`, `do_exec`) | none of its own | load | failure half-way; the address space it replaces |
| BobFS (`fs.c`, `disk.c`) | superblock and directory, in memory and on disk | init, create, delete, read | loss of power between two sector writes; failed writes |
| pipes (`pipe.c`) | `pipe_table[8]` | pipe, read, write, close; copies at fork | descriptors in several processes for one slot, and for earlier uses of it |
| VFS and files (`vfs.c`) | `fd_table[16]` of each process, `bobfs_used[8]`, one `bobfs_buf` | open, read, close; copies at fork, thread creation | one buffer for all open files, which an open that fails fills in part; an inode that several descriptors name |
| heap (`heap.c`) | a row of blocks in one pool | kmalloc, kfree | block arithmetic |
| shared memory (`shm.c`) | `shm_table[8]`; counts of its frames in `pmm.c` | shmget, shmat | frames owned by no process, counted by some of the paths that map and unmap them |
| keyboard and shell (`keyboard.c`, `shell.c`) | ring `kb_buf[256]`, `shift_held`; `line_buf` | IRQ1, getchar, line editor | the interrupt comes between any two instructions of the reader |
| priority scheduler (`25_scheduler/sched.c`) | `rq_head[4]`, `priority` of each process | pick, tick, yield, add, set priority | starvation; the process that is put back and picked again |
| network (`26_network/`) | the ring in the NIC's memory, BNRY and CURR, `sockets[8]` | receive, filter, bind, recvfrom | the NIC writes while the driver reads; frames that wrap; lengths in headers that are false; one datagram for each socket |
| garbage collector (`gc.c`, `heap.c` of B09) | `heap_slots[1024]`, objects with a mark and up to four references | alloc, add a reference, collect | the mark recurses through cycles; sweep looks at marks only |
| VGA, GDT, IDT, TSS, PIC, boot, drivers (27), POSIX wrappers | | | hardware set-up, tables filled once, I/O |

How they interact: every entry into the kernel comes through
`interrupt_handler` (`isr.c`), which calls `syscall_dispatch`, the scheduler
hook (`scheduler_tick`) or the fault hook (`process_fault_handler`). `process.c`
calls `paging.c` to clone, free and switch address spaces and `heap.c` for kernel
stacks; the fault handler calls `mmap.c` and `paging.c`; `paging.c` calls
`pmm.c`; exec calls `fs.c` and `paging.c`; `fork` copies the descriptors that
`pipe.c` and `vfs.c` keep in the process table; `shm.c` writes page table
entries through `paging_map_user_phys` and counts frames in `pmm.c`. IRQ1 fills
the ring that the shell empties. The NIC is polled (`net_poll`), no interrupt is
used. The priority scheduler works on `proc_table` but nothing calls it yet.

What makes each part correct:

* processes: one RUNNING slot, and it is `current` (what the halt of the
  scheduler leaves behind aside); a ring that every process is
  on; no lost wakeup; what ended stays ended; every READY process runs again;
* paging: counts equal to the entries that name a frame; what is shared is
  read-only; each process sees a memory of its own;
* BobFS: after any loss of power, files whole and apart;
* pipes and files: a descriptor reads what it was opened for; close in one process
  does not reach another; nothing leaks;
* shared memory: a segment keeps its frames;
* keyboard, network: nothing reordered, torn, duplicated or read twice;
* priority scheduler: strict priority, and turns among equals;
* garbage collector: what can be reached is kept, the rest is given back.

## Modules

| Module | Models | Kind |
|---|---|---|
| `Process` | `process.c`, the calls of `syscall.c` that reach it | component |
| `PrivateMemory` | what paging promises a process | abstract |
| `Memory` | `pmm.c`, `paging.c`, `mmap.c`, the fault handler, `elf_loader.c`, exec | component, implements `PrivateMemory` |
| `FileStore` | what BobFS promises of the disk | abstract |
| `BobFS` | `fs.c` on the sectors of `disk.c` | component, implements `FileStore` |
| `Channel` | what a slot of the pipe table promises | abstract |
| `Pipe` | `pipe.c`, descriptors of `vfs.c`, what fork and exit do with them | component, implements `Channel` |
| `Allocator` | what kmalloc and kfree promise | abstract |
| `Heap` | `heap.c` | component, implements `Allocator` |
| `Files` | descriptors of files: `vfs.c` with its BobFS backend | component |
| `SharedMemory` | `shm.c`, with what `paging.c` and `pmm.c` do to the frames of segments | component |
| `LossyQueue` | what a ring that drops promises | abstract |
| `Keyboard` | `keyboard.c` and the line editor of `shell.c` | component, implements `LossyQueue` |
| `PriorityScheduler` | `25_scheduler/sched.c` | component |
| `Network` | receive path of `26_network/`: `ne2000.c`, `net.c`, `ip.c`, `udp.c` | component |
| `Collection` | a collection in one step | abstract |
| `Collector` | `gc.c` and `heap.c` of B09 | component, implements `Collection` |
| `Process_proofs`, `Memory_proofs`, `BobFS_proofs`, `PriorityScheduler_proofs`, `Collector_proofs` | | theorems about the five |
| `Allocation_proofs` | | theorems about `Heap` and `SharedMemory` |
| `Descriptors_proofs` | | theorems about `Files` and `Pipe` |
| `Rings_proofs` | | theorems about `Keyboard` and `Network` |
| `MCProcess`, `MCMemory`, `MCFiles` | | for TLC: a bound, a symmetry set, a function |
| `MCParts` | | for TLC: the components that share no state, one in each behaviour |

Each component also holds, beside a definition, a mutated form of it marked
*mutant*: a plausible bug that the named property must catch.

### Process

A slot of `proc_table` is an index; its fields are functions over the slots
(`pid`, `state`, `next`, `parent`, `pending`, `handler`, `kind`, `cr3`). `kind`
says how the slot was made, which decides `is_thread` and whether
`kernel_stack_top` is 0. Kernel stacks are counted: `KStacks` says how many the
heap can supply, and since no path frees the stack of a process that has gone,
a process can be made only while `nextPid - 2 < KStacks`. Page directories are
members of `Spaces`; `live` holds those allocated.

A handler whose effect is a fixed assignment is one action (`Fork`, `WaitReap`,
`KillOther`, ...). The loops of `scheduler_tick` and `process_exit` are one
action for each iteration: `pc` is `"scan"` or `"exit"` while the kernel is in
them, and but for the ticks behind a halt nothing else can happen then. So a walk that never ends is a behaviour
of the model, not a deadlock of the modelling. The order of the code is kept:
`PutAside` (RUNNING becomes READY or WAITING, the walk starts behind current),
`ScanFound` / `ScanKill` / `ScanSkip`, the test for having come round
(`Advance`), `WrapResume` / `WrapHalt`, `Dispatch` with the signals in order of
their number until one is deadly, and for exit `ProcessExit`, `ExitAdvance`,
`ExitFound` / `ExitWrapped` with the bound of MAX_PROCESSES steps.

`WrapHalt` is `sti; hlt` (`process.c:366-369`): nobody is READY and `pc` becomes
`"halt"`. `HaltIrq` is an interrupt other than the timer's, after which the walk
starts again at `next[current]`, with interrupts enabled from now on (`ints`).
`HaltTick` is the timer's: it calls `scheduler_tick` on the stack of the walk that
halted, and this overwrites `current->esp`, so the process is now *inside* that
walk. `parked` of a slot is the slot at which its interrupted walk will go on.
`WalkTick` is the same in the walk behind the halt. When such a process is given the
CPU again, `Resume` takes up its walk instead of returning to user level. It is
then RUNNING, and the walk hands the CPU to the next READY process without
putting it aside: two slots are RUNNING, and this one is never READY again. A
tick may also come at the halt of a walk that was parked before; the calls nest
on one kernel stack of 4 KB without a guard page, so `StackOverflow` may end the
system at any of them. So may the stale frame of a parked process that
`process_exit` picks although its walk has gone on since (`Stale`).

Abstracted: register frames, stacks and the stores of signal delivery, the exit
codes, `thread_group_id` (the code never reads it), descriptors and regions
(they are in `Pipe` and `Memory`). A call that fails only sets the caller's EAX
and is no action. `kill(0)`, which would find a free slot, is not made by the
processes of the model.

### Memory

One process for each address space. A frame that holds a page of a process has a
number, a count (`ref`) and a content; frames that hold directories and tables
are only counted, in `tables`, and the frames of such tables that the code loses
are counted in `leaked` (a history variable, as is `lost`, the entries in lost
tables). `pte` is the page table entry of each page with its write bit, `tlb`
what the MMU may still use instead of it. The MMU is external: `Translations`
says that an access uses either the TLB or the table, `Faults` when it faults,
and the faulting access leads to exactly one of `DemandFault`,
`DemandFaultNoFrame`, `DemandFaultAgain`, `CowRestore`, `CowCopy` and
`FatalFault`, in the order of the tests in `process_fault_handler`.

A process without tables runs kernel code in the kernel's own directory or is a
free slot. `Fork` from it gives the child a directory and one table and no user
page; only from there does `Exec` reach an image, as on the machine (exec
straight from a process made by `process_create` panics: `Process!Exec`).
`ForkUndone` and `ForkFails` are the failures after and within the clone,
`ExecFails` the one within the load. Pages are of four sorts that the code
treats differently: program pages and the stack page in 0x400000 .. 0x7FFFFF
(CoW faults apply), pages above, where `mmap` puts its regions by itself, and
the identity map of the low 4 MB.

`do_mmap` takes any address as a hint, so `Mmap` reserves any page: one above, or
one of the program or its stack, whose CoW faults the region then hides because
`process_fault_handler` asks `mmap_find` first (`DemandFaultAgain`, for ever).
`MmapLow` reserves a page of the identity map, and the first fault there
(`LowFault`) sets PAGE_USER in an entry that names the frame of the same number,
writable: from then on `LowStore` changes whatever page is in that frame. `low` says
of each page in `LowFrames` how far it has got; fork and exec take PAGE_USER away
again and keep the region (`Supervisor`). The kernel stores for a process
too: `KernelStore` ignores the write bit, `LowStore` stands for an address in
the identity map, and at a page with no frame it faults in ring 0, which is a
panic (`KernelFault`): `panicked` is set and nothing happens any more.

Physical addresses, what a store through the identity map does to a page
table or to the kernel's own data, and the saturation of a count at 255 are not
modelled. A page of the window that is neither the program's nor the stack's
behaves like the stack's page when exec had no frame for it: no entry, and the
table is there.

### BobFS

Each `disk_write_sector` is an action of its own, so `pc` names the write that
comes next. `dSuper`, `dDir` and `dData` are the sectors, `super` and `dir` the
copies in memory. A data sector holds which file content and which part of it
was written. `WriteFails` and `Crash` are external: the points where they may
happen are the constants `FailAt` and `CrashAt`, so that an instance says
exactly which failures the code survives. A sector beyond the end of the disk
always fails. A call that is refused is no action.

### Pipe

`pipes` is `pipe_table` with its ring buffer, `fds` the descriptor tables.
`allocs` and `private` are history: which use of a slot a descriptor was opened
for, and whether a pipe's descriptors ever left its process. `head` and `tail`
wrap at `IndexWrap` (2^32 in the code), a multiple of the size of the buffer as
in the code. Exit leaves the counts as they are, because `process_exit` closes
nothing.

### Heap

`blocks` maps the address of each header to its size and flag. The walk along
sizes is `Starts`; first fit, splitting and merging are as in the code, with its
constants (8-byte headers, 16 bytes for a split, rounding to 4). The allocator
returns NULL by doing nothing.

### Files

A byte of `bobfs_buf` is named by the file it was loaded from. `OpenFile` takes
the first free inode and loads the whole file into the one buffer, with the zero
that `fs_read` writes behind it; with no descriptor left (`OpenFileNoFd`) the
inode is given back, but the buffer has been overwritten all the same. If a sector
cannot be read (`OpenFileFails`), the call fails, takes no inode, and leaves the
sectors before it in the buffer. `CloseFile` clears the inode whoever else names it.
`file` of a descriptor, `alone` and `orphans` are history: what was opened, the
descriptors whose file was opened last and is still open, and the inodes that
exit has lost. The VGA backend, the mount table and BobFS itself are not here.

### SharedMemory

Frames are marked free or used (`frees`) and counted (`refcounts`) apart, as in
`pmm.c`; frame 0, which `pmm_alloc_page` also returns when there is none left,
is one of them. `ShmGet` starts a frame at a count of two. `ShmAt` overwrites
entries and counts nothing. `ForkSpace`, `EndSpace`, `ExecSpace` and `Touch` say
what the code of `Memory` does to the same counts: segments are attached where
copy-on-write never applies, so a count and an entry are all there is to a page.
`attaches` counts the pages `shm_at` put where they were not yet.

### Keyboard

`buf_pop` is three steps (test, load, advance) and the shell's edit a fourth;
the actions of IRQ1 (`ShiftMake`, `ShiftBreak`, `Make`) come between any two of
them. A character is a key with its shift; a key that has none pushes nothing.
Scan codes and tables are abstracted to that.

### PriorityScheduler

`Switch(tab)` is `sched_tick`/`sched_yield` on the table as it is when called;
`Sleep` and `EndEntry` first change the caller's state, as `process.c` does.
The other actions are the changes of state that `process.c` makes between two
calls. In the snapshot nothing calls the file, so how it is called is taken
from the calls that `process.c` makes to its own scheduler. Slot 0, the boot
context, neither sleeps nor exits, but any process may kill it (`Killed`), as
`process_send_signal` spares no PID. Without a READY process `pick_next` returns
`current` whatever its state, and it runs again: `Picks` has that case.

### Network

The NIC is external: `Arrives` writes a frame into the pages from CURR on if it
leaves BNRY alone, between any two steps of the driver. `Poll`, `ReadHeader`,
`ReadData` (page after page) and `Dispatch` are `ne2000_recv` and the rest of
`net_poll`: the wrap of BNRY, the filters of `ip_input`, the first socket bound
to the port, the length taken from the UDP header. A frame from outside is a
record with the fields the filters test, and its headers may say anything:
`ihl` may be more than 20 (the options are skipped) or more than there is, and
`length` less than a UDP header, so that `DataLen` wraps and is cut to the
buffer of the socket, or more than the frame carries. What `udp_input` copies
beyond the end of the segment is stale bytes of the receive buffer: of the
`len` bytes a socket returns, `own` belong to the datagram. The sizes of headers
and pages are constants. `arrived`, `polled`, `got` and `boundAt` are
history. Sending, ARP, checksums and addresses are not modelled, nor is a socket
read while `net_poll` is half-way through `udp_input`.

### Collector

The program allocates and links objects between collections; `gc_collect` is
called with any live objects as roots. `calls` is the stack of activations of
`gc_mark`, `next_ref` where the loop of each one stands; `MarkRoot`, the step
into a reference and the return are actions of their own, so are the steps of
the sweep, slot by slot. `Collection` frees in one step what the roots do not
reach.

## Runs

| Run | Instance | Shows |
|---|---|---|
| `process_safety` | 4 slots, 3 kernel stacks, all calls; threads and handlers not in one behaviour | `TypeOK`, `RunningIsCurrent`, `NoNullNext`, `UniquePids`, `NoLostWakeup` |
| `process_fresh` | 4 slots, up to the first reuse of a slot, fair | `CircularList`, `CountIsExact`, `EndedStaysEnded`, `KernelReturns`, `ReadyRuns`; `SpacesOwned` as long as no thread has been made |
| `process_v_fair` | 3 slots, one reused, fair | `ReadyRuns` is violated |
| `memory_frames` | 3 processes, 13 frames, contents not told apart, regions over the identity map and stores of the kernel too | `TypeOK`, `RefCountExact`, `SharedReadOnly`, `TlbNamesFrame` |
| `memory_private` | 3 processes, 11 frames, empty TLB, no region over the identity map | `IsPrivate`: implements `PrivateMemory` |
| `memory_v_read` | 2 processes | `IsPrivate` is violated by a store of the kernel |
| `bobfs_power` | 2 names, 2 slots, files of 1 or 2 sectors, 5 data sectors | `TypeOK`, `NextSectorFree`, `FilesDisjoint`, `MemoryIsDisk`, `IsFileStore` |
| `bobfs_v_crash` | the same, power lost before the superblock | `FilesDisjoint` is violated |
| `pipe_v_close` | 2 processes | `DescriptorsGood` is violated |
| `parts` | `Heap`, `Pipe`, `Files`, `Keyboard`, `PriorityScheduler`, `SharedMemory`, `Network`, `Collector` | see below |
| `shm_v_kept` | 2 processes, 1 segment | `SegmentsKept` is violated |
| `files_v_own` | 2 processes, 2 files | `ReadsOwnFile` is violated |

`parts` runs the eight components that share no state in one go: the variable
`part` of `MCParts` says which of them a behaviour is about, the others stay at
their initial states, so the state space is the sum of the eight and not the
product. What it shows of each:

| Component | Properties |
|---|---|
| `Heap` | `Tiled`, `IsAllocator` |
| `Pipe` | `OpenCountsExact`, `IsChannel` |
| `Files` | `AloneReadsOwnFile`: a descriptor and its copies read the right bytes until somebody opens another file, or tries to, or the inode is closed; `InodesHeld`: only exit loses inodes |
| `Keyboard` | `IsKeyQueue`: nothing lost but at a full ring, nothing reordered or read twice; `LineTerminates` |
| `PriorityScheduler` | `OneRuns`, `StrictPriority`, `StaysOff` (who sleeps or ends is off the CPU unless nobody is READY, and who ended before never runs), and `EqualTurns`: whoever stays runnable at the highest level runs again and again |
| `SharedMemory` | `KeptUntilSecondExit`: a segment loses its first frame only when two of the pages that `shm_at` put are gone |
| `Network` | `FramesInOrder`: no frame torn, skipped or seen twice while the ring wraps; `NewestDelivered`: the first socket of a port holds or has returned the newest datagram for it, cut to its buffer, and nothing but its bytes if its length is true; `NeverOlder` |
| `Collector` | `NoDangling`, `MarksClear`, `IsCollection` |

Why the bounds are enough to be of interest:

* *Process.* Four slots with three stacks make a fork, its reaping, and a
  second fork into the same slot, which is where the ring loses its shape; the
  fourth process gives a ring in which a process can be neither before nor
  behind current, and lets one process sleep, one end and two nest their ticks in
  the halt. Two RUNNING slots and walks that are parked and taken up again are
  reached; a process that `process_exit` picks with a stale frame (`Stale`) needs
  more slots than that, and is covered by the theorems only. Signals 9 and 11
  are one that cannot be handled and one that can. The constraint
  `ThreadsOrHandlers` of `MCProcess` keeps the run short: a behaviour is followed up to
  the first state that has both a thread and an installed handler.
* *Memory.* Two processes share a frame, and the third makes counts of three and
  gives the off-by-one of the sole owner a victim. Thirteen frames are too few
  for three programs with private copies: every failure for want of a frame happens.
  What the frames hold does not matter to `memory_frames`, so all contents are one
  there; it has one page of the window and one above, whose translations may both
  be stale, and one page of the identity map, that of a frame the processes use.
  `memory_private` tells contents apart, has an image page besides, and
  two frames less, which keeps its refinement check short: at most two processes
  then have the program's page tables, and the third one those of a kernel
  process.
* *BobFS.* The disk fills up, the directory fills up, names come back after
  they are deleted, and files have more than one sector.
* *Pipe.* With one slot every new pipe reuses the slot of the last; writes are
  longer than the room, reads longer than the content, and both indices wrap.
  `MaxBelow` bounds how far a count of open ends falls below 0.
* *Heap.* A pool of 120 bytes and sizes 1, 16 and 30: up to nine blocks, sizes
  that round and that do not, splits that just fit and that just do not.
* *Files.* Two processes with one descriptor each, two inodes, two files of
  different length, one of them longer than a sector: inodes that are closed and
  taken again under a copy of the descriptor, opens that fail for want of a
  descriptor, and one that fails behind the first sector.
* *Keyboard.* A ring of three places fills up and wraps in every position; a
  line of at most two characters meets its end and its start.
* *PriorityScheduler.* Three slots at two levels: two equals and one above or
  below them, slot 0 among those killed, so that the last process to run goes to
  sleep with nobody READY; the slot of a process that has gone is taken again.
* *SharedMemory.* Two frames besides frame 0 and one segment of up to two pages
  in two processes: attached twice, passed on by fork, overwritten, dropped by
  exec, and created with too few frames. `MaxCount` bounds counts and history.
* *Network.* A ring of three pages takes frames of one and two pages, so frames
  wrap and the ring is full; three frames and two sockets make a datagram that
  is overwritten before it is read, one that is late, and a port that is bound
  twice. Seven frames are not of our own making: another protocol twice, an IP
  header longer than the frame, one that leaves no room for a UDP header, lengths of
  less than a UDP header (which wraps) and of more than the frame carries, and a
  broadcast with options whose datagram is longer than the buffer of a socket and
  is cut. `LengthWrap` stands for 2^16; `MaxFrames` bounds the frames.
* *Collector.* Three objects with two references and `MaxLinks` links make
  cycles, shared objects and roots that were already reached.

Deadlock is not checked where the system may stop: a kernel that has panicked
or whose processes make no calls, processes that have all exited, a heap that is
full and whose users hold on to their areas. It is checked where the system
goes on for ever: in `memory_private`, where the kernel does not store and so does
not panic, and for `BobFS`.

### Fairness

`FairSpec` assumes that the CPU goes on executing kernel code it has entered
(`WF(KernelStep)`: no interrupt comes in between) and that the timer fires again
and again, at user level or at the halt (`WF(SchedulerTick \/ HaltTick)`: the PIT is
programmed once and never stopped).
Nothing is assumed of the processes: they need not exit, wait or call at all.
`ReadyRuns` and `KernelReturns` hold under it only while no slot is used twice:
`FreshSpec` takes the steps that use a slot a second time out of the next-state
relation, and `process_v_fair` shows that one such step is enough to break
`ReadyRuns`. `MCParts` assumes the timer alone, `WF(SchedTick)`, which is what
`EqualTurns` needs.

## What is proved

`Process_proofs` proves, for every size of the process table, every number of
kernel stacks, every set of address spaces and signals and whatever calls the
processes make:

* `TypeCorrect`: `Spec => []TypeOK`
* `OneRunning`: `Spec => []RunningIsCurrent`
* `RingWalksSafe`: `Spec => []NoNullNext`
* `PidsNeverShared`: `Spec => []UniquePids`
* `NoWakeupLost`: `Spec => []NoLostWakeup`

The assumptions are those of `Process`: `N` is a positive natural number
(`MAX_PROCESSES` is 8), `KStacks` a natural number, the kernel's directory is no
member of `Spaces`, signals are in `1 .. NSIG - 1`.

`RunningIsCurrent` says what the code grants. Of the slots that are not inside a
walk that a tick interrupted (`Halted`), the RUNNING one is current; a process
that is at user level or ends is RUNNING; and one that is inside such a walk
is never at user level. Without the exception it is false: TLC reaches
two RUNNING slots in `process_safety`.

The inductive invariant `IInv` is the conjunction of the five. None of them
stands alone: the walks keep `scan` in its type only because `next` of a slot
they visit is not null (`NoNullNext`); linking a new slot keeps the null pointer
out only because the new slot is not the current one (`RunningIsCurrent`, and
the type of `next`); and `NoLostWakeup` needs that the parent zombify finds by
pid is the only slot with that pid and that a new process has no zombie child
yet, because its pid is fresh (`UniquePids`). There is one lemma for the step of
each conjunct, with a case for every action of `Next`.

The same module proves, of the behaviours up to the first reuse of a slot:

* `RingIsOneCircle`: `FreshSpec => []CircularList`
* `ProcCountExact`: `FreshSpec => []CountIsExact`
* `SpacesHaveOwners`: `FreshSpec => []SpacesOwned`, if nobody calls exec
* `EndedForGood`: `FreshSpec => EndedStaysEnded`, if nobody kills PID 1
* `OneRunningOnly`: under the same condition nothing ever halts, `Halted` is empty and
  exactly the current process is RUNNING, with no exception

Reuse has to be excluded: `process_v_fair` shows what it does to the ring, and a
walk of `process_exit` on a ring without its shape may resume a freed slot. The
other two conditions are on the constant `Calls`, and the properties fail without
them: exec drops the old address space, which then has no owner; and when
the idle process has been killed and no other is READY, `process_exit` goes
back to slot 0 and makes the zombie run. An idle process that is RUNNING or READY
also keeps every walk from halting (`Unhalted`). `RInv` adds to `IInv` that the slots that
were ever linked are one circle, no part of which is closed (`OneRing`), that
slot 0 keeps its process (`IdleSlot`), that a slot in use has a pid
(`SlotsInUse`), and how far `process_exit` is on the ring (`ExitWalk`): its
`steps` are the number of slots it has passed, each once, so the bound of
MAX_PROCESSES steps is never what ends the walk.

`Allocation_proofs` proves, for every size of the pool and all sizes that are asked for:

* `PoolTiled`: `HeapSpec => []Tiled`
* `HeapAllocates`: `HeapSpec => IsAllocator`, the refinement of `Allocator`

`Tiled` is inductive. The step of kmalloc is arithmetic on the two parts of the
block that is split. The step of kfree needs that the merge loop ends at
a header that stays or at the sentinel (`MergedBlock`), which rests on
`Greatest`: a bounded set of numbers has a greatest member, here the last of the
blocks that are merged. The refinement follows from `Tiled`: areas do not
overlap because blocks do not. The pool's size is a multiple of 4
that leaves room for two headers, and sizes are positive.

And for any number of processes, pages, frames and segments:

* `SegmentsLast`: `ShmSpec => KeptUntilSecondExit`

The invariant (`FramesCovered`) holds until a segment has lost a frame: the count
of a segment's frame and the attachments that `shm_at` did not count are
together at least two more than the entries that name the frame, and the count of
any other frame is at least its entries. So when a count reaches zero the
attachments exceed the entries by two, which is what the property says. Entries
are counted as in `Memory_proofs`.

`BobFS_proofs` proves, for every size of the disk and the directory, all names
and all lengths of files:

* `TypeCorrect`: `Spec => []TypeOK`, whatever fails
* `NextIsFree`: `CommitIsSafe => (Spec => []NextSectorFree)`
* `FilesApart`: `CommitIsSafe => (Spec => []FilesDisjoint)`
* `MemoryAgrees`: `WritesAreSafe => (Spec => []MemoryIsDisk)`
* `DiskIsFileStore`: `DeleteReaches => (Spec => IsFileStore)`, the refinement of
  `FileStore`

`CommitIsSafe` is a condition on the constants `CrashAt` and `FailAt`: no power
loss between the two writes that end `fs_create`, and neither of them fails.
`bobfs_v_crash` shows that it is needed, the theorems that nothing else is:
power may go at every other point, and every other write may fail.
`WritesAreSafe` asks the same of `fs_delete`, whose two writes the code does not
check. The invariant behind them says that `next_sector` in memory and on the
disk agree outside `fs_create` (`BoundsOK`), that a disk without a superblock is
empty (`FormatOK`), and what a call that is writing its data may rely on
(`OpOK`); `SameOK` follows the count of files through each of the writes.

`DeleteReaches` is `CommitIsSafe` and that the write of the directory in
`fs_delete` does not fail; it may be lost with the power, and the write of the
superblock behind it may fail. It is needed: `fs_delete` ignores the
error, the slot is free in memory and taken on the disk, and the next
`fs_create` to write the directory replaces a file that was never deleted by
another one in a single step (TLC finds this when `deleteDir` is put into
`FailAt`). The refinement adds to the invariant that the file being written has
the part that is `done` in its sectors, and that the directory on the disk is the
one in memory but for the entry of the call that is under way (`DirOK`). A
step of data writes beyond every file; the write of the directory is the step at
which a file appears, with all its data, or goes; everything else is a
stutter.

`Memory_proofs` proves, for any number of processes, pages and frames, any
choice of the pages the TLB may keep, and every store the kernel may make:

* `TypeCorrect`: `Spec => []TypeOK`; no count falls below 0
* `CountsExact`: `Spec => []RefCountExact`
* `SharedIsReadOnly`: `Spec => []SharedReadOnly`
* `TlbAgrees`: `Spec => []TlbNamesFrame`
* `MemoryIsPrivate`: `StoresFault => (Spec => IsPrivate)`, the refinement of
  `PrivateMemory`

`MemInv` is the conjunction of the four and of `NoTablesNoPages`: a process
without tables has no entries. None stands alone. That a free frame is in no
entry, so that mapping it leaves it with one reference, is the exact count read
backwards; that the sole owner in `CowRestore` may write rests on the count, and
the count after a copy on the entry being the only one that moves; without
`NoTablesNoPages` a fork into an unused slot could overwrite entries that are
counted. The counts are cardinalities of the set of entries that name a frame,
and the lemmas at the start say what a step does to that set: it is the sum over
the tables (`RefsSplit`), and the table of one process changes (`RefsChange`) or
one entry moves (`RefsMove`).

`StoresFault` says that a process can store to a page only through an entry of its
own whose write bit is set: the TLB keeps nothing (`TlbPages` is empty), the kernel
does not store on behalf of a `read`, and no region lies over the identity map
(`LowFrames` is empty). `memory_v_read` shows that the second is needed; the
first is for want of a flush in `fork`, and the third because the fault handler
gives ring 3 the frames of the identity map (see Divergences). A region over the
program or its stack is allowed: it hides CoW faults, which then repeat for ever, but
changes nobody's memory. Everything else the refinement rests on is `MemInv`: a frame that fork, exec or a fault takes is
in no entry, so filling it changes no memory that anybody sees (`FreshUnseen`);
a store goes to a frame with one reference (`SharedReadOnly`); and an exit
frees what only its own entries name. `fork` gives the child the memory its
parent sees, exec the image, a demand fault a page of zeros where there was
none, which is what the process already saw; a copy on write moves an entry to a
frame with the same content, a stutter.

`Descriptors_proofs` proves, for any number of processes, descriptors, inodes and
files:

* `NoInodeLost`: `FilesSpec => []InodesHeld`
* `OwnFileRead`: `FilesSpec => []AloneReadsOwnFile`

`alone` are the descriptors whose file was loaded last and whose inode was not
closed since; an open of another file takes them out, also one that fails. The
invariant adds that a process that is not running has nothing open
(`GoneHaveNone`) and says of the descriptors in `alone` what they hold, inode,
size and buffer (`AloneHold`). And for any number of processes, descriptors and
slots, every size of the buffer and every point at which the indices wrap:

* `PipesWellFormed`: `PipeSpec => []PipeTypeOK`: in every ring buffer `tail` is
  `count` places behind `head`
* `PipeCountsExact`: `PipeSpec => []OpenCountsExact`
* `PipesAreChannels`: `PipeSpec => IsChannel`, the refinement of `Channel`

That a queue survives the wrap of its indices is arithmetic: `IndexWrap` is a
multiple of `PipeBuf`, so the place of an index in the buffer does not jump where
it wraps. The counts are exact only of pipes that never left their
process, in slots that no older descriptor names, which is as much as the code
grants (`pipe_v_close`).

`Rings_proofs` proves, for every size of the ring and of the line:

* `LineFits`: `KeySpec => []LineTerminates`
* `RingImplements`: `KeySpec => IsKeyQueue`, the refinement of `LossyQueue`

The work is in `RingPush` and `RingPop`: with indices that wrap at any
`KbSize > 1`, a push appends to the sequence between tail and head and a pop
takes its first; the invariant adds what the reader holds between its steps. And
for every size of the receive ring, any number of sockets and frames, and
frames of any length with any IP and UDP header:

* `FramesComeInOrder`: `NetSpec => []FramesInOrder`
* `NewestComes`: `NetSpec => []NewestDelivered`
* `NoneIsOlder`: `NetSpec => []NeverOlder`

The invariant says what lies in the ring between the page the driver reads next
and CURR: parts of frames, each followed by the next part of its frame or
the first of the next one, ending with a last part (`RingInOrder`), and that the
driver has copied the first of these pages (`DriverHolds`). The NIC may write at
any step; it writes beyond CURR and leaves BNRY alone, so it never touches those
pages. Of the sockets the invariant says which datagram each holds and which it
has returned, and that the first one bound to a port has seen the last datagram
for it. `NewestDelivered` says of the bytes that a socket never returns more than
its buffer, and nothing but the datagram's own if the length in the UDP header
is true (`Honest`); a false one returns stale bytes, as in the code.

`PriorityScheduler_proofs` proves, for any number of slots and levels:

* `OneRunning`: `SchedSpec => []OneRuns`
* `PriorityIsStrict`: `SchedSpec => StrictPriority`
* `SleepersStayOff`: `SchedSpec => StaysOff`
* `BootLetsSleep`: if nobody kills slot 0, whoever sleeps or ends is off the CPU
  when the call returns

`StaysOff` has to allow that a process which sleeps or ends goes on running when
nobody is READY, because that is what `pick_next` does. `BootLetsSleep` says when
it cannot happen: as long as slot 0 is RUNNING or READY (`BootRuns`), somebody is
READY whenever another process gives up the CPU.

`Collector_proofs` proves, for any number of objects and references:

* `ReferencesHold`: `GcSpec => []NoDangling`
* `NoOldMark`: `GcSpec => []MarksClear`
* `CollectorImplements`: `GcSpec => IsCollection`, the refinement of `Collection`

`GcInv` says of the recursive mark what tri-colour marking says: an object that
is marked and whose activation has returned has only marked references
(`LeftDone`), one whose activation goes on has marked those it has passed
(`GoingOn`), no object has two activations (`CallsOnce`), and every set that
holds the roots and is closed holds what is marked (`OnlyReached`). When the
stack is empty and no root is left, the marked objects are those that can be
reached.

The assumptions of all of these are the named `ASSUME`s of the components: sizes
are natural numbers, positive where the code divides by them, and a level that
`SCHED_PRIO_NORMAL` names exists; processes and pages are finite sets, because
references are counted; bytes are natural numbers, which is what the buffer of a
pipe starts with; of a frame from outside, sizes are natural numbers and the length
in its UDP header has 16 bits; a UDP header and a socket's buffer are together
less than 2^16; a frame number in `LowFrames` is one of the allocator's.

Only model-checked: the liveness properties `KernelReturns`, `ReadyRuns` and
`EqualTurns`, since liveness under fairness is beyond the prover. Every
other property of a passing run is stated by a theorem. Two are proved
with a condition that the run's instance meets and shows it can be met:
`IsFileStore` under `DeleteReaches` (`bobfs_power`) and `IsPrivate` under
`StoresFault` (`memory_private`), as are those of `process_fresh`.

## Divergences

Six runs show the code disagree with its documents:

1. `process_v_fair`. Nothing takes a slot out of the ring when it is freed.
   When the slot of a thread that has ended is used again (or, after fork, wait,
   fork, that of a child), it is linked a second time, and the list
   closes on itself around a part of the processes. The others starve, though
   `10_processes/DECISIONS.md` promises a circular list and fair sharing.
2. `memory_v_read`. `CR0.WP` is never set, so a store by ring 0 into a page
   that fork made read-only does not fault: the data of a `read` after a fork
   appear in the other process. `21_cow/DECISIONS.md` promises a copy on first
   write. The same property fails with `TlbPages` not empty and no store by the
   kernel: fork changes the parent's entries without flushing the
   TLB, so a store before its next switch goes to the shared frame.
3. `bobfs_v_crash`. `fs_create` writes the directory, then the superblock. A loss
   of power between the two leaves `next_sector` before the new file,
   and the next file overwrites it.
4. `pipe_v_close`. `fork` copies descriptors without counting them. When the
   child closes one end and the parent the other, the pipe is freed under both.
5. `shm_v_kept`. A frame of a segment starts at a count of two and `shm_at` does
   not count, but every exit counts down: the second page to go frees
   the frame, which the segment still names. `23_shared_memory/DECISIONS.md:33`
   says that segments exist until the OS reboots.
6. `files_v_own`. All open files share `bobfs_buf`, so a second open changes what
   the first descriptor reads, and a close by a child takes its parent's inode.
   `19_vfs/DECISIONS.md:39` says that the backend can be opened several
   times, line 15 that a child's close does not affect the parent.

Others that reading and exploring the models brought up, and that no run keeps:

* `process_exit` looks at 8 slots at most; on a ring that has lost its shape it
  may stop at a zombie, mark it RUNNING and load a freed page directory.
* The halt of `scheduler_tick`. With the idle process killed and everybody asleep
  or ended, `sti; hlt` lets the timer in, and the nested tick overwrites
  `current->esp` (`process.c:334`). The process that halted is then resumed inside
  its own walk, RUNNING, and hands the CPU on without being put aside: two slots
  are RUNNING, and it never returns to its code. Ticks at the halt nest
  without limit on a kernel stack of 4 KB.
* `mmap` with a hint in the low 4 MB and a touch of the page give ring 3 the
  identity-mapped frame, writable: another process's page, a page table or the
  kernel (`paging.c:100` sets PAGE_USER). `paging_clone_address_space` and
  `paging_new_address_space` take care to strip the same bit. A region over the
  program or its stack hides its CoW faults, and a store there faults for ever.
* A kernel store to a page that is not there (a buffer in a region not yet
  touched) faults in ring 0 and is a panic, though the same store at user level
  would be given a frame.
* `SIGKILL` to a thread of one's own group frees the page directory in CR3; the
  comment at `process.c:444` says it is another one.
* A child that ends while its parent sleeps in `wait` completes that wait and
  stays a zombie: the next `wait` reports it again.
* `process_exit` does not look at a pending `SIGKILL` of the process it
  picks, which `process.c:341` says is never given the CPU.
* A signal ends a `wait` with no child having exited; the caller sees the number
  of the call as exit code.
* No path frees the kernel stack of a process or thread that has gone.
* `exec` in a process made by `process_create` writes its frame below address 0
  (`kernel_stack_top` is 0) and panics: the boot path of the demonstrations.
* Any process may kill PID 1. With the priority scheduler, `pick_next` then returns a
  current process that sleeps or has ended when nobody is READY
  (`25_scheduler/sched.c:80`), and `sched_tick` makes it RUNNING.
* A store to an mmap page shared by fork goes to the demand-paging branch, which
  leaves it read-only: it faults for ever. So does a demand fault with no frame
  left.
* `exec` loses the frames of the old address space and keeps its regions.
* `fs_delete` ignores write errors; a failed `dir_write` in `fs_create` leaves
  memory ahead of the disk; a loss of power between the two writes of
  `fs_delete` leaves `num_files` wrong; sectors of deleted files are
  never used again.
* `kfree` merges forward only, so freeing everything need not give one
  block, as `08_heap/DECISIONS.md:239` says.
* `process_exit` closes no descriptor, so pipes of processes that have gone
  keep their slots.
* An open that fails because a sector cannot be read has overwritten `bobfs_buf` with
  the sectors before it (`vfs.c:135`): a file that another descriptor has
  open changes, though nothing was opened.
* `process_exit` gives back no inode either: after eight files left open by
  processes that have gone, no file can be opened.
* The demonstration of module 19 opens `hello.txt` (`19_vfs/user_prog.c:38`),
  but the mounts are `/` and `vga:` (`19_vfs/kernel.c:82`), and no prefix
  matches.
* A child does inherit the segments of its parent, because the clone copies the
  entries; `23_shared_memory/DECISIONS.md:35` says it does not. `shm_get` takes
  frame 0 for a page when there is no frame left (`pmm.c:20`), and a later exit
  marks frame 0, the interrupt vectors of the BIOS, as free.
* `22_demand_paging/DECISIONS.md:37` says that CoW applies to pages that were
  faulted in; for those the demand branch comes first (see above).
* `25_scheduler/DECISIONS.md` says that `sched_tick` takes `sched_lock` (no
  function does), that the idle process has the lowest priority (slot 0 gets the
  normal one), and that system calls 19 and 20 reach the scheduler (they do
  not).
* A timer interrupt in `udp_input` that switches to a reader of the same socket
  gives it a datagram that is half overwritten: nothing locks `sockets`.
* `ip.c:39` says "no options (IHL=5)", but line 42 refuses only a smaller IHL:
  options are skipped, and the datagram is delivered.
* A UDP length below 8 wraps to 65528 and more (`udp.c:27`), is cut to 512, and the
  socket returns bytes of earlier frames; so does a length beyond the frame's.
* The garbage collector never takes a slot again that it has freed, though
  `heap.h:41` of B09 speaks of a free pool: the heap is full after 1024
  allocations. The depth of its recursion is that of the longest chain of
  objects.
* Releasing one shift key ends both.
* `elf_loader.c:98` calls `fs_read` with two arguments, `fs.h` declares three.

## Not modelled

Boot, GDT, IDT, TSS, PIC and VGA are straight-line set-up and I/O, as is the
port protocol of the disk and of the NIC's remote DMA. The POSIX wrappers
(`posix.c`) translate calls, and include headers their directory lacks. The
driver table (27) is filled once at boot. Of the VFS, the mount table is fixed
at boot and the VGA backend prints. The shell's commands print what other parts
know.

Of the browser track only the garbage collector is modelled. Its other seventeen
demonstrations (tokenizer, cascade, interpreter, cookies, ...) are programs of
their own of a few hundred lines that share no code, most of them sequential
passes over fixed input that print their result. The web application and the
lessons are teaching material and generated pages.

Most lines of the repository are the 28 snapshots of the kernel, near-copies of
one another, and the pages of the web application. Each definition is mapped to
one place, the last snapshot that has the code, so the share of all lines that
the models stand for stays small, though little of the kernel's logic is left
out.

Left out within the components that are modelled: the saturation of a frame's count at
255, `kill(0)`, the stale CR2 that the fault handler reads for other exceptions,
`exec` by processes made with `process_create` beyond the panic it ends in, and
what a store through the identity map does to tables and kernel data. A tick in
the walk behind the halt comes between two iterations of the model; on the machine
it may also come within one, or in the few instructions between the end of the
loop and the `iret`, while the process it picked is already `current`.

## Plan

Done: `Process` first, because everything else runs on it; `Memory`, `BobFS`,
`Pipe` and `Heap` with their abstract specifications; then `Files`,
`SharedMemory`, `Keyboard`, `PriorityScheduler`, `Network` and `Collector`; the
theorems about every component.

What is left, in this order:

1. `BobFS` with two callers that share `sec_buf`: a kernel process in
   `fs_create`, preempted by one that reads.
2. A composition of `Process` with `Memory`: `live` and `Spaces` of `Process`
   as the directories of `Memory`, to follow the frames through a `SIGKILL` in
   one's own group.
3. `Network` with `net_poll` and `udp_recvfrom` interleaved, and its sending side.
4. Proofs: `WalkGoesOn` bounds the walk of `process_exit` by the ring; the same
   for `scheduler_tick` (every READY process is met within one round) as an
   action property, the safety half of `ReadyRuns`.
