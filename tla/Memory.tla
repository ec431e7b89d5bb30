------------------------------- MODULE Memory -------------------------------
(***************************************************************************)
(* User memory of the BobOS kernel: page frames and their reference counts *)
(* (src/28_posix/pmm.c), page directories, copy-on-write fork and the CoW  *)
(* fault (paging.c), demand paging (mmap.c, process_fault_handler in       *)
(* process.c) and the loading of a program (elf_loader.c, do_exec).        *)
(*                                                                         *)
(* One process for each address space.  A frame that holds a page of a     *)
(* process has an identity, a count and a content; a frame that holds a    *)
(* page directory or a page table is only counted, in tables.  Handlers    *)
(* run with interrupts disabled: one action each.                          *)
(***************************************************************************)
EXTENDS Integers, FiniteSets

CONSTANTS
    Procs,       \* processes; one without tables runs kernel code in the
                 \* kernel's page directory, or is a free slot
    NFrames,     \* the frames the page allocator manages
    ImagePages,  \* page numbers of the program: below 0x7FF000, PDE 1
    StackPage,   \* the page of the user stack, 0x7FF000, PDE 1
    AnonPages,   \* pages above 0x800000 (mmap hands them out from 0xC00000
                 \* on, or at the hint): one page table
    LowFrames,   \* frames whose page in the identity map (0 .. 4 MB) the
                 \* processes of this instance name in a call
    Values,      \* contents that the properties tell apart
    FileData,    \* a page as elf_load fills it; Zero where it does not matter
    TlbPages,    \* pages whose translation may stay in the TLB until it is
                 \* flushed; of the others it is evicted before the next use
    Calls        \* the system calls that the processes of this instance make

Frames == 1 .. NFrames
Window == ImagePages \cup {StackPage}     \* 0x400000 .. 0x7FFFFF
Pages == Window \cup AnonPages
Zero == 0                                 \* a page as zero_page leaves it
Tables == {"pd", "pt0", "image", "anon"}
AllCalls == {"exec", "fork", "mmap", "exit", "kill", "read"}

ASSUME NFramesAssumption == NFrames \in Nat
ASSUME PagesAssumption == /\ Pages \subseteq Nat
                          /\ IsFiniteSet(Pages)
                          /\ StackPage \notin ImagePages
                          /\ Window \cap AnonPages = {}
ASSUME LowAssumption == LowFrames \subseteq Frames
ASSUME ProcsAssumption == IsFiniteSet(Procs)
ASSUME ValuesAssumption == {Zero, FileData} \subseteq Values
ASSUME TlbAssumption == TlbPages \subseteq Pages
ASSUME CallsAssumption == Calls \subseteq AllCalls

VARIABLES
    ref,      \* pmm_refcounts; a frame is free when its count is 0
    content,
    tables,   \* by process: its page directory and page tables
    pte,      \* by process and page: the page table entry
    regions,  \* by process: the pages of its vm_regions
    low,      \* by process and identity-mapped page: whether a region of
              \* vm_regions covers it, and whether PAGE_USER is set in it
    current,
    panicked, \* kernel_panic has stopped the machine
    tlb,      \* the TLB, by page: an entry as the MMU read it, or NoPage
    leaked,   \* history: frames of directories and tables no process has
    lost      \* history, by frame: entries in the tables no process has

memory ==
    <<ref, content, tables, pte, regions, low, current, tlb, leaked, lost>>
vars == <<memory, panicked>>

NoPage == [frame |-> 0, w |-> FALSE]
NoTlb == [v \in TlbPages |-> NoPage]
Mapped(f) == [frame |-> f, w |-> TRUE]
Covered == {"none", "region", "user"}
NoLow == [f \in LowFrames |-> "none"]
Supervisor(l) ==
    [f \in LowFrames |-> IF l[f] = "none" THEN "none" ELSE "region"]
Spaced == {p \in Procs : tables[p] # {}}
AtUser == {p \in Procs : "image" \in tables[p]}

Init ==
    /\ ref = [f \in Frames |-> 0]
    /\ content = [f \in Frames |-> Zero]
    /\ tables = [p \in Procs |-> {}]
    /\ pte = [p \in Procs |-> [v \in Pages |-> NoPage]]
    /\ regions = [p \in Procs |-> {}]
    /\ low = [p \in Procs |-> NoLow]
    /\ current \in Procs
    /\ tlb = NoTlb
    /\ leaked = 0
    /\ lost = [f \in Frames |-> 0]
    /\ panicked = FALSE

(***************************************************************************)
(* pmm.c                                                                   *)
(***************************************************************************)
FreeFrames == {f \in Frames : ref[f] = 0}
TableFrames == Cardinality(UNION {{p} \X tables[p] : p \in Procs})
Room == Cardinality(FreeFrames) - TableFrames - leaked

\* pmm_alloc_page, k times: first fit.  Which numbers the tables have is
\* abstracted, so the k lowest frames that hold no page are taken.
Lowest(k) ==
    {f \in FreeFrames : Cardinality({g \in 1 .. f - 1 : ref[g] = 0}) < k}

\* How many entries of process p, among the pages V, point at frame f.
EntriesOf(p, V, f) == Cardinality({v \in V : pte[p][v].frame = f})

(***************************************************************************)
(* paging_free_address_space: pmm_decref for every page, pmm_free_page for *)
(* the tables.  The slot's vm_regions are reset when it is used again.     *)
(***************************************************************************)
FreeAddressSpace(p) ==
    /\ ref' = [f \in Frames |-> ref[f] - EntriesOf(p, Pages, f)]
    /\ tables' = [tables EXCEPT ![p] = {}]
    /\ pte' = [pte EXCEPT ![p] = [v \in Pages |-> NoPage]]
    /\ regions' = [regions EXCEPT ![p] = {}]
    /\ low' = [low EXCEPT ![p] = NoLow]
    /\ UNCHANGED <<content, leaked, lost>>

(***************************************************************************)
(* Processes.                                                              *)
(***************************************************************************)
\* scheduler_tick: CR3 is loaded, for the same process too.
Run(q) ==
    /\ current' = q
    /\ tlb' = NoTlb
    /\ UNCHANGED <<ref, content, tables, pte, regions, low, leaked, lost>>

\* process_exit, by SYS_EXIT or by a fault: another process's CR3 is loaded
\* first.
Exit ==
    /\ FreeAddressSpace(current)
    /\ current' \in Procs \ {current}
    /\ tlb' = NoTlb

ExitCall == current \in Spaced /\ "exit" \in Calls /\ Exit

\* SIGKILL to another process.
Kill(q) ==
    /\ "kill" \in Calls
    /\ q \in Spaced \ {current}
    /\ FreeAddressSpace(q)
    /\ UNCHANGED <<current, tlb>>

\* do_exec: elf_load makes the address space (two frames), a page table and
\* the image's pages; the page of the stack is mapped if a frame is left.
\* The old address space is forgotten, vm_regions stays as it is.  (A process
\* in the kernel's directory panics in exec: see Process.)
ExecNeeds == 3 + Cardinality(ImagePages)
LoadPages(loaded, fresh) ==
    \E at \in [loaded -> fresh] :
        /\ fresh = {at[v] : v \in loaded}
        /\ \A u, v \in loaded : u < v => at[u] < at[v]
        /\ ref' = [f \in Frames |-> IF f \in fresh THEN 1 ELSE ref[f]]
        /\ content' = [f \in Frames |->
             IF f \in fresh
             THEN IF \E v \in ImagePages : at[v] = f THEN FileData ELSE Zero
             ELSE content[f]]
        /\ pte' = [pte EXCEPT ![current] =
             [v \in Pages |-> IF v \in loaded THEN Mapped(at[v]) ELSE NoPage]]
Exec ==
    /\ "exec" \in Calls /\ current \in Spaced
    /\ Room >= ExecNeeds
    /\ LET loaded == IF Room > ExecNeeds THEN Window ELSE ImagePages
       IN LoadPages(loaded, Lowest(Cardinality(loaded)))
    /\ tables' = [tables EXCEPT ![current] = {"pd", "pt0", "image"}]
    /\ leaked' = leaked + Cardinality(tables[current])
    /\ lost' = [f \in Frames |-> lost[f] + EntriesOf(current, Pages, f)]
    /\ low' = [low EXCEPT ![current] = Supervisor(@)]
    /\ tlb' = NoTlb
    /\ UNCHANGED <<regions, current>>

\* elf_load runs out of frames and drops what it has built.
ExecFails ==
    /\ "exec" \in Calls
    /\ Room \in 1 .. ExecNeeds - 1
    /\ leaked' = leaked + Room
    /\ UNCHANGED <<ref, content, tables, pte, regions, low, current, tlb>>
    /\ UNCHANGED <<lost>>

(***************************************************************************)
(* paging_clone_address_space and process_fork.  The kernel's directory is *)
(* cloned like any other: two frames, no user page.                        *)
(***************************************************************************)
CloneTables(p) == tables[p] \cup {"pd", "pt0"}
StillWritable(e) == e   \* mutant: PAGE_WRITABLE is not cleared
Unwritable(e) == [e EXCEPT !.w = FALSE]
SharedEntries(p, V) ==
    [v \in Pages |-> IF v \in V THEN Unwritable(pte[p][v]) ELSE pte[p][v]]
RefsAfterCloneUncounted(V) == ref   \* mutant: no pmm_incref
RefsAfterClone(V) ==
    [f \in Frames |-> ref[f] + EntriesOf(current, V, f)]

\* The parent's entries are changed and CR3 is not reloaded: what the TLB
\* holds stays.
Fork(q) ==
    /\ "fork" \in Calls
    /\ q \notin Spaced /\ q # current
    /\ Room >= Cardinality(CloneTables(current))
    /\ tables' = [tables EXCEPT ![q] = CloneTables(current)]
    /\ pte' = [pte EXCEPT ![current] = SharedEntries(current, Pages),
                          ![q] = SharedEntries(current, Pages)]
    /\ ref' = RefsAfterClone(Pages)
    /\ regions' = [regions EXCEPT ![q] = regions[current]]
    /\ low' = [low EXCEPT ![q] = Supervisor(low[current])]
    /\ UNCHANGED <<content, current, tlb, leaked, lost>>

\* The clone is made but there is no kernel stack or slot for the child: it
\* is freed again, and the parent's entries stay unwritable.
ForkUndone ==
    /\ "fork" \in Calls
    /\ Room >= Cardinality(CloneTables(current))
    /\ pte' = [pte EXCEPT ![current] = SharedEntries(current, Pages)]
    /\ UNCHANGED <<ref, content, tables, regions, low, current, tlb, leaked>>
    /\ UNCHANGED <<lost>>

\* No frame for one of the tables: the clone is dropped half-way, with the
\* references of the page tables it has copied (in the order of Tables).
ForkFails ==
    /\ "fork" \in Calls
    /\ Room \in 1 .. Cardinality(CloneTables(current)) - 1
    /\ leaked' = leaked + Room
    /\ LET copied == IF Room > 2 THEN Window ELSE {}
       IN /\ pte' = [pte EXCEPT ![current] = SharedEntries(current, copied)]
          /\ ref' = RefsAfterClone(copied)
          /\ lost' = [f \in Frames |-> lost[f] + EntriesOf(current, copied, f)]
    /\ UNCHANGED <<content, tables, regions, low, current, tlb>>

\* do_mmap: only the region is noted.  The base is the next one of mmap's own
\* or, with a hint, any page: one above 0x800000, one of the program or of its
\* stack, or one of the identity map.
Mmap(v) ==
    /\ "mmap" \in Calls /\ current \in AtUser
    /\ v \in Pages \ regions[current]
    /\ regions' = [regions EXCEPT ![current] = @ \cup {v}]
    /\ UNCHANGED <<ref, content, tables, pte, low, current, tlb, leaked, lost>>

MmapLow(f) ==
    /\ "mmap" \in Calls /\ current \in AtUser
    /\ low[current][f] = "none"
    /\ low' = [low EXCEPT ![current][f] = "region"]
    /\ UNCHANGED <<ref, content, tables, pte, regions, current, tlb>>
    /\ UNCHANGED <<leaked, lost>>

(***************************************************************************)
(* The MMU (external).  An access is translated by the TLB or, if the      *)
(* entry has been evicted, by the page table.                              *)
(***************************************************************************)
Translations(v) ==
    {pte[current][v]} \cup
    (IF v \in TlbPages /\ tlb[v] # NoPage THEN {tlb[v]} ELSE {})
Filled(v, e) == IF v \in TlbPages THEN [tlb EXCEPT ![v] = e] ELSE tlb
NoInvlpg(v) == UNCHANGED tlb   \* mutant
Invlpg(v) == tlb' = Filled(v, NoPage)

Load(v) ==
    /\ current \in AtUser
    /\ \E e \in Translations(v) : e.frame # 0 /\ tlb' = Filled(v, e)
    /\ UNCHANGED <<ref, content, tables, pte, regions, low, current, leaked>>
    /\ UNCHANGED <<lost>>

Store(v, d) ==
    /\ current \in AtUser
    /\ \E e \in Translations(v) :
        /\ e.frame # 0 /\ e.w
        /\ content' = [content EXCEPT ![e.frame] = d]
        /\ tlb' = Filled(v, e)
    /\ UNCHANGED <<ref, tables, pte, regions, low, current, leaked, lost>>

\* The kernel stores into a page of the process: the data of SYS_READ, the
\* descriptors of SYS_PIPE, a signal frame.  CR0.WP is never set, so ring 0
\* does not see that a page is not writable.
KernelStore(v, d) ==
    /\ "read" \in Calls /\ current \in AtUser
    /\ \E e \in Translations(v) :
        /\ e.frame # 0
        /\ content' = [content EXCEPT ![e.frame] = d]
        /\ tlb' = Filled(v, e)
    /\ UNCHANGED <<ref, tables, pte, regions, low, current, leaked, lost>>

\* The page has no frame: interrupt_handler calls process_fault_handler only
\* for a fault in ring 3, a fault in ring 0 is a panic.
KernelFault(v) ==
    /\ "read" \in Calls /\ current \in AtUser
    /\ \E e \in Translations(v) : e.frame = 0
    /\ panicked' = TRUE
    /\ UNCHANGED memory

\* The address is one of the identity map: the process has PAGE_USER there, or
\* the kernel stores for it.  (A frame that holds a table or the kernel's own
\* data has no content here: what such a store does to it is not followed.)
LowStore(f, d) ==
    /\ current \in AtUser
    /\ low[current][f] = "user" \/ "read" \in Calls
    /\ content' = [content EXCEPT ![f] = d]
    /\ UNCHANGED <<ref, tables, pte, regions, low, current, tlb, leaked, lost>>

Faults(v, write) ==
    /\ current \in AtUser
    /\ \E e \in Translations(v) : e.frame = 0 \/ (write /\ ~e.w)

(***************************************************************************)
(* process_fault_handler, and the access is tried again.                   *)
(***************************************************************************)
\* A page of a region that is not there: paging_set_user_page maps a zeroed
\* frame, after a page table if there is none.
TableOf(v) == IF v \in Window THEN "image" ELSE "anon"

DemandFault(v) ==
    /\ \E write \in BOOLEAN : Faults(v, write)
    /\ v \in regions[current] /\ pte[current][v] = NoPage
    /\ Room >= 1 + Cardinality({TableOf(v)} \ tables[current])
    /\ tables' = [tables EXCEPT ![current] = @ \cup {TableOf(v)}]
    /\ \E f \in Lowest(1) :
        /\ pte' = [pte EXCEPT ![current][v] = Mapped(f)]
        /\ ref' = [ref EXCEPT ![f] = 1]
        /\ content' = [content EXCEPT ![f] = Zero]
    /\ Invlpg(v)
    /\ UNCHANGED <<regions, low, current, leaked, lost>>

\* The last frame has become the page table.
DemandFaultNoFrame(v) ==
    /\ \E write \in BOOLEAN : Faults(v, write)
    /\ v \in regions[current] /\ pte[current][v] = NoPage
    /\ Room = 1 /\ TableOf(v) \notin tables[current]
    /\ tables' = [tables EXCEPT ![current] = @ \cup {TableOf(v)}]
    /\ UNCHANGED <<ref, content, pte, regions, low, current, tlb, leaked>>
    /\ UNCHANGED <<lost>>

\* A store to a page of a region that is there, but shared by fork: the
\* entry keeps its flags, and the store will fault again.  (A region over the
\* image or the stack comes before paging_cow_fault.)
DemandFaultAgain(v) ==
    /\ Faults(v, TRUE)
    /\ v \in regions[current] /\ pte[current][v] # NoPage
    /\ Invlpg(v)
    /\ UNCHANGED <<ref, content, tables, pte, regions, low, current, leaked>>
    /\ UNCHANGED <<lost>>

\* A region over the identity map, where every page is there: PAGE_USER is set.
LowFault(f) ==
    /\ current \in AtUser
    /\ low[current][f] = "region"
    /\ low' = [low EXCEPT ![current][f] = "user"]
    /\ UNCHANGED <<ref, content, tables, pte, regions, current, tlb>>
    /\ UNCHANGED <<leaked, lost>>

\* paging_cow_fault.
CowPage(v) ==
    /\ Faults(v, TRUE)
    /\ v \in Window \ regions[current] /\ pte[current][v] # NoPage

SoleOwnerOfTwo(f) == ref[f] <= 2   \* mutant: off by one
SoleOwner(f) == ref[f] <= 1

CowRestore(v) ==
    /\ CowPage(v) /\ SoleOwner(pte[current][v].frame)
    /\ pte' = [pte EXCEPT ![current][v].w = TRUE]
    /\ Invlpg(v)
    /\ UNCHANGED <<ref, content, tables, regions, low, current, leaked, lost>>

RefsAfterCopyKept(f, old) == [ref EXCEPT ![f] = 1]   \* mutant: no pmm_decref
RefsAfterCopy(f, old) == [ref EXCEPT ![f] = 1, ![old] = @ - 1]

CowCopy(v) ==
    /\ CowPage(v) /\ ~SoleOwner(pte[current][v].frame)
    /\ Room >= 1
    /\ LET old == pte[current][v].frame
       IN \E f \in Lowest(1) :
            /\ content' = [content EXCEPT ![f] = content[old]]
            /\ ref' = RefsAfterCopy(f, old)
            /\ pte' = [pte EXCEPT ![current][v] = Mapped(f)]
    /\ Invlpg(v)
    /\ UNCHANGED <<tables, regions, low, current, leaked, lost>>

\* No region and no CoW page explains the fault, or there is no frame for the
\* copy: the process is killed (or its SIGSEGV handler entered: no change).
FatalFault(v) ==
    /\ v \notin regions[current]
    /\ \/ Faults(v, FALSE)
       \/ Faults(v, TRUE) /\ ~CowPage(v)
       \/ CowPage(v) /\ ~SoleOwner(pte[current][v].frame) /\ Room = 0
    /\ Exit

-----------------------------------------------------------------------------
Running ==
    \/ \E q \in Procs : Run(q) \/ Kill(q) \/ Fork(q)
    \/ ExitCall \/ Exec \/ ExecFails \/ ForkUndone \/ ForkFails
    \/ \E v \in Pages :
        \/ Mmap(v) \/ Load(v)
        \/ DemandFault(v) \/ DemandFaultNoFrame(v) \/ DemandFaultAgain(v)
        \/ CowRestore(v) \/ CowCopy(v) \/ FatalFault(v)
        \/ \E d \in Values : Store(v, d) \/ KernelStore(v, d)
    \/ \E f \in LowFrames :
        \/ MmapLow(f) \/ LowFault(f)
        \/ \E d \in Values : LowStore(f, d)

\* After kernel_panic (cli; hlt) nothing happens any more.
Next ==
    /\ ~panicked
    /\ \/ Running /\ UNCHANGED panicked
       \/ \E v \in Pages : KernelFault(v)

Spec == Init /\ [][Next]_vars

-----------------------------------------------------------------------------
Entries == [frame : 0 .. NFrames, w : BOOLEAN]

TypeOK ==
    /\ ref \in [Frames -> Nat]
    /\ content \in [Frames -> Values]
    /\ tables \in [Procs -> SUBSET Tables]
    /\ pte \in [Procs -> [Pages -> Entries]]
    /\ regions \in [Procs -> SUBSET Pages]
    /\ low \in [Procs -> [LowFrames -> Covered]]
    /\ current \in Procs
    /\ tlb \in [TlbPages -> Entries]
    /\ leaked \in Nat
    /\ lost \in [Frames -> Nat]
    /\ panicked \in BOOLEAN

\* The reference count of a frame is the number of page table entries that
\* point at it, in the tables of the processes and in the tables that a
\* replaced or half-built address space left behind: no frame is freed while
\* a process maps it, and none stays in use when the last has gone.
RefCountExact ==
    \A f \in Frames :
        ref[f] = lost[f] + Cardinality(
            {m \in Procs \X Pages : pte[m[1]][m[2]].frame = f})

\* A frame with more than one reference is writable through no page table
\* entry: every store to a shared page faults.
SharedReadOnly ==
    \A p \in Procs, v \in Pages :
        pte[p][v].w => pte[p][v].frame # 0 /\ ref[pte[p][v].frame] = 1

\* Whatever the TLB still holds of the running process points at the frame
\* the page table names: no path that changes the frame of a page of the
\* running process leaves the old translation behind.
TlbNamesFrame ==
    \A v \in TlbPages :
        tlb[v] # NoPage => tlb[v].frame = pte[current][v].frame

\* Each process has a memory of its own: see PrivateMemory.
MemoryOf(p) ==
    IF p \notin Spaced THEN [v \in {} |-> v]
    ELSE [v \in Pages |-> IF pte[p][v].frame = 0 THEN Zero
                          ELSE content[pte[p][v].frame]]
Private == INSTANCE PrivateMemory WITH
    Blank <- [v \in Pages |-> Zero],
    Image <- [v \in Pages |-> IF v \in ImagePages THEN FileData ELSE Zero],
    mem <- [p \in Procs |-> MemoryOf(p)]
IsPrivate == Private!Spec
=============================================================================
