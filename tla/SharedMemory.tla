---------------------------- MODULE SharedMemory ----------------------------
(***************************************************************************)
(* Shared memory segments, src/28_posix/shm.c, with what fork, exec, exit  *)
(* and demand paging do to the reference counts of their frames (paging.c, *)
(* pmm.c).  Segments are attached outside the program's own pages, so      *)
(* copy-on-write never applies (see Memory); frames of tables are left out *)
(* and any free frame can be the first one that pmm_alloc_page finds.      *)
(***************************************************************************)
EXTENDS Integers, Sequences, FiniteSets

CONSTANTS
    ShmProcs,   \* address spaces
    NShmFrames,
    ShmPages,   \* the pages that the processes use for segments and data
    Keys,
    MAX_SHM,    \* 8
    MaxSegPages, \* 4
    MaxCount    \* bound on the history and on a frame's count

ASSUME ShmFramesAssumption == NShmFrames \in Nat
ASSUME ShmProcsAssumption == IsFiniteSet(ShmProcs) /\ ShmProcs # {}
ASSUME ShmPagesAssumption == ShmPages \subseteq Nat /\ IsFiniteSet(ShmPages)
ASSUME ShmAssumption == {MAX_SHM, MaxSegPages, MaxCount} \subseteq Nat

PageZero == 0    \* the frame of the interrupt vectors, USED from the start;
                 \* its address also says that there is no frame left
PhysFrames == 0 .. NShmFrames
Absent == NShmFrames + 1

VARIABLES
    frees,     \* the bitmap of pmm.c: the frames marked free
    refcounts,      \* pmm_refcounts
    spaces,    \* the processes that have an address space
    maps,      \* by process and page: the frame its entry points at
    shm_table, \* the segments, by id (from 1 here); none is ever given back
    attaches,  \* history, by frame: pages that shm_at put where it was not yet
    intact     \* history: no segment has lost a frame

shmVars == <<frees, refcounts, spaces, maps, shm_table, attaches, intact>>

NoMaps == [v \in ShmPages |-> Absent]

ShmInit ==
    /\ frees = PhysFrames \ {PageZero}
    /\ refcounts = [f \in PhysFrames |-> 0]
    /\ spaces = {CHOOSE p \in ShmProcs : TRUE}
    /\ maps = [p \in ShmProcs |-> NoMaps]
    /\ shm_table = <<>>
    /\ attaches = [f \in PhysFrames |-> 0]
    /\ intact = TRUE

MapsOf(p, f) == Cardinality({v \in ShmPages : maps[p][v] = f})

SegFrames == UNION {{s.frames[j] : j \in DOMAIN s.frames} :
                    s \in {shm_table[i] : i \in 1 .. Len(shm_table)}}

\* pmm_decref, n times.
DecRef(f, n) == IF refcounts[f] < n THEN 0 ELSE refcounts[f] - n

-----------------------------------------------------------------------------
\* shm_get with a key that no segment has: each frame is allocated (count 1)
\* and counted once more for the segment, whether there was a frame or not.
CountOfSegmentOne == 1   \* mutant: no pmm_incref
CountOfSegment == 2

Allocations(n) ==   \* what n calls of pmm_alloc_page can return
    {fs \in [1 .. n -> frees \cup {PageZero}] :
        /\ \A i, j \in 1 .. n : fs[i] = fs[j] /\ fs[i] \in frees => i = j
        /\ \A i \in 1 .. n : fs[i] \notin frees =>
               frees \subseteq {fs[j] : j \in 1 .. i - 1}}

ShmGet(key, n) ==
    /\ \A i \in 1 .. Len(shm_table) : shm_table[i].key # key
    /\ Len(shm_table) < MAX_SHM
    /\ \E fs \in Allocations(n) :
        /\ shm_table' = Append(shm_table, [key |-> key, frames |-> fs])
        /\ refcounts' = [f \in PhysFrames |->
              LET times == Cardinality({j \in 1 .. n : fs[j] = f})
              IN IF times = 0 THEN refcounts[f]
                 ELSE IF f \in frees THEN CountOfSegment
                 ELSE refcounts[f] + times]
        /\ frees' = frees \ {fs[j] : j \in 1 .. n}
    /\ UNCHANGED <<spaces, maps, attaches, intact>>

\* shm_at: the entries are overwritten, whatever they pointed at, and the
\* frames are not counted.
ShmAt(p, i, v) ==
    LET fs == shm_table[i].frames
        At(u) == u - v + 1
        Here == {u \in ShmPages : At(u) \in DOMAIN fs}
    IN /\ p \in spaces
       /\ v + Len(fs) - 1 \in ShmPages \cup {v - 1}
       /\ maps' = [maps EXCEPT ![p] =
                     [u \in ShmPages |-> IF u \in Here THEN fs[At(u)] ELSE @[u]]]
       /\ attaches' = [f \in PhysFrames |-> attaches[f] +
                     Cardinality({u \in Here : fs[At(u)] = f /\ maps[p][u] # f})]
       /\ \A f \in PhysFrames : attaches'[f] <= MaxCount
       /\ UNCHANGED <<frees, refcounts, spaces, shm_table, intact>>

-----------------------------------------------------------------------------
\* The process touches a page of a region: paging_set_user_page, which takes
\* frame 0 for none, though it is then marked used.
Touch(p, v) ==
    /\ p \in spaces /\ maps[p][v] = Absent
    /\ \E f \in frees :
        /\ maps' = IF f = PageZero THEN maps ELSE [maps EXCEPT ![p][v] = f]
        /\ refcounts' = [refcounts EXCEPT ![f] = 1]
        /\ frees' = frees \ {f}
    /\ UNCHANGED <<spaces, shm_table, attaches, intact>>

\* paging_clone_address_space copies the entries of segments like any other.
ForkSpace(p, q) ==
    /\ p \in spaces /\ q \notin spaces
    /\ spaces' = spaces \cup {q}
    /\ maps' = [maps EXCEPT ![q] = maps[p]]
    /\ refcounts' = [f \in PhysFrames |-> refcounts[f] + MapsOf(p, f)]
    /\ \A f \in PhysFrames : refcounts'[f] <= MaxCount
    /\ UNCHANGED <<frees, shm_table, attaches, intact>>

\* paging_free_address_space, by exit, a fault or SIGKILL: pmm_decref for
\* each entry.
EndSpace(p) ==
    /\ p \in spaces
    /\ spaces' = spaces \ {p}
    /\ maps' = [maps EXCEPT ![p] = NoMaps]
    /\ refcounts' = [f \in PhysFrames |-> DecRef(f, MapsOf(p, f))]
    /\ frees' = frees \cup {f \in PhysFrames : refcounts[f] > 0 /\ refcounts'[f] = 0}
    /\ intact' = (intact /\ (SegFrames \ {PageZero}) \cap frees' = {})
    /\ UNCHANGED <<shm_table, attaches>>

\* do_exec forgets the old address space: nothing is counted down.
ExecSpace(p) ==
    /\ p \in spaces
    /\ maps' = [maps EXCEPT ![p] = NoMaps]
    /\ UNCHANGED <<frees, refcounts, spaces, shm_table, attaches, intact>>

\* A program is started in a slot that has no address space.
StartSpace(p) ==
    /\ p \notin spaces
    /\ spaces' = spaces \cup {p}
    /\ UNCHANGED <<frees, refcounts, maps, shm_table, attaches, intact>>

ShmNext ==
    \/ \E key \in Keys, n \in 0 .. MaxSegPages : ShmGet(key, n)
    \/ \E p \in ShmProcs :
        \/ EndSpace(p) \/ ExecSpace(p) \/ StartSpace(p)
        \/ \E q \in ShmProcs : ForkSpace(p, q)
        \/ \E v \in ShmPages :
            Touch(p, v) \/ \E i \in 1 .. Len(shm_table) : ShmAt(p, i, v)

ShmSpec == ShmInit /\ [][ShmNext]_shmVars
-----------------------------------------------------------------------------
Users(f) == Cardinality({m \in ShmProcs \X ShmPages : maps[m[1]][m[2]] = f})

\* "They exist until the OS reboots" (23_shared_memory/DECISIONS.md, 4): no
\* frame of a segment is free to be given to somebody else.
SegmentsKept == SegFrames \cap frees = {}

\* What the code keeps of it: a segment loses its first frame only when, of
\* the pages that shm_at put there itself, two are gone, however the mappings
\* were passed on by fork, overwritten, or dropped by exec.
KeptUntilSecondExit ==
    [][intact /\ ~intact' =>
         \E f \in SegFrames : attaches'[f] - Users(f)' >= 2]_shmVars
=============================================================================
