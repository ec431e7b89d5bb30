------------------------------ MODULE Process ------------------------------
(***************************************************************************)
(* Processes, threads, signals and the round-robin scheduler of the BobOS  *)
(* kernel: src/28_posix/process.c, and the system calls of syscall.c that  *)
(* reach it (the file is the same in every snapshot from 24_threads on).   *)
(*                                                                         *)
(* One CPU; every vector is an interrupt gate, so a handler runs to its    *)
(* iret without interruption.  A handler whose effect is a fixed           *)
(* assignment is one action.  The two loops that walk the scheduler ring   *)
(* (in scheduler_tick and in process_exit) are one action per iteration:   *)
(* pc says which loop the kernel is in, and while pc # "user" no process   *)
(* or signal can act.  A loop that never ends is then a behaviour that     *)
(* stays in pc = "scan", as it is on the machine.                          *)
(*                                                                         *)
(* The exception is the halt of scheduler_tick, `sti; hlt`: it enables the *)
(* interrupts, and they stay enabled in what is left of the walk.  A timer *)
(* interrupt there calls scheduler_tick again, on the same stack, and the  *)
(* esp of the current process then points into the walk: when it gets the  *)
(* CPU, that walk goes on (parked).  In the walk such a tick comes between *)
(* two iterations; that it may come within one is left out.                *)
(***************************************************************************)
EXTENDS Integers, FiniteSets

CONSTANTS
    N,         \* MAX_PROCESSES, the size of proc_table (8 in process.h)
    KStacks,   \* how many kernel stacks the heap can supply: none is ever freed
    Spaces,    \* address spaces (page directories) the page allocator can supply
    Signals,   \* the signal numbers processes use, within 1 .. NSIG-1
    Installed, \* the dispositions that SYS_SIGNAL asks for
    Calls      \* the kernel entries that the processes of this instance make

Slots == 0 .. N - 1
Nil == N                      \* the null pointer in next
KernelCR3 == "kernel"         \* paging_kernel_cr3()
SIGHUP == 1
SIGKILL == 9
SIGSEGV == 11
SIGTERM == 15
NSIG == 32
Dispositions == {"dfl", "ign", "user"}
States == {"ready", "running", "dead", "zombie", "waiting"}
Kinds == {"kernel", "forked", "thread"}
AllCalls == {"create", "fork", "thread", "wait", "exit", "kill", "killidle",
             "signal", "exec", "fault"}

ASSUME NAssumption == N \in Nat \ {0}
ASSUME KStacksAssumption == KStacks \in Nat
ASSUME SpacesAssumption == KernelCR3 \notin Spaces
ASSUME SignalsAssumption == Signals \subseteq 1 .. NSIG - 1
ASSUME InstalledAssumption == Installed \subseteq Dispositions
ASSUME CallsAssumption == Calls \subseteq AllCalls

VARIABLES
    pid, state, next, parent,   \* the fields of struct process, by slot
    pending, handler, kind, cr3,
    parked,   \* esp, by slot: the walk it points into goes on here; or Nil
    current, nextPid, procCount,
    live,     \* the page directories allocated and not yet freed
    pc,       \* where the kernel is: see above
    scan,     \* the local variable next of the loop that pc names
    ints,     \* the interrupts are enabled in the walk
    steps     \* the local variable i of the loop of process_exit

fields == <<pid, state, next, parent, pending, handler, kind, cr3, parked>>
vars == <<fields, current, nextPid, procCount, live, pc, scan, ints, steps>>

\* "halt": at the hlt.  "panic": kernel_panic, or the kernel's stack is lost.
PCs == {"user", "scan", "wrap", "halt", "dying", "exit", "panic"}

(***************************************************************************)
(* process_init: slot 0 is the boot context, PID 1, the idle process.      *)
(***************************************************************************)
Init ==
    /\ pid = [s \in Slots |-> IF s = 0 THEN 1 ELSE 0]
    /\ state = [s \in Slots |-> IF s = 0 THEN "running" ELSE "dead"]
    /\ next = [s \in Slots |-> IF s = 0 THEN 0 ELSE Nil]
    /\ parent = [s \in Slots |-> 0]
    /\ pending = [s \in Slots |-> {}]
    /\ handler = [s \in Slots |-> [g \in Signals |-> "dfl"]]
    /\ kind = [s \in Slots |-> "kernel"]
    /\ cr3 = [s \in Slots |-> KernelCR3]
    /\ parked = [s \in Slots |-> Nil]
    /\ current = 0
    /\ nextPid = 2
    /\ procCount = 1
    /\ live = {}
    /\ pc = "user"
    /\ scan = 0
    /\ ints = FALSE
    /\ steps = 0

(***************************************************************************)
(* Helpers.                                                                *)
(***************************************************************************)
\* find_free_slot: the lowest slot that is DEAD and has no pid.
Free(s) == state[s] = "dead" /\ pid[s] = 0
FirstFree(s) == Free(s) /\ \A t \in Slots : Free(t) => s <= t

\* Mutant: one stack too many.
StackAvailableOffByOne == nextPid - 2 <= KStacks

\* kmalloc(PROC_STACK_SIZE) succeeds: the heap serves nothing else, and the
\* stack of a process that has gone is never given back.
StackAvailable == nextPid - 2 < KStacks

\* Mutant: zombify wakes nobody.
WokenNobody(p) == {}

\* zombify, the parent that sleeps in wait, found by its pid.
Woken(p) == {q \in Slots : /\ parent[p] # 0
                           /\ pid[q] = parent[p]
                           /\ q # p
                           /\ state[q] = "waiting"}

\* zombify(p): the slot keeps its pid; a parent asleep in wait is made READY
\* with the exit code in its saved EAX.
Zombify(p) ==
    /\ state' = [s \in Slots |-> IF s = p THEN "zombie"
                                 ELSE IF s \in Woken(p) THEN "ready"
                                 ELSE state[s]]
    /\ pending' = [pending EXCEPT ![p] = {}]

\* Mutant: the address space is not freed.
FreeSpaceOfNothing(p) == UNCHANGED live

\* paging_free_address_space(cr3[p]), skipped for the kernel's directory.
FreeSpaceOf(p) == live' = live \ {cr3[p]}

\* A slot becomes free: wait has reaped it, or its thread has ended.
ReleaseUncounted(s) ==   \* mutant: proc_count is not decremented
    /\ state' = [state EXCEPT ![s] = "dead"]
    /\ pid' = [pid EXCEPT ![s] = 0]
    /\ UNCHANGED procCount

Release(s) ==
    /\ state' = [state EXCEPT ![s] = "dead"]
    /\ pid' = [pid EXCEPT ![s] = 0]
    /\ procCount' = procCount - 1

\* deliver_user_signals: the signals that end process n, by number.
Fatal == {SIGHUP, SIGSEGV, SIGTERM}
Deadly(n) == {g \in pending[n] : \/ g = SIGKILL
                                 \/ g \in Fatal /\ handler[n][g] = "dfl"}

\* return current->esp, for process n: on it goes where it was interrupted, in
\* its own code or in a walk of its own.
Resume(n) ==
    IF parked[n] = Nil
    THEN pc' = "user" /\ ints' = FALSE /\ UNCHANGED scan
    ELSE pc' = "scan" /\ ints' = TRUE /\ scan' = parked[n]

\* The tail of scheduler_tick: n gets the CPU and its pending signals are
\* delivered, lowest first, until one of them ends it.
Dispatch(n) ==
    /\ current' = n
    /\ state' = [state EXCEPT ![n] = "running"]
    /\ IF Deadly(n) = {}
       THEN /\ pending' = [pending EXCEPT ![n] = {}]
            /\ Resume(n)
       ELSE \E first \in Deadly(n) :
            /\ \A g \in Deadly(n) : first <= g
            /\ pending' = [pending EXCEPT ![n] = {g \in @ : first < g}]
            /\ pc' = "dying" /\ ints' = FALSE /\ UNCHANGED scan

\* next_pid++.
TakePidAgain(p) ==   \* mutant: next_pid is not incremented
    pid' = [pid EXCEPT ![p] = nextPid] /\ UNCHANGED nextPid

TakePid(p) == pid' = [pid EXCEPT ![p] = nextPid] /\ nextPid' = nextPid + 1

\* Slot p is linked into the ring after current.
LinkedForgotten(p) == [next EXCEPT ![current] = p]           \* mutant
LinkedSwapped(p) == [next EXCEPT ![current] = p, ![p] = p]   \* mutant: order
Linked(p) == [next EXCEPT ![p] = next[current], ![current] = p]

\* The part that process_create, process_fork and process_thread_create
\* share: fill slot p and link it.
NewProcess(p, knd, space, hdl) ==
    /\ TakePid(p)
    /\ state' = [state EXCEPT ![p] = "ready"]
    /\ parent' = [parent EXCEPT ![p] = pid[current]]
    /\ pending' = [pending EXCEPT ![p] = {}]
    /\ handler' = [handler EXCEPT ![p] = hdl]
    /\ kind' = [kind EXCEPT ![p] = knd]
    /\ cr3' = [cr3 EXCEPT ![p] = space]
    /\ parked' = [parked EXCEPT ![p] = Nil]
    /\ next' = Linked(p)
    /\ procCount' = procCount + 1
    /\ UNCHANGED <<current, pc, scan, ints, steps>>

\* The current process is at user level, or is kernel code between calls.
\* The idle process (slot 0) only halts once kernel_main has set up.
Calling(call) == pc = "user" /\ call \in Calls /\ current # 0

(***************************************************************************)
(* Entries into the kernel.  A call that fails changes nothing but the     *)
(* caller's EAX and is no action.                                          *)
(***************************************************************************)
\* process_create, called by kernel_main.
Create ==
    /\ pc = "user" /\ "create" \in Calls /\ current = 0
    /\ procCount < N /\ StackAvailable
    /\ \E p \in Slots :
        /\ FirstFree(p)
        /\ NewProcess(p, "kernel", KernelCR3, [g \in Signals |-> "dfl"])
    /\ UNCHANGED live

\* process_fork: a new address space, the handlers but not the pending set.
Fork ==
    /\ Calling("fork")
    /\ procCount < N /\ StackAvailable
    /\ \E a \in Spaces \ live, p \in Slots :
        /\ FirstFree(p)
        /\ NewProcess(p, "forked", a, handler[current])
        /\ live' = live \cup {a}

\* process_thread_create: the creator's address space.
ThreadCreate ==
    /\ Calling("thread")
    /\ procCount < N /\ StackAvailable
    /\ \E p \in Slots :
        /\ FirstFree(p)
        /\ NewProcess(p, "thread", cr3[current], handler[current])
    /\ UNCHANGED live

\* process_wait with a zombie child: the lowest such slot is reaped.
ZombieChild(s) == parent[s] = pid[current] /\ state[s] = "zombie"

WaitReap ==
    /\ Calling("wait")
    /\ \E s \in Slots :
        /\ ZombieChild(s)
        /\ \A t \in Slots : ZombieChild(t) => s <= t
        /\ Release(s)
    /\ UNCHANGED <<next, parent, pending, handler, kind, cr3, parked, current,
                   nextPid, live, pc, scan, ints, steps>>

\* scheduler_tick up to its loop: current is put aside, in the state it has
\* or gets, and the walk starts behind it.
PutAsideKeepsState(st) ==   \* mutant: RUNNING is not taken back
    UNCHANGED state /\ scan' = next[current] /\ pc' = "scan" /\ ints' = FALSE
PutAsideFromCurrent(st) ==  \* mutant: the walk starts at current
    /\ state' = [state EXCEPT ![current] = st]
    /\ scan' = current
    /\ pc' = "scan" /\ ints' = FALSE

PutAside(st) ==
    /\ state' = [state EXCEPT ![current] = st]
    /\ scan' = next[current]
    /\ pc' = "scan" /\ ints' = FALSE

\* process_wait with none: the caller sleeps and scheduler_tick is called.
WaitBlock ==
    /\ Calling("wait")
    /\ \A s \in Slots : ~ZombieChild(s)
    /\ PutAside("waiting")
    /\ UNCHANGED <<pid, next, parent, pending, handler, kind, cr3, parked,
                   current, nextPid, procCount, live, steps>>

\* The timer interrupt, or SYS_YIELD.
SchedulerTick ==
    /\ pc = "user"
    /\ PutAside("ready")
    /\ UNCHANGED <<pid, next, parent, pending, handler, kind, cr3, parked,
                   current, nextPid, procCount, live, steps>>

\* SYS_EXIT and SYS_THREAD_EXIT.
ExitCall ==
    /\ Calling("exit")
    /\ pc' = "dying"
    /\ UNCHANGED <<fields, current, nextPid, procCount, live, scan, ints, steps>>

\* process_fault_handler for a fault that no region and no CoW page explains:
\* a user SIGSEGV handler is entered (nothing modelled changes), else the
\* process is killed.
UserFault ==
    /\ Calling("fault") /\ kind[current] # "kernel"
    /\ SIGSEGV \in Signals /\ handler[current][SIGSEGV] # "user"
    /\ pc' = "dying"
    /\ UNCHANGED <<fields, current, nextPid, procCount, live, scan, ints, steps>>

\* SYS_SIGNAL.
SetHandler ==
    /\ Calling("signal")
    /\ \E g \in Signals \ {SIGKILL}, h \in Installed :
        handler' = [handler EXCEPT ![current][g] = h]
    /\ UNCHANGED <<pid, state, next, parent, pending, kind, cr3, parked, current,
                   nextPid, procCount, live, pc, scan, ints, steps>>

\* The targets SYS_KILL finds: a pid in use by a process that has not ended.
\* PID 1 is no exception in the code; an instance says whether it is used.
Target(p) == /\ pid[p] # 0
             /\ state[p] \notin {"dead", "zombie"}
             /\ p = 0 => "killidle" \in Calls

\* process_send_signal, SIGKILL to another process: it becomes a zombie now.
KillOther ==
    /\ Calling("kill") /\ SIGKILL \in Signals
    /\ \E p \in Slots :
        /\ Target(p) /\ p # current
        /\ Zombify(p)
        /\ FreeSpaceOf(p)
        /\ cr3' = [cr3 EXCEPT ![p] = KernelCR3]
    /\ UNCHANGED <<pid, next, parent, handler, kind, parked, current, nextPid,
                   procCount, pc, scan, ints, steps>>

\* process_send_signal, any other case: the signal is pending, and a process
\* that sleeps in wait becomes READY.
SendSignal ==
    /\ Calling("kill")
    /\ \E p \in Slots, g \in Signals :
        /\ Target(p)
        /\ g = SIGKILL => p = current
        /\ pending' = [pending EXCEPT ![p] = @ \cup {g}]
        /\ state' = [state EXCEPT ![p] = IF @ = "waiting" THEN "ready" ELSE @]
    /\ UNCHANGED <<pid, next, parent, handler, kind, cr3, parked, current,
                   nextPid, procCount, live, pc, scan, ints, steps>>

\* do_exec: a fresh address space; the old one is not freed.  A process made
\* by process_create has kernel_stack_top = 0, and writing its new frame below
\* address 0 is a page fault in ring 0: kernel_panic.
Exec ==
    /\ Calling("exec")
    /\ \E a \in Spaces \ live :
        /\ live' = live \cup {a}
        /\ cr3' = [cr3 EXCEPT ![current] = a]
    /\ pc' = IF kind[current] = "kernel" THEN "panic" ELSE pc
    /\ UNCHANGED <<pid, state, next, parent, pending, handler, kind, parked,
                   current, nextPid, procCount, scan, ints, steps>>

(***************************************************************************)
(* The loop of scheduler_tick.                                             *)
(***************************************************************************)
RunnableZombie(s) ==   \* mutant: a zombie is taken for a READY process
    state[s] \in {"ready", "zombie"} /\ SIGKILL \notin pending[s]
Runnable(s) == state[s] = "ready" /\ SIGKILL \notin pending[s]

\* next = next->next, and the test whether the walk is back at current.
Advance ==
    /\ scan' = next[scan]
    /\ pc' = IF next[scan] = current THEN "wrap" ELSE "scan"

ScanFound ==
    /\ pc = "scan" /\ Runnable(scan)
    /\ Dispatch(scan)
    /\ UNCHANGED <<pid, next, parent, handler, kind, cr3, parked, nextPid,
                   procCount, live, steps>>

\* A READY process with SIGKILL pending is killed where it is found.
ScanKill ==
    /\ pc = "scan" /\ state[scan] = "ready" /\ SIGKILL \in pending[scan]
    /\ Zombify(scan)
    /\ FreeSpaceOf(scan)
    /\ cr3' = [cr3 EXCEPT ![scan] = KernelCR3]
    /\ Advance
    /\ UNCHANGED <<pid, next, parent, handler, kind, parked, current, nextPid,
                   procCount, ints, steps>>

ScanSkip ==
    /\ pc = "scan" /\ state[scan] # "ready"
    /\ Advance
    /\ UNCHANGED <<fields, current, nextPid, procCount, live, ints, steps>>

\* Back at current: it runs on, or the kernel halts.
WrapResume ==
    /\ pc = "wrap" /\ Runnable(current)
    /\ Dispatch(current)
    /\ UNCHANGED <<pid, next, parent, handler, kind, cr3, parked, nextPid,
                   procCount, live, steps>>

WrapHalt ==
    /\ pc = "wrap" /\ ~Runnable(current)
    /\ pc' = "halt"
    /\ UNCHANGED <<fields, current, nextPid, procCount, live, scan, ints, steps>>

\* Another interrupt than the timer's ends the hlt: the ring is walked again.
HaltIrq ==
    /\ pc = "halt"
    /\ scan' = next[current]
    /\ pc' = "scan" /\ ints' = TRUE
    /\ UNCHANGED <<fields, current, nextPid, procCount, live, steps>>

\* The timer's, at the hlt or in the walk after it, calls scheduler_tick; the
\* walk that it interrupts would go on at slot s.
NestedTick(s) ==
    /\ PutAside(IF state[current] = "running" THEN "ready" ELSE state[current])
    /\ parked' = [parked EXCEPT ![current] = s]
    /\ UNCHANGED <<pid, next, parent, pending, handler, kind, cr3, current,
                   nextPid, procCount, live, steps>>
HaltTick == pc = "halt" /\ NestedTick(next[current])
WalkTick == pc = "scan" /\ ints /\ NestedTick(scan)

\* One call of scheduler_tick within the other, until the kernel stack is full;
\* it has no guard page.
StackOverflow ==
    /\ pc = "halt" /\ parked[current] # Nil
    /\ pc' = "panic"
    /\ UNCHANGED <<fields, current, nextPid, procCount, live, scan, ints, steps>>

(***************************************************************************)
(* process_exit.                                                           *)
(***************************************************************************)
\* A thread frees its slot at once; a process becomes a zombie.
ProcessExit ==
    /\ pc = "dying"
    /\ IF kind[current] = "thread"
       THEN /\ Release(current)
            /\ UNCHANGED pending
       ELSE /\ Zombify(current)
            /\ UNCHANGED <<pid, procCount>>
    /\ scan' = next[current]
    /\ steps' = 0
    /\ pc' = "exit"
    /\ UNCHANGED <<next, parent, handler, kind, cr3, parked, current, nextPid,
                   live, ints>>

\* One more step along the ring, at most N of them.
ExitAdvance ==
    /\ pc = "exit" /\ steps < N /\ state[scan] # "ready"
    /\ next[scan] # current
    /\ scan' = next[scan]
    /\ steps' = steps + 1
    /\ UNCHANGED <<fields, current, nextPid, procCount, live, pc, ints>>

\* The loop ends at the process n, whatever its state is; the address space
\* of the dead process is freed once n's is loaded.  No signal is looked at.
\* Where the esp of n points into a walk that has gone on since, that part of
\* its stack may have been written over.
Stale(n) == parked[n] # Nil /\ state[n] \notin {"ready", "waiting"}

ExitTo(n) ==
    /\ current' = n
    /\ state' = [state EXCEPT ![n] = "running"]
    /\ IF kind[current] = "thread" THEN UNCHANGED live ELSE FreeSpaceOf(current)
    /\ \/ Resume(n)
       \/ Stale(n) /\ pc' = "panic" /\ UNCHANGED <<scan, ints>>
    /\ steps' = 0
    /\ UNCHANGED <<pid, next, parent, pending, handler, kind, cr3, parked,
                   nextPid, procCount>>

ExitFound == pc = "exit" /\ (state[scan] = "ready" \/ steps = N) /\ ExitTo(scan)

ExitWrapped ==
    /\ pc = "exit" /\ steps < N /\ state[scan] # "ready" /\ next[scan] = current
    /\ ExitTo(0)

-----------------------------------------------------------------------------
UserStep == \/ Create \/ Fork \/ ThreadCreate \/ WaitReap \/ WaitBlock
            \/ ExitCall \/ UserFault \/ SetHandler \/ KillOther \/ SendSignal
            \/ Exec

KernelStep == \/ ScanFound \/ ScanKill \/ ScanSkip \/ WrapResume \/ WrapHalt
              \/ ProcessExit \/ ExitAdvance \/ ExitFound \/ ExitWrapped

\* The interrupts; they come at user level, at the hlt and in the walk after it.
Interrupt == SchedulerTick \/ HaltIrq \/ HaltTick \/ WalkTick \/ StackOverflow

Next == UserStep \/ Interrupt \/ KernelStep

Spec == Init /\ [][Next]_vars

\* The behaviours up to the first process that is put in a slot used before.
\* Nothing unlinks a slot from the ring when it is freed, so what round robin
\* relies on is checked up to that point, and beyond it shown to fail.
NoReuse == nextPid' = nextPid \/ \A s \in Slots : Free(s) => next[s] = Nil
FreshSpec == Init /\ [][Next /\ NoReuse]_vars

\* The CPU goes on executing kernel code it has entered, and the timer fires
\* again and again.  Nothing is assumed of the processes.
Fairness == WF_vars(KernelStep) /\ WF_vars(SchedulerTick \/ HaltTick)
FairSpec == Spec /\ Fairness
FairFreshSpec == FreshSpec /\ Fairness

-----------------------------------------------------------------------------
(***************************************************************************)
(* Properties.                                                             *)
(***************************************************************************)
TypeOK ==
    /\ pid \in [Slots -> 0 .. KStacks + 1]
    /\ state \in [Slots -> States]
    /\ next \in [Slots -> Slots \cup {Nil}]
    /\ parent \in [Slots -> 0 .. KStacks + 1]
    /\ pending \in [Slots -> SUBSET Signals]
    /\ handler \in [Slots -> [Signals -> Dispositions]]
    /\ kind \in [Slots -> Kinds]
    /\ cr3 \in [Slots -> Spaces \cup {KernelCR3}]
    /\ parked \in [Slots -> Slots \cup {Nil}]
    /\ current \in Slots
    /\ nextPid \in 2 .. KStacks + 2
    /\ procCount \in Int
    /\ live \subseteq Spaces
    /\ pc \in PCs
    /\ scan \in Slots
    /\ ints \in BOOLEAN
    /\ steps \in 0 .. N

\* The processes that a nested tick has interrupted in a walk.  They never
\* leave it: marked RUNNING when they get the CPU again, their walk makes
\* another process current and leaves them so.
Halted == {s \in Slots : parked[s] # Nil}

\* The current process is RUNNING when the CPU is given to it, and no other is,
\* the halted ones aside: no path of the scheduler, of wait, exit, kill or fork
\* leaves a second RUNNING slot behind, except the tick that interrupts the
\* halt of scheduler_tick; and no halted process returns to its own code.
RunningIsCurrent ==
    /\ \A s \in Slots \ Halted :
           state[s] = "running" <=> s = current /\ pc \in {"user", "dying", "panic"}
    /\ pc \in {"user", "dying"} => state[current] = "running"
    /\ pc = "user" => current \notin Halted

\* The walks along next never follow the null pointer of a slot that was
\* never linked, however often slots are freed and taken again.
NoNullNext ==
    /\ \A s \in Slots : next[s] # Nil => next[next[s]] # Nil
    /\ \A s \in Slots : ~Free(s) => next[s] # Nil
    /\ \A s \in Halted : next[parked[s]] # Nil
    /\ next[0] # Nil /\ next[current] # Nil /\ next[scan] # Nil

\* find_by_pid finds the process that is meant: no two slots share a pid, and
\* no pid in use, nor the parent_pid of any slot, is still to be given out.
UniquePids ==
    /\ \A s, t \in Slots : pid[s] = pid[t] /\ pid[s] # 0 => s = t
    /\ \A s \in Slots : pid[s] < nextPid /\ parent[s] < nextPid

\* No lost wakeup: a process asleep in wait has no zombie child.  process_wait
\* looks for one before it sleeps, and zombify wakes it, on every path that
\* ends a process: exit, fault, SIGKILL from kill or found by the scheduler.
NoLostWakeup ==
    \A s, t \in Slots :
        state[s] = "waiting" /\ pid[s] # 0 /\ state[t] = "zombie"
            => parent[t] # pid[s]

Ended == {"dead", "zombie"}
Alive == {s \in Slots : state[s] \notin Ended}

\* The slots a walk along next starting at c visits.
WalkFrom(c) ==
    {s \in Slots : \A S \in SUBSET Slots :
        (c \in S /\ \A x \in S : next[x] \in S \cup {Nil}) => s \in S}

\* The processes that have not ended are on one circular list: a walk that
\* leaves any of them meets all of them and comes back.
CircularList == \A c \in Alive : Alive \subseteq WalkFrom(next[c])

\* A process that has ended never gets the CPU again: a slot leaves DEAD and
\* ZOMBIE for a live state only when it is given to a new process.
EndedStaysEnded ==
    [][\A s \in Slots : state[s] \in Ended /\ state'[s] \notin Ended
           => pid'[s] = nextPid /\ nextPid' = nextPid + 1]_vars

\* proc_count is the number of slots in use, so that a full table and
\* find_free_slot agree.
CountIsExact == procCount = Cardinality({s \in Slots : pid[s] # 0})

\* Each allocated address space belongs to exactly one process that has not
\* ended, or to the one process_exit is leaving; and no process that has not
\* ended runs on a freed one.  A thread runs on its creator's, which its end or
\* the creator's frees under the other: this is about systems that have made
\* none (kind outlives the process, so it tells, until a slot is reused).
Holders == Alive \cup (IF pc = "exit" THEN {current} ELSE {})
SpacesOwned ==
    (\A s \in Slots : kind[s] # "thread") =>
        /\ {cr3[s] : s \in Holders} \ {KernelCR3} = live
        /\ \A s, t \in Holders : cr3[s] = cr3[t] /\ cr3[s] # KernelCR3 => s = t

\* The kernel always gets back to a process.
KernelReturns == pc # "user" ~> pc = "user"

\* Round robin is fair: a READY process gets the CPU, or is ended by a signal.
ReadyRuns == \A s \in Slots :
    state[s] = "ready" ~> state[s] \in {"running"} \cup Ended

=============================================================================
