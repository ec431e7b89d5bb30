-------------------------- MODULE PriorityScheduler -------------------------
(***************************************************************************)
(* The priority scheduler of src/25_scheduler/sched.c.  The file is linked *)
(* but nothing calls it yet: what happens to the processes between two     *)
(* calls is what process.c does to them.  They are created, sleep in wait  *)
(* and are woken, and end.  Slot 0, the boot context, makes no such call,  *)
(* but SIGKILL ends it as it ends any other; nobody waits for it then.     *)
(***************************************************************************)
EXTENDS Integers, FiniteSets

CONSTANTS
    NProcs,  \* MAX_PROCESSES (8)
    NPrios,  \* SCHED_NUM_PRIOS (4)
    Normal   \* SCHED_PRIO_NORMAL (2)

Entries == 0 .. NProcs - 1
Prios == 0 .. NPrios - 1

ASSUME NProcsAssumption == NProcs \in Nat \ {0}
ASSUME PriosAssumption == NPrios \in Nat /\ Normal \in Prios

VARIABLES
    state,     \* proc_table[].state
    priority,  \* proc_table[].priority
    rq_head,   \* by priority: the slot where the next search begins
    cur        \* current

schedVars == <<state, priority, rq_head, cur>>
SchedStates == {"ready", "running", "waiting", "zombie", "dead"}

\* sched_init, once the first process is there.
SchedInit ==
    /\ state = [p \in Entries |-> IF p = 0 THEN "running" ELSE "dead"]
    /\ priority = [p \in Entries |-> IF p = 0 THEN Normal ELSE 0]
    /\ rq_head = [q \in Prios |-> 0]
    /\ cur = 0

-----------------------------------------------------------------------------
\* pick_next: the highest level that has a READY process, and there the first
\* one from rq_head on; nobody but current can go on if there is none.
ReadyAt(tab, q) == {p \in Entries : tab[p] = "ready" /\ priority[p] = q}
Distance(q, p) == (p - rq_head[q]) % NProcs

LevelsUp(tab) ==   \* mutant: the walk begins below SCHED_NUM_PRIOS - 1
    {q \in Prios \ {NPrios - 1} : ReadyAt(tab, q) # {}}
Levels(tab) == {q \in Prios : ReadyAt(tab, q) # {}}

Picks(tab, p) ==
    IF Levels(tab) = {} THEN p = cur
    ELSE /\ priority[p] \in Levels(tab)
         /\ \A q \in Levels(tab) : q <= priority[p]
         /\ p \in ReadyAt(tab, priority[p])
         /\ \A o \in ReadyAt(tab, priority[p]) :
                Distance(priority[p], p) <= Distance(priority[p], o)

HeadStays(p) == p   \* mutant: the next search begins at the same process
HeadAfter(p) == (p + 1) % NProcs

\* sched_tick and sched_yield, with the table as it is when it is called:
\* current goes back among the READY ones if it was RUNNING.
PutBackNone(tab) == tab   \* mutant: current stays RUNNING
PutBackAny(tab) == [tab EXCEPT ![cur] = "ready"]   \* mutant: whatever it was
PutBack(tab) == IF tab[cur] = "running" THEN [tab EXCEPT ![cur] = "ready"] ELSE tab

Switch(tab) == \E p \in Entries :
    /\ Picks(PutBack(tab), p)
    /\ rq_head' = [q \in Prios |-> IF p \in ReadyAt(PutBack(tab), q)
                                   THEN HeadAfter(p) ELSE rq_head[q]]
    /\ cur' = p
    /\ state' = [PutBack(tab) EXCEPT ![p] = "running"]
    /\ UNCHANGED priority

SchedTick == Switch(state)

\* The process sleeps in wait, or ends, and gives up the CPU.
Sleep == cur # 0 /\ Switch([state EXCEPT ![cur] = "waiting"])

\* p is a zombie, and its parent is woken if that sleeps.
Zombified(p, woken) ==
    [s \in Entries |-> IF s = p THEN "zombie"
                       ELSE IF s \in woken THEN "ready" ELSE state[s]]
Parents == {woken \in SUBSET {p \in Entries : state[p] = "waiting"} :
               Cardinality(woken) <= 1}

EndEntry == cur # 0 /\ \E woken \in Parents : Switch(Zombified(cur, woken))

\* The other steps of process.c: SIGKILL ends another process, the boot context
\* too, a signal wakes, wait frees the slot of a zombie that has a parent, a
\* slot is taken with the priority its last owner had.
Killed(p) == /\ p # cur /\ state[p] \in {"ready", "waiting"}
             /\ \E woken \in Parents : state' = Zombified(p, woken)
             /\ UNCHANGED <<priority, rq_head, cur>>
Change(p, from, to) == /\ state[p] = from
                       /\ state' = [state EXCEPT ![p] = to]
                       /\ UNCHANGED <<priority, rq_head, cur>>
SignalWakes(p) == Change(p, "waiting", "ready")
Reaped(p) == p # 0 /\ Change(p, "zombie", "dead")
Created(p) == Change(p, "dead", "ready")

\* sched_set_priority, and sched_add for the process just created: it takes
\* effect at the next tick.
SetPriority(p, q) == /\ state[p] # "dead"
                     /\ priority' = [priority EXCEPT ![p] = q]
                     /\ UNCHANGED <<state, rq_head, cur>>

SchedNext == \/ SchedTick \/ Sleep \/ EndEntry
             \/ \E p \in Entries : Killed(p) \/ SignalWakes(p) \/ Reaped(p) \/ Created(p)
             \/ \E p \in Entries, q \in Prios : SetPriority(p, q)

SchedSpec == SchedInit /\ [][SchedNext]_schedVars

-----------------------------------------------------------------------------
\* Exactly one process is RUNNING, and current names it.
OneRuns == {p \in Entries : state[p] = "running"} = {cur}

\* After every call of the scheduler, nobody who is READY has a higher
\* priority than the process that got the CPU: not the one that was put back,
\* nor one that came or changed its priority since the call before.
StrictPriority ==
    [][SchedTick \/ Sleep \/ EndEntry => \A p \in Entries :
           state'[p] = "ready" => priority[p] <= priority[cur']]_schedVars

\* The process that has gone to sleep or has ended keeps that state through
\* the switch away from it, unless no process is READY: then pick_next returns
\* it, whatever its state, and it runs on.  Any other process that has ended is
\* never made RUNNING.
NoneReady == \A p \in Entries : state[p] # "ready"
OffStep == /\ Sleep => state'[cur] = "waiting" \/ NoneReady'
           /\ EndEntry => state'[cur] = "zombie" \/ NoneReady'
           /\ \A p \in Entries :
                  state[p] \in {"zombie", "dead"} => state'[p] # "running"
StaysOff == [][OffStep]_schedVars

\* A process that stays runnable, with none of a higher priority beside it,
\* gets the CPU again and again, whoever else comes, goes, or changes its
\* priority.
CanRun(p) == state[p] \in {"ready", "running"}
AtTop(p) == CanRun(p) /\ \A o \in Entries : CanRun(o) => priority[o] <= priority[p]
EqualTurns == \A p \in Entries : <>[]AtTop(p) => []<>(cur = p)
=============================================================================
