--------------------------- MODULE Process_proofs ---------------------------
(***************************************************************************)
(* Theorems about Process, for every size of the process table, heap and   *)
(* set of address spaces, and whatever calls the processes make.           *)
(*                                                                         *)
(* First the invariants of Spec; then, from OnRing on, what holds up to    *)
(* the first reuse of a slot (FreshSpec).                                  *)
(*                                                                         *)
(* The inductive invariant is the conjunction of TypeOK with the four      *)
(* invariants that the runs check.  Each has a lemma for the step; what    *)
(* it needs of the others is in its ASSUME.  Type correctness needs        *)
(* NoNullNext (the walks take next of a slot), NoNullNext needs            *)
(* RunningIsCurrent (a slot that is linked is not the current one), and    *)
(* the two facts about waiting need no more than the pids being unique.    *)
(***************************************************************************)
EXTENDS Process, FiniteSetTheorems, TLAPS

\* What the range of the slots gives, so that it need not be expanded.
LEMMA SlotFacts == 0 \in Slots /\ Slots \subseteq Nat /\ Nil \notin Slots
  BY NAssumption DEF Slots, Nil

\* The three calls that make a process keep every field in its range.
LEMMA NewProcessType ==
    ASSUME TypeOK, StackAvailable, NEW p \in Slots, NEW knd \in Kinds,
           NEW space \in Spaces \cup {KernelCR3},
           NEW hdl \in [Signals -> Dispositions],
           NewProcess(p, knd, space, hdl), live' \subseteq Spaces
    PROVE  TypeOK'
<1> USE KStacksAssumption, SlotFacts
<1> USE DEF TypeOK, NewProcess
<1>1. pid' \in [Slots -> 0 .. KStacks + 1]
  BY DEF TakePid, StackAvailable
<1>2. state' \in [Slots -> States]
  BY DEF States
<1>3. next' \in [Slots -> Slots \cup {Nil}]
  BY DEF Linked
<1>4. parent' \in [Slots -> 0 .. KStacks + 1]
  OBVIOUS
<1>5. pending' \in [Slots -> SUBSET Signals]
  OBVIOUS
<1>6. handler' \in [Slots -> [Signals -> Dispositions]]
  OBVIOUS
<1>7. kind' \in [Slots -> Kinds] /\ cr3' \in [Slots -> Spaces \cup {KernelCR3}]
  OBVIOUS
<1>8. nextPid' \in 2 .. KStacks + 2
  BY DEF TakePid, StackAvailable
<1>9. /\ current' \in Slots /\ procCount' \in Int /\ pc' \in PCs
      /\ scan' \in Slots /\ steps' \in 0 .. N
  OBVIOUS
<1>10. parked' \in [Slots -> Slots \cup {Nil}] /\ ints' \in BOOLEAN
  OBVIOUS
<1> QED
  BY <1>1, <1>2, <1>3, <1>4, <1>5, <1>6, <1>7, <1>8, <1>9, <1>10

\* So does zombify.
LEMMA ZombifyType ==
    ASSUME TypeOK, NEW p \in Slots, Zombify(p)
    PROVE  /\ state' \in [Slots -> States]
           /\ pending' \in [Slots -> SUBSET Signals]
<1> USE DEF TypeOK, Zombify
<1>1. state' \in [Slots -> States]
  BY DEF States
<1>2. pending' \in [Slots -> SUBSET Signals]
  OBVIOUS
<1> QED
  BY <1>1, <1>2

\* So does giving the CPU to a process and delivering its signals.
LEMMA DispatchType ==
    ASSUME TypeOK, NEW n \in Slots, Dispatch(n)
    PROVE  /\ state' \in [Slots -> States]
           /\ pending' \in [Slots -> SUBSET Signals]
           /\ current' \in Slots
           /\ pc' \in PCs /\ scan' \in Slots /\ ints' \in BOOLEAN
<1> USE DEF TypeOK, Dispatch, Resume
<1>1. state' \in [Slots -> States]
  BY DEF States
<1>2. CASE Deadly(n) = {}
  BY <1>1, <1>2 DEF PCs
<1>3. CASE Deadly(n) # {}
  <2>1. PICK first \in Deadly(n) :
            pending' = [pending EXCEPT ![n] = {g \in @ : first < g}]
    BY <1>3
  <2>2. pending' \in [Slots -> SUBSET Signals]
    BY <2>1
  <2> QED
    BY <1>1, <1>3, <2>2 DEF PCs
<1> QED
  BY <1>2, <1>3

\* Every step keeps the types.
LEMMA TypeStep ==
    ASSUME TypeOK, NoNullNext, [Next]_vars
    PROVE  TypeOK'
<1> USE NAssumption, KStacksAssumption, SlotFacts DEF TypeOK
<1>1. CASE Create
  <2>1. PICK p \in Slots :
            NewProcess(p, "kernel", KernelCR3, [g \in Signals |-> "dfl"])
    BY <1>1 DEF Create
  <2> DEFINE hdl == [g \in Signals |-> "dfl"]
  <2>2. hdl \in [Signals -> Dispositions] /\ "kernel" \in Kinds
    BY DEF Dispositions, Kinds
  <2> HIDE DEF hdl
  <2>3. NewProcess(p, "kernel", KernelCR3, hdl)
    BY <2>1 DEF hdl
  <2> QED
    BY <1>1, <2>2, <2>3, NewProcessType DEF Create
<1>2. CASE Fork
  <2>1. PICK a \in Spaces \ live, p \in Slots :
            NewProcess(p, "forked", a, handler[current]) /\ live' = live \cup {a}
    BY <1>2 DEF Fork
  <2> QED
    BY <1>2, <2>1, NewProcessType DEF Fork, Kinds
<1>3. CASE ThreadCreate
  <2>1. PICK p \in Slots :
            NewProcess(p, "thread", cr3[current], handler[current])
    BY <1>3 DEF ThreadCreate
  <2> QED
    BY <1>3, <2>1, NewProcessType DEF ThreadCreate, Kinds
<1>4. CASE WaitReap
  <2>1. PICK s \in Slots : Release(s)
    BY <1>4 DEF WaitReap
  <2>2. /\ pid' \in [Slots -> 0 .. KStacks + 1]
        /\ state' \in [Slots -> States]
        /\ procCount' \in Int
    BY <2>1 DEF Release, States
  <2> QED
    BY <1>4, <2>2 DEF WaitReap
<1>5. CASE WaitBlock
  BY <1>5 DEF WaitBlock, PutAside, States, PCs, NoNullNext
<1>6. CASE ExitCall
  BY <1>6 DEF ExitCall, PCs, fields
<1>7. CASE UserFault
  BY <1>7 DEF UserFault, PCs, fields
<1>8. CASE SetHandler
  <2>1. handler' \in [Slots -> [Signals -> Dispositions]]
    <3>1. PICK g \in Signals \ {SIGKILL}, h \in Dispositions :
              handler' = [handler EXCEPT ![current][g] = h]
      BY <1>8, InstalledAssumption DEF SetHandler
    <3>2. handler[current] \in [Signals -> Dispositions]
      OBVIOUS
    <3>3. [handler[current] EXCEPT ![g] = h] \in [Signals -> Dispositions]
      BY <3>2
    <3> QED
      BY <3>1, <3>3
  <2> QED
    BY <1>8, <2>1 DEF SetHandler
<1>9. CASE KillOther
  <2>1. PICK p \in Slots : /\ Zombify(p)
                           /\ FreeSpaceOf(p)
                           /\ cr3' = [cr3 EXCEPT ![p] = KernelCR3]
    BY <1>9 DEF KillOther
  <2>2. cr3' \in [Slots -> Spaces \cup {KernelCR3}]
    BY <2>1
  <2>3. live' \subseteq Spaces
    BY <2>1 DEF FreeSpaceOf
  <2> QED
    BY <1>9, <2>1, <2>2, <2>3, ZombifyType DEF KillOther
<1>10. CASE SendSignal
  <2>1. PICK p \in Slots, g \in Signals :
           /\ pending' = [pending EXCEPT ![p] = @ \cup {g}]
           /\ state' = [state EXCEPT ![p] = IF @ = "waiting" THEN "ready" ELSE @]
    BY <1>10 DEF SendSignal
  <2>2. pending' \in [Slots -> SUBSET Signals]
    BY <2>1
  <2>3. state' \in [Slots -> States]
    BY <2>1 DEF States
  <2> QED
    BY <1>10, <2>2, <2>3 DEF SendSignal
<1>11. CASE Exec
  <2>1. live' \subseteq Spaces /\ cr3' \in [Slots -> Spaces \cup {KernelCR3}]
    BY <1>11 DEF Exec
  <2>2. pc' \in PCs
    BY <1>11 DEF Exec, PCs
  <2> QED
    BY <1>11, <2>1, <2>2 DEF Exec
<1>12. CASE SchedulerTick
  BY <1>12 DEF SchedulerTick, PutAside, States, PCs, NoNullNext
<1>13. CASE ScanFound
  BY <1>13, DispatchType DEF ScanFound
<1>14. CASE ScanKill
  <2>1. cr3' \in [Slots -> Spaces \cup {KernelCR3}] /\ live' \subseteq Spaces
    BY <1>14 DEF ScanKill, FreeSpaceOf
  <2>2. scan' \in Slots /\ pc' \in PCs
    BY <1>14 DEF ScanKill, Advance, PCs, NoNullNext
  <2> QED
    BY <1>14, <2>1, <2>2, ZombifyType DEF ScanKill
<1>15. CASE ScanSkip
  BY <1>15 DEF ScanSkip, Advance, PCs, NoNullNext, fields
<1>16. CASE WrapResume
  BY <1>16, DispatchType DEF WrapResume
<1>17. CASE WrapHalt
  BY <1>17 DEF WrapHalt, PCs, fields
<1>18. CASE HaltIrq
  <2>1. scan' \in Slots /\ pc' \in PCs
    BY <1>18 DEF HaltIrq, PCs, NoNullNext
  <2>2. ints' \in BOOLEAN
    BY <1>18 DEF HaltIrq
  <2> QED
    BY <1>18, <2>1, <2>2 DEF HaltIrq, fields
<1>19. CASE StackOverflow
  <2>1. pc' \in PCs
    BY <1>19 DEF StackOverflow, PCs
  <2> QED
    BY <1>19, <2>1 DEF StackOverflow, fields
<1>20. ASSUME NEW s \in Slots, NestedTick(s)
       PROVE  TypeOK'
  BY <1>20 DEF NestedTick, PutAside, States, PCs, NoNullNext
<1>21. CASE HaltTick \/ WalkTick
  BY <1>20, <1>21 DEF HaltTick, WalkTick, NoNullNext
<1>22. CASE ProcessExit
  <2>1. scan' \in Slots /\ steps' \in 0 .. N /\ pc' \in PCs
    BY <1>22 DEF ProcessExit, PCs, NoNullNext
  <2>2. CASE kind[current] = "thread"
    <3>1. pid' \in [Slots -> 0 .. KStacks + 1] /\ state' \in [Slots -> States]
      BY <1>22, <2>2 DEF ProcessExit, Release, States
    <3> QED
      BY <1>22, <2>1, <2>2, <3>1 DEF ProcessExit, Release
  <2>3. CASE kind[current] # "thread"
    BY <1>22, <2>1, <2>3, ZombifyType DEF ProcessExit
  <2> QED
    BY <2>2, <2>3
<1>23. CASE ExitAdvance
  <2>1. scan' \in Slots /\ steps' \in 0 .. N
    BY <1>23 DEF ExitAdvance, NoNullNext
  <2> QED
    BY <1>23, <2>1 DEF ExitAdvance, fields
<1>24. ASSUME NEW n \in Slots, ExitTo(n)
       PROVE  TypeOK'
  <2>1. state' \in [Slots -> States] /\ pc' \in PCs /\ steps' \in 0 .. N
    BY <1>24 DEF ExitTo, Resume, States, PCs
  <2>2. live' \subseteq Spaces
    BY <1>24 DEF ExitTo, FreeSpaceOf
  <2>3. scan' \in Slots /\ ints' \in BOOLEAN
    BY <1>24 DEF ExitTo, Resume
  <2> QED
    BY <1>24, <2>1, <2>2, <2>3 DEF ExitTo
<1>25. CASE ExitFound
  BY <1>24, <1>25 DEF ExitFound
<1>26. CASE ExitWrapped
  BY <1>24, <1>26 DEF ExitWrapped
<1>27. CASE UNCHANGED vars
  BY <1>27 DEF vars, fields
<1> QED
  BY <1>1, <1>2, <1>3, <1>4, <1>5, <1>6, <1>7, <1>8, <1>9, <1>10, <1>11,
     <1>12, <1>13, <1>14, <1>15, <1>16, <1>17, <1>18, <1>19, <1>21, <1>22,
     <1>23, <1>25, <1>26, <1>27
     DEF Next, UserStep, Interrupt, KernelStep

\* zombify, whatever ends the process, turns no slot in use into a free one.
LEMMA ZombifyKeepsUse ==
    ASSUME TypeOK, NEW p \in Slots, ~Free(p), Zombify(p), pid' = pid
    PROVE  \A s \in Slots : Free(s) <=> Free(s)'
  BY DEF Zombify, Woken, Free, TypeOK

\* Linking a new slot behind the current one leaves no null pointer on a walk.
LEMMA NewProcessLinks ==
    ASSUME TypeOK, RunningIsCurrent, NoNullNext, pc = "user",
           NEW p \in Slots, FirstFree(p), NEW knd, NEW space, NEW hdl,
           NewProcess(p, knd, space, hdl)
    PROVE  NoNullNext'
<1> USE SlotFacts DEF Halted
<1>1. current \in Slots /\ p # current /\ next[current] # Nil
  BY DEF TypeOK, RunningIsCurrent, FirstFree, Free, NoNullNext
<1>2. next' = [next EXCEPT ![p] = next[current], ![current] = p]
  BY DEF NewProcess, Linked
<1>3. next'[p] = next[current] /\ next'[current] = p
  BY <1>1, <1>2 DEF TypeOK
<1>4. \A s \in Slots : s # p /\ s # current => next'[s] = next[s]
  BY <1>2 DEF TypeOK
<1>5. \A s \in Slots : next[s] # Nil \/ s = p => next'[s] # Nil
  BY <1>1, <1>3, <1>4 DEF TypeOK
<1>6. \A s \in Slots : next'[s] # Nil => next'[next'[s]] # Nil
  <2> SUFFICES ASSUME NEW s \in Slots, next'[s] # Nil
               PROVE  next'[next'[s]] # Nil
    OBVIOUS
  <2>1. CASE s = p
    BY <2>1, <1>1, <1>3, <1>5 DEF TypeOK, NoNullNext
  <2>2. CASE s = current
    BY <2>2, <1>1, <1>3, <1>5
  <2>3. CASE s # p /\ s # current
    BY <2>3, <1>4, <1>5 DEF TypeOK, NoNullNext
  <2> QED
    BY <2>1, <2>2, <2>3
<1>7. \A s \in Slots : ~Free(s)' => next'[s] # Nil
  BY <1>5 DEF NewProcess, TakePid, Free, TypeOK, NoNullNext
<1> QED
  BY <1>1, <1>5, <1>6, <1>7 DEF NewProcess, NoNullNext, TypeOK

\* Every step keeps one RUNNING process, the current one, the halted ones aside.
LEMMA RunningStep ==
    ASSUME TypeOK, RunningIsCurrent, NoNullNext, [Next]_vars
    PROVE  RunningIsCurrent'
<1>1. CASE Create
  BY <1>1 DEF Create, NewProcess, TakePid, Linked, FirstFree, Free,
     StackAvailable, TypeOK, RunningIsCurrent, Halted, PCs, fields
<1>2. CASE Fork
  BY <1>2 DEF Fork, NewProcess, TakePid, Linked, FirstFree, Free, Calling,
     StackAvailable, TypeOK, RunningIsCurrent, Halted, PCs, fields
<1>3. CASE ThreadCreate
  BY <1>3 DEF ThreadCreate, NewProcess, TakePid, Linked, FirstFree, Free,
     Calling, StackAvailable, TypeOK, RunningIsCurrent, Halted, PCs, fields
<1>4. CASE WaitReap
  BY <1>4 DEF WaitReap, Release, ZombieChild, Calling, TypeOK,
     RunningIsCurrent, Halted, PCs, fields
<1>5. CASE WaitBlock
  BY <1>5 DEF WaitBlock, PutAside, ZombieChild, Calling, TypeOK,
     RunningIsCurrent, Halted, PCs, fields
<1>6. CASE ExitCall
  BY <1>6 DEF ExitCall, Calling, TypeOK, RunningIsCurrent, Halted, PCs, fields
<1>7. CASE UserFault
  BY <1>7 DEF UserFault, Calling, TypeOK, RunningIsCurrent, Halted, PCs, fields
<1>8. CASE SetHandler
  BY <1>8 DEF SetHandler, Calling, TypeOK, RunningIsCurrent, Halted, PCs, fields
<1>9. CASE KillOther
  BY <1>9 DEF KillOther, Target, Zombify, Woken, FreeSpaceOf, Calling, TypeOK,
     RunningIsCurrent, Halted, PCs, fields
<1>10. CASE SendSignal
  BY <1>10 DEF SendSignal, Target, Calling, TypeOK, RunningIsCurrent, Halted, PCs,
     fields
<1>11. CASE Exec
  BY <1>11 DEF Exec, Calling, TypeOK, RunningIsCurrent, Halted, PCs, fields
<1>12. CASE SchedulerTick
  BY <1>12 DEF SchedulerTick, PutAside, TypeOK, RunningIsCurrent, Halted, PCs, fields
<1>13. CASE ScanFound
  BY <1>13 DEF ScanFound, Runnable, Dispatch, Resume, Deadly, TypeOK,
     RunningIsCurrent, Halted, PCs, fields
<1>14. CASE ScanKill
  BY <1>14 DEF ScanKill, Zombify, Woken, FreeSpaceOf, Advance, TypeOK,
     RunningIsCurrent, Halted, PCs, fields
<1>15. CASE ScanSkip
  BY <1>15 DEF ScanSkip, Advance, TypeOK, RunningIsCurrent, Halted, PCs, fields
<1>16. CASE WrapResume
  BY <1>16 DEF WrapResume, Runnable, Dispatch, Resume, Deadly, TypeOK,
     RunningIsCurrent, Halted, PCs, fields
<1>17. CASE WrapHalt
  BY <1>17 DEF WrapHalt, TypeOK, RunningIsCurrent, Halted, PCs, fields
<1>18. CASE HaltIrq \/ StackOverflow
  BY <1>18 DEF HaltIrq, StackOverflow, TypeOK, RunningIsCurrent, Halted, PCs,
     fields
<1>19. CASE HaltTick \/ WalkTick
  BY <1>19, SlotFacts DEF HaltTick, WalkTick, NestedTick, PutAside, NoNullNext,
     TypeOK, RunningIsCurrent, Halted
<1>20. CASE ProcessExit
  BY <1>20 DEF ProcessExit, Release, Zombify, Woken, TypeOK, RunningIsCurrent,
     Halted, PCs, fields
<1>21. CASE ExitAdvance
  BY <1>21 DEF ExitAdvance, TypeOK, RunningIsCurrent, Halted, PCs, fields
<1>22. CASE ExitFound
  BY <1>22 DEF ExitFound, ExitTo, Resume, Stale, FreeSpaceOf, TypeOK, RunningIsCurrent, Halted, PCs,
     fields
<1>23. CASE ExitWrapped
  BY <1>23, SlotFacts DEF ExitWrapped, ExitTo, Resume, Stale, TypeOK,
     RunningIsCurrent, Halted
<1>24. CASE UNCHANGED vars
  BY <1>24 DEF vars, TypeOK, RunningIsCurrent, Halted, PCs, fields
<1> QED
  BY <1>1, <1>2, <1>3, <1>4, <1>5, <1>6, <1>7, <1>8, <1>9, <1>10, <1>11,
     <1>12, <1>13, <1>14, <1>15, <1>16, <1>17, <1>18, <1>19, <1>20, <1>21,
     <1>22, <1>23, <1>24
     DEF Next, UserStep, Interrupt, KernelStep

\* Every step keeps the null pointer off the walks.
LEMMA NextStep ==
    ASSUME TypeOK, RunningIsCurrent, NoNullNext, [Next]_vars
    PROVE  NoNullNext'
<1> USE SlotFacts
<1>1. CASE Create
  <2>1. PICK p \in Slots :
            FirstFree(p) /\ NewProcess(p, "kernel", KernelCR3, [g \in Signals |-> "dfl"])
    BY <1>1 DEF Create
  <2> QED
    BY <1>1, <2>1, NewProcessLinks DEF Create, Calling
<1>2. CASE Fork
  <2>1. PICK a \in Spaces \ live, p \in Slots :
            FirstFree(p) /\ NewProcess(p, "forked", a, handler[current])
    BY <1>2 DEF Fork
  <2> QED
    BY <1>2, <2>1, NewProcessLinks DEF Fork, Calling
<1>3. CASE ThreadCreate
  <2>1. PICK p \in Slots :
            FirstFree(p) /\ NewProcess(p, "thread", cr3[current], handler[current])
    BY <1>3 DEF ThreadCreate
  <2> QED
    BY <1>3, <2>1, NewProcessLinks DEF ThreadCreate, Calling
<1>4. CASE WaitReap
  BY <1>4 DEF WaitReap, Release, ZombieChild, Calling, TypeOK,
     RunningIsCurrent, NoNullNext, Halted, Free, fields
<1>5. CASE WaitBlock
  BY <1>5 DEF WaitBlock, PutAside, ZombieChild, Calling, TypeOK,
     RunningIsCurrent, NoNullNext, Halted, Free, fields
<1>6. CASE ExitCall
  BY <1>6 DEF ExitCall, Calling, TypeOK, RunningIsCurrent, NoNullNext, Halted, Free,
     fields
<1>7. CASE UserFault
  BY <1>7 DEF UserFault, Calling, TypeOK, RunningIsCurrent, NoNullNext, Halted, Free,
     fields
<1>8. CASE SetHandler
  BY <1>8 DEF SetHandler, Calling, TypeOK, RunningIsCurrent, NoNullNext, Halted, Free,
     fields
<1>9. CASE KillOther
  <2>1. PICK p \in Slots : Target(p) /\ Zombify(p)
    BY <1>9 DEF KillOther
  <2>2. \A s \in Slots : Free(s) <=> Free(s)'
    BY <1>9, <2>1, ZombifyKeepsUse DEF KillOther, Target, Free
  <2> QED
    BY <1>9, <2>2 DEF KillOther, NoNullNext, Halted, TypeOK
<1>10. CASE SendSignal
  BY <1>10 DEF SendSignal, Target, Calling, TypeOK, RunningIsCurrent,
     NoNullNext, Halted, Free, fields
<1>11. CASE Exec
  BY <1>11 DEF Exec, Calling, TypeOK, RunningIsCurrent, NoNullNext, Halted, Free,
     fields
<1>12. CASE SchedulerTick
  BY <1>12 DEF SchedulerTick, PutAside, TypeOK, RunningIsCurrent, NoNullNext,
     Halted, Free, fields
<1>13. CASE ScanFound
  BY <1>13 DEF ScanFound, Runnable, Dispatch, Resume, Deadly, TypeOK,
     RunningIsCurrent, NoNullNext, Halted, Free, fields
<1>14. CASE ScanKill
  BY <1>14 DEF ScanKill, Zombify, Woken, FreeSpaceOf, Advance, TypeOK,
     RunningIsCurrent, NoNullNext, Halted, Free, fields
<1>15. CASE ScanSkip
  BY <1>15 DEF ScanSkip, Advance, TypeOK, RunningIsCurrent, NoNullNext, Halted, Free,
     fields
<1>16. CASE WrapResume
  BY <1>16 DEF WrapResume, Runnable, Dispatch, Resume, Deadly, TypeOK,
     RunningIsCurrent, NoNullNext, Halted, Free, fields
<1>17. CASE WrapHalt
  BY <1>17 DEF WrapHalt, TypeOK, RunningIsCurrent, NoNullNext, Halted, Free, fields
<1>18. CASE HaltIrq \/ StackOverflow
  BY <1>18 DEF HaltIrq, StackOverflow, TypeOK, NoNullNext, Halted, Free, fields
<1>19. CASE HaltTick \/ WalkTick
  BY <1>19 DEF HaltTick, WalkTick, NestedTick, PutAside, TypeOK, NoNullNext,
     Halted, Free
<1>20. CASE ProcessExit
  <2>1. \A s \in Slots : Free(s) => Free(s)'
    BY <1>20 DEF ProcessExit, Zombify, Woken, Release, Free, TypeOK,
       RunningIsCurrent
  <2>2. scan' \in Slots /\ next[scan'] # Nil
    BY <1>20 DEF ProcessExit, NoNullNext, TypeOK
  <2> QED
    BY <1>20, <2>1, <2>2 DEF ProcessExit, NoNullNext, Halted, TypeOK
<1>21. CASE ExitAdvance
  BY <1>21 DEF ExitAdvance, TypeOK, RunningIsCurrent, NoNullNext, Halted, Free, fields
<1>22. CASE ExitFound
  BY <1>22 DEF ExitFound, ExitTo, Resume, FreeSpaceOf, TypeOK, RunningIsCurrent,
     NoNullNext, Halted, Free, fields
<1>23. CASE ExitWrapped
  BY <1>23 DEF ExitWrapped, ExitTo, Resume, FreeSpaceOf, TypeOK, RunningIsCurrent,
     NoNullNext, Halted, Free, fields
<1>24. CASE UNCHANGED vars
  BY <1>24 DEF vars, TypeOK, RunningIsCurrent, NoNullNext, Halted, Free, fields
<1> QED
  BY <1>1, <1>2, <1>3, <1>4, <1>5, <1>6, <1>7, <1>8, <1>9, <1>10, <1>11,
     <1>12, <1>13, <1>14, <1>15, <1>16, <1>17, <1>18, <1>19, <1>20, <1>21,
     <1>22, <1>23, <1>24
     DEF Next, UserStep, Interrupt, KernelStep

\* Every step keeps the pids unique.
LEMMA PidsStep ==
    ASSUME TypeOK, UniquePids, [Next]_vars
    PROVE  UniquePids'
<1>1. CASE Create
  BY <1>1 DEF Create, NewProcess, TakePid, Linked, FirstFree, Free,
     StackAvailable, TypeOK, UniquePids, fields
<1>2. CASE Fork
  BY <1>2 DEF Fork, NewProcess, TakePid, Linked, FirstFree, Free, Calling,
     StackAvailable, TypeOK, UniquePids, fields
<1>3. CASE ThreadCreate
  BY <1>3 DEF ThreadCreate, NewProcess, TakePid, Linked, FirstFree, Free,
     Calling, StackAvailable, TypeOK, UniquePids, fields
<1>4. CASE WaitReap
  BY <1>4 DEF WaitReap, Release, ZombieChild, Calling, TypeOK, UniquePids,
     fields
<1>5. CASE WaitBlock
  BY <1>5 DEF WaitBlock, PutAside, ZombieChild, Calling, TypeOK, UniquePids,
     fields
<1>6. CASE ExitCall
  BY <1>6 DEF ExitCall, Calling, TypeOK, UniquePids, fields
<1>7. CASE UserFault
  BY <1>7 DEF UserFault, Calling, TypeOK, UniquePids, fields
<1>8. CASE SetHandler
  BY <1>8 DEF SetHandler, Calling, TypeOK, UniquePids, fields
<1>9. CASE KillOther
  BY <1>9 DEF KillOther, Target, Zombify, Woken, FreeSpaceOf, Calling, TypeOK,
     UniquePids, fields
<1>10. CASE SendSignal
  BY <1>10 DEF SendSignal, Target, Calling, TypeOK, UniquePids, fields
<1>11. CASE Exec
  BY <1>11 DEF Exec, Calling, TypeOK, UniquePids, fields
<1>12. CASE SchedulerTick
  BY <1>12 DEF SchedulerTick, PutAside, TypeOK, UniquePids, fields
<1>13. CASE ScanFound
  BY <1>13 DEF ScanFound, Runnable, Dispatch, Deadly, TypeOK, UniquePids,
     fields
<1>14. CASE ScanKill
  BY <1>14 DEF ScanKill, Zombify, Woken, FreeSpaceOf, Advance, TypeOK,
     UniquePids, fields
<1>15. CASE ScanSkip
  BY <1>15 DEF ScanSkip, Advance, TypeOK, UniquePids, fields
<1>16. CASE WrapResume
  BY <1>16 DEF WrapResume, Runnable, Dispatch, Deadly, TypeOK, UniquePids,
     fields
<1>17. CASE WrapHalt
  BY <1>17 DEF WrapHalt, TypeOK, UniquePids, fields
<1>18. CASE HaltIrq \/ StackOverflow
  BY <1>18 DEF HaltIrq, StackOverflow, TypeOK, UniquePids, fields
<1>19. CASE HaltTick \/ WalkTick
  BY <1>19 DEF HaltTick, WalkTick, NestedTick, PutAside, TypeOK, UniquePids
<1>20. CASE ProcessExit
  <2>1. \A s \in Slots : pid'[s] \in {pid[s], 0}
    BY <1>20 DEF ProcessExit, Release, TypeOK
  <2>2. parent' = parent /\ nextPid' = nextPid
    BY <1>20 DEF ProcessExit
  <2> QED
    BY <2>1, <2>2, SlotFacts, KStacksAssumption DEF UniquePids, TypeOK
<1>21. CASE ExitAdvance
  BY <1>21 DEF ExitAdvance, TypeOK, UniquePids, fields
<1>22. CASE ExitFound
  BY <1>22 DEF ExitFound, ExitTo, FreeSpaceOf, TypeOK, UniquePids, fields
<1>23. CASE ExitWrapped
  BY <1>23 DEF ExitWrapped, ExitTo, FreeSpaceOf, TypeOK, UniquePids, fields
<1>24. CASE UNCHANGED vars
  BY <1>24 DEF vars, TypeOK, UniquePids, fields
<1> QED
  BY <1>1, <1>2, <1>3, <1>4, <1>5, <1>6, <1>7, <1>8, <1>9, <1>10, <1>11,
     <1>12, <1>13, <1>14, <1>15, <1>16, <1>17, <1>18, <1>19, <1>20, <1>21,
     <1>22, <1>23, <1>24
     DEF Next, UserStep, Interrupt, KernelStep

\* Every step that leaves a zombie leaves no parent of it asleep.
LEMMA WakeupStep ==
    ASSUME TypeOK, UniquePids, NoLostWakeup, [Next]_vars
    PROVE  NoLostWakeup'
<1>1. CASE Create
  BY <1>1 DEF Create, NewProcess, TakePid, Linked, FirstFree, Free,
     StackAvailable, TypeOK, UniquePids, NoLostWakeup, fields
<1>2. CASE Fork
  BY <1>2 DEF Fork, NewProcess, TakePid, Linked, FirstFree, Free, Calling,
     StackAvailable, TypeOK, UniquePids, NoLostWakeup, fields
<1>3. CASE ThreadCreate
  BY <1>3 DEF ThreadCreate, NewProcess, TakePid, Linked, FirstFree, Free,
     Calling, StackAvailable, TypeOK, UniquePids, NoLostWakeup, fields
<1>4. CASE WaitReap
  BY <1>4 DEF WaitReap, Release, ZombieChild, Calling, TypeOK, UniquePids,
     NoLostWakeup, fields
<1>5. CASE WaitBlock
  BY <1>5 DEF WaitBlock, PutAside, ZombieChild, Calling, TypeOK, UniquePids,
     NoLostWakeup, fields
<1>6. CASE ExitCall
  BY <1>6 DEF ExitCall, Calling, TypeOK, UniquePids, NoLostWakeup, fields
<1>7. CASE UserFault
  BY <1>7 DEF UserFault, Calling, TypeOK, UniquePids, NoLostWakeup, fields
<1>8. CASE SetHandler
  BY <1>8 DEF SetHandler, Calling, TypeOK, UniquePids, NoLostWakeup, fields
<1>9. CASE KillOther
  BY <1>9 DEF KillOther, Target, Zombify, Woken, FreeSpaceOf, Calling, TypeOK,
     UniquePids, NoLostWakeup, fields
<1>10. CASE SendSignal
  BY <1>10 DEF SendSignal, Target, Calling, TypeOK, UniquePids, NoLostWakeup,
     fields
<1>11. CASE Exec
  BY <1>11 DEF Exec, Calling, TypeOK, UniquePids, NoLostWakeup, fields
<1>12. CASE SchedulerTick
  BY <1>12 DEF SchedulerTick, PutAside, TypeOK, UniquePids, NoLostWakeup,
     fields
<1>13. CASE ScanFound
  BY <1>13 DEF ScanFound, Runnable, Dispatch, Deadly, TypeOK, UniquePids,
     NoLostWakeup, fields
<1>14. CASE ScanKill
  BY <1>14 DEF ScanKill, Zombify, Woken, FreeSpaceOf, Advance, TypeOK,
     UniquePids, NoLostWakeup, fields
<1>15. CASE ScanSkip
  BY <1>15 DEF ScanSkip, Advance, TypeOK, UniquePids, NoLostWakeup, fields
<1>16. CASE WrapResume
  BY <1>16 DEF WrapResume, Runnable, Dispatch, Deadly, TypeOK, UniquePids,
     NoLostWakeup, fields
<1>17. CASE WrapHalt
  BY <1>17 DEF WrapHalt, TypeOK, UniquePids, NoLostWakeup, fields
<1>18. CASE HaltIrq \/ StackOverflow
  BY <1>18 DEF HaltIrq, StackOverflow, TypeOK, UniquePids, NoLostWakeup, fields
<1>19. CASE HaltTick \/ WalkTick
  <2>1. \A s \in Slots : state'[s] \in {"waiting", "zombie"} => state'[s] = state[s]
    BY <1>19 DEF HaltTick, WalkTick, NestedTick, PutAside, TypeOK
  <2>2. pid' = pid /\ parent' = parent
    BY <1>19 DEF HaltTick, WalkTick, NestedTick
  <2> QED
    BY <2>1, <2>2 DEF NoLostWakeup
<1>20. CASE ProcessExit
  <2>1. CASE kind[current] = "thread"
    BY <1>20, <2>1 DEF ProcessExit, Release, TypeOK, NoLostWakeup
  <2>2. CASE kind[current] # "thread"
    BY <1>20, <2>2 DEF ProcessExit, Zombify, Woken, TypeOK, NoLostWakeup
  <2> QED
    BY <2>1, <2>2
<1>21. CASE ExitAdvance
  BY <1>21 DEF ExitAdvance, TypeOK, UniquePids, NoLostWakeup, fields
<1>22. CASE ExitFound
  BY <1>22 DEF ExitFound, ExitTo, FreeSpaceOf, TypeOK, UniquePids,
     NoLostWakeup, fields
<1>23. CASE ExitWrapped
  BY <1>23 DEF ExitWrapped, ExitTo, FreeSpaceOf, TypeOK, UniquePids,
     NoLostWakeup, fields
<1>24. CASE UNCHANGED vars
  BY <1>24 DEF vars, TypeOK, UniquePids, NoLostWakeup, fields
<1> QED
  BY <1>1, <1>2, <1>3, <1>4, <1>5, <1>6, <1>7, <1>8, <1>9, <1>10, <1>11,
     <1>12, <1>13, <1>14, <1>15, <1>16, <1>17, <1>18, <1>19, <1>20, <1>21,
     <1>22, <1>23, <1>24
     DEF Next, UserStep, Interrupt, KernelStep

-----------------------------------------------------------------------------
IInv == TypeOK /\ RunningIsCurrent /\ NoNullNext /\ UniquePids /\ NoLostWakeup

\* process_init establishes the invariant.
LEMMA InitIInv == Init => IInv
<1> SUFFICES ASSUME Init PROVE IInv
  OBVIOUS
<1> USE NAssumption, KStacksAssumption, SlotFacts DEF Init
<1>1. TypeOK
  <2>1. ints \in BOOLEAN
    OBVIOUS
  <2> QED
    BY <2>1 DEF TypeOK, States, Kinds, PCs, Dispositions
<1>2. RunningIsCurrent
  BY DEF RunningIsCurrent, Halted
<1>3. NoNullNext /\ UniquePids /\ NoLostWakeup
  BY DEF NoNullNext, UniquePids, NoLostWakeup, Free, Halted
<1> QED
  BY <1>1, <1>2, <1>3 DEF IInv

\* The invariant holds in every reachable state.
THEOREM IInvInvariant == Spec => []IInv
<1>1. IInv /\ [Next]_vars => IInv'
  BY TypeStep, RunningStep, NextStep, PidsStep, WakeupStep DEF IInv
<1> QED
  BY InitIInv, <1>1, PTL DEF Spec

\* Type correctness.
THEOREM TypeCorrect == Spec => []TypeOK
<1>1. IInv => TypeOK
  BY DEF IInv
<1> QED
  BY <1>1, IInvInvariant, PTL

\* scheduler_tick, process_wait and process_exit hand the CPU over without
\* leaving two slots RUNNING, or a RUNNING slot that is not current; the one
\* exception are processes that a tick has interrupted at the halt of
\* scheduler_tick, and those never return to their own code.
THEOREM OneRunning == Spec => []RunningIsCurrent
<1>1. IInv => RunningIsCurrent
  BY DEF IInv
<1> QED
  BY <1>1, IInvInvariant, PTL

\* No walk along the scheduler ring dereferences a null next pointer.
THEOREM RingWalksSafe == Spec => []NoNullNext
<1>1. IInv => NoNullNext
  BY DEF IInv
<1> QED
  BY <1>1, IInvInvariant, PTL

\* find_by_pid is never ambiguous: pids in use differ, and none is reissued.
THEOREM PidsNeverShared == Spec => []UniquePids
<1>1. IInv => UniquePids
  BY DEF IInv
<1> QED
  BY <1>1, IInvInvariant, PTL

\* No process sleeps in wait while a child of it is a zombie.
THEOREM NoWakeupLost == Spec => []NoLostWakeup
<1>1. IInv => NoLostWakeup
  BY DEF IInv
<1> QED
  BY <1>1, IInvInvariant, PTL

-----------------------------------------------------------------------------
(***************************************************************************)
(* Up to the first reuse of a slot (FreshSpec).  Only there is the ring    *)
(* one circle and does process_exit always find a process to go to: its    *)
(* walk is bounded by N steps, which is enough because it never meets a    *)
(* slot twice of the circle (ExitWalk, OneRing).  If it meets no READY     *)
(* process it takes slot 0, whose entry is never freed (IdleSlot) but may  *)
(* have ended - unless SYS_KILL spares the idle process (IdleAlive).       *)
(***************************************************************************)
OnRing == {s \in Slots : next[s] # Nil}

\* The slots that were ever linked are one circle: no proper part of them is
\* closed under next.
OneRing == \A S \in SUBSET OnRing :
    S # {} /\ (\A x \in S : next[x] \in S) => S = OnRing

\* Slot 0 is never freed and never given to another process.
IdleSlot == /\ pid[0] = 1 /\ parent[0] = 0 /\ state[0] # "dead"
            /\ kind[0] = "kernel" /\ cr3[0] = KernelCR3

\* The idle process is never waiting, ended or signalled.
IdleAlive == /\ state[0] \in {"ready", "running"}
             /\ pending[0] = {}
             /\ pc \in {"dying", "exit"} => current # 0

\* scheduler_tick has not halted: its walk has passed the slots of V, and if it
\* comes back to current, that is the idle process, which can run.
Walked(V) == /\ current \in V
             /\ 0 \in V => current = 0
             /\ \A x \in V : next[x] \in V \cup {scan}
Unhalted == /\ pc = "scan" => \E V \in SUBSET OnRing : Walked(V)
            /\ pc = "wrap" => current = 0
            /\ pc # "halt" /\ ~ints /\ Halted = {}

\* A slot that is not DEAD has a pid, and one never linked was never filled.
SlotsInUse == \A s \in Slots : /\ state[s] # "dead" => pid[s] # 0
                               /\ next[s] = Nil => kind[s] = "kernel"

\* The walk of process_exit has passed the slots of V, once each; or the ring
\* is the idle process alone.
Passed(V) == /\ Cardinality(V) = steps
             /\ \A x \in V : state[x] # "ready"
             /\ \A x \in V \cup {current} : next[x] \in V \cup {scan}
ExitWalk == pc = "exit" =>
    /\ state[current] \in Ended
    /\ \/ scan = current /\ next[current] = current /\ steps = 0
       \/ /\ scan # current
          /\ \E V \in SUBSET (OnRing \ {current, scan}) : Passed(V)

RInv == IInv /\ OneRing /\ IdleSlot /\ SlotsInUse /\ ExitWalk

\* What the three calls that make a process have in common.
Make(p, knd, space, hdl) ==
    /\ pc = "user"
    /\ FirstFree(p)
    /\ NewProcess(p, knd, space, hdl)
    /\ \/ knd = "kernel" /\ space = KernelCR3 /\ UNCHANGED live
       \/ knd = "forked" /\ space \in Spaces \ live /\ live' = live \cup {space}
       \/ knd = "thread" /\ UNCHANGED live
Making == \E p \in Slots, knd \in Kinds, space \in Spaces \cup {KernelCR3},
             hdl \in [Signals -> Dispositions] : Make(p, knd, space, hdl)

LEMMA MakeSteps ==
    ASSUME TypeOK, Create \/ Fork \/ ThreadCreate
    PROVE  Making
<1>1. CASE Create
  <2> DEFINE hdl == [g \in Signals |-> "dfl"]
  <2>1. hdl \in [Signals -> Dispositions] /\ "kernel" \in Kinds
    BY DEF Dispositions, Kinds
  <2>2. PICK p \in Slots : FirstFree(p) /\ NewProcess(p, "kernel", KernelCR3, hdl)
    BY <1>1 DEF Create
  <2> HIDE DEF hdl
  <2>3. Make(p, "kernel", KernelCR3, hdl)
    BY <1>1, <2>2 DEF Create, Make
  <2> QED
    BY <2>1, <2>3 DEF Making
<1>2. CASE Fork
  <2>1. PICK a \in Spaces \ live, p \in Slots :
            /\ FirstFree(p)
            /\ NewProcess(p, "forked", a, handler[current])
            /\ live' = live \cup {a}
    BY <1>2 DEF Fork
  <2>2. Make(p, "forked", a, handler[current])
    BY <1>2, <2>1 DEF Fork, Calling, Make
  <2> QED
    BY <2>2 DEF Making, TypeOK, Kinds
<1>3. CASE ThreadCreate
  <2>1. PICK p \in Slots :
            FirstFree(p) /\ NewProcess(p, "thread", cr3[current], handler[current])
    BY <1>3 DEF ThreadCreate
  <2>2. Make(p, "thread", cr3[current], handler[current])
    BY <1>3, <2>1 DEF ThreadCreate, Calling, Make
  <2> QED
    BY <2>2 DEF Making, TypeOK, Kinds
<1> QED
  BY <1>1, <1>2, <1>3

\* Linking slot p, never linked before, behind current keeps one circle.
LEMMA RingGrows ==
    ASSUME IInv, OneRing, pc = "user", NEW p \in Slots, FirstFree(p),
           next[p] = Nil, next' = Linked(p)
    PROVE  OneRing' /\ OnRing' = OnRing \cup {p}
<1> USE SlotFacts
<1>1. current \in OnRing /\ p # current /\ p \notin OnRing
  BY DEF IInv, NoNullNext, OnRing, TypeOK
<1>2. next'[p] = next[current] /\ next'[current] = p
  BY <1>1 DEF IInv, TypeOK, Linked
<1>3. \A s \in Slots : s # p /\ s # current => next'[s] = next[s]
  BY DEF IInv, TypeOK, Linked
<1>4. \A s \in OnRing : s \in Slots /\ next[s] \in OnRing
  BY DEF IInv, NoNullNext, OnRing, TypeOK
<1>5. OnRing' = OnRing \cup {p}
  BY <1>1, <1>2, <1>3, <1>4 DEF OnRing
<1>6. SUFFICES ASSUME NEW S \in SUBSET OnRing', S # {},
                      \A x \in S : next'[x] \in S
               PROVE  S = OnRing'
  BY <1>5 DEF OneRing
<1>7. S \subseteq OnRing \cup {p}
  BY <1>5
<1>8. p \in S
  <2> SUFFICES ASSUME p \notin S PROVE FALSE
    OBVIOUS
  <2>1. current \notin S
    BY <1>2, <1>6
  <2>2. S \in SUBSET OnRing /\ \A x \in S : next[x] \in S
    BY <1>3, <1>4, <1>6, <1>7, <2>1
  <2>3. S = OnRing
    BY <1>6, <2>2 DEF OneRing
  <2> QED
    BY <1>1, <2>1, <2>3
<1> DEFINE T == S \ {p}
<1>9. next[current] \in T
  BY <1>1, <1>2, <1>4, <1>6, <1>8
<1>10. \A x \in T : next[x] \in T
  <2> SUFFICES ASSUME NEW x \in T PROVE next[x] \in T
    OBVIOUS
  <2>1. x \in OnRing /\ next[x] \in OnRing
    BY <1>4, <1>7
  <2>2. CASE x = current
    BY <1>9, <2>2
  <2>3. CASE x # current
    BY <1>1, <1>3, <1>4, <1>6, <2>1, <2>3
  <2> QED
    BY <2>2, <2>3
<1>11. T = OnRing
  BY <1>7, <1>9, <1>10 DEF OneRing
<1> QED
  BY <1>5, <1>8, <1>11

\* Nothing else changes a next pointer.
LEMMA NextKept ==
    ASSUME TypeOK, [Next]_vars
    PROVE  Making \/ next' = next
<1>1. CASE Create \/ Fork \/ ThreadCreate
  BY <1>1, MakeSteps
<1>2. CASE UserStep /\ ~(Create \/ Fork \/ ThreadCreate)
  BY <1>2 DEF UserStep, WaitReap, WaitBlock, ExitCall, UserFault, SetHandler,
     KillOther, SendSignal, Exec, fields
<1>3. CASE Interrupt \/ KernelStep \/ UNCHANGED vars
  BY <1>3 DEF Interrupt, SchedulerTick, HaltIrq, HaltTick, WalkTick, NestedTick,
     StackOverflow, KernelStep, ScanFound, ScanKill, ScanSkip,
     WrapResume, WrapHalt, ProcessExit, ExitAdvance, ExitFound, ExitWrapped,
     ExitTo, vars, fields
<1> QED
  BY <1>1, <1>2, <1>3 DEF Next

\* The circle stays one, whatever the processes do.
LEMMA RingStep ==
    ASSUME IInv, OneRing, [Next /\ NoReuse]_vars
    PROVE  OneRing'
<1> USE SlotFacts
<1>1. CASE Making
  <2>1. PICK p \in Slots, knd \in Kinds, space \in Spaces \cup {KernelCR3},
             hdl \in [Signals -> Dispositions] : Make(p, knd, space, hdl)
    BY <1>1 DEF Making
  <2>2. nextPid' # nextPid /\ Free(p) /\ next' = Linked(p)
    BY <2>1, KStacksAssumption DEF Make, NewProcess, TakePid, FirstFree, IInv, TypeOK
  <2>3. next[p] = Nil
    BY <2>2 DEF NoReuse, vars
  <2> QED
    BY <2>1, <2>2, <2>3, RingGrows DEF Make
<1>2. CASE next' = next
  BY <1>2 DEF OneRing, OnRing
<1> QED
  BY <1>1, <1>2, NextKept DEF IInv

-----------------------------------------------------------------------------
\* In the walk of process_exit fewer than N slots have been passed, since the
\* one that is left is none of them, and the next one is a new one.
LEMMA WalkGoesOn ==
    ASSUME IInv, OneRing, scan # current,
           NEW V \in SUBSET (OnRing \ {current, scan}),
           \A x \in V \cup {current} : next[x] \in V \cup {scan}
    PROVE  /\ IsFiniteSet(V)
           /\ Cardinality(V) < N
           /\ next[scan] \notin V \cup {scan}
<1> USE SlotFacts
<1>1. scan \in OnRing /\ current \in OnRing /\ current \in Slots
  BY DEF IInv, NoNullNext, OnRing, TypeOK
<1>2. IsFiniteSet(Slots) /\ Cardinality(Slots) = N
  BY NAssumption, FS_Interval DEF Slots
<1>3. V \in SUBSET (Slots \ {current})
  BY DEF OnRing
<1>4. IsFiniteSet(Slots \ {current}) /\ Cardinality(Slots \ {current}) = N - 1
  BY <1>1, <1>2, FS_RemoveElement
<1>5. IsFiniteSet(V) /\ Cardinality(V) <= N - 1
  <2>1. \A T \in SUBSET (Slots \ {current}) :
            IsFiniteSet(T) /\ Cardinality(T) <= Cardinality(Slots \ {current})
    BY <1>4, FS_Subset
  <2> QED
    BY <1>3, <1>4, <2>1
<1>6. Cardinality(V) < N
  BY <1>5, FS_CardinalityType, NAssumption
<1>7. ASSUME next[scan] \in V \cup {scan}
      PROVE  FALSE
  <2> DEFINE S == V \cup {scan}
  <2>1. S \in SUBSET OnRing /\ S # {}
    BY <1>1
  <2>2. \A x \in S : next[x] \in S
    BY <1>7
  <2>3. S = OnRing
    BY <2>1, <2>2 DEF OneRing
  <2> QED
    BY <1>1, <2>3
<1> QED
  BY <1>5, <1>6, <1>7

\* So process_exit goes by what it sees and not by the bound of its loop: it
\* takes a READY process, or slot 0 once it is back where it started.
LEMMA ExitIsToReady ==
    ASSUME RInv
    PROVE  ExitFound => state[scan] = "ready"
<1> SUFFICES ASSUME ExitFound, steps = N
             PROVE  FALSE
  BY DEF ExitFound
<1>1. pc = "exit" /\ steps # 0
  BY NAssumption DEF ExitFound
<1>2. PICK V \in SUBSET (OnRing \ {current, scan}) : Passed(V)
  BY <1>1 DEF RInv, ExitWalk
<1>3. scan # current /\ Cardinality(V) < N
  BY <1>1, <1>2, WalkGoesOn DEF RInv, ExitWalk, Passed
<1> QED
  BY <1>2, <1>3, NAssumption DEF Passed

\* While the idle process lives, the walk meets it before it is back.
LEMMA IdleIsMet ==
    ASSUME RInv, IdleAlive, Unhalted
    PROVE  ~ExitWrapped
<1> SUFFICES ASSUME ExitWrapped PROVE FALSE
  OBVIOUS
<1> USE SlotFacts DEF RInv, IInv
<1>1. pc = "exit" /\ state[scan] # "ready" /\ next[scan] = current
  BY DEF ExitWrapped
<1>2. state[0] = "ready" /\ 0 \in OnRing /\ current # 0
  BY <1>1 DEF IdleAlive, NoNullNext, OnRing, RunningIsCurrent, Unhalted
<1>3. scan \in OnRing /\ current \in OnRing /\ state[current] # "ready"
  BY <1>1 DEF NoNullNext, OnRing, TypeOK, ExitWalk, Ended
<1>4. CASE scan = current
  <2> DEFINE S == {current}
  <2>1. S \in SUBSET OnRing /\ S # {} /\ \A x \in S : next[x] \in S
    BY <1>1, <1>3, <1>4
  <2>2. S = OnRing
    BY <2>1 DEF OneRing
  <2> QED
    BY <1>2, <2>2
<1>5. CASE scan # current
  <2>1. PICK V \in SUBSET (OnRing \ {current, scan}) : Passed(V)
    BY <1>1, <1>5 DEF ExitWalk
  <2> DEFINE S == V \cup {current, scan}
  <2>2. S \in SUBSET OnRing /\ S # {} /\ \A x \in S : next[x] \in S
    BY <1>1, <1>3, <2>1 DEF Passed
  <2>3. S = OnRing
    BY <2>2 DEF OneRing
  <2> QED
    BY <1>1, <1>2, <2>1, <2>3 DEF Passed
<1> QED
  BY <1>4, <1>5

\* Slot 0 keeps its process: it has no parent that could reap it.
LEMMA IdleSlotStep ==
    ASSUME RInv, [Next]_vars
    PROVE  IdleSlot'
<1> USE SlotFacts DEF RInv, IInv, IdleSlot
<1>1. CASE Making
  <2>1. PICK p \in Slots, knd \in Kinds, space \in Spaces \cup {KernelCR3},
             hdl \in [Signals -> Dispositions] : Make(p, knd, space, hdl)
    BY <1>1 DEF Making
  <2>2. p # 0
    BY <2>1 DEF Make, FirstFree, Free
  <2> QED
    BY <2>1, <2>2 DEF Make, NewProcess, TakePid, TypeOK
<1>2. CASE WaitReap
  <2>1. PICK s \in Slots : ZombieChild(s) /\ Release(s)
    BY <1>2 DEF WaitReap
  <2>2. pid[current] # 0
    BY <1>2 DEF WaitReap, Calling, RunningIsCurrent, SlotsInUse, TypeOK
  <2>3. s # 0
    BY <2>1, <2>2 DEF ZombieChild
  <2> QED
    BY <1>2, <2>1, <2>3 DEF WaitReap, Release, TypeOK
<1>3. CASE WaitBlock \/ SchedulerTick \/ HaltTick \/ WalkTick
  BY <1>3 DEF WaitBlock, SchedulerTick, HaltTick, WalkTick, NestedTick, PutAside, Calling, TypeOK
<1>4. CASE ExitCall \/ UserFault \/ SetHandler
  BY <1>4 DEF ExitCall, UserFault, SetHandler, Calling, fields
<1>5. CASE Exec
  BY <1>5 DEF Exec, Calling, TypeOK
<1>6. CASE KillOther
  BY <1>6 DEF KillOther, Target, Zombify, Woken, Calling, TypeOK
<1>7. CASE SendSignal
  BY <1>7 DEF SendSignal, Target, Calling, TypeOK
<1>8. CASE ScanFound \/ WrapResume
  BY <1>8 DEF ScanFound, WrapResume, Dispatch, TypeOK
<1>9. CASE ScanKill
  BY <1>9 DEF ScanKill, Zombify, Woken, Advance, TypeOK
<1>10. CASE ScanSkip \/ WrapHalt \/ HaltIrq \/ StackOverflow \/ ExitAdvance
  BY <1>10 DEF ScanSkip, Advance, WrapHalt, HaltIrq, StackOverflow, ExitAdvance, fields
<1>11. CASE ProcessExit
  <2>1. CASE kind[current] = "thread"
    BY <1>11, <2>1 DEF ProcessExit, Release, TypeOK
  <2>2. CASE kind[current] # "thread"
    BY <1>11, <2>2 DEF ProcessExit, Zombify, Woken, TypeOK
  <2> QED
    BY <2>1, <2>2
<1>12. CASE ExitFound \/ ExitWrapped
  BY <1>12 DEF ExitFound, ExitWrapped, ExitTo, Resume, TypeOK
<1>13. CASE UNCHANGED vars
  BY <1>13 DEF vars, fields
<1> QED
  BY <1>1, <1>2, <1>3, <1>4, <1>5, <1>6, <1>7, <1>8, <1>9, <1>10, <1>11, <1>12,
     <1>13, MakeSteps DEF Next, UserStep, Interrupt, KernelStep

\* The idle process is never put out of action.
LEMMA IdleStep ==
    ASSUME RInv, IdleAlive, Unhalted, "killidle" \notin Calls, [Next]_vars
    PROVE  IdleAlive'
<1> USE SlotFacts DEF RInv, IInv, IdleAlive
<1>1. CASE Making
  BY <1>1 DEF Making, Make, NewProcess, FirstFree, Free, TypeOK
<1>2. CASE WaitReap
  BY <1>2 DEF WaitReap, Release, ZombieChild, Calling, TypeOK
<1>3. CASE WaitBlock
  BY <1>3 DEF WaitBlock, PutAside, Calling, TypeOK
<1>4. CASE ExitCall \/ UserFault \/ SetHandler \/ Exec
  BY <1>4 DEF ExitCall, UserFault, SetHandler, Exec, Calling, fields
<1>5. CASE KillOther
  BY <1>5 DEF KillOther, Target, Zombify, Woken, Calling, TypeOK
<1>6. CASE SendSignal
  BY <1>6 DEF SendSignal, Target, Calling, TypeOK
<1>7. CASE SchedulerTick \/ HaltTick \/ WalkTick
  BY <1>7 DEF SchedulerTick, HaltTick, WalkTick, NestedTick, PutAside, TypeOK
<1>8. ASSUME NEW n \in Slots, Dispatch(n), state[n] = "ready"
      PROVE  IdleAlive'
  <2>1. state' = [state EXCEPT ![n] = "running"] /\ current' = n
    BY <1>8 DEF Dispatch
  <2>2. CASE n = 0
    BY <1>8, <2>1, <2>2 DEF Dispatch, Resume, Deadly, TypeOK
  <2>3. CASE n # 0
    <3>1. pending'[0] = pending[0]
      BY <1>8, <2>3 DEF Dispatch, TypeOK
    <3> QED
      BY <2>1, <2>3, <3>1 DEF TypeOK
  <2> QED
    BY <2>2, <2>3
<1>9. CASE ScanFound \/ WrapResume
  BY <1>8, <1>9 DEF ScanFound, WrapResume, Runnable, TypeOK
<1>10. CASE ScanKill
  BY <1>10 DEF ScanKill, Zombify, Woken, Advance, TypeOK
<1>11. CASE ScanSkip \/ WrapHalt \/ HaltIrq \/ StackOverflow \/ ExitAdvance
  BY <1>11 DEF ScanSkip, Advance, WrapHalt, HaltIrq, StackOverflow, ExitAdvance, fields
<1>12. CASE ProcessExit
  BY <1>12 DEF ProcessExit, Release, Zombify, Woken, TypeOK
<1>13. CASE ExitFound
  BY <1>13 DEF ExitFound, ExitTo, Resume, TypeOK
<1>14. CASE ExitWrapped
  BY <1>14, IdleIsMet
<1>15. CASE UNCHANGED vars
  BY <1>15 DEF vars, fields
<1> QED
  BY <1>1, <1>2, <1>3, <1>4, <1>5, <1>6, <1>7, <1>9, <1>10, <1>11, <1>12,
     <1>13, <1>14, <1>15, MakeSteps DEF Next, UserStep, Interrupt, KernelStep

\* While the idle process lives, scheduler_tick never halts.
LEMMA UnhaltedStep ==
    ASSUME RInv, IdleAlive, Unhalted, [Next /\ NoReuse]_vars
    PROVE  Unhalted'
<1> USE SlotFacts DEF RInv, IInv
<1>1. Halted = {} /\ ~ints /\ pc # "halt" /\ \A s \in Slots : parked[s] = Nil
  BY DEF Unhalted, Halted
<1>2. CASE Making
  BY <1>1, <1>2 DEF Making, Make, NewProcess, Unhalted, Halted, TypeOK
<1>3. CASE WaitReap \/ ExitCall \/ UserFault \/ SetHandler \/ KillOther
           \/ SendSignal \/ Exec
  BY <1>1, <1>3 DEF WaitReap, ExitCall, UserFault, SetHandler, KillOther,
     SendSignal, Exec, Calling, Unhalted, Halted, fields
<1>4. CASE WaitBlock \/ SchedulerTick
  <2>1. /\ scan' = next[current] /\ pc' = "scan" /\ ~ints' /\ current' = current
        /\ next' = next /\ parked' = parked
    BY <1>4 DEF WaitBlock, SchedulerTick, PutAside
  <2>2. PICK V \in SUBSET OnRing : V = {current}
    BY DEF OnRing, NoNullNext, TypeOK
  <2>3. Walked(V)' /\ V \in SUBSET OnRing'
    BY <2>1, <2>2 DEF Walked, OnRing
  <2> QED
    BY <1>1, <2>1, <2>3 DEF Unhalted, Halted
<1>5. CASE ScanFound \/ WrapResume
  BY <1>1, <1>5 DEF ScanFound, WrapResume, Dispatch, Resume, Unhalted, Halted, TypeOK
<1>6. CASE ScanSkip \/ ScanKill
  <2>1. /\ pc = "scan" /\ Advance /\ current' = current /\ next' = next
        /\ parked' = parked /\ ints' = ints
    BY <1>6 DEF ScanSkip, ScanKill, fields
  <2>2. state[0] = "ready" /\ pending[0] = {}
    BY <1>1, <2>1 DEF IdleAlive, RunningIsCurrent
  <2>3. scan # 0 /\ scan \in OnRing
    BY <1>6, <2>2 DEF ScanSkip, ScanKill, OnRing, NoNullNext, TypeOK
  <2>4. PICK V \in SUBSET OnRing : Walked(V)
    BY <2>1 DEF Unhalted
  <2>5. PICK W \in SUBSET OnRing : W = V \cup {scan}
    BY <2>3, <2>4
  <2>6. CASE next[scan] = current
    <3>1. W # {} /\ \A x \in W : next[x] \in W
      BY <2>4, <2>5, <2>6 DEF Walked
    <3>2. W = OnRing
      BY <3>1 DEF OneRing
    <3>3. current = 0
      BY <2>3, <2>4, <2>5, <3>2 DEF OnRing, NoNullNext, Walked
    <3> QED
      BY <1>1, <2>1, <2>6, <3>3 DEF Advance, Unhalted, Halted
  <2>7. CASE next[scan] # current
    <3>1. Walked(W)' /\ W \in SUBSET OnRing' /\ pc' = "scan"
      BY <2>1, <2>3, <2>4, <2>5, <2>7 DEF Advance, Walked, OnRing
    <3> QED
      BY <1>1, <2>1, <3>1 DEF Unhalted, Halted
  <2> QED
    BY <2>6, <2>7
<1>7. ~WrapHalt
  <2> SUFFICES ASSUME pc = "wrap" PROVE Runnable(current)
    BY DEF WrapHalt
  <2>1. current = 0 /\ state[0] = "ready" /\ pending[0] = {}
    BY <1>1 DEF Unhalted, IdleAlive, RunningIsCurrent
  <2> QED
    BY <2>1 DEF Runnable
<1>8. CASE HaltIrq \/ HaltTick \/ WalkTick \/ StackOverflow
  BY <1>1, <1>8 DEF HaltIrq, HaltTick, WalkTick, StackOverflow
<1>9. CASE ProcessExit \/ ExitAdvance
  BY <1>1, <1>9 DEF ProcessExit, ExitAdvance, Unhalted, Halted, fields
<1>10. CASE ExitFound \/ ExitWrapped
  BY <1>1, <1>10 DEF ExitFound, ExitWrapped, ExitTo, Stale, Resume, Unhalted,
     Halted, TypeOK
<1>11. CASE UNCHANGED vars
  BY <1>11 DEF vars, fields, Unhalted, Walked, OnRing, Halted
<1> QED
  BY <1>2, <1>3, <1>4, <1>5, <1>6, <1>7, <1>8, <1>9, <1>10, <1>11, MakeSteps
     DEF Next, UserStep, Interrupt, KernelStep

\* A slot in use has a pid: no path revives a slot that was freed.
LEMMA InUseStep ==
    ASSUME RInv, [Next]_vars
    PROVE  SlotsInUse'
<1> USE SlotFacts DEF RInv, IInv, SlotsInUse
<1>1. CASE Making
  <2>1. PICK p \in Slots, knd \in Kinds, space \in Spaces \cup {KernelCR3},
             hdl \in [Signals -> Dispositions] : Make(p, knd, space, hdl)
    BY <1>1 DEF Making
  <2>2. /\ pid' = [pid EXCEPT ![p] = nextPid]
        /\ state' = [state EXCEPT ![p] = "ready"]
        /\ kind' = [kind EXCEPT ![p] = knd]
        /\ next' = [next EXCEPT ![p] = next[current], ![current] = p]
    BY <2>1 DEF Make, NewProcess, TakePid, Linked
  <2>3. nextPid # 0 /\ next[current] # Nil /\ p # current
    BY <2>1, KStacksAssumption DEF TypeOK, NoNullNext, Make, FirstFree, Free,
       RunningIsCurrent
  <2> QED
    BY <2>2, <2>3 DEF TypeOK
<1>2. CASE WaitReap
  BY <1>2 DEF WaitReap, Release, ZombieChild, Calling, TypeOK
<1>3. CASE WaitBlock
  BY <1>3 DEF WaitBlock, PutAside, Calling, TypeOK, RunningIsCurrent
<1>4. CASE ExitCall \/ UserFault \/ SetHandler \/ Exec
  BY <1>4 DEF ExitCall, UserFault, SetHandler, Exec, Calling, fields
<1>5. CASE KillOther
  BY <1>5 DEF KillOther, Target, Zombify, Woken, Calling, TypeOK
<1>6. CASE SendSignal
  BY <1>6 DEF SendSignal, Target, Calling, TypeOK
<1>7. CASE SchedulerTick \/ HaltTick \/ WalkTick
  BY <1>7 DEF SchedulerTick, HaltTick, WalkTick, NestedTick, PutAside, TypeOK, RunningIsCurrent
<1>8. CASE ScanFound \/ WrapResume
  BY <1>8 DEF ScanFound, WrapResume, Dispatch, Runnable, TypeOK
<1>9. CASE ScanKill
  BY <1>9 DEF ScanKill, Zombify, Woken, Advance, TypeOK
<1>10. CASE ScanSkip \/ WrapHalt \/ HaltIrq \/ StackOverflow \/ ExitAdvance
  BY <1>10 DEF ScanSkip, Advance, WrapHalt, HaltIrq, StackOverflow, ExitAdvance, fields
<1>11. CASE ProcessExit
  BY <1>11 DEF ProcessExit, Release, Zombify, Woken, TypeOK, RunningIsCurrent
<1>12. CASE ExitFound
  BY <1>12, ExitIsToReady DEF ExitFound, ExitTo, Resume, TypeOK
<1>13. CASE ExitWrapped
  BY <1>13 DEF ExitWrapped, ExitTo, IdleSlot, TypeOK
<1>14. CASE UNCHANGED vars
  BY <1>14 DEF vars, fields
<1> QED
  BY <1>1, <1>2, <1>3, <1>4, <1>5, <1>6, <1>7, <1>8, <1>9, <1>10, <1>11, <1>12,
     <1>13, <1>14, MakeSteps DEF Next, UserStep, Interrupt, KernelStep

\* process_exit's walk passes every slot at most once.
LEMMA ExitWalkStep ==
    ASSUME RInv, [Next]_vars
    PROVE  ExitWalk'
<1> USE SlotFacts DEF RInv, IInv
<1>1. SUFFICES ASSUME pc' = "exit"
               PROVE  /\ state'[current'] \in Ended
                      /\ \/ scan' = current' /\ next'[current'] = current' /\ steps' = 0
                         \/ /\ scan' # current'
                            /\ \E V \in SUBSET (OnRing' \ {current', scan'}) : Passed(V)'
  BY DEF ExitWalk
<1>2. CASE ProcessExit
  <2>1. state'[current] \in Ended
    BY <1>2 DEF ProcessExit, Release, Zombify, Ended, TypeOK
  <2>2. /\ scan' = next[current] /\ steps' = 0 /\ current' = current
        /\ next' = next
    BY <1>2 DEF ProcessExit
  <2> DEFINE V == {}
  <2>3. V \in SUBSET (OnRing' \ {current', scan'})
    OBVIOUS
  <2>4. Passed(V)'
    BY <2>2, FS_EmptySet DEF Passed
  <2> HIDE DEF V
  <2> QED
    BY <2>1, <2>2, <2>3, <2>4
<1>3. CASE ExitAdvance
  <2>1. /\ pc = "exit" /\ state[current] \in Ended
        /\ state[scan] # "ready" /\ scan' = next[scan] /\ steps' = steps + 1
        /\ current' = current /\ next' = next /\ state' = state
        /\ next[scan] # current
    BY <1>3 DEF ExitAdvance, ExitWalk, fields
  <2>2. scan # current
    BY <2>1 DEF ExitWalk
  <2>3. PICK V \in SUBSET (OnRing \ {current, scan}) : Passed(V)
    BY <2>1, <2>2 DEF ExitWalk
  <2>4. IsFiniteSet(V) /\ next[scan] \notin V \cup {current, scan}
    BY <2>1, <2>2, <2>3, WalkGoesOn DEF Passed
  <2>5. scan \in OnRing /\ OnRing' = OnRing
    BY <2>1 DEF OnRing, NoNullNext, TypeOK
  <2>6. PICK W \in SUBSET (OnRing \ {current}) : W = V \cup {scan}
    BY <2>2, <2>3, <2>5
  <2>7. Cardinality(W) = steps'
    BY <2>1, <2>3, <2>4, <2>6, FS_AddElement DEF Passed
  <2>8. /\ \A x \in W : state'[x] # "ready"
        /\ \A x \in W \cup {current'} : next'[x] \in W \cup {scan'}
    BY <2>1, <2>3, <2>6 DEF Passed
  <2>9. W \in SUBSET (OnRing' \ {current', scan'})
    BY <2>1, <2>4, <2>5, <2>6
  <2>10. Passed(W)'
    BY <2>7, <2>8 DEF Passed
  <2> QED
    BY <2>1, <2>9, <2>10
<1>4. CASE UNCHANGED vars
  BY <1>1, <1>4 DEF ExitWalk, Passed, OnRing, vars, fields
<1>5. CASE Making
  BY <1>1, <1>5 DEF Making, Make, NewProcess
<1>6. CASE WaitReap \/ WaitBlock \/ ExitCall \/ UserFault \/ SetHandler
           \/ KillOther \/ SendSignal \/ Exec
  BY <1>1, <1>6 DEF WaitReap, WaitBlock, ExitCall, UserFault, SetHandler,
     KillOther, SendSignal, Exec, Calling, PutAside
<1>7. CASE Interrupt \/ ScanSkip \/ WrapHalt \/ ScanKill
  BY <1>1, <1>7 DEF Interrupt, SchedulerTick, HaltIrq, HaltTick, WalkTick, NestedTick,
     StackOverflow, PutAside, ScanSkip, ScanKill, Advance, WrapHalt
<1>8. CASE ScanFound \/ WrapResume
  BY <1>1, <1>8 DEF ScanFound, WrapResume, Dispatch, Resume
<1>9. CASE ExitFound \/ ExitWrapped
  BY <1>1, <1>9 DEF ExitFound, ExitWrapped, ExitTo, Resume
<1> QED
  BY <1>2, <1>3, <1>4, <1>5, <1>6, <1>7, <1>8, <1>9, MakeSteps
     DEF Next, UserStep, Interrupt, KernelStep

LEMMA InitRInv == Init => RInv
<1> SUFFICES ASSUME Init PROVE RInv
  OBVIOUS
<1> USE SlotFacts DEF Init
<1>1. OneRing
  BY DEF OneRing, OnRing
<1>2. IdleSlot /\ SlotsInUse /\ ExitWalk
  BY DEF IdleSlot, SlotsInUse, ExitWalk
<1> QED
  BY <1>1, <1>2, InitIInv DEF RInv

LEMMA StepRInv ==
    ASSUME RInv, [Next /\ NoReuse]_vars
    PROVE  RInv'
<1>1. [Next]_vars
  OBVIOUS
<1>2. IInv'
  BY <1>1, TypeStep, RunningStep, NextStep, PidsStep, WakeupStep DEF RInv, IInv
<1> QED
  BY <1>1, <1>2, RingStep, IdleSlotStep, InUseStep, ExitWalkStep DEF RInv

LEMMA InitIdle == Init => IdleAlive /\ Unhalted
  BY SlotFacts DEF Init, IdleAlive, Unhalted, Halted

\* A slot that has ended is not revived, except for a new process.
LEMMA EndedStep ==
    ASSUME RInv, IdleAlive, Unhalted, [Next]_vars, NEW s \in Slots,
           state[s] \in Ended, state'[s] \notin Ended
    PROVE  pid'[s] = nextPid /\ nextPid' = nextPid + 1
<1> USE SlotFacts DEF RInv, IInv, Ended
<1>1. CASE Making
  BY <1>1 DEF Making, Make, NewProcess, TakePid, TypeOK
<1>2. CASE WaitReap
  BY <1>2 DEF WaitReap, Release, TypeOK
<1>3. CASE WaitBlock \/ SchedulerTick \/ HaltTick \/ WalkTick
  BY <1>3 DEF WaitBlock, SchedulerTick, HaltTick, WalkTick, NestedTick, PutAside, Calling, TypeOK, RunningIsCurrent
<1>4. CASE ExitCall \/ UserFault \/ SetHandler \/ Exec
  BY <1>4 DEF ExitCall, UserFault, SetHandler, Exec, fields
<1>5. CASE KillOther
  BY <1>5 DEF KillOther, Target, Zombify, Woken, TypeOK
<1>6. CASE SendSignal
  BY <1>6 DEF SendSignal, Target, TypeOK
<1>7. CASE ScanFound \/ WrapResume
  BY <1>7 DEF ScanFound, WrapResume, Dispatch, Runnable, TypeOK
<1>8. CASE ScanKill
  BY <1>8 DEF ScanKill, Zombify, Woken, TypeOK
<1>9. CASE ScanSkip \/ WrapHalt \/ HaltIrq \/ StackOverflow \/ ExitAdvance \/ UNCHANGED vars
  BY <1>9 DEF ScanSkip, WrapHalt, HaltIrq, StackOverflow, ExitAdvance, vars, fields
<1>10. CASE ProcessExit
  BY <1>10 DEF ProcessExit, Release, Zombify, Woken, TypeOK
<1>11. CASE ExitFound
  BY <1>11, ExitIsToReady DEF ExitFound, ExitTo, Resume, TypeOK
<1>12. CASE ExitWrapped
  BY <1>12, IdleIsMet
<1> QED
  BY <1>1, <1>2, <1>3, <1>4, <1>5, <1>6, <1>7, <1>8, <1>9, <1>10, <1>11, <1>12,
     MakeSteps DEF Next, UserStep, Interrupt, KernelStep

\* One circle is what round robin needs.
LEMMA RingIsCircle ==
    ASSUME IInv, OneRing
    PROVE  CircularList
<1> SUFFICES ASSUME NEW c \in Alive, NEW s \in Alive, NEW S \in SUBSET Slots,
                    next[c] \in S, \A x \in S : next[x] \in S \cup {Nil}
             PROVE  s \in S
  BY DEF CircularList, WalkFrom, Alive
<1>1. c \in OnRing /\ s \in OnRing
  BY DEF Alive, Ended, OnRing, IInv, NoNullNext, Free
<1>2. \A x \in OnRing : next[x] \in OnRing
  BY SlotFacts DEF OnRing, IInv, NoNullNext, TypeOK
<1> DEFINE T == S \cap OnRing
<1>3. T \in SUBSET OnRing /\ next[c] \in T
  BY <1>1, <1>2
<1>4. \A x \in T : next[x] \in T
  BY <1>2, SlotFacts DEF OnRing
<1>5. T = OnRing
  BY <1>3, <1>4 DEF OneRing
<1> QED
  BY <1>1, <1>5

-----------------------------------------------------------------------------
\* proc_count counts exactly the slots that have a pid.
LEMMA CountStep ==
    ASSUME RInv, CountIsExact, [Next]_vars
    PROVE  CountIsExact'
<1> USE DEF RInv, IInv
<1> DEFINE U == {s \in Slots : pid[s] # 0}
<1>1. IsFiniteSet(Slots)
  BY NAssumption, FS_Interval DEF Slots
<1>2. U \in SUBSET Slots
  OBVIOUS
<1>3. IsFiniteSet(U)
  BY <1>1, <1>2, FS_Subset
<1>4. procCount = Cardinality(U)
  BY DEF CountIsExact
<1>5. U' = U /\ procCount' = procCount => CountIsExact'
  BY <1>4 DEF CountIsExact
<1>6. ASSUME NEW p \in Slots \ U, U' = U \cup {p}, procCount' = procCount + 1
      PROVE  CountIsExact'
  <2>1. Cardinality(U \cup {p}) = Cardinality(U) + 1
    BY <1>3, FS_AddElement
  <2> QED
    BY <1>4, <1>6, <2>1 DEF CountIsExact
<1>7. ASSUME NEW p \in U, U' = U \ {p}, procCount' = procCount - 1
      PROVE  CountIsExact'
  <2>1. Cardinality(U \ {p}) = Cardinality(U) - 1
    BY <1>3, FS_RemoveElement
  <2> QED
    BY <1>4, <1>7, <2>1 DEF CountIsExact
<1>8. CASE Making
  <2>1. PICK p \in Slots, knd \in Kinds, space \in Spaces \cup {KernelCR3},
             hdl \in [Signals -> Dispositions] : Make(p, knd, space, hdl)
    BY <1>8 DEF Making
  <2>2. pid' = [pid EXCEPT ![p] = nextPid] /\ procCount' = procCount + 1
    BY <2>1 DEF Make, NewProcess, TakePid
  <2>3. p \notin U /\ nextPid # 0
    BY <2>1, KStacksAssumption DEF Make, FirstFree, Free, TypeOK
  <2>4. U' = U \cup {p}
    BY <2>2, <2>3 DEF TypeOK
  <2> QED
    BY <1>6, <2>2, <2>3, <2>4
<1>9. ASSUME NEW s \in Slots, Release(s), state[s] # "dead"
      PROVE  CountIsExact'
  <2>1. pid' = [pid EXCEPT ![s] = 0] /\ procCount' = procCount - 1
    BY <1>9 DEF Release
  <2>2. s \in U
    BY <1>9 DEF SlotsInUse
  <2>3. U' = U \ {s}
    BY <2>1 DEF TypeOK
  <2> QED
    BY <1>7, <2>1, <2>2, <2>3
<1>10. CASE WaitReap
  BY <1>9, <1>10 DEF WaitReap, ZombieChild
<1>11. CASE ProcessExit
  <2>1. CASE kind[current] = "thread"
    BY <1>9, <1>11, <2>1 DEF ProcessExit, TypeOK, RunningIsCurrent
  <2>2. CASE kind[current] # "thread"
    BY <1>5, <1>11, <2>2 DEF ProcessExit
  <2> QED
    BY <2>1, <2>2
<1>12. CASE WaitBlock \/ ExitCall \/ UserFault \/ SetHandler \/ KillOther
            \/ SendSignal \/ Exec \/ Interrupt
  BY <1>5, <1>12 DEF WaitBlock, ExitCall, UserFault, SetHandler, KillOther,
     SendSignal, Exec, Interrupt, SchedulerTick, HaltIrq, HaltTick, WalkTick,
     NestedTick, StackOverflow, fields
<1>13. CASE ScanFound \/ ScanKill \/ ScanSkip \/ WrapResume \/ WrapHalt
            \/ ExitAdvance \/ ExitFound \/ ExitWrapped
  BY <1>5, <1>13 DEF ScanFound, ScanKill, ScanSkip, WrapResume, WrapHalt,
     ExitAdvance, ExitFound, ExitWrapped, ExitTo, fields
<1>14. CASE UNCHANGED vars
  BY <1>5, <1>14 DEF vars, fields
<1> QED
  BY <1>8, <1>10, <1>11, <1>12, <1>13, <1>14, MakeSteps
     DEF Next, UserStep, Interrupt, KernelStep

\* The address spaces: what SpacesOwned says where it says something.
Owned == /\ \A s \in Holders : cr3[s] # KernelCR3 => cr3[s] \in live
         /\ \A a \in live : \E s \in Holders : cr3[s] = a
         /\ \A s, t \in Holders : cr3[s] = cr3[t] /\ cr3[s] # KernelCR3 => s = t
NoThreads == \A s \in Slots : kind[s] # "thread"

LEMMA OwnedIsSpacesOwned ==
    ASSUME TypeOK
    PROVE  SpacesOwned <=> (NoThreads => Owned)
<1>1. KernelCR3 \notin live
  BY SpacesAssumption DEF TypeOK
<1>2. ({cr3[s] : s \in Holders} \ {KernelCR3} = live)
        <=> /\ \A s \in Holders : cr3[s] # KernelCR3 => cr3[s] \in live
            /\ \A a \in live : \E s \in Holders : cr3[s] = a
  BY <1>1
<1> QED
  BY <1>2 DEF SpacesOwned, NoThreads, Owned

\* A step that leaves the holders and their spaces alone.
LEMMA OwnedSame ==
    ASSUME Owned, Holders' = Holders, live' = live,
           \A s \in Holders : cr3'[s] = cr3[s]
    PROVE  Owned'
  BY DEF Owned

\* A holder ends and its space is freed.
LEMMA OwnedFreed ==
    ASSUME Owned, NEW p \in Holders, Holders' = Holders \ {p},
           live' = live \ {cr3[p]}, KernelCR3 \notin live,
           \A s \in Holders' : cr3'[s] = cr3[s]
    PROVE  Owned'
<1>1. \A s \in Holders' : cr3'[s] = cr3[s] /\ s \in Holders /\ s # p
  OBVIOUS
<1>2. ASSUME NEW s \in Holders', cr3'[s] # KernelCR3
      PROVE  cr3'[s] \in live'
  BY <1>1, <1>2 DEF Owned
<1>3. ASSUME NEW a \in live'
      PROVE  \E s \in Holders' : cr3'[s] = a
  BY <1>1, <1>3 DEF Owned
<1>4. ASSUME NEW s \in Holders', NEW t \in Holders', cr3'[s] = cr3'[t],
             cr3'[s] # KernelCR3
      PROVE  s = t
  BY <1>1, <1>4 DEF Owned
<1> QED
  BY <1>2, <1>3, <1>4 DEF Owned

\* A new process: its space is the kernel's or a fresh one.
LEMMA OwnedMake ==
    ASSUME RInv, NoReuse, Owned, NEW p \in Slots, NEW knd \in Kinds,
           NEW space \in Spaces \cup {KernelCR3},
           NEW hdl \in [Signals -> Dispositions], Make(p, knd, space, hdl),
           knd # "thread"
    PROVE  Owned'
<1> USE SlotFacts DEF RInv, IInv
<1>1. /\ state' = [state EXCEPT ![p] = "ready"]
      /\ cr3' = [cr3 EXCEPT ![p] = space]
      /\ pc = "user" /\ pc' = "user" /\ state[p] = "dead"
  BY DEF Make, NewProcess, FirstFree, Free
<1>2. Holders' = Holders \cup {p} /\ p \notin Holders
  BY <1>1 DEF Holders, Alive, Ended, TypeOK
<1>3. /\ cr3'[p] = space
      /\ \A s \in Holders : cr3'[s] = cr3[s]
  BY <1>1, <1>2 DEF TypeOK, Holders, Alive
<1>4. CASE space = KernelCR3 /\ live' = live
  BY <1>2, <1>3, <1>4 DEF Owned
<1>5. CASE space \in Spaces \ live /\ live' = live \cup {space}
  <2>1. space # KernelCR3
    BY <1>5, SpacesAssumption
  <2>2. \A s \in Holders : cr3[s] # space
    BY <1>5, <2>1 DEF Owned
  <2> QED
    BY <1>2, <1>3, <1>5, <2>1, <2>2 DEF Owned
<1> QED
  BY <1>4, <1>5 DEF Make

\* An ending that is not a thread's: the slot drops out of the holders.
LEMMA OwnedZombify ==
    ASSUME RInv, Owned, NEW p \in Alive, pc # "exit", pc' # "exit", Zombify(p),
           live' = live \ {cr3[p]}, cr3' = [cr3 EXCEPT ![p] = KernelCR3]
    PROVE  Owned'
<1> USE SlotFacts DEF RInv, IInv
<1>1. p \in Holders /\ Holders' = Holders \ {p}
  BY DEF Holders, Alive, Ended, Zombify, Woken, TypeOK
<1>2. \A s \in Holders' : cr3'[s] = cr3[s]
  BY <1>1 DEF TypeOK, Holders, Alive
<1>3. KernelCR3 \notin live
  BY SpacesAssumption DEF TypeOK
<1> QED
  BY <1>1, <1>2, <1>3, OwnedFreed

\* process_exit goes over to slot 0, which may have ended.
LEMMA OwnedWrapped ==
    ASSUME Owned, NEW p \in Holders, Holders' \ {0} = Holders \ {p, 0},
           live' = live \ {cr3[p]}, cr3' = cr3, cr3[0] = KernelCR3,
           KernelCR3 \notin live
    PROVE  Owned'
<1>1. \A s \in Holders' : cr3[s] # KernelCR3 => s \in Holders /\ s # p
  OBVIOUS
<1>2. ASSUME NEW s \in Holders', cr3[s] # KernelCR3
      PROVE  cr3[s] \in live'
  BY <1>1, <1>2 DEF Owned
<1>3. ASSUME NEW a \in live'
      PROVE  \E s \in Holders' : cr3[s] = a
  <2>1. PICK s \in Holders : cr3[s] = a
    BY <1>3 DEF Owned
  <2>2. s # p /\ s # 0
    BY <1>3, <2>1
  <2> QED
    BY <2>1, <2>2
<1>4. ASSUME NEW s \in Holders', NEW t \in Holders', cr3[s] = cr3[t],
             cr3[s] # KernelCR3
      PROVE  s = t
  BY <1>1, <1>4 DEF Owned
<1> QED
  BY <1>2, <1>3, <1>4 DEF Owned

LEMMA OwnedStep ==
    ASSUME RInv, Owned, NoThreads, "exec" \notin Calls, ~Making, [Next]_vars
    PROVE  Owned'
<1> USE SlotFacts DEF RInv, IInv
<1>1. CASE WaitReap
  <2>1. Holders' = Holders
    BY <1>1 DEF WaitReap, Calling, Release, ZombieChild, Holders, Alive, Ended,
       TypeOK
  <2> QED
    BY <1>1, <2>1, OwnedSame DEF WaitReap
<1>2. CASE WaitBlock \/ SchedulerTick \/ HaltTick \/ WalkTick
  <2>1. Holders' = Holders
    BY <1>2 DEF WaitBlock, SchedulerTick, HaltTick, WalkTick, NestedTick, PutAside, Calling, Holders, Alive,
       Ended, TypeOK, RunningIsCurrent
  <2> QED
    BY <1>2, <2>1, OwnedSame DEF WaitBlock, SchedulerTick, HaltTick, WalkTick, NestedTick
<1>3. CASE ExitCall \/ UserFault \/ SetHandler
  <2>1. Holders' = Holders
    BY <1>3 DEF ExitCall, UserFault, SetHandler, Calling, Holders, Alive, fields
  <2> QED
    BY <1>3, <2>1, OwnedSame DEF ExitCall, UserFault, SetHandler, fields
<1>4. CASE KillOther
  <2>1. PICK p \in Slots : /\ Target(p) /\ Zombify(p) /\ FreeSpaceOf(p)
                           /\ cr3' = [cr3 EXCEPT ![p] = KernelCR3]
    BY <1>4 DEF KillOther
  <2>2. p \in Alive /\ pc = "user" /\ pc' = "user"
    BY <1>4, <2>1 DEF KillOther, Calling, Target, Alive, Ended
  <2> QED
    BY <2>1, <2>2, OwnedZombify DEF FreeSpaceOf
<1>5. CASE SendSignal
  <2>1. Holders' = Holders
    BY <1>5 DEF SendSignal, Calling, Target, Holders, Alive, Ended, TypeOK
  <2> QED
    BY <1>5, <2>1, OwnedSame DEF SendSignal
<1>6. CASE ScanFound \/ WrapResume
  <2>1. Holders' = Holders
    BY <1>6 DEF ScanFound, WrapResume, Dispatch, Resume, Runnable, Holders, Alive,
       Ended, TypeOK
  <2> QED
    BY <1>6, <2>1, OwnedSame DEF ScanFound, WrapResume
<1>7. CASE ScanKill
  <2>1. scan \in Alive /\ pc # "exit" /\ pc' # "exit"
    BY <1>7 DEF ScanKill, Advance, Alive, Ended, TypeOK
  <2> QED
    BY <1>7, <2>1, OwnedZombify DEF ScanKill, FreeSpaceOf
<1>8. CASE ScanSkip \/ WrapHalt \/ HaltIrq \/ StackOverflow \/ ExitAdvance
  <2>1. Holders' = Holders
    BY <1>8 DEF ScanSkip, Advance, WrapHalt, HaltIrq, StackOverflow, ExitAdvance, Holders, Alive, fields
  <2> QED
    BY <1>8, <2>1, OwnedSame DEF ScanSkip, WrapHalt, HaltIrq, StackOverflow, ExitAdvance, fields
<1>9. CASE ProcessExit
  <2>1. kind[current] # "thread" /\ current \in Alive
    BY <1>9 DEF ProcessExit, NoThreads, TypeOK, RunningIsCurrent, Alive, Ended
  <2>2. Zombify(current) /\ pc = "dying" /\ pc' = "exit" /\ current' = current
    BY <1>9, <2>1 DEF ProcessExit
  <2>3. Alive' = Alive \ {current}
    BY <2>2 DEF Zombify, Woken, Alive, Ended, TypeOK
  <2>4. Holders' = Holders
    BY <2>1, <2>2, <2>3 DEF Holders
  <2> QED
    BY <1>9, <2>4, OwnedSame DEF ProcessExit
<1>10. CASE ExitFound
  <2>1. state[scan] = "ready" /\ pc = "exit" /\ ExitTo(scan)
    BY <1>10, ExitIsToReady DEF ExitFound
  <2>2. current \notin Alive /\ kind[current] # "thread"
    BY <2>1 DEF ExitWalk, Alive, NoThreads, TypeOK
  <2>3. current \in Holders /\ Holders' = Holders \ {current}
    BY <2>1, <2>2 DEF ExitTo, Holders, Alive, Ended, TypeOK
  <2>4. live' = live \ {cr3[current]} /\ cr3' = cr3
    BY <2>1, <2>2 DEF ExitTo, FreeSpaceOf
  <2>5. KernelCR3 \notin live
    BY SpacesAssumption DEF TypeOK
  <2> QED
    BY <2>3, <2>4, <2>5, OwnedFreed
<1>11. CASE ExitWrapped
  <2>1. pc = "exit" /\ ExitTo(0) /\ KernelCR3 \notin live
    BY <1>11, SpacesAssumption DEF ExitWrapped, TypeOK
  <2>2. current \notin Alive /\ current \in Holders /\ kind[current] # "thread"
    BY <2>1 DEF ExitWalk, Alive, Holders, NoThreads, TypeOK
  <2>3. Holders' \ {0} = Holders \ {current, 0}
    BY <2>1, <2>2 DEF ExitTo, Holders, Alive, Ended, TypeOK
  <2>4. live' = live \ {cr3[current]} /\ cr3' = cr3
    BY <2>1, <2>2 DEF ExitTo, FreeSpaceOf
  <2> QED
    BY <2>1, <2>2, <2>3, <2>4, OwnedWrapped DEF IdleSlot
<1>12. CASE UNCHANGED vars
  BY <1>12 DEF vars, fields, Owned, Holders, Alive
<1>13. CASE Exec
  BY <1>13 DEF Exec, Calling
<1> QED
  BY <1>1, <1>2, <1>3, <1>4, <1>5, <1>6, <1>7, <1>8, <1>9, <1>10, <1>11, <1>12,
     <1>13, MakeSteps DEF Next, UserStep, Interrupt, KernelStep

\* Which slots are threads is forgotten by none of the steps.
LEMMA KindStep ==
    ASSUME RInv, ~Making, [Next]_vars
    PROVE  kind' = kind
<1>1. CASE UserStep
  BY <1>1, MakeSteps DEF RInv, IInv, UserStep, WaitReap, WaitBlock, ExitCall,
     UserFault, SetHandler, KillOther, SendSignal, Exec, fields
<1>2. CASE Interrupt \/ KernelStep \/ UNCHANGED vars
  BY <1>2 DEF Interrupt, SchedulerTick, HaltIrq, HaltTick, WalkTick, NestedTick,
     StackOverflow, KernelStep, ScanFound, ScanKill, ScanSkip,
     WrapResume, WrapHalt, ProcessExit, ExitAdvance, ExitFound, ExitWrapped,
     ExitTo, vars, fields
<1> QED
  BY <1>1, <1>2 DEF Next

\* Every allocated address space keeps exactly one owner.
LEMMA SpacesStep ==
    ASSUME RInv, NoThreads => Owned, "exec" \notin Calls, [Next /\ NoReuse]_vars
    PROVE  NoThreads' => Owned'
<1> SUFFICES ASSUME NoThreads' PROVE Owned'
  OBVIOUS
<1> USE DEF RInv, IInv
<1>1. CASE Making
  <2>1. PICK p \in Slots, knd \in Kinds, space \in Spaces \cup {KernelCR3},
             hdl \in [Signals -> Dispositions] : Make(p, knd, space, hdl)
    BY <1>1 DEF Making
  <2>2. /\ nextPid' # nextPid /\ Free(p) /\ kind' = [kind EXCEPT ![p] = knd]
    BY <2>1, KStacksAssumption DEF Make, NewProcess, TakePid, FirstFree, TypeOK
  <2>3. NoReuse /\ next[p] = Nil
    BY <2>2 DEF NoReuse, vars
  <2>4. kind[p] = "kernel"
    BY <2>3 DEF SlotsInUse
  <2>5. knd # "thread" /\ NoThreads
    BY <2>2, <2>4 DEF NoThreads, TypeOK
  <2> QED
    BY <2>1, <2>3, <2>5, OwnedMake
<1>2. CASE ~Making
  BY <1>2, KindStep, OwnedStep DEF NoThreads
<1> QED
  BY <1>1, <1>2

-----------------------------------------------------------------------------
\* The ring is one circle as long as no slot has been used twice: scheduler_tick
\* and process_exit, starting anywhere, meet every process that has not ended.
THEOREM RingIsOneCircle == FreshSpec => []CircularList
<1> DEFINE I == IInv /\ OneRing
<1>1. Init => I
  BY InitRInv DEF RInv
<1>2. I /\ [Next /\ NoReuse]_vars => I'
  BY RingStep, TypeStep, RunningStep, NextStep, PidsStep, WakeupStep DEF IInv
<1>3. I => CircularList
  BY RingIsCircle
<1> HIDE DEF I
<1> QED
  BY <1>1, <1>2, <1>3, PTL DEF FreshSpec

\* The strengthened invariant of the behaviours without reuse.
THEOREM RInvInvariant == FreshSpec => []RInv
<1>1. RInv /\ [Next /\ NoReuse]_vars => RInv'
  BY StepRInv
<1> QED
  BY InitRInv, <1>1, PTL DEF FreshSpec

\* No path of exit, kill, wait or the scheduler gives the CPU to, or wakes, a
\* process that has ended - unless SYS_KILL ends the idle process, on which
\* process_exit falls back when no other is READY.
THEOREM EndedForGood == "killidle" \notin Calls => (FreshSpec => EndedStaysEnded)
<1> SUFFICES ASSUME "killidle" \notin Calls PROVE FreshSpec => EndedStaysEnded
  OBVIOUS
<1> DEFINE I == IdleAlive /\ Unhalted
<1>1. Init => I
  BY InitIdle
<1>2. RInv /\ I /\ [Next /\ NoReuse]_vars => I'
  BY IdleStep, UnhaltedStep
<1>3. RInv /\ I /\ [Next /\ NoReuse]_vars =>
        [\A s \in Slots : state[s] \in Ended /\ state'[s] \notin Ended
           => pid'[s] = nextPid /\ nextPid' = nextPid + 1]_vars
  BY EndedStep
<1> HIDE DEF I
<1> QED
  BY RInvInvariant, <1>1, <1>2, <1>3, PTL DEF FreshSpec, EndedStaysEnded

\* Up to there scheduler_tick never halts, and the qualification of OneRunning
\* falls away: exactly the current process is RUNNING, and none is inside the
\* two loops.
OnlyCurrentRuns == \A s \in Slots :
    state[s] = "running" <=> s = current /\ pc \in {"user", "dying", "panic"}

THEOREM OneRunningOnly ==
    "killidle" \notin Calls => (FreshSpec => [](Halted = {} /\ OnlyCurrentRuns))
<1> SUFFICES ASSUME "killidle" \notin Calls
             PROVE  FreshSpec => [](Halted = {} /\ OnlyCurrentRuns)
  OBVIOUS
<1> DEFINE I == IdleAlive /\ Unhalted
           C == Halted = {} /\ OnlyCurrentRuns
<1>1. Init => I
  BY InitIdle
<1>2. RInv /\ I /\ [Next /\ NoReuse]_vars => I'
  BY IdleStep, UnhaltedStep
<1>3. RInv /\ I => C
  BY DEF RInv, IInv, Unhalted, RunningIsCurrent, OnlyCurrentRuns
<1> HIDE DEF I, C
<1>4. FreshSpec => []C
  BY RInvInvariant, <1>1, <1>2, <1>3, PTL DEF FreshSpec
<1> QED
  BY <1>4 DEF C

\* proc_count, which process_create, fork and thread_create test before they
\* look for a slot, is the number of slots in use.
THEOREM ProcCountExact == FreshSpec => []CountIsExact
<1>1. Init => CountIsExact
  <2> SUFFICES ASSUME Init PROVE CountIsExact
    OBVIOUS
  <2>1. {s \in Slots : pid[s] # 0} = {0} /\ procCount = 1
    BY SlotFacts DEF Init
  <2> QED
    BY <2>1, FS_Singleton DEF CountIsExact
<1>2. RInv /\ CountIsExact /\ [Next /\ NoReuse]_vars => CountIsExact'
  BY CountStep
<1> QED
  BY RInvInvariant, <1>1, <1>2, PTL DEF FreshSpec

\* Unless a program calls exec, which drops its old space, every address space
\* in use has one owner, none is leaked by exit or kill and none is freed while
\* a process that has not ended runs on it.
THEOREM SpacesHaveOwners == "exec" \notin Calls => (FreshSpec => []SpacesOwned)
<1> SUFFICES ASSUME "exec" \notin Calls PROVE FreshSpec => []SpacesOwned
  OBVIOUS
<1> DEFINE J == NoThreads => Owned
<1>1. Init => J
  BY DEF Init, Owned, Holders, Alive
<1>2. RInv /\ J /\ [Next /\ NoReuse]_vars => J'
  BY SpacesStep
<1>3. RInv /\ J => SpacesOwned
  BY OwnedIsSpacesOwned DEF RInv, IInv
<1> HIDE DEF J
<1> QED
  BY RInvInvariant, <1>1, <1>2, <1>3, PTL DEF FreshSpec

=============================================================================
