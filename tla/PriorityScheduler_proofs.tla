---------------------- MODULE PriorityScheduler_proofs ----------------------
(***************************************************************************)
(* Safety of the priority scheduler, for any number of processes and of    *)
(* levels.  The inductive invariant is OneRuns with the types.  As long as *)
(* nobody ends the boot context, slot 0 is always runnable (BootRuns), and *)
(* pick_next never gives the CPU back to a process that sleeps or has      *)
(* ended; once it is killed that can happen, but only if nobody is READY.  *)
(***************************************************************************)
EXTENDS PriorityScheduler, TLAPS

SchedTypeOK == /\ state \in [Entries -> SchedStates]
               /\ priority \in [Entries -> Prios]
               /\ cur \in Entries
SchedInv == SchedTypeOK /\ OneRuns
BootRuns == state[0] \in {"ready", "running"}

\* Tables that the scheduler may be called with: what current did to itself
\* and whom it woke.
CallTable(tab) == /\ tab \in [Entries -> SchedStates]
                  /\ \A p \in Entries : tab[p] = "running" => p = cur

LEMMA BootIsEntry == 0 \in Entries
BY NProcsAssumption DEF Entries

\* Once current is put back nobody is RUNNING.
LEMMA NobodyRuns ==
    ASSUME SchedTypeOK, NEW tab, CallTable(tab)
    PROVE  /\ PutBack(tab) \in [Entries -> SchedStates]
           /\ \A p \in Entries : PutBack(tab)[p] # "running"
BY DEF CallTable, PutBack, SchedStates, SchedTypeOK

LEMMA ReadyHasLevel ==
    ASSUME SchedTypeOK, NEW tab, NEW p \in Entries, tab[p] = "ready"
    PROVE  priority[p] \in Levels(tab)
<1>1. p \in ReadyAt(tab, priority[p]) /\ priority[p] \in Prios
  BY DEF ReadyAt, SchedTypeOK
<1> QED
  BY <1>1 DEF Levels

\* What a call of the scheduler does to the table: one READY process of the
\* highest level becomes RUNNING, or current does if there is none.
LEMMA SwitchPicks ==
    ASSUME SchedTypeOK, NEW tab, CallTable(tab), Switch(tab)
    PROVE  /\ cur' \in Entries
           /\ \/ PutBack(tab)[cur'] = "ready"
              \/ cur' = cur /\ \A p \in Entries : PutBack(tab)[p] # "ready"
           /\ state' = [PutBack(tab) EXCEPT ![cur'] = "running"]
           /\ priority' = priority
           /\ \A p \in Entries : PutBack(tab)[p] = "ready" =>
                                    priority[p] <= priority[cur']
<1> DEFINE back == PutBack(tab)
<1>1. /\ cur' \in Entries /\ Picks(back, cur')
      /\ state' = [back EXCEPT ![cur'] = "running"] /\ priority' = priority
  BY DEF Switch
<1>2. \A p \in Entries : back[p] = "ready" => priority[p] \in Levels(back)
  BY ReadyHasLevel
<1>3. CASE Levels(back) = {}
  BY <1>1, <1>2, <1>3 DEF Picks
<1>4. CASE Levels(back) # {}
  <2>1. /\ cur' \in ReadyAt(back, priority[cur'])
        /\ \A q \in Levels(back) : q <= priority[cur']
    BY <1>1, <1>4 DEF Picks
  <2> QED
    BY <1>1, <1>2, <2>1 DEF ReadyAt
<1> QED
  BY <1>3, <1>4

LEMMA SwitchKeeps ==
    ASSUME SchedTypeOK, NEW tab, CallTable(tab), Switch(tab)
    PROVE  SchedInv'
<1>1. /\ PutBack(tab) \in [Entries -> SchedStates]
      /\ \A p \in Entries : PutBack(tab)[p] # "running"
  BY NobodyRuns
<1>2. /\ cur' \in Entries /\ priority' = priority
      /\ state' = [PutBack(tab) EXCEPT ![cur'] = "running"]
  BY SwitchPicks
<1>3. /\ state' \in [Entries -> SchedStates]
      /\ \A p \in Entries : state'[p] = "running" <=> p = cur'
  BY <1>1, <1>2 DEF SchedStates
<1> QED
  BY <1>2, <1>3 DEF SchedInv, SchedTypeOK, OneRuns

\* The three calls of the scheduler hand it such a table.
LEMMA TickTable == SchedInv => CallTable(state)
BY DEF SchedInv, SchedTypeOK, OneRuns, CallTable

LEMMA SleepTable ==
    ASSUME SchedInv
    PROVE  CallTable([state EXCEPT ![cur] = "waiting"])
BY DEF SchedInv, SchedTypeOK, OneRuns, CallTable, SchedStates

LEMMA EndTable ==
    ASSUME SchedInv, NEW e \in Entries, NEW woken \in Parents
    PROVE  CallTable(Zombified(e, woken))
<1>1. /\ \A p \in Entries : state[p] = "running" => p = cur
      /\ \A p \in woken : p \in Entries /\ state[p] = "waiting"
  BY DEF SchedInv, OneRuns, Parents
<1>2. Zombified(e, woken) \in [Entries -> SchedStates]
  BY DEF Zombified, SchedInv, SchedTypeOK, SchedStates
<1>3. ASSUME NEW p \in Entries, Zombified(e, woken)[p] = "running"
      PROVE  p = cur
  BY <1>1, <1>3 DEF Zombified
<1> QED
  BY <1>2, <1>3 DEF CallTable

-----------------------------------------------------------------------------
LEMMA SchedInitInv == SchedInit => SchedInv
<1> SUFFICES ASSUME SchedInit PROVE SchedInv
  OBVIOUS
<1>1. Normal \in Prios /\ 0 \in Prios
  BY PriosAssumption DEF Prios
<1> QED
  BY <1>1, BootIsEntry DEF SchedInit, SchedInv, SchedTypeOK, OneRuns, SchedStates

\* A step that changes one state, neither from nor to RUNNING.
LEMMA ChangeKeeps ==
    ASSUME SchedInv, NEW p \in Entries, NEW from, NEW to \in SchedStates,
           Change(p, from, to), from # "running", to # "running"
    PROVE  SchedInv'
<1>1. /\ state' = [state EXCEPT ![p] = to] /\ state[p] = from
      /\ UNCHANGED <<priority, cur>>
  BY DEF Change
<1>2. state' \in [Entries -> SchedStates]
  BY <1>1 DEF SchedInv, SchedTypeOK
<1>3. {q \in Entries : state'[q] = "running"} = {q \in Entries : state[q] = "running"}
  BY <1>1 DEF SchedInv, SchedTypeOK
<1> QED
  BY <1>1, <1>2, <1>3 DEF SchedInv, SchedTypeOK, OneRuns

LEMMA KilledKeeps ==
    ASSUME SchedInv, NEW p \in Entries, Killed(p)
    PROVE  SchedInv'
<1>1. PICK woken \in Parents : state' = Zombified(p, woken)
  BY DEF Killed
<1>2. state[p] \in {"ready", "waiting"} /\ UNCHANGED <<priority, cur>>
  BY DEF Killed
<1>3. CallTable(state')
  BY <1>1, EndTable, <1>2 DEF CallTable
<1>4. cur # p /\ cur \notin woken /\ state[cur] = "running" /\ cur \in Entries
  BY <1>2 DEF SchedInv, SchedTypeOK, OneRuns, Parents
<1>5. state'[cur] = "running"
  BY <1>1, <1>4 DEF Zombified
<1> QED
  BY <1>2, <1>3, <1>4, <1>5 DEF CallTable, SchedInv, SchedTypeOK, OneRuns

LEMMA SchedStepInv == SchedInv /\ [SchedNext]_schedVars => SchedInv'
<1> SUFFICES ASSUME SchedInv, [SchedNext]_schedVars PROVE SchedInv'
  OBVIOUS
<1> USE DEF SchedStates
<1>0. SchedTypeOK
  BY DEF SchedInv
<1>1. CASE SchedTick
  BY <1>0, <1>1, TickTable, SwitchKeeps DEF SchedTick
<1>2. CASE Sleep
  BY <1>0, <1>2, SleepTable, SwitchKeeps DEF Sleep
<1>3. CASE EndEntry
  <2>1. PICK woken \in Parents : Switch(Zombified(cur, woken))
    BY <1>3 DEF EndEntry
  <2>2. cur \in Entries
    BY <1>0 DEF SchedTypeOK
  <2> QED
    BY <1>0, <2>1, <2>2, EndTable, SwitchKeeps
<1>4. ASSUME NEW p \in Entries, Killed(p) PROVE SchedInv'
  BY <1>4, KilledKeeps
<1>5. ASSUME NEW p \in Entries, SignalWakes(p) PROVE SchedInv'
  BY <1>5, ChangeKeeps DEF SignalWakes
<1>6. ASSUME NEW p \in Entries, Reaped(p) PROVE SchedInv'
  BY <1>6, ChangeKeeps DEF Reaped
<1>7. ASSUME NEW p \in Entries, Created(p) PROVE SchedInv'
  BY <1>7, ChangeKeeps DEF Created
<1>8. ASSUME NEW p \in Entries, NEW q \in Prios, SetPriority(p, q) PROVE SchedInv'
  BY <1>8 DEF SetPriority, SchedInv, SchedTypeOK, OneRuns
<1>9. CASE UNCHANGED schedVars
  BY <1>9 DEF schedVars, SchedInv, SchedTypeOK, OneRuns
<1> QED
  BY <1>1, <1>2, <1>3, <1>4, <1>5, <1>6, <1>7, <1>8, <1>9 DEF SchedNext

\* The scheduler keeps its invariant: one process runs, and it is current.
THEOREM SchedSafe == SchedSpec => []SchedInv
BY SchedInitInv, SchedStepInv, PTL DEF SchedSpec

\* One process is RUNNING and current names it, through every call of the
\* scheduler and whatever process.c does in between.
THEOREM OneRunning == SchedSpec => []OneRuns
<1>1. SchedInv => OneRuns
  BY DEF SchedInv
<1> QED
  BY <1>1, SchedSafe, PTL

-----------------------------------------------------------------------------
StrictStep == SchedTick \/ Sleep \/ EndEntry =>
    \A p \in Entries : state'[p] = "ready" => priority[p] <= priority[cur']

LEMMA SwitchIsStrict ==
    ASSUME SchedTypeOK, NEW tab, CallTable(tab), Switch(tab),
           NEW p \in Entries, state'[p] = "ready"
    PROVE  priority[p] <= priority[cur']
<1>1. /\ cur' \in Entries
      /\ state' = [PutBack(tab) EXCEPT ![cur'] = "running"]
      /\ \A q \in Entries : PutBack(tab)[q] = "ready" =>
                               priority[q] <= priority[cur']
  BY SwitchPicks
<1>2. PutBack(tab) \in [Entries -> SchedStates]
  BY NobodyRuns
<1>3. PutBack(tab)[p] = "ready"
  BY <1>1, <1>2
<1> QED
  BY <1>1, <1>3

\* No READY process has a higher priority than the one that gets the CPU.
THEOREM PriorityIsStrict == SchedSpec => StrictPriority
<1>1. SchedInv /\ [SchedNext]_schedVars => [StrictStep]_schedVars
  <2> SUFFICES ASSUME SchedInv, SchedTick \/ Sleep \/ EndEntry,
                      NEW p \in Entries, state'[p] = "ready"
               PROVE  priority[p] <= priority[cur']
    BY DEF StrictStep
  <2>0. SchedTypeOK
    BY DEF SchedInv
  <2>1. CASE SchedTick
    BY <2>0, <2>1, TickTable, SwitchIsStrict DEF SchedTick
  <2>2. CASE Sleep
    BY <2>0, <2>2, SleepTable, SwitchIsStrict DEF Sleep
  <2>3. CASE EndEntry
    <3>1. PICK woken \in Parents : Switch(Zombified(cur, woken))
      BY <2>3 DEF EndEntry
    <3>2. cur \in Entries
      BY <2>0 DEF SchedTypeOK
    <3> QED
      BY <2>0, <3>1, <3>2, EndTable, SwitchIsStrict
  <2> QED
    BY <2>1, <2>2, <2>3
<1> QED
  BY <1>1, SchedSafe, PTL DEF SchedSpec, StrictPriority, StrictStep

-----------------------------------------------------------------------------
\* A process that is neither RUNNING nor READY in the table of the call keeps
\* its state if the scheduler has somebody else to pick.
LEMMA OffStaysOff ==
    ASSUME SchedTypeOK, NEW tab, CallTable(tab), Switch(tab),
           tab[cur] \notin {"ready", "running"}
    PROVE  /\ state'[cur] = tab[cur] \/ NoneReady'
           /\ (\E p \in Entries : tab[p] = "ready") => state'[cur] = tab[cur]
<1>1. PutBack(tab) = tab
  BY DEF PutBack
<1>2. /\ cur' \in Entries
      /\ \/ tab[cur'] = "ready"
         \/ cur' = cur /\ \A p \in Entries : tab[p] # "ready"
      /\ state' = [tab EXCEPT ![cur'] = "running"]
  BY <1>1, SwitchPicks
<1>3. cur \in Entries /\ tab \in [Entries -> SchedStates]
  BY DEF SchedTypeOK, CallTable
<1> QED
  BY <1>2, <1>3 DEF NoneReady

\* Only a READY process or current becomes RUNNING.
LEMMA EndedNotPicked ==
    ASSUME SchedTypeOK, NEW tab, CallTable(tab), Switch(tab),
           NEW p \in Entries, p # cur, tab[p] # "ready"
    PROVE  state'[p] # "running"
<1>1. /\ cur' \in Entries
      /\ PutBack(tab)[cur'] = "ready" \/ cur' = cur
      /\ state' = [PutBack(tab) EXCEPT ![cur'] = "running"]
  BY SwitchPicks
<1>2. PutBack(tab) \in [Entries -> SchedStates] /\ PutBack(tab)[p] # "running"
  BY NobodyRuns
<1>3. PutBack(tab)[p] = tab[p] /\ cur \in Entries
  BY DEF PutBack, CallTable, SchedTypeOK
<1> QED
  BY <1>1, <1>2, <1>3

LEMMA ZombieIs ==
    ASSUME NEW e \in Entries, NEW woken
    PROVE  Zombified(e, woken)[e] = "zombie"
BY DEF Zombified

\* Who has ended and is not current stays off the CPU through every step.
LEMMA EndedStayOff ==
    ASSUME SchedInv, [SchedNext]_schedVars,
           NEW p \in Entries, state[p] \in {"zombie", "dead"}
    PROVE  state'[p] # "running"
<1>0. /\ SchedTypeOK /\ p # cur /\ cur \in Entries
      /\ state \in [Entries -> SchedStates]
  BY DEF SchedInv, SchedTypeOK, OneRuns
<1>1. CASE SchedTick
  BY <1>0, <1>1, TickTable, EndedNotPicked DEF SchedTick
<1>2. CASE Sleep
  <2> DEFINE tab == [state EXCEPT ![cur] = "waiting"]
  <2>1. tab[p] # "ready" /\ CallTable(tab) /\ Switch(tab)
    BY <1>0, <1>2, SleepTable DEF Sleep
  <2> HIDE DEF tab
  <2> QED
    BY <1>0, <2>1, EndedNotPicked
<1>3. CASE EndEntry
  <2>1. PICK woken \in Parents : Switch(Zombified(cur, woken))
    BY <1>3 DEF EndEntry
  <2>2. CallTable(Zombified(cur, woken))
    BY <1>0, EndTable
  <2>3. Zombified(cur, woken)[p] # "ready"
    BY <1>0 DEF Zombified, Parents
  <2> QED
    BY <1>0, <2>1, <2>2, <2>3, EndedNotPicked
<1>4. ASSUME NEW q \in Entries, Killed(q) PROVE state'[p] # "running"
  <2>1. PICK woken \in Parents : state' = Zombified(q, woken)
    BY <1>4 DEF Killed
  <2> QED
    BY <2>1 DEF Zombified
<1>5. ASSUME NEW q \in Entries, SignalWakes(q) \/ Reaped(q) \/ Created(q)
      PROVE  state'[p] # "running"
  BY <1>0, <1>5 DEF SignalWakes, Reaped, Created, Change
<1>6. ASSUME NEW q \in Entries, NEW l \in Prios, SetPriority(q, l)
      PROVE  state'[p] # "running"
  BY <1>6 DEF SetPriority
<1>7. CASE UNCHANGED schedVars
  BY <1>7 DEF schedVars
<1> QED
  BY <1>1, <1>2, <1>3, <1>4, <1>5, <1>6, <1>7 DEF SchedNext

\* The two calls that leave the caller off the CPU, and when they do.
LEMMA CallerOff ==
    ASSUME SchedInv
    PROVE  /\ Sleep => state'[cur] = "waiting" \/ NoneReady'
           /\ EndEntry => state'[cur] = "zombie" \/ NoneReady'
           /\ BootRuns => (Sleep => state'[cur] = "waiting")
           /\ BootRuns => (EndEntry => state'[cur] = "zombie")
<1>0. /\ SchedTypeOK /\ cur \in Entries /\ state \in [Entries -> SchedStates]
      /\ cur # 0 /\ BootRuns => state[0] = "ready"
  BY BootIsEntry DEF SchedInv, SchedTypeOK, OneRuns, BootRuns
<1>1. ASSUME Sleep
      PROVE  /\ state'[cur] = "waiting" \/ NoneReady'
             /\ BootRuns => state'[cur] = "waiting"
  <2> DEFINE tab == [state EXCEPT ![cur] = "waiting"]
  <2>1. /\ CallTable(tab) /\ Switch(tab) /\ tab[cur] = "waiting"
        /\ BootRuns => tab[0] = "ready"
    BY <1>0, <1>1, SleepTable, BootIsEntry DEF Sleep
  <2> HIDE DEF tab
  <2> QED
    BY <1>0, <2>1, OffStaysOff, BootIsEntry
<1>2. ASSUME EndEntry
      PROVE  /\ state'[cur] = "zombie" \/ NoneReady'
             /\ BootRuns => state'[cur] = "zombie"
  <2>1. PICK woken \in Parents : Switch(Zombified(cur, woken))
    BY <1>2 DEF EndEntry
  <2>2. CallTable(Zombified(cur, woken)) /\ Zombified(cur, woken)[cur] = "zombie"
    BY <1>0, EndTable, ZombieIs
  <2>3. BootRuns => Zombified(cur, woken)[0] = "ready"
    BY <1>0, <1>2, BootIsEntry DEF Zombified, EndEntry
  <2> QED
    BY <1>0, <2>1, <2>2, <2>3, OffStaysOff, BootIsEntry
<1> QED
  BY <1>1, <1>2

\* Whoever sleeps or has ended is off the CPU when the call returns, unless
\* there is nobody else to run.
THEOREM SleepersStayOff == SchedSpec => StaysOff
<1>1. SchedInv /\ [SchedNext]_schedVars => [OffStep]_schedVars
  BY CallerOff, EndedStayOff DEF OffStep
<1> QED
  BY <1>1, SchedSafe, PTL DEF SchedSpec, StaysOff

-----------------------------------------------------------------------------
\* A step that does not kill the boot context leaves it runnable.
LEMMA BootKept ==
    ASSUME SchedInv, BootRuns, [SchedNext]_schedVars, ~Killed(0)
    PROVE  BootRuns'
<1>0. /\ SchedTypeOK /\ cur \in Entries /\ state \in [Entries -> SchedStates] /\ 0 \in Entries
  BY BootIsEntry DEF SchedInv, SchedTypeOK
<1>1. ASSUME NEW tab, CallTable(tab), Switch(tab), tab[0] \in {"ready", "running"}
      PROVE  BootRuns'
  <2>1. PutBack(tab)[0] = "ready"
    BY <1>0, <1>1, NobodyRuns DEF PutBack, CallTable
  <2>2. /\ cur' \in Entries /\ state' = [PutBack(tab) EXCEPT ![cur'] = "running"]
        /\ PutBack(tab) \in [Entries -> SchedStates]
    BY <1>0, <1>1, SwitchPicks, NobodyRuns
  <2> QED
    BY <1>0, <2>1, <2>2 DEF BootRuns
<1>2. CASE SchedTick
  BY <1>1, <1>2, TickTable DEF SchedTick, BootRuns
<1>3. CASE Sleep
  <2> DEFINE tab == [state EXCEPT ![cur] = "waiting"]
  <2>1. tab[0] \in {"ready", "running"} /\ CallTable(tab) /\ Switch(tab)
    BY <1>0, <1>3, SleepTable DEF Sleep, BootRuns
  <2> HIDE DEF tab
  <2> QED
    BY <1>1, <2>1
<1>4. CASE EndEntry
  <2>1. PICK woken \in Parents : Switch(Zombified(cur, woken))
    BY <1>4 DEF EndEntry
  <2>2. CallTable(Zombified(cur, woken))
    BY <1>0, EndTable
  <2>3. Zombified(cur, woken)[0] \in {"ready", "running"}
    BY <1>0, <1>4 DEF Zombified, EndEntry, BootRuns
  <2> QED
    BY <1>1, <2>1, <2>2, <2>3
<1>5. ASSUME NEW q \in Entries, Killed(q) PROVE BootRuns'
  <2>1. PICK woken \in Parents : state' = Zombified(q, woken)
    BY <1>5 DEF Killed
  <2>2. q # 0
    BY <1>5
  <2> QED
    BY <1>0, <2>1, <2>2 DEF Zombified, BootRuns
<1>6. ASSUME NEW q \in Entries, SignalWakes(q) \/ Reaped(q) \/ Created(q)
      PROVE  BootRuns'
  BY <1>0, <1>6 DEF SignalWakes, Reaped, Created, Change, BootRuns
<1>7. ASSUME NEW q \in Entries, NEW l \in Prios, SetPriority(q, l) PROVE BootRuns'
  BY <1>7 DEF SetPriority, BootRuns
<1>8. CASE UNCHANGED schedVars
  BY <1>8 DEF schedVars, BootRuns
<1> QED
  BY <1>2, <1>3, <1>4, <1>5, <1>6, <1>7, <1>8 DEF SchedNext

SleepsStep == /\ Sleep => state'[cur] = "waiting"
              /\ EndEntry => state'[cur] = "zombie"

\* If nobody kills the boot context, whoever sleeps or has ended is always off
\* the CPU when the call returns: pick_next never has to return current.
THEOREM BootLetsSleep ==
    SchedSpec /\ [][~Killed(0)]_schedVars => [][SleepsStep]_schedVars
<1>1. SchedInit => BootRuns
  BY BootIsEntry DEF SchedInit, BootRuns
<1>2. /\ SchedInv /\ BootRuns /\ [SchedNext]_schedVars /\ [~Killed(0)]_schedVars
      => BootRuns'
  <2>1. UNCHANGED schedVars /\ BootRuns => BootRuns'
    BY DEF schedVars, BootRuns
  <2> QED
    BY <2>1, BootKept
<1>3. SchedInv /\ BootRuns => [SleepsStep]_schedVars
  BY CallerOff DEF SleepsStep
<1> QED
  BY <1>1, <1>2, <1>3, SchedSafe, PTL DEF SchedSpec
=============================================================================
