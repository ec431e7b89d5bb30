---------------------------- MODULE BobFS_proofs ----------------------------
(***************************************************************************)
(* Theorems about BobFS: on a disk of any size, with any number of files,  *)
(* whatever is created and deleted and wherever else the power goes or the *)
(* drive reports an error, the files of the disk never overlap - as long   *)
(* as neither of the two writes that end fs_create fails and the power     *)
(* does not go between them.  If the write of the directory in fs_delete   *)
(* does not fail either, BobFS implements FileStore.                       *)
(***************************************************************************)
EXTENDS BobFS, FiniteSetTheorems, TLAPS

\* What fs_create does not survive: see bobfs_v_crash.
CommitIsSafe == /\ "createSuper" \notin CrashAt
                /\ "createDir" \notin FailAt /\ "createSuper" \notin FailAt

\* For memory and disk to stay the same, fs_delete must not be cut short
\* either, and its ignored results must be successes.
WritesAreSafe ==
    /\ \A p \in {"createSuper", "deleteSuper"} : p \notin CrashAt
    /\ \A p \in {"createDir", "createSuper", "deleteDir", "deleteSuper"} :
          p \notin FailAt

\* The arguments of the fs_create that is writing its data: its slot is free,
\* its name is not in the directory, and what it has written lies on the disk.
OpOK ==
    pc = "data" =>
        /\ op.slot \in Slots /\ op.name \in Names /\ op.d \in Data
        /\ op.len \in 1 .. MaxLen
        /\ op.done <= op.len /\ super.next + op.done <= LastSector + 1
        /\ dir[op.slot] = NoEntry /\ ~Present(op.name)

\* A disk without a superblock is empty; a system that runs has one.
FormatOK ==
    /\ ~dSuper.magic => dSuper.next = 0 /\ dDir = EmptyDir
    /\ dSuper.magic => dSuper.next >= DataStart
    /\ pc # "off" => super.magic /\ super.next >= DataStart
    /\ pc \in {"formatSuper", "formatDir"} =>
          super = Formatted /\ dir = EmptyDir /\ dDir = EmptyDir
    /\ pc \notin {"off", "formatSuper"} => dSuper.magic

\* next_sector is past the files of its directory, in memory and on the
\* disk, and the two are the same outside fs_create; only between the two
\* writes of fs_create does the disk's directory run ahead.
BoundsOK ==
    /\ AllBefore(dir, super.next)
    /\ pc \in {"formatDir", "idle", "data", "deleteDir", "deleteSuper"} =>
          dSuper.next = super.next
    /\ pc # "createSuper" => AllBefore(dDir, dSuper.next)
    /\ pc = "createSuper" => dDir = dir

DisjointOK == Disjoint(dir) /\ Disjoint(dDir)

TInv == TypeOK /\ OpOK /\ FormatOK

IInv == TInv /\ BoundsOK /\ DisjointOK

LEMMA InitTInv == Init => TInv
<1> SUFFICES ASSUME Init
             PROVE  TInv
  OBVIOUS
<1>1. Blank \in Supers /\ EmptyDir \in [Slots -> Entries] /\ NoOp \in Ops
  <2>1. Blank \in Supers
    BY LastSectorAssumption DEF Blank, Supers
  <2>2. EmptyDir \in [Slots -> Entries]
    BY DEF EmptyDir, Entries
  <2>3. NoOp \in Ops
    BY MaxLenAssumption DEF NoOp, Ops
  <2> QED
    BY <2>1, <2>2, <2>3
<1>2. TypeOK
  BY <1>1 DEF Init, TypeOK, PCs
<1>3. OpOK /\ FormatOK
  BY DEF Init, OpOK, FormatOK, Blank
<1> QED
  BY <1>2, <1>3 DEF TInv

\* Every step keeps the types, the arguments and the format.
LEMMA StepTInv == TInv /\ [Next]_vars => TInv'
<1> SUFFICES ASSUME TInv, [Next]_vars
             PROVE  TInv'
  OBVIOUS
<1> USE DEF TInv
<1>1. CASE InitFormat
  <2>1. Formatted \in Supers /\ EmptyDir \in [Slots -> Entries]
    <3>1. Formatted \in Supers
      BY LastSectorAssumption DEF Formatted, Supers, DataStart
    <3>2. EmptyDir \in [Slots -> Entries]
      BY DEF EmptyDir, Entries
    <3> QED
      BY <3>1, <3>2
  <2>2. TypeOK'
    BY <1>1, <2>1 DEF InitFormat, TypeOK, PCs
  <2>3. OpOK' /\ FormatOK'
    BY <1>1 DEF InitFormat, OpOK, FormatOK, Formatted, DataStart
  <2> QED
    BY <2>2, <2>3
<1>2. CASE FormatSuper
  <2>1. TypeOK'
    BY <1>2 DEF FormatSuper, TypeOK, PCs
  <2>2. OpOK' /\ FormatOK'
    BY <1>2 DEF FormatSuper, OpOK, FormatOK, Formatted, DataStart
  <2> QED
    BY <2>1, <2>2
<1>3. CASE FormatDir
  <2>1. TypeOK'
    BY <1>3 DEF FormatDir, TypeOK, PCs
  <2>2. OpOK' /\ FormatOK'
    BY <1>3 DEF FormatDir, OpOK, FormatOK
  <2> QED
    BY <2>1, <2>2
<1>4. CASE InitLoad
  <2>1. TypeOK'
    BY <1>4 DEF InitLoad, TypeOK, PCs
  <2>2. OpOK' /\ FormatOK'
    BY <1>4 DEF InitLoad, OpOK, FormatOK
  <2> QED
    BY <2>1, <2>2
<1>5. ASSUME NEW n \in Names, NEW d \in Data, NEW len \in 1 .. MaxLen,
             Create(n, d, len)
      PROVE  TInv'
  <2>1. PICK s \in Slots :
          /\ dir[s] = NoEntry
          /\ op' = [slot |-> s, name |-> n, d |-> d, len |-> len, done |-> 0]
    BY <1>5 DEF Create, FirstFree
  <2>2. /\ pc' = "data" /\ pc = "idle"
        /\ UNCHANGED <<dSuper, dDir, dData, super, dir>>
        /\ ~Present(n)
    BY <1>5 DEF Create
  <2>3. op' \in Ops
    <3>1. len \in 0 .. MaxLen /\ 0 \in 0 .. MaxLen
      BY MaxLenAssumption
    <3> QED
      BY <2>1, <3>1 DEF Ops
  <2>4. TypeOK'
    BY <2>2, <2>3 DEF TypeOK, PCs
  <2>5. OpOK'
    <3>1. /\ op'.slot \in Slots /\ dir[op'.slot] = NoEntry /\ op'.name = n /\ op'.d \in Data
          /\ op'.len \in 1 .. MaxLen /\ op'.done = 0
      BY <2>1
    <3>2. super.next \in 0 .. LastSector + 1 /\ super' = super /\ dir' = dir
      BY <2>2 DEF TypeOK, Supers
    <3> QED
      BY <2>2, <3>1, <3>2, LastSectorAssumption DEF OpOK, Present
  <2>6. FormatOK'
    BY <2>2 DEF FormatOK
  <2> QED
    BY <2>4, <2>5, <2>6
<1>6. CASE CreateData
  <2>1. /\ pc = "data" /\ pc' = pc /\ op.done < op.len
        /\ super.next + op.done \in Sectors
        /\ op' = [op EXCEPT !.done = @ + 1]
        /\ dData' = [dData EXCEPT ![super.next + op.done] = <<op.d, op.done + 1>>]
        /\ UNCHANGED <<dSuper, dDir, super, dir>>
    BY <1>6 DEF CreateData
  <2>2. /\ op.slot \in Slots /\ op.name \in Names /\ op.d \in Data
        /\ op.len \in 1 .. MaxLen
        /\ dir[op.slot] = NoEntry /\ ~Present(op.name)
    BY <2>1 DEF OpOK
  <2>3. /\ op \in Ops /\ op.done \in Nat /\ super.next \in Nat
    <3>1. op \in Ops /\ op.done \in 0 .. MaxLen
      BY DEF TypeOK, Ops
    <3>2. super.next \in 0 .. LastSector + 1
      BY DEF TypeOK, Supers
    <3> QED
      BY <3>1, <3>2, LastSectorAssumption, MaxLenAssumption
  <2>4. op.done + 1 \in 1 .. MaxLen
    BY <2>1, <2>2, <2>3, MaxLenAssumption
  <2>5. /\ op'.slot = op.slot /\ op'.name = op.name /\ op'.len = op.len
        /\ op'.d = op.d /\ op'.done = op.done + 1
    BY <2>1, <2>3 DEF Ops
  <2>6. op' \in Ops
    <3>1. op.done + 1 \in 0 .. MaxLen
      BY <2>4
    <3> QED
      BY <2>1, <2>3, <3>1 DEF Ops
  <2>8. super.next + (op.done + 1) <= LastSector + 1
    BY <2>1, <2>3, LastSectorAssumption DEF Sectors, DataStart
  <2>9. OpOK'
    <3>1. op'.done <= op'.len /\ super.next + op'.done <= LastSector + 1
      BY <2>1, <2>2, <2>3, <2>5, <2>8
    <3> QED
      BY <2>1, <2>2, <2>5, <3>1 DEF OpOK, Present
  <2>10. TypeOK'
    <3>1. <<op.d, op.done + 1>> \in Data \X (1 .. MaxLen)
      BY <2>2, <2>4
    <3>2. dData' \in [Sectors -> {<<>>} \cup (Data \X (1 .. MaxLen))]
      BY <2>1, <3>1 DEF TypeOK
    <3> QED
      BY <2>1, <2>6, <3>2 DEF TypeOK
  <2>7. FormatOK'
    BY <2>1 DEF FormatOK
  <2> QED
    BY <2>7, <2>9, <2>10
<1>7. CASE CreateCommit
  <2>1. /\ pc = "data" /\ op.done = op.len /\ pc' = "createDir"
        /\ dir' = [dir EXCEPT ![op.slot] =
                     [name |-> op.name, start |-> super.next, len |-> op.len]]
        /\ super' = [super EXCEPT !.next = @ + op.len, !.num = @ + 1]
        /\ UNCHANGED <<dSuper, dDir, dData, op>>
    BY <1>7 DEF CreateCommit, AllWritten, SuperAfterCreate
  <2>2. /\ op.slot \in Slots /\ op.name \in Names /\ op.len \in 1 .. MaxLen
        /\ super.next + op.len <= LastSector + 1
        /\ super.magic /\ super.next >= DataStart
    BY <2>1 DEF OpOK, FormatOK
  <2>3. super \in Supers /\ super.next \in 0 .. LastSector + 1 /\ super.num \in Int
    BY DEF TypeOK, Supers
  <2>4. super.next \in Sectors /\ super.next + op.len \in DataStart .. LastSector + 1
    BY <2>2, <2>3, MaxLenAssumption, LastSectorAssumption DEF Sectors, DataStart
  <2>5. /\ super'.next = super.next + op.len /\ super'.magic
        /\ super' \in Supers
    <3>1. super'.next = super.next + op.len /\ super'.magic = super.magic
      BY <2>1, <2>3 DEF Supers
    <3>2. super.next + op.len \in 0 .. LastSector + 1 /\ super.num + 1 \in Int
      BY <2>3, <2>4, LastSectorAssumption DEF DataStart
    <3>3. super' \in Supers
      BY <2>1, <2>3, <3>2 DEF Supers
    <3> QED
      BY <2>2, <3>1, <3>3
  <2>6. dir' \in [Slots -> Entries]
    BY <2>1, <2>2, <2>4 DEF TypeOK, Entries
  <2>7. TypeOK'
    BY <2>1, <2>5, <2>6 DEF TypeOK, PCs
  <2>8. super'.next >= DataStart
    BY <2>4, <2>5, LastSectorAssumption DEF DataStart
  <2>9. OpOK' /\ FormatOK'
    BY <2>1, <2>5, <2>8 DEF OpOK, FormatOK
  <2> QED
    BY <2>7, <2>9
<1>8. CASE CreateDir
  <2>1. TypeOK'
    BY <1>8 DEF CreateDir, TypeOK, PCs
  <2>2. OpOK' /\ FormatOK'
    BY <1>8 DEF CreateDir, OpOK, FormatOK
  <2> QED
    BY <2>1, <2>2
<1>9. CASE CreateSuper
  <2>1. NoOp \in Ops
    BY MaxLenAssumption DEF NoOp, Ops
  <2>2. TypeOK'
    BY <1>9, <2>1 DEF CreateSuper, TypeOK, PCs
  <2>3. OpOK' /\ FormatOK'
    BY <1>9 DEF CreateSuper, OpOK, FormatOK
  <2> QED
    BY <2>2, <2>3
<1>10. ASSUME NEW n \in Names, Delete(n)
       PROVE  TInv'
  <2>1. PICK s \in Slots : dir' = [dir EXCEPT ![s] = NoEntry]
    BY <1>10 DEF Delete
  <2>2. /\ super' = [super EXCEPT !.num = @ - 1]
        /\ pc = "idle" /\ pc' = "deleteDir"
        /\ UNCHANGED <<dSuper, dDir, dData, op>>
    BY <1>10 DEF Delete, SuperAfterDelete
  <2>3. super' \in Supers /\ super'.next = super.next /\ super'.magic = super.magic
    BY <2>2 DEF TypeOK, Supers
  <2>4. TypeOK'
    BY <2>1, <2>2, <2>3 DEF TypeOK, PCs, Entries
  <2>5. OpOK' /\ FormatOK'
    BY <2>2, <2>3 DEF OpOK, FormatOK
  <2> QED
    BY <2>4, <2>5
<1>11. CASE DeleteDir
  <2>1. TypeOK'
    BY <1>11 DEF DeleteDir, TypeOK, PCs
  <2>2. OpOK' /\ FormatOK'
    BY <1>11 DEF DeleteDir, OpOK, FormatOK
  <2> QED
    BY <2>1, <2>2
<1>12. CASE DeleteSuper
  <2>1. TypeOK'
    BY <1>12 DEF DeleteSuper, TypeOK, PCs
  <2>2. OpOK' /\ FormatOK'
    BY <1>12 DEF DeleteSuper, OpOK, FormatOK
  <2> QED
    BY <2>1, <2>2
<1>13. CASE WriteFails
  <2>1. /\ pc \in PCs \ {"off", "idle"} /\ op' = NoOp
        /\ pc' \in {"off", "idle", "deleteSuper"}
        /\ pc' # "off" => pc \notin {"formatSuper", "formatDir"}
        /\ UNCHANGED <<dSuper, dDir, dData, super, dir>>
    BY <1>13, FaultsAssumption DEF WriteFails, Beyond, PCs
  <2>2. NoOp \in Ops
    BY MaxLenAssumption DEF NoOp, Ops
  <2>3. TypeOK'
    BY <2>1, <2>2 DEF TypeOK, PCs
  <2>4. OpOK' /\ FormatOK'
    BY <2>1 DEF OpOK, FormatOK, PCs
  <2> QED
    BY <2>3, <2>4
<1>14. CASE Crash
  <2>1. NoOp \in Ops
    BY MaxLenAssumption DEF NoOp, Ops
  <2>2. Blank \in Supers
    BY LastSectorAssumption DEF Blank, Supers
  <2>3. EmptyDir \in [Slots -> Entries]
    BY DEF EmptyDir, Entries
  <2>4. TypeOK'
    BY <1>14, <2>1, <2>2, <2>3 DEF Crash, TypeOK, PCs
  <2>5. OpOK' /\ FormatOK'
    BY <1>14 DEF Crash, OpOK, FormatOK
  <2> QED
    BY <2>4, <2>5
<1>15. CASE UNCHANGED vars
  BY <1>15 DEF vars, TypeOK, OpOK, FormatOK, Present
<1> QED
  BY <1>1, <1>2, <1>3, <1>4, <1>5, <1>6, <1>7, <1>8, <1>9, <1>10, <1>11, <1>12,
     <1>13, <1>14, <1>15 DEF Next

-----------------------------------------------------------------------------
LEMMA NoEntryIsEmpty == NoEntry.start = 0 /\ NoEntry.len = 0
BY DEF NoEntry

LEMMA NamedIsUsed ==
    ASSUME NEW e, e.name \in Names
    PROVE  e # NoEntry
<1>1. NoEntry.name = ""
  BY DEF NoEntry
<1> QED
  BY <1>1, NamesAssumption

\* An entry of a directory lies on the disk.
LEMMA EntryTypes ==
    ASSUME NEW d \in [Slots -> Entries], NEW s \in Slots
    PROVE  /\ d[s].start \in Nat /\ d[s].len \in Nat
           /\ d[s] # NoEntry => d[s].name \in Names /\ d[s].len > 0
<1>1. CASE d[s] = NoEntry
  BY <1>1, NoEntryIsEmpty
<1>2. CASE d[s] # NoEntry
  <2>1. d[s] \in [name : Names, start : Sectors, len : 1 .. MaxLen]
    BY <1>2 DEF Entries
  <2> QED
    BY <2>1, MaxLenAssumption, LastSectorAssumption DEF Sectors, DataStart
<1> QED
  BY <1>1, <1>2

\* An empty directory has no overlapping files, and all end before sector 0.
LEMMA EmptyDirIsGood ==
    ASSUME NEW next \in Nat
    PROVE  AllBefore(EmptyDir, next) /\ Disjoint(EmptyDir)
<1>1. \A s \in Slots : EmptyDir[s] = NoEntry
  BY DEF EmptyDir
<1> QED
  BY <1>1, NoEntryIsEmpty DEF AllBefore, Disjoint

\* A new file that starts at next_sector overlaps no other.
LEMMA AddedFile ==
    ASSUME NEW d \in [Slots -> Entries], NEW x \in Slots, NEW n \in Names,
           NEW next \in Nat, NEW len \in 1 .. MaxLen, NEW d2,
           AllBefore(d, next), Disjoint(d),
           \A s \in Slots : d[s].name # n,
           d2[x].name = n, d2[x].start = next, d2[x].len = len,
           \A s \in Slots : s # x => d2[s] = d[s]
    PROVE  AllBefore(d2, next + len) /\ Disjoint(d2)
<1>1. /\ d2[x].name = n /\ d2[x].start = next /\ d2[x].len = len
      /\ \A s \in Slots : s # x => d2[s] = d[s]
  OBVIOUS
<1>2. len \in Nat
  BY MaxLenAssumption
<1>3. AllBefore(d2, next + len)
  BY <1>1, <1>2, EntryTypes DEF AllBefore
<1>4. ASSUME NEW s \in Slots, s # x
      PROVE  /\ d2[s].name # n
             /\ SectorsOf(d2[s]) \cap SectorsOf(d2[x]) = {}
  <2>1. d[s].start + d[s].len <= next /\ d[s].start \in Nat /\ d[s].len \in Nat
    BY EntryTypes DEF AllBefore
  <2> QED
    BY <1>1, <1>2, <1>4, <2>1 DEF SectorsOf
<1>5. Disjoint(d2)
  BY <1>1, <1>4 DEF Disjoint
<1> QED
  BY <1>3, <1>5

\* Taking a file away changes nothing for the others.
LEMMA RemovedFile ==
    ASSUME NEW d \in [Slots -> Entries], NEW x \in Slots, NEW next \in Nat, NEW d2,
           AllBefore(d, next), Disjoint(d), d2 = [d EXCEPT ![x] = NoEntry]
    PROVE  AllBefore(d2, next) /\ Disjoint(d2)
<1>1. d2[x] = NoEntry /\ \A s \in Slots : s # x => d2[s] = d[s]
  OBVIOUS
<1>2. AllBefore(d2, next)
  BY <1>1, NoEntryIsEmpty DEF AllBefore
<1>3. Disjoint(d2)
  BY <1>1 DEF Disjoint
<1> QED
  BY <1>2, <1>3

LEMMA InitIInv == Init => IInv
<1> SUFFICES ASSUME Init
             PROVE  IInv
  OBVIOUS
<1>1. dir = EmptyDir /\ dDir = EmptyDir /\ super.next = 0 /\ dSuper.next = 0 /\ pc = "off"
  BY DEF Init, Blank
<1> QED
  BY <1>1, InitTInv, EmptyDirIsGood DEF IInv, BoundsOK, DisjointOK

\* Every step keeps the files before next_sector, and apart.
LEMMA StepBounds ==
    ASSUME CommitIsSafe, IInv, TInv', [Next]_vars
    PROVE  BoundsOK' /\ DisjointOK'
<1>0. /\ super.next \in Nat /\ dSuper.next \in Nat
      /\ dir \in [Slots -> Entries] /\ dDir \in [Slots -> Entries]
      /\ super \in Supers
  BY LastSectorAssumption DEF IInv, TInv, TypeOK, Supers
<1> USE DEF IInv, BoundsOK, DisjointOK
<1>1. CASE InitFormat
  <2>1. super'.next = DataStart /\ dir' = EmptyDir /\ pc' = "formatSuper" /\ pc = "off"
    BY <1>1 DEF InitFormat, Formatted
  <2> QED
    BY <1>1, <2>1, EmptyDirIsGood DEF InitFormat, DataStart
<1>2. CASE FormatSuper
  <2>1. dDir = EmptyDir
    BY <1>2 DEF FormatSuper, TInv, FormatOK
  <2> QED
    BY <1>0, <1>2, <2>1, EmptyDirIsGood DEF FormatSuper
<1>3. CASE FormatDir
  BY <1>3 DEF FormatDir
<1>4. CASE InitLoad
  BY <1>4 DEF InitLoad
<1>5. ASSUME NEW n \in Names, NEW d \in Data, NEW len \in 1 .. MaxLen,
             Create(n, d, len)
      PROVE  BoundsOK' /\ DisjointOK'
  BY <1>5 DEF Create
<1>6. CASE CreateData
  BY <1>6 DEF CreateData
<1>7. CASE CreateCommit
  <2>1. /\ op.slot \in Slots /\ op.name \in Names /\ op.len \in 1 .. MaxLen
        /\ \A s \in Slots : dir[s].name # op.name
    BY <1>7 DEF CreateCommit, TInv, OpOK, Present
  <2>2. /\ dir' = [dir EXCEPT ![op.slot] =
                     [name |-> op.name, start |-> super.next, len |-> op.len]]
        /\ super'.next = super.next + op.len
        /\ pc = "data" /\ pc' = "createDir"
        /\ UNCHANGED <<dSuper, dDir>>
    BY <1>0, <1>7 DEF CreateCommit, SuperAfterCreate, Supers
  <2>3. AllBefore(dir', super'.next) /\ Disjoint(dir')
    <3>1. AllBefore(dir, super.next) /\ Disjoint(dir)
      OBVIOUS
    <3> HIDE DEF IInv, BoundsOK, DisjointOK
    <3>2. /\ dir'[op.slot].name = op.name /\ dir'[op.slot].start = super.next
          /\ dir'[op.slot].len = op.len
          /\ \A s \in Slots : s # op.slot => dir'[s] = dir[s]
      BY <1>0, <2>1, <2>2
    <3>3. AllBefore(dir', super.next + op.len) /\ Disjoint(dir')
      BY <1>0, <2>1, <3>1, <3>2, AddedFile
    <3> QED
      BY <2>2, <3>3
  <2> QED
    BY <2>2, <2>3
<1>8. CASE CreateDir
  BY <1>8 DEF CreateDir
<1>9. CASE CreateSuper
  BY <1>9 DEF CreateSuper
<1>10. ASSUME NEW n \in Names, Delete(n)
       PROVE  BoundsOK' /\ DisjointOK'
  <2>1. PICK s \in Slots : dir' = [dir EXCEPT ![s] = NoEntry]
    BY <1>10 DEF Delete
  <2>2. /\ super'.next = super.next /\ pc = "idle" /\ pc' = "deleteDir"
        /\ UNCHANGED <<dSuper, dDir>>
    BY <1>0, <1>10 DEF Delete, SuperAfterDelete, Supers
  <2>3. AllBefore(dir', super'.next) /\ Disjoint(dir')
    BY <1>0, <2>1, <2>2, RemovedFile
  <2> QED
    BY <2>2, <2>3
<1>11. CASE DeleteDir
  BY <1>11 DEF DeleteDir
<1>12. CASE DeleteSuper
  BY <1>12 DEF DeleteSuper
<1>13. CASE WriteFails
  <2>1. /\ pc \in {"formatSuper", "formatDir", "data", "deleteDir", "deleteSuper"}
        /\ pc' = "off" \/ (pc \in {"data", "deleteDir", "deleteSuper"}
                            /\ pc' \in {"idle", "deleteSuper"})
        /\ UNCHANGED <<dSuper, dDir, super, dir>>
    BY <1>13, FaultsAssumption DEF WriteFails, Beyond, PCs, CommitIsSafe
  <2> QED
    BY <2>1
<1>14. CASE Crash
  <2>1. /\ pc # "createSuper" /\ pc' = "off"
        /\ super'.next = 0 /\ dir' = EmptyDir /\ UNCHANGED <<dSuper, dDir>>
    BY <1>14 DEF Crash, CommitIsSafe, Blank
  <2> QED
    BY <2>1, EmptyDirIsGood
<1>15. CASE UNCHANGED vars
  BY <1>15 DEF vars
<1> QED
  BY <1>1, <1>2, <1>3, <1>4, <1>5, <1>6, <1>7, <1>8, <1>9, <1>10, <1>11, <1>12,
     <1>13, <1>14, <1>15 DEF Next

-----------------------------------------------------------------------------
\* Memory and disk differ only between the change in memory and the second
\* write, and each superblock counts the files of its directory.
SameOK ==
    /\ pc \in {"idle", "data"} => dir = dDir
    /\ pc \in {"formatDir", "idle", "data"} => super = dSuper
    /\ pc \in {"createSuper", "deleteSuper"} => dir = dDir
    /\ pc # "off" => super.num = Cardinality(Used(dir))
    /\ dSuper.magic /\ pc \notin {"createSuper", "deleteSuper"} =>
          dSuper.num = Cardinality(Used(dDir))

LEMMA UsedFinite ==
    ASSUME NEW d
    PROVE  IsFiniteSet(Used(d)) /\ Cardinality(Used(d)) \in Nat
<1>1. IsFiniteSet(Slots)
  BY MaxFilesAssumption, FS_Interval DEF Slots
<1>2. IsFiniteSet(Used(d))
  BY <1>1, FS_Subset DEF Used
<1> QED
  BY <1>2, FS_CardinalityType

LEMMA EmptyCount == Cardinality(Used(EmptyDir)) = 0
<1>1. Used(EmptyDir) = {}
  BY DEF Used, EmptyDir
<1> QED
  BY <1>1, FS_EmptySet

LEMMA InitSame == Init => SameOK
BY DEF Init, SameOK, Blank

LEMMA StepSame ==
    ASSUME WritesAreSafe, TInv, SameOK, [Next]_vars
    PROVE  SameOK'
<1> USE DEF SameOK
<1>1. CASE InitFormat
  <2>1. /\ super'.num = 0 /\ dir' = EmptyDir /\ pc' = "formatSuper" /\ pc = "off"
        /\ UNCHANGED <<dSuper, dDir>>
    BY <1>1 DEF InitFormat, Formatted
  <2> QED
    BY <2>1, EmptyCount
<1>2. CASE FormatSuper
  <2>1. dDir = EmptyDir /\ dir = EmptyDir
    BY <1>2 DEF FormatSuper, TInv, FormatOK
  <2> QED
    BY <1>2, <2>1 DEF FormatSuper
<1>3. CASE FormatDir
  BY <1>3 DEF FormatDir
<1>4. CASE InitLoad
  BY <1>4 DEF InitLoad
<1>5. ASSUME NEW n \in Names, NEW d \in Data, NEW len \in 1 .. MaxLen,
             Create(n, d, len)
      PROVE  SameOK'
  BY <1>5 DEF Create
<1>6. CASE CreateData
  BY <1>6 DEF CreateData
<1>7. CASE CreateCommit
  <2>1. /\ op.slot \in Slots /\ dir[op.slot] = NoEntry /\ op.name \in Names
    BY <1>7 DEF CreateCommit, TInv, OpOK
  <2>2. super \in Supers /\ dir \in [Slots -> Entries]
    BY DEF TInv, TypeOK
  <2>3. /\ dir' = [dir EXCEPT ![op.slot] =
                     [name |-> op.name, start |-> super.next, len |-> op.len]]
        /\ super'.num = super.num + 1
        /\ pc = "data" /\ pc' = "createDir"
        /\ UNCHANGED <<dSuper, dDir>>
    BY <1>7, <2>2 DEF CreateCommit, SuperAfterCreate, Supers
  <2>4. /\ dir'[op.slot].name = op.name
        /\ \A s \in Slots : s # op.slot => dir'[s] = dir[s]
    BY <2>1, <2>2, <2>3
  <2>5. dir'[op.slot] # NoEntry
    <3>1. dir'[op.slot].name \in Names
      BY <2>1, <2>4
    <3> QED
      BY <3>1, NamedIsUsed
  <2>6. Used(dir') = Used(dir) \cup {op.slot} /\ op.slot \notin Used(dir)
    BY <2>1, <2>4, <2>5 DEF Used
  <2>7. Cardinality(Used(dir')) = Cardinality(Used(dir)) + 1
    <3>1. IsFiniteSet(Used(dir))
      BY UsedFinite
    <3>2. Cardinality(Used(dir) \cup {op.slot}) = Cardinality(Used(dir)) + 1
      BY <2>6, <3>1, FS_AddElement
    <3> QED
      BY <2>6, <3>2
  <2> QED
    BY <2>3, <2>7
<1>8. CASE CreateDir
  BY <1>8 DEF CreateDir
<1>9. CASE CreateSuper
  BY <1>9 DEF CreateSuper
<1>10. ASSUME NEW n \in Names, Delete(n)
       PROVE  SameOK'
  <2>1. PICK s \in Slots : dir[s].name = n /\ dir' = [dir EXCEPT ![s] = NoEntry]
    BY <1>10 DEF Delete
  <2>2. super \in Supers /\ dir \in [Slots -> Entries]
    BY DEF TInv, TypeOK
  <2>3. /\ super'.num = super.num - 1 /\ pc = "idle" /\ pc' = "deleteDir"
        /\ UNCHANGED <<dSuper, dDir>>
    BY <1>10, <2>2 DEF Delete, SuperAfterDelete, Supers
  <2>4. dir[s] # NoEntry
    BY <2>1, NamedIsUsed
  <2>5. dir'[s] = NoEntry /\ \A t \in Slots : t # s => dir'[t] = dir[t]
    BY <2>1, <2>2
  <2>6. Used(dir') = Used(dir) \ {s} /\ s \in Used(dir)
    BY <2>4, <2>5 DEF Used
  <2>7. Cardinality(Used(dir')) = Cardinality(Used(dir)) - 1
    BY <2>6, UsedFinite, FS_RemoveElement
  <2> QED
    BY <2>3, <2>7
<1>11. CASE DeleteDir
  BY <1>11 DEF DeleteDir
<1>12. CASE DeleteSuper
  BY <1>12 DEF DeleteSuper
<1>13. CASE WriteFails
  <2>1. pc \in {"formatSuper", "formatDir", "data"}
    <3>1. pc \in FailAt \/ pc = "data"
      BY <1>13 DEF WriteFails, Beyond
    <3>2. pc \notin {"createDir", "createSuper", "deleteDir", "deleteSuper"}
      BY <3>1 DEF WritesAreSafe
    <3> QED
      BY <3>1, <3>2, FaultsAssumption DEF PCs
  <2>2. /\ pc' = "off" \/ (pc = "data" /\ pc' = "idle")
        /\ UNCHANGED <<dSuper, dDir, super, dir>>
    BY <1>13, <2>1 DEF WriteFails
  <2> QED
    BY <2>1, <2>2
<1>14. CASE Crash
  <2>1. /\ pc \notin {"createSuper", "deleteSuper"} /\ pc' = "off"
        /\ UNCHANGED <<dSuper, dDir>>
    BY <1>14 DEF Crash, WritesAreSafe
  <2> QED
    BY <2>1
<1>15. CASE UNCHANGED vars
  BY <1>15 DEF vars
<1> QED
  BY <1>1, <1>2, <1>3, <1>4, <1>5, <1>6, <1>7, <1>8, <1>9, <1>10, <1>11, <1>12,
     <1>13, <1>14, <1>15 DEF Next

-----------------------------------------------------------------------------
\* The types of everything on the disk and in memory, whatever fails.
THEOREM TypeCorrect == Spec => []TypeOK
<1>1. TInv => TypeOK
  BY DEF TInv
<1> QED
  BY <1>1, InitTInv, StepTInv, PTL DEF Spec

\* The strengthened invariant.
THEOREM IInvInvariant == CommitIsSafe => (Spec => []IInv)
<1> SUFFICES ASSUME CommitIsSafe
             PROVE  Spec => []IInv
  OBVIOUS
<1>1. IInv /\ [Next]_vars => IInv'
  BY StepTInv, StepBounds DEF IInv
<1> QED
  BY <1>1, InitIInv, PTL DEF Spec

\* fs_create may always write at next_sector: no file reaches beyond it.
THEOREM NextIsFree == CommitIsSafe => (Spec => []NextSectorFree)
<1> SUFFICES ASSUME CommitIsSafe
             PROVE  Spec => []NextSectorFree
  OBVIOUS
<1>1. IInv => NextSectorFree
  BY DEF IInv, BoundsOK, NextSectorFree
<1> QED
  BY <1>1, IInvInvariant, PTL

\* No name twice, and no sector in two files, through any loss of power that
\* does not separate the last two writes of fs_create.
THEOREM FilesApart == CommitIsSafe => (Spec => []FilesDisjoint)
<1> SUFFICES ASSUME CommitIsSafe
             PROVE  Spec => []FilesDisjoint
  OBVIOUS
<1>1. IInv => FilesDisjoint
  BY DEF IInv, DisjointOK, FilesDisjoint
<1> QED
  BY <1>1, IInvInvariant, PTL

\* Between two calls a restart would find what the running system holds, and
\* fs_num_files is the number of files.
THEOREM MemoryAgrees == WritesAreSafe => (Spec => []MemoryIsDisk)
<1> SUFFICES ASSUME WritesAreSafe
             PROVE  Spec => []MemoryIsDisk
  OBVIOUS
<1> DEFINE Both == TInv /\ SameOK
<1>1. Init => Both
  BY InitTInv, InitSame
<1>2. Both /\ [Next]_vars => Both'
  BY StepTInv, StepSame
<1>3. Both => MemoryIsDisk
  BY DEF SameOK, MemoryIsDisk
<1> HIDE DEF Both
<1> QED
  BY <1>1, <1>2, <1>3, PTL DEF Spec

-----------------------------------------------------------------------------
\* What fs_delete must not survive in memory only: if its write of the
\* directory fails, the next fs_create may take the slot of a file that is
\* still on the disk.
DeleteReaches == CommitIsSafe /\ "deleteDir" \notin FailAt

\* The sectors from x on hold the first k of a file with data d.
Written(x, d, k) == \A i \in 1 .. k : dData[x + i - 1] = <<d, i>>

\* The disk's directory is the one in memory, but for one slot before it is
\* written: the entry of a file whose data is on the disk already, or of the
\* file that fs_delete takes away.
DirOK ==
    /\ pc \in {"idle", "data", "createSuper", "deleteSuper"} => dDir = dir
    /\ pc = "data" => Written(super.next, op.d, op.done)
    /\ pc = "createDir" =>
        /\ op.slot \in Slots /\ op.name \in Names /\ op.d \in Data /\ op.len \in 1 .. MaxLen
        /\ dir[op.slot].name = op.name /\ dir[op.slot].len = op.len
        /\ Written(dir[op.slot].start, op.d, op.len)
        /\ \A s \in Slots : s # op.slot => dir[s] = dDir[s]
        /\ dDir[op.slot] = NoEntry
    /\ pc = "deleteDir" =>
        \E x \in Slots : dDir[x] # NoEntry /\ dir = [dDir EXCEPT ![x] = NoEntry]

LEMMA NumbersAre ==
    ASSUME super \in Supers, op \in Ops
    PROVE  super.next \in Nat /\ super.next <= LastSector + 1 /\ op.done \in Nat
<1>1. super.next \in 0 .. LastSector + 1
  BY DEF Supers
<1>2. op.done \in 0 .. MaxLen
  BY DEF Ops
<1> QED
  BY <1>1, <1>2, LastSectorAssumption, MaxLenAssumption

LEMMA InitDirOK == Init => DirOK
BY DEF Init, DirOK

\* Every step keeps that.
LEMMA StepDirOK ==
    ASSUME DeleteReaches, IInv, DirOK, [Next]_vars
    PROVE  DirOK'
<1>0. TypeOK /\ OpOK /\ FormatOK
  BY DEF IInv, TInv
<1> USE DEF DirOK
<1>1. CASE InitFormat \/ FormatSuper \/ InitLoad
  BY <1>1 DEF InitFormat, FormatSuper, InitLoad
<1>2. CASE FormatDir
  BY <1>2 DEF FormatDir
<1>3. ASSUME NEW n \in Names, NEW d \in Data, NEW len \in 1 .. MaxLen,
             Create(n, d, len)
      PROVE  DirOK'
  <2>1. pc = "idle" /\ pc' = "data" /\ UNCHANGED <<dSuper, dDir, dData, super, dir>>
    BY <1>3 DEF Create
  <2>2. op'.done = 0
    BY <1>3 DEF Create
  <2>3. Written(super.next, op.d, op.done)'
    BY <2>2 DEF Written
  <2> QED
    BY <2>1, <2>3
<1>4. CASE CreateData
  <2>1. /\ pc = "data" /\ pc' = pc /\ op.done < op.len
        /\ super.next + op.done \in Sectors
        /\ op' = [op EXCEPT !.done = @ + 1]
        /\ dData' = [dData EXCEPT ![super.next + op.done] = <<op.d, op.done + 1>>]
        /\ UNCHANGED <<dSuper, dDir, super, dir>>
    BY <1>4 DEF CreateData
  <2>2. op \in Ops /\ op.done \in Nat /\ super.next \in Nat
    BY <1>0, NumbersAre DEF TypeOK
  <2>3. op'.d = op.d /\ op'.done = op.done + 1
    BY <2>1, <2>2 DEF Ops
  <2>4. ASSUME NEW i \in 1 .. op.done + 1
        PROVE  dData'[super.next + i - 1] = <<op.d, i>>
    <3>1. CASE i = op.done + 1
      <4>1. super.next + i - 1 = super.next + op.done
        BY <2>2, <3>1
      <4> QED
        BY <1>0, <2>1, <3>1, <4>1 DEF TypeOK
    <3>2. CASE i # op.done + 1
      <4>1. i \in 1 .. op.done /\ super.next + i - 1 # super.next + op.done
        BY <2>2, <3>2
      <4>2. dData[super.next + i - 1] = <<op.d, i>>
        BY <2>1, <4>1 DEF Written
      <4>3. dData' = [x \in Sectors |-> IF x = super.next + op.done
                                        THEN <<op.d, op.done + 1>> ELSE dData[x]]
        BY <1>0, <2>1 DEF TypeOK
      <4>4. super.next + i - 1 \in Sectors
        <5>1. super.next >= DataStart
          BY <1>0, <2>1 DEF FormatOK
        <5> QED
          BY <2>1, <2>2, <4>1, <5>1, LastSectorAssumption DEF Sectors, DataStart
      <4> QED
        BY <4>1, <4>2, <4>3, <4>4
    <3> QED
      BY <3>1, <3>2
  <2>5. Written(super.next, op.d, op.done)'
    BY <2>1, <2>3, <2>4 DEF Written
  <2> QED
    BY <2>1, <2>5
<1>5. CASE CreateCommit
  <2>1. /\ pc = "data" /\ op.done = op.len /\ pc' = "createDir"
        /\ dir' = [dir EXCEPT ![op.slot] =
                     [name |-> op.name, start |-> super.next, len |-> op.len]]
        /\ UNCHANGED <<dSuper, dDir, dData, op>>
    BY <1>5 DEF CreateCommit, AllWritten
  <2>2. /\ op.slot \in Slots /\ op.name \in Names /\ op.d \in Data
        /\ op.len \in 1 .. MaxLen /\ dir[op.slot] = NoEntry
    BY <1>0, <2>1 DEF OpOK
  <2>3. dir \in [Slots -> Entries]
    BY <1>0 DEF TypeOK
  <2>4. /\ dir'[op.slot].name = op.name /\ dir'[op.slot].len = op.len
        /\ dir'[op.slot].start = super.next
        /\ \A s \in Slots : s # op.slot => dir'[s] = dir[s]
    BY <2>1, <2>2, <2>3
  <2>5. dDir = dir /\ Written(super.next, op.d, op.len)
    BY <2>1
  <2>6. Written(dir[op.slot].start, op.d, op.len)'
    BY <2>1, <2>4, <2>5 DEF Written
  <2> QED
    BY <2>1, <2>2, <2>4, <2>5, <2>6
<1>6. CASE CreateDir \/ CreateSuper
  BY <1>6 DEF CreateDir, CreateSuper
<1>7. ASSUME NEW n \in Names, Delete(n)
      PROVE  DirOK'
  <2>1. PICK x \in Slots : dir[x].name = n /\ dir' = [dir EXCEPT ![x] = NoEntry]
    BY <1>7 DEF Delete
  <2>2. pc = "idle" /\ pc' = "deleteDir" /\ dDir' = dDir
    BY <1>7 DEF Delete
  <2>3. dDir[x] # NoEntry
    BY <2>1, <2>2, NamedIsUsed
  <2> QED
    BY <2>1, <2>2, <2>3
<1>8. CASE DeleteDir \/ DeleteSuper
  BY <1>8 DEF DeleteDir, DeleteSuper
<1>9. CASE WriteFails
  <2>1. /\ pc \in {"formatSuper", "formatDir", "data", "deleteSuper"}
        /\ pc' = "off" \/ (pc \in {"data", "deleteSuper"} /\ pc' = "idle")
        /\ UNCHANGED <<dDir, dir>>
    BY <1>9, FaultsAssumption DEF WriteFails, Beyond, PCs, CommitIsSafe, DeleteReaches
  <2> QED
    BY <2>1
<1>10. CASE Crash
  BY <1>10 DEF Crash
<1>11. CASE UNCHANGED vars
  BY <1>11 DEF vars, Written
<1> QED
  BY <1>1, <1>2, <1>3, <1>4, <1>5, <1>6, <1>7, <1>8, <1>9, <1>10, <1>11 DEF Next

-----------------------------------------------------------------------------
\* What a directory and the sectors of a disk hold under a name.
FileIn(d, data, n) ==
    IF \E s \in Slots : d[s].name = n
    THEN LET e == CHOOSE e \in {d[s] : s \in Slots} : e.name = n
         IN [i \in 1 .. e.len |-> data[e.start + i - 1]]
    ELSE NoFile

LEMMA OnDiskIs ==
    ASSUME NEW n
    PROVE  /\ FileOnDisk(n) = FileIn(dDir, dData, n)
           /\ FileOnDisk(n)' = FileIn(dDir', dData', n)
BY DEF FileOnDisk, FileIn

Extent(e, data) == [i \in 1 .. e.len |-> data[e.start + i - 1]]

\* It is the sectors of the one entry of the name.
LEMMA FileIs ==
    ASSUME NEW d \in [Slots -> Entries], NEW data, NEW s \in Slots, NEW n \in Names,
           d[s].name = n, Disjoint(d)
    PROVE  FileIn(d, data, n) = Extent(d[s], data)
<1> DEFINE E == {d[t] : t \in Slots}
           e == CHOOSE x \in E : x.name = n
<1>1. e \in E /\ e.name = n
  <2>1. d[s] \in E
    OBVIOUS
  <2> QED
    BY <2>1
<1>2. FileIn(d, data, n) = Extent(e, data)
  BY DEF FileIn, Extent
<1> HIDE DEF e
<1>3. PICK t \in Slots : e = d[t]
  BY <1>1
<1>4. d[t] # NoEntry /\ d[s] # NoEntry
  BY <1>1, <1>3, NamedIsUsed
<1>5. t = s
  BY <1>1, <1>3, <1>4 DEF Disjoint
<1> QED
  BY <1>2, <1>3, <1>5

\* A name without an entry has no file.
LEMMA FileIsNot ==
    ASSUME NEW d, NEW data, NEW n, \A s \in Slots : d[s].name # n
    PROVE  FileIn(d, data, n) = NoFile
BY DEF FileIn

\* A step that changes neither the entry of a file nor its sectors leaves the
\* file as it was.
LEMMA FileKept ==
    ASSUME NEW n \in Names, IInv, IInv',
           \A s \in Slots : dDir[s].name = n <=> dDir'[s].name = n,
           \A s \in Slots : dDir[s].name = n =>
              /\ dDir'[s] = dDir[s]
              /\ \A x \in SectorsOf(dDir[s]) : dData'[x] = dData[x]
    PROVE  FileOnDisk(n)' = FileOnDisk(n)
<1>1. /\ dDir \in [Slots -> Entries] /\ Disjoint(dDir)
      /\ dDir' \in [Slots -> Entries] /\ Disjoint(dDir')
  BY DEF IInv, TInv, TypeOK, DisjointOK, Disjoint
<1>2. CASE \E s \in Slots : dDir[s].name = n
  <2>1. PICK s \in Slots : dDir[s].name = n
    BY <1>2
  <2>2. dDir'[s] = dDir[s]
    BY <2>1
  <2>3. FileIn(dDir, dData, n) = Extent(dDir[s], dData)
    BY <1>1, <2>1, FileIs
  <2>4. FileIn(dDir', dData', n) = Extent(dDir'[s], dData')
    BY <1>1, <2>1, <2>2, FileIs
  <2>5. ASSUME NEW i \in 1 .. dDir[s].len
        PROVE  dData'[dDir[s].start + i - 1] = dData[dDir[s].start + i - 1]
    <3>1. dDir[s].start \in Nat /\ dDir[s].len \in Nat
      BY <1>1, EntryTypes
    <3>2. dDir[s].start + i - 1 \in SectorsOf(dDir[s])
      BY <3>1 DEF SectorsOf
    <3> QED
      BY <2>1, <3>2
  <2>6. Extent(dDir[s], dData') = Extent(dDir[s], dData)
    BY <2>5 DEF Extent
  <2> QED
    BY <2>2, <2>3, <2>4, <2>6, OnDiskIs
<1>3. CASE \A s \in Slots : dDir[s].name # n
  <2>1. \A s \in Slots : dDir'[s].name # n
    BY <1>3
  <2>2. FileIn(dDir, dData, n) = NoFile /\ FileIn(dDir', dData', n) = NoFile
    BY <1>3, <2>1, FileIsNot
  <2> QED
    BY <2>2, OnDiskIs
<1> QED
  BY <1>2, <1>3

-----------------------------------------------------------------------------
\* The files of the disk, as FileStore sees them.
OnDisk == [n \in Names |-> FileOnDisk(n)]

LEMMA SameFiles ==
    ASSUME IInv, UNCHANGED <<dDir, dData>>
    PROVE  UNCHANGED OnDisk
<1>1. ASSUME NEW n \in Names
      PROVE  FileOnDisk(n)' = FileOnDisk(n)
  BY DEF FileOnDisk
<1> QED
  BY <1>1 DEF OnDisk

\* A sector of the new file is in no file yet.
LEMMA DataStep ==
    ASSUME IInv, IInv', CreateData
    PROVE  UNCHANGED OnDisk
<1>1. /\ pc = "data" /\ dDir' = dDir
      /\ dData' = [dData EXCEPT ![super.next + op.done] = <<op.d, op.done + 1>>]
  BY DEF CreateData
<1>2. /\ TypeOK /\ AllBefore(dDir, super.next)
      /\ op.done \in Nat /\ super.next \in Nat /\ dDir \in [Slots -> Entries]
  <2>1. TypeOK
    BY DEF IInv, TInv
  <2>2. dSuper.next = super.next /\ AllBefore(dDir, dSuper.next)
    BY <1>1 DEF IInv, BoundsOK
  <2>3. op.done \in Nat /\ super.next \in Nat /\ dDir \in [Slots -> Entries]
    BY <2>1, NumbersAre DEF TypeOK
  <2> QED
    BY <2>1, <2>2, <2>3
<1>3. ASSUME NEW s \in Slots, NEW x \in SectorsOf(dDir[s])
      PROVE  dData'[x] = dData[x]
  <2>1. dDir[s].start + dDir[s].len <= super.next
    BY <1>2 DEF AllBefore
  <2>2. x # super.next + op.done
    BY <1>2, <2>1, EntryTypes DEF SectorsOf
  <2>3. DOMAIN dData = Sectors
    BY <1>2 DEF TypeOK
  <2>4. dData' = [y \in Sectors |-> IF y = super.next + op.done
                                    THEN <<op.d, op.done + 1>> ELSE dData[y]]
    BY <1>1, <2>3
  <2>5. x \in Sectors
    <3>1. dDir[s] # NoEntry
      <4>1. CASE dDir[s] = NoEntry
        BY <4>1, NoEntryIsEmpty DEF SectorsOf
      <4> QED
        BY <4>1
    <3>2. dDir[s].start \in Sectors
      BY <1>2, <3>1 DEF Entries
    <3>3. super.next <= LastSector + 1
      BY <1>2, NumbersAre DEF TypeOK
    <3> QED
      BY <1>2, <2>1, <3>2, <3>3, EntryTypes, LastSectorAssumption
         DEF Sectors, SectorsOf, DataStart
  <2> QED
    BY <2>2, <2>4, <2>5
<1>4. ASSUME NEW n \in Names
      PROVE  FileOnDisk(n)' = FileOnDisk(n)
  BY <1>1, <1>3, FileKept
<1> QED
  BY <1>4 DEF OnDisk

\* Writing the directory of fs_create makes one file appear, whole.
LEMMA CreateStep ==
    ASSUME IInv, IInv', DirOK, CreateDir
    PROVE  /\ op.name \in Names /\ op.d \in Data /\ op.len \in 1 .. MaxLen
           /\ OnDisk[op.name] = NoFile
           /\ OnDisk' = [OnDisk EXCEPT ![op.name] = Whole(op.d, op.len)]
<1>1. /\ pc = "createDir" /\ dDir' = dir /\ dData' = dData
  BY DEF CreateDir
<1>2. /\ op.slot \in Slots /\ op.name \in Names /\ op.d \in Data /\ op.len \in 1 .. MaxLen
      /\ dir[op.slot].name = op.name /\ dir[op.slot].len = op.len
      /\ Written(dir[op.slot].start, op.d, op.len)
      /\ \A s \in Slots : s # op.slot => dir[s] = dDir[s]
      /\ dDir[op.slot] = NoEntry
  BY <1>1 DEF DirOK
<1>3. /\ dDir \in [Slots -> Entries] /\ dir \in [Slots -> Entries]
      /\ Disjoint(dir)
  BY DEF IInv, TInv, TypeOK, DisjointOK
<1>4. dir[op.slot] # NoEntry /\ NoEntry.name = ""
  <2>1. NoEntry.name = ""
    BY DEF NoEntry
  <2> QED
    BY <1>2, <2>1, NamedIsUsed
<1>5. FileOnDisk(op.name) = NoFile
  <2>1. ASSUME NEW s \in Slots
        PROVE  dDir[s].name # op.name
    <3>1. CASE s = op.slot
      BY <1>2, <1>4, <3>1, NamesAssumption
    <3>2. CASE s # op.slot
      <4>1. dir[s] = dDir[s]
        BY <1>2, <3>2
      <4>2. CASE dir[s] = NoEntry
        BY <1>2, <1>4, <4>1, <4>2, NamesAssumption
      <4>3. CASE dir[s] # NoEntry
        BY <1>2, <1>3, <1>4, <3>2, <4>1, <4>3 DEF Disjoint
      <4> QED
        BY <4>2, <4>3
    <3> QED
      BY <3>1, <3>2
  <2> QED
    BY <2>1, FileIsNot, OnDiskIs
<1>6. FileOnDisk(op.name)' = Whole(op.d, op.len)
  <2>1. PICK s \in Slots : s = op.slot
    BY <1>2
  <2>2. PICK n \in Names : n = op.name
    BY <1>2
  <2>3. dir[s].name = n
    BY <1>2, <2>1, <2>2
  <2>5. FileIn(dir, dData, n) = Extent(dir[s], dData)
    BY <1>3, <2>3, FileIs
  <2>6. ASSUME NEW i \in 1 .. op.len
        PROVE  dData[dir[s].start + i - 1] = <<op.d, i>>
    BY <1>2, <2>1 DEF Written
  <2>7. dir[s].len = op.len
    BY <1>2, <2>1
  <2>8. Extent(dir[s], dData) = Whole(op.d, op.len)
    BY <2>6, <2>7 DEF Whole, Extent
  <2>9. FileOnDisk(op.name)' = FileOnDisk(n)'
    <3>1. op' = op
      BY DEF CreateDir
    <3> QED
      BY <2>2, <3>1
  <2>10. FileOnDisk(n)' = FileIn(dir, dData, n)
    BY <1>1, OnDiskIs
  <2> QED
    BY <2>5, <2>8, <2>9, <2>10
<1>7. ASSUME NEW n \in Names, n # op.name
      PROVE  FileOnDisk(n)' = FileOnDisk(n)
  <2>1. ASSUME NEW s \in Slots
        PROVE  /\ dDir[s].name = n <=> dDir'[s].name = n
               /\ dDir[s].name = n => dDir'[s] = dDir[s]
    <3>1. CASE s = op.slot
      <4>1. dDir[s].name # n
        BY <1>2, <1>4, <3>1, NamesAssumption
      <4>2. dDir'[s].name # n
        BY <1>1, <1>2, <1>7, <3>1
      <4> QED
        BY <4>1, <4>2
    <3>2. CASE s # op.slot
      BY <1>1, <1>2, <3>2
    <3> QED
      BY <3>1, <3>2
  <2> QED
    BY <1>1, <2>1, FileKept
<1>8. OnDisk' = [OnDisk EXCEPT ![op.name] = Whole(op.d, op.len)]
  <2>1. op' = op
    BY DEF CreateDir
  <2>2. PICK m \in Names : m = op.name
    BY <1>2
  <2>3. FileOnDisk(m)' = Whole(op.d, op.len)
    BY <1>6, <2>1, <2>2
  <2>4. OnDisk' = [n \in Names |-> IF n = m THEN Whole(op.d, op.len) ELSE FileOnDisk(n)]
    BY <1>7, <2>2, <2>3 DEF OnDisk
  <2> QED
    BY <2>2, <2>4 DEF OnDisk
<1> QED
  BY <1>2, <1>5, <1>8 DEF OnDisk

\* Writing the directory of fs_delete makes one file disappear.
LEMMA DeleteStep ==
    ASSUME IInv, IInv', DirOK, DeleteDir
    PROVE  \E n \in Names : OnDisk' = [OnDisk EXCEPT ![n] = NoFile]
<1>1. pc = "deleteDir" /\ dDir' = dir /\ dData' = dData
  BY DEF DeleteDir
<1>2. PICK x \in Slots : dDir[x] # NoEntry /\ dir = [dDir EXCEPT ![x] = NoEntry]
  BY <1>1 DEF DirOK
<1>3. dDir \in [Slots -> Entries] /\ Disjoint(dDir)
  BY DEF IInv, TInv, TypeOK, DisjointOK
<1>4. dDir'[x] = NoEntry /\ \A s \in Slots : s # x => dDir'[s] = dDir[s]
  BY <1>1, <1>2, <1>3
<1>5. PICK m \in Names : m = dDir[x].name
  BY <1>2, <1>3, EntryTypes
<1>6. NoEntry.name = ""
  BY DEF NoEntry
<1>7. FileOnDisk(m)' = NoFile
  <2>1. ASSUME NEW s \in Slots
        PROVE  dDir'[s].name # m
    <3>1. CASE s = x
      BY <1>4, <1>6, <3>1, NamesAssumption
    <3>2. CASE s # x
      <4>1. dDir'[s] = dDir[s]
        BY <1>4, <3>2
      <4>2. CASE dDir[s] = NoEntry
        BY <1>6, <4>1, <4>2, NamesAssumption
      <4>3. CASE dDir[s] # NoEntry
        BY <1>2, <1>3, <1>5, <3>2, <4>1, <4>3 DEF Disjoint
      <4> QED
        BY <4>2, <4>3
    <3> QED
      BY <3>1, <3>2
  <2> QED
    BY <2>1, FileIsNot, OnDiskIs
<1>8. ASSUME NEW n \in Names, n # m
      PROVE  FileOnDisk(n)' = FileOnDisk(n)
  <2>1. ASSUME NEW s \in Slots
        PROVE  /\ dDir[s].name = n <=> dDir'[s].name = n
               /\ dDir[s].name = n => dDir'[s] = dDir[s]
    <3>1. CASE s = x
      BY <1>4, <1>5, <1>6, <1>8, <3>1, NamesAssumption
    <3>2. CASE s # x
      BY <1>4, <3>2
    <3> QED
      BY <3>1, <3>2
  <2> QED
    BY <1>1, <2>1, FileKept
<1>9. OnDisk' = [n \in Names |-> IF n = m THEN NoFile ELSE FileOnDisk(n)]
  BY <1>7, <1>8 DEF OnDisk
<1> WITNESS m \in Names
<1> QED
  BY <1>9 DEF OnDisk

-----------------------------------------------------------------------------
\* Every step of the file system is a step of a FileStore, or leaves its
\* files alone.
LEMMA StoreStep ==
    ASSUME IInv, IInv', DirOK, [Next]_vars
    PROVE  [Store!Next]_OnDisk
<1>1. CASE CreateDir
  <2>1. /\ op.name \in Names /\ op.d \in Data /\ op.len \in 1 .. MaxLen
        /\ OnDisk[op.name] = NoFile
        /\ OnDisk' = [OnDisk EXCEPT ![op.name] = Whole(op.d, op.len)]
    BY <1>1, CreateStep
  <2>2. Store!Create(op.name, Whole(op.d, op.len))
    BY <2>1 DEF Store!Create, OnDisk
  <2> QED
    BY <2>1, <2>2 DEF Store!Next
<1>2. CASE DeleteDir
  <2>1. PICK n \in Names : OnDisk' = [OnDisk EXCEPT ![n] = NoFile]
    BY <1>2, DeleteStep
  <2>2. Store!Delete(n)
    BY <2>1 DEF Store!Delete, OnDisk
  <2> QED
    BY <2>2 DEF Store!Next
<1>3. CASE CreateData
  BY <1>3, DataStep
<1>4. CASE FormatDir
  <2>1. UNCHANGED <<dDir, dData>>
    BY <1>4 DEF FormatDir, IInv, TInv, FormatOK
  <2> QED
    BY <2>1, SameFiles
<1>5. CASE UNCHANGED <<dDir, dData>>
  BY <1>5, SameFiles
<1>6. CreateDir \/ DeleteDir \/ CreateData \/ FormatDir \/ UNCHANGED <<dDir, dData>>
  BY DEF Next, vars, InitFormat, FormatSuper, InitLoad, Create, CreateCommit, CreateSuper,
         Delete, DeleteSuper, WriteFails, Crash
<1> QED
  BY <1>1, <1>2, <1>3, <1>4, <1>5, <1>6

LEMMA StoreInit == Init => Store!Init
<1> SUFFICES ASSUME Init
             PROVE  Store!Init
  OBVIOUS
<1>1. ASSUME NEW n \in Names
      PROVE  FileOnDisk(n) = NoFile
  <2>1. \A s \in Slots : dDir[s].name # n
    BY NamesAssumption DEF Init, EmptyDir, NoEntry
  <2> QED
    BY <2>1, FileIsNot, OnDiskIs
<1> QED
  BY <1>1 DEF Store!Init

\* A file appears on the disk with all its data or not at all, is never
\* changed, and disappears whole, on a disk of any size and through any loss
\* of power that does not separate the last two writes of fs_create - unless
\* one of those fails, or the write of the directory in fs_delete.
THEOREM DiskIsFileStore == DeleteReaches => (Spec => IsFileStore)
<1> SUFFICES ASSUME DeleteReaches
             PROVE  Spec => IsFileStore
  OBVIOUS
<1>1. CommitIsSafe
  BY DEF DeleteReaches
<1>2. IInv /\ DirOK /\ [Next]_vars => DirOK'
  BY StepDirOK
<1>3. IInv /\ IInv' /\ DirOK /\ [Next]_vars => [Store!Next]_OnDisk
  BY StoreStep
<1>4. Spec => []IInv
  BY <1>1, IInvInvariant
<1> QED
  BY <1>2, <1>3, <1>4, InitDirOK, StoreInit, PTL
     DEF Spec, IsFileStore, Store!Spec, OnDisk
=============================================================================
