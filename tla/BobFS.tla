-------------------------------- MODULE BobFS -------------------------------
(***************************************************************************)
(* The flat file system of the BobOS kernel, src/28_posix/fs.c, on the     *)
(* sectors of disk.c.  The superblock and the directory are kept in memory *)
(* and written back after every change.  Each disk_write_sector is one     *)
(* action: it puts one sector on the disk (the driver flushes the drive's  *)
(* cache) or it fails, and the power may go between two of them.           *)
(***************************************************************************)
EXTENDS Integers, FiniteSets, Sequences

CONSTANTS
    Names,     \* file names
    Data,      \* what is written into a file, told apart
    MaxFiles,  \* FS_MAX_FILES, the slots of the directory (16 in fs.h)
    MaxLen,    \* FS_MAX_FILE_SIZE in sectors (64 in fs.h)
    LastSector,\* the last sector of the disk
    CrashAt,   \* the points where the power may go, members of PCs
    FailAt     \* the points where the drive may report an error

DataStart == 2       \* FS_DATA_START
Slots == 1 .. MaxFiles
Sectors == DataStart .. LastSector
NoEntry == [name |-> "", start |-> 0, len |-> 0]
PCs == {"off", "formatSuper", "formatDir", "idle", "data", "createDir",
        "createSuper", "deleteDir", "deleteSuper"}

ASSUME MaxFilesAssumption == MaxFiles \in Nat \ {0}
ASSUME MaxLenAssumption == MaxLen \in Nat \ {0}
ASSUME LastSectorAssumption == LastSector \in Nat \ {0}
ASSUME NamesAssumption == "" \notin Names
ASSUME FaultsAssumption ==
    CrashAt \subseteq PCs /\ FailAt \subseteq PCs \ {"off", "idle"}

VARIABLES
    dSuper, dDir, dData,   \* on disk: sector 0, sector 1, the data sectors
    super, dir,            \* in memory: struct fs_super, dir[]
    pc,                    \* which write the code does next
    op                     \* the arguments and locals of fs_create

vars == <<dSuper, dDir, dData, super, dir, pc, op>>

Blank == [magic |-> FALSE, num |-> 0, next |-> 0]   \* a disk of zeros
Formatted == [magic |-> TRUE, num |-> 0, next |-> DataStart]
EmptyDir == [s \in Slots |-> NoEntry]
NoOp == [slot |-> 0, name |-> "", d |-> 0, len |-> 0, done |-> 0]

Init ==
    /\ dSuper = Blank /\ dDir = EmptyDir
    /\ dData = [x \in Sectors |-> <<>>]
    /\ super = Blank /\ dir = EmptyDir
    /\ pc = "off"
    /\ op = NoOp

(***************************************************************************)
(* fs_init.                                                                *)
(***************************************************************************)
InitFormat ==
    /\ pc = "off" /\ ~dSuper.magic
    /\ super' = Formatted /\ dir' = EmptyDir
    /\ pc' = "formatSuper"
    /\ UNCHANGED <<dSuper, dDir, dData, op>>

FormatSuper ==
    /\ pc = "formatSuper"
    /\ dSuper' = super
    /\ pc' = "formatDir"
    /\ UNCHANGED <<dDir, dData, super, dir, op>>

FormatDir ==
    /\ pc = "formatDir"
    /\ dDir' = dir
    /\ pc' = "idle"
    /\ UNCHANGED <<dSuper, dData, super, dir, op>>

InitLoad ==
    /\ pc = "off" /\ dSuper.magic
    /\ super' = dSuper /\ dir' = dDir
    /\ pc' = "idle"
    /\ UNCHANGED <<dSuper, dDir, dData, op>>

(***************************************************************************)
(* fs_create.  A call that is refused (name exists, directory full)        *)
(* changes nothing and is no action.  The size and start of an entry that  *)
(* is not in use are not modelled.                                         *)
(***************************************************************************)
Present(n) == \E s \in Slots : dir[s].name = n
FirstFree(s) == /\ dir[s] = NoEntry
                /\ \A t \in Slots : dir[t] = NoEntry => s <= t

Create(n, d, len) ==
    /\ pc = "idle" /\ ~Present(n)
    /\ \E s \in Slots :
        /\ FirstFree(s)
        /\ op' = [slot |-> s, name |-> n, d |-> d, len |-> len, done |-> 0]
    /\ pc' = "data"
    /\ UNCHANGED <<dSuper, dDir, dData, super, dir>>

CreateData ==
    /\ pc = "data" /\ op.done < op.len
    /\ super.next + op.done \in Sectors
    /\ dData' = [dData EXCEPT ![super.next + op.done] = <<op.d, op.done + 1>>]
    /\ op' = [op EXCEPT !.done = @ + 1]
    /\ UNCHANGED <<dSuper, dDir, super, dir, pc>>

\* All data is on the disk: the entry and the superblock in memory.
SuperAfterCreateShort ==   \* mutant: one sector too few
    [super EXCEPT !.next = @ + op.len - 1, !.num = @ + 1]
SuperAfterCreateLong ==    \* mutant: one sector too many
    [super EXCEPT !.next = @ + op.len + 1, !.num = @ + 1]
SuperAfterCreate == [super EXCEPT !.next = @ + op.len, !.num = @ + 1]

AllWrittenEarly == op.done >= op.len - 1   \* mutant: the last sector is skipped
AllWritten == op.done = op.len

CreateCommit ==
    /\ pc = "data" /\ AllWritten
    /\ dir' = [dir EXCEPT ![op.slot] =
                 [name |-> op.name, start |-> super.next, len |-> op.len]]
    /\ super' = SuperAfterCreate
    /\ pc' = "createDir"
    /\ UNCHANGED <<dSuper, dDir, dData, op>>

CreateDir ==
    /\ pc = "createDir"
    /\ dDir' = dir
    /\ pc' = "createSuper"
    /\ UNCHANGED <<dSuper, dData, super, dir, op>>

CreateSuper ==
    /\ pc = "createSuper"
    /\ dSuper' = super
    /\ pc' = "idle" /\ op' = NoOp
    /\ UNCHANGED <<dDir, dData, super, dir>>

(***************************************************************************)
(* fs_delete.  The results of its two writes are ignored.                  *)
(***************************************************************************)
SuperAfterDeleteReclaim == [super EXCEPT !.num = @ - 1, !.next = @ - 1]  \* mutant
SuperAfterDeleteUncounted == super   \* mutant: num_files is not decremented
SuperAfterDelete == [super EXCEPT !.num = @ - 1]

Delete(n) ==
    /\ pc = "idle"
    /\ \E s \in Slots :
        /\ dir[s].name = n
        /\ \A t \in Slots : dir[t].name = n => s <= t
        /\ dir' = [dir EXCEPT ![s] = NoEntry]
    /\ super' = SuperAfterDelete
    /\ pc' = "deleteDir"
    /\ UNCHANGED <<dSuper, dDir, dData, op>>

DeleteDir ==
    /\ pc = "deleteDir"
    /\ dDir' = dir
    /\ pc' = "deleteSuper"
    /\ UNCHANGED <<dSuper, dData, super, dir, op>>

DeleteSuper ==
    /\ pc = "deleteSuper"
    /\ dSuper' = super
    /\ pc' = "idle"
    /\ UNCHANGED <<dDir, dData, super, dir, op>>

(***************************************************************************)
(* Faults (external).                                                      *)
(***************************************************************************)
\* The drive reports an error, or the sector is beyond its end: the sector
\* keeps what it held.  fs_init gives up (the machine halts: only a restart
\* helps), fs_create returns -1, fs_delete goes on.
Beyond == pc = "data" /\ op.done < op.len /\ super.next + op.done \notin Sectors
WriteFails ==
    /\ pc \in FailAt \/ Beyond
    /\ pc = "data" => op.done < op.len
    /\ pc' = CASE pc \in {"formatSuper", "formatDir"} -> "off"
               [] pc \in {"data", "createDir", "createSuper"} -> "idle"
               [] pc = "deleteDir" -> "deleteSuper"
               [] pc = "deleteSuper" -> "idle"
    /\ op' = NoOp
    /\ UNCHANGED <<dSuper, dDir, dData, super, dir>>

\* The power goes: what is in memory is lost.
Crash ==
    /\ pc \in CrashAt \ {"off"}
    /\ pc' = "off"
    /\ super' = Blank /\ dir' = EmptyDir /\ op' = NoOp
    /\ UNCHANGED <<dSuper, dDir, dData>>

-----------------------------------------------------------------------------
Next ==
    \/ InitFormat \/ FormatSuper \/ FormatDir \/ InitLoad
    \/ \E n \in Names, d \in Data, len \in 1 .. MaxLen : Create(n, d, len)
    \/ CreateData \/ CreateCommit \/ CreateDir \/ CreateSuper
    \/ \E n \in Names : Delete(n)
    \/ DeleteDir \/ DeleteSuper
    \/ WriteFails \/ Crash

Spec == Init /\ [][Next]_vars

-----------------------------------------------------------------------------
Entries == [name : Names, start : Sectors, len : 1 .. MaxLen] \cup {NoEntry}
Supers == [magic : BOOLEAN, num : Int, next : 0 .. LastSector + 1]
Ops == [slot : Slots \cup {0}, name : Names \cup {""}, d : Data \cup {0},
        len : 0 .. MaxLen, done : 0 .. MaxLen]

TypeOK ==
    /\ dSuper \in Supers /\ super \in Supers
    /\ dDir \in [Slots -> Entries] /\ dir \in [Slots -> Entries]
    /\ dData \in [Sectors -> {<<>>} \cup (Data \X (1 .. MaxLen))]
    /\ pc \in PCs /\ op \in Ops

\* next_sector is free: it is past the end of every file, in memory whenever
\* a file could be created and on the disk whenever the system could boot.
AllBefore(d, next) == \A s \in Slots : d[s].start + d[s].len <= next
NextSectorFree ==
    /\ pc = "idle" => AllBefore(dir, super.next)
    /\ pc \in {"off", "idle"} => AllBefore(dDir, dSuper.next)

\* A name has one entry, and no two files share a sector.
SectorsOf(e) == e.start .. e.start + e.len - 1
Disjoint(d) ==
    \A s, t \in Slots :
        s # t /\ d[s] # NoEntry /\ d[t] # NoEntry
            => /\ d[s].name # d[t].name
               /\ SectorsOf(d[s]) \cap SectorsOf(d[t]) = {}
FilesDisjoint == Disjoint(dDir)

\* Between two calls the file system that runs and the one a restart would
\* find are the same, and fs_num_files counts the files.
Used(d) == {s \in Slots : d[s] # NoEntry}
MemoryIsDisk ==
    pc = "idle" => dir = dDir /\ super = dSuper /\ super.num = Cardinality(Used(dir))

\* The files on the disk are a FileStore: see that module.
NoFile == <<>>
FileOnDisk(n) ==
    IF \E s \in Slots : dDir[s].name = n
    THEN LET e == CHOOSE e \in {dDir[s] : s \in Slots} : e.name = n
         IN [i \in 1 .. e.len |-> dData[e.start + i - 1]]
    ELSE NoFile
Whole(d, len) == [i \in 1 .. len |-> <<d, i>>]
Store == INSTANCE FileStore WITH
    Contents <- {Whole(d, len) : d \in Data, len \in 1 .. MaxLen},
    files <- [n \in Names |-> FileOnDisk(n)]
IsFileStore == Store!Spec
=============================================================================
