-------------------------------- MODULE Files -------------------------------
(***************************************************************************)
(* Open files: the descriptors of src/28_posix/vfs.c and its BobFS         *)
(* backend, with what fork and exit do to the table in the PCB.  A byte of *)
(* bobfs_buf is named by the file that it is from.                         *)
(***************************************************************************)
EXTENDS Integers, FiniteSets

CONSTANTS
    FileProcs,
    Paths,
    FileSize,    \* by path: how much of it fs_read loads (4096 at most)
    SectorBytes, \* FS_SECTOR_SIZE
    LastFileFd,  \* MAX_FDS - 1; 0, 1 and 2 are taken by vga_ops
    NInodes      \* the files that the backend can have open (8)

ASSUME FileSizeAssumption == FileSize \in [Paths -> Nat]
ASSUME FilesAssumption == FileProcs # {} /\ LastFileFd \in Nat /\ NInodes \in Nat
ASSUME SectorAssumption == SectorBytes \in Nat \ {0}

FileFds == 3 .. LastFileFd
Inodes == 0 .. NInodes - 1
NotOpen == [inode |-> -1]

VARIABLES
    fd_table,    \* by process: its descriptors; file is history, the path
    running,     \* the processes there are
    bobfs_used, bobfs_sizes,
    bobfs_buf,   \* by position, where a byte of a file is: that file
    alone,       \* history: the descriptors whose file was loaded last, wholly
                 \* or in part, and whose inode nobody has closed since
    orphans      \* history: inodes that a process had open when it ended

fileVars == <<fd_table, running, bobfs_used, bobfs_sizes, bobfs_buf,
              alone, orphans>>

NoFiles == [fd \in FileFds |-> NotOpen]
Fds2 == FileProcs \X FileFds
IsOpen(d) == fd_table[d[1]][d[2]] # NotOpen
FileOf(d) == fd_table[d[1]][d[2]].file
InodeOf(d) == fd_table[d[1]][d[2]].inode

FilesInit ==
    /\ fd_table = [p \in FileProcs |-> NoFiles]
    /\ running = {CHOOSE p \in FileProcs : TRUE}
    /\ bobfs_used = {} /\ bobfs_sizes = [i \in Inodes |-> 0]
    /\ bobfs_buf = [k \in {} |-> 0]
    /\ alone = {} /\ orphans = {}

-----------------------------------------------------------------------------
\* bobfs_open: the first inode that is not used, and the file into the one
\* buffer, sector after sector, with a zero behind it.
FirstInode(i) == i \in Inodes \ bobfs_used /\ \A j \in Inodes \ bobfs_used : i <= j
Copied(path, n) == [k \in DOMAIN bobfs_buf \cup 0 .. n - 1 |->
                       IF k < n THEN path ELSE bobfs_buf[k]]
Loaded(path) == LET n == FileSize[path]
                IN [k \in DOMAIN Copied(path, n) \ {n} |-> Copied(path, n)[k]]

\* The descriptors that go on reading their file when this one is loaded.
AloneWith(path) == {d \in alone : FileOf(d) = path}

\* vfs_open: the first descriptor from 3 on.
FirstFd(p, fd) == /\ fd_table[p][fd] = NotOpen
                  /\ \A e \in FileFds : fd_table[p][e] = NotOpen => fd <= e

SizeKept(i, path) == bobfs_sizes   \* mutant: bobfs_sizes is not set
SizeSet(i, path) == [bobfs_sizes EXCEPT ![i] = FileSize[path]]

OpenFile(p, path) == \E i \in Inodes, fd \in FileFds :
    /\ p \in running /\ FirstInode(i) /\ FirstFd(p, fd)
    /\ bobfs_buf' = Loaded(path)
    /\ bobfs_sizes' = SizeSet(i, path)
    /\ bobfs_used' = bobfs_used \cup {i}
    /\ fd_table' = [fd_table EXCEPT ![p][fd] = [inode |-> i, offset |-> 0, file |-> path]]
    /\ alone' = AloneWith(path) \cup {<<p, fd>>}
    /\ UNCHANGED <<running, orphans>>

\* No descriptor is left: the inode is closed again, but the file is loaded.
UsedAfterFailKept(i) == bobfs_used \cup {i}   \* mutant: ops->close is not called
UsedAfterFail(i) == bobfs_used

OpenFileNoFd(p, path) == \E i \in Inodes :
    /\ p \in running /\ FirstInode(i)
    /\ \A fd \in FileFds : fd_table[p][fd] # NotOpen
    /\ bobfs_buf' = Loaded(path)
    /\ bobfs_sizes' = SizeSet(i, path)
    /\ bobfs_used' = UsedAfterFail(i)
    /\ alone' = AloneWith(path)
    /\ UNCHANGED <<fd_table, running, orphans>>

\* fs_read cannot read a sector: no inode is taken, but the sectors before it
\* are in the buffer (with none before it, nothing changes).
OpenFileFails(p, path) == \E s \in 1 .. FileSize[path] :
    /\ p \in running /\ bobfs_used # Inodes
    /\ s * SectorBytes < FileSize[path]
    /\ bobfs_buf' = Copied(path, s * SectorBytes)
    /\ alone' = AloneWith(path)
    /\ UNCHANGED <<fd_table, running, bobfs_used, bobfs_sizes, orphans>>

\* bobfs_read on descriptor d gives n bytes; vfs_read advances the offset.
Available(d) == bobfs_sizes[InodeOf(d)] - fd_table[d[1]][d[2]].offset
ReadFile(d, n) ==
    /\ d[1] \in running /\ IsOpen(d) /\ InodeOf(d) \in bobfs_used
    /\ fd_table' = [fd_table EXCEPT ![d[1]][d[2]].offset = @ + n]
    /\ UNCHANGED <<running, bobfs_used, bobfs_sizes, bobfs_buf, alone, orphans>>

\* vfs_close; bobfs_close does not know who else has the inode open.
UsedAfterCloseKept(i) == bobfs_used   \* mutant: bobfs_used is not cleared
UsedAfterClose(i) == bobfs_used \ {i}

CloseFile(d) ==
    /\ d[1] \in running /\ IsOpen(d)
    /\ bobfs_used' = UsedAfterClose(InodeOf(d))
    /\ fd_table' = [fd_table EXCEPT ![d[1]][d[2]] = NotOpen]
    /\ alone' = {e \in alone : InodeOf(e) # InodeOf(d)}
    /\ UNCHANGED <<running, bobfs_sizes, bobfs_buf, orphans>>

\* process_fork and process_thread_create copy the table.
ForkFiles(p, q) ==
    /\ p \in running /\ q \notin running
    /\ running' = running \cup {q}
    /\ fd_table' = [fd_table EXCEPT ![q] = fd_table[p]]
    /\ alone' = alone \cup {<<q, fd>> : fd \in {fd \in FileFds : <<p, fd>> \in alone}}
    /\ UNCHANGED <<bobfs_used, bobfs_sizes, bobfs_buf, orphans>>

\* process_exit closes nothing; the table is reset when the slot is taken.
ExitFiles(p) ==
    /\ p \in running /\ running # {p}
    /\ running' = running \ {p}
    /\ fd_table' = [fd_table EXCEPT ![p] = NoFiles]
    /\ orphans' = orphans \cup {InodeOf(d) : d \in {e \in Fds2 : e[1] = p /\ IsOpen(e)}}
    /\ alone' = {d \in alone : d[1] # p}
    /\ UNCHANGED <<bobfs_used, bobfs_sizes, bobfs_buf>>

FilesNext ==
    \/ \E p \in FileProcs :
        \/ ExitFiles(p)
        \/ \E path \in Paths :
            OpenFile(p, path) \/ OpenFileNoFd(p, path) \/ OpenFileFails(p, path)
        \/ \E q \in FileProcs : ForkFiles(p, q)
    \/ \E d \in Fds2 : CloseFile(d) \/ (IsOpen(d) /\ \E n \in 1 .. Available(d) : ReadFile(d, n))

FilesSpec == FilesInit /\ [][FilesNext]_fileVars
-----------------------------------------------------------------------------
\* What a descriptor would read from its offset on is what it was opened for.
ReadsItsFile(d) ==
    /\ InodeOf(d) \in bobfs_used
    /\ Available(d) = FileSize[FileOf(d)] - fd_table[d[1]][d[2]].offset
    /\ \A k \in fd_table[d[1]][d[2]].offset .. bobfs_sizes[InodeOf(d)] - 1 :
           k \in DOMAIN bobfs_buf /\ bobfs_buf[k] = FileOf(d)

\* "The same bobfs_ops can be opened multiple times" (19_vfs/DECISIONS.md, 5)
\* and a child's close does not affect its parent (2).
ReadsOwnFile == \A d \in Fds2 : IsOpen(d) /\ d[1] \in running => ReadsItsFile(d)

\* What the code keeps of it: a descriptor and its copies read the right file
\* as long as nobody has opened another one, not even in vain, or has closed
\* that inode, not even through a descriptor whose own inode was closed and
\* taken again.  Other descriptors of the same file do no harm.
AloneReadsOwnFile == \A d \in alone : IsOpen(d) => ReadsItsFile(d)

\* No inode is lost, also when an open fails at the last step: one that is used
\* has a descriptor, or had one in a process that ended without closing it.
InodesHeld == bobfs_used \subseteq
    orphans \cup {InodeOf(d) : d \in {e \in Fds2 : IsOpen(e)}}
=============================================================================
