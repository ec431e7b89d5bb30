-------------------------------- MODULE Pipe --------------------------------
(***************************************************************************)
(* Pipes and the descriptors that name them: src/28_posix/pipe.c, the      *)
(* descriptor table of vfs.c, and what process.c does with the table at    *)
(* fork, thread creation and exit.  A call is one action: system calls run *)
(* with interrupts disabled.  Descriptors 0-2 and files are not modelled.  *)
(***************************************************************************)
EXTENDS Integers, FiniteSets, Sequences

CONSTANTS
    Procs,      \* process slots
    Root,       \* the first process
    NPipes,     \* MAX_PIPES (8 in pipe.h)
    LastFd,     \* MAX_FDS - 1 (15)
    PipeBuf,    \* PIPE_BUF (4096)
    IndexWrap,  \* where the uint32_t head and tail wrap (2^32)
    Bytes, MaxLen, \* what is written and read: up to MaxLen bytes at once
    MaxBelow,   \* bound: how far below 0 a count of open ends is followed
    Calls

Slots == 0 .. NPipes - 1
Fds == 3 .. LastFd
NoFd == [end |-> "none", slot |-> 0, opened |-> 0]
AllCalls == {"pipe", "read", "write", "close", "fork", "exit"}
Writes == UNION {[1 .. n -> Bytes] : n \in 1 .. MaxLen}

ASSUME PipeSizesAssumption == /\ {NPipes, PipeBuf, MaxLen} \subseteq Nat \ {0}
                          /\ LastFd \in Nat /\ IndexWrap \in Nat
ASSUME WrapAssumption == IndexWrap > PipeBuf /\ IndexWrap % PipeBuf = 0
ASSUME BytesAssumption == Bytes \subseteq Nat
ASSUME MaxBelowAssumption == MaxBelow \in Nat
ASSUME RootAssumption == Root \in Procs
ASSUME CallsAssumption == Calls \subseteq AllCalls

VARIABLES
    pipes,   \* pipe_table
    fds,     \* by process: fd_table
    procs,   \* the processes there are
    allocs,  \* history, by slot: how often pipe_alloc has used it (mod 3)
    private  \* history: slots whose pipe has had descriptors in one process only

pipeVars == <<pipes, fds, procs, allocs, private>>

EmptyPipe == [data |-> [x \in 0 .. PipeBuf - 1 |-> 0], head |-> 0, tail |-> 0,
              count |-> 0, readOpen |-> 0, writeOpen |-> 0, valid |-> FALSE]

PipeInit ==
    /\ pipes = [s \in Slots |-> EmptyPipe]
    /\ fds = [p \in Procs |-> [i \in Fds |-> NoFd]]
    /\ procs = {Root}
    /\ allocs = [s \in Slots |-> 0]
    /\ private = Slots

\* The slots that the descriptors of p name.
NamedBy(p) == {fds[p][i].slot : i \in {j \in Fds : fds[p][j] # NoFd}}

\* pipe_alloc: the lowest free slot and the two lowest free descriptors.
FreeSlots == {s \in Slots : ~pipes[s].valid}
FreeFds(p) == {i \in Fds : fds[p][i] = NoFd}
FreshAdding(old) ==   \* mutant: the counts of open ends are not reset
    [old EXCEPT !.head = 0, !.tail = 0, !.count = 0,
                !.readOpen = @ + 1, !.writeOpen = @ + 1, !.valid = TRUE]
Fresh(old) == [old EXCEPT !.head = 0, !.tail = 0, !.count = 0,
                          !.readOpen = 1, !.writeOpen = 1, !.valid = TRUE]

PipeAlloc(p) ==
    /\ "pipe" \in Calls
    /\ \E s \in FreeSlots, r \in FreeFds(p), w \in FreeFds(p) :
        /\ \A t \in FreeSlots : s <= t
        /\ r < w /\ \A i \in FreeFds(p) : i = r \/ w <= i
        /\ allocs' = [allocs EXCEPT ![s] = (@ + 1) % 3]
        /\ pipes' = [pipes EXCEPT ![s] = Fresh(@)]
        /\ fds' = [fds EXCEPT
             ![p][r] = [end |-> "read", slot |-> s, opened |-> allocs'[s]],
             ![p][w] = [end |-> "write", slot |-> s, opened |-> allocs'[s]]]
        /\ private' = IF \E q \in procs : s \in NamedBy(q) THEN private \ {s}
                      ELSE private \cup {s}
    /\ UNCHANGED procs

\* pipe_write_fn: while (written < n && count < PIPE_BUF).
Takes(b, n) == IF n <= PipeBuf - b.count THEN n ELSE PipeBuf - b.count

Written(b, data) ==
    LET k == Takes(b, Len(data))
        Lands(x, j) == (b.tail + j - 1) % PipeBuf = x
    IN [b EXCEPT
          !.data = [x \in 0 .. PipeBuf - 1 |->
                      IF \E j \in 1 .. k : Lands(x, j)
                      THEN data[CHOOSE j \in 1 .. k : Lands(x, j)]
                      ELSE b.data[x]],
          !.tail = (@ + k) % IndexWrap,
          !.count = @ + k]

WritePipe(p, i, data) ==
    /\ "write" \in Calls
    /\ fds[p][i].end = "write"
    /\ pipes[fds[p][i].slot].valid
    /\ pipes' = [pipes EXCEPT ![fds[p][i].slot] = Written(@, data)]
    /\ UNCHANGED <<fds, procs, allocs, private>>

\* pipe_read_fn: what the buffer loses to a read of n bytes.
ConsumedAsked(b, n) ==   \* mutant: head moves by what was asked for
    [b EXCEPT !.head = (@ + n) % IndexWrap,
              !.count = IF n <= @ THEN @ - n ELSE 0]

Consumed(b, n) ==
    LET k == IF n <= b.count THEN n ELSE b.count
    IN [b EXCEPT !.head = (@ + k) % IndexWrap, !.count = @ - k]

ReadPipe(p, i, n) ==
    /\ "read" \in Calls
    /\ fds[p][i].end = "read"
    /\ pipes[fds[p][i].slot].valid
    /\ pipes' = [pipes EXCEPT ![fds[p][i].slot] = Consumed(@, n)]
    /\ UNCHANGED <<fds, procs, allocs, private>>

\* vfs_close and pipe_close_read / pipe_close_write, whatever is in the slot
\* by now.
Closing(b, end) ==
    LET r == IF end = "read" THEN b.readOpen - 1 ELSE b.readOpen
        w == IF end = "write" THEN b.writeOpen - 1 ELSE b.writeOpen
    IN [b EXCEPT !.readOpen = r, !.writeOpen = w,
                 !.valid = @ /\ ~(r <= 0 /\ w <= 0)]

ClosePipeEnd(p, i) ==
    /\ "close" \in Calls
    /\ fds[p][i] # NoFd
    /\ pipes[fds[p][i].slot].readOpen > -MaxBelow
    /\ pipes[fds[p][i].slot].writeOpen > -MaxBelow
    /\ pipes' = [pipes EXCEPT ![fds[p][i].slot] = Closing(@, fds[p][i].end)]
    /\ fds' = [fds EXCEPT ![p][i] = NoFd]
    /\ UNCHANGED <<procs, allocs, private>>

\* process_fork and process_thread_create copy the table, and nothing else.
Fork(p, q) ==
    /\ "fork" \in Calls
    /\ q \notin procs
    /\ procs' = procs \cup {q}
    /\ fds' = [fds EXCEPT ![q] = fds[p]]
    /\ private' = private \ NamedBy(p)
    /\ UNCHANGED <<pipes, allocs>>

\* process_exit leaves the descriptors as they are; the table is written
\* over when the slot is used again.
Exit(p) ==
    /\ "exit" \in Calls
    /\ procs' = procs \ {p}
    /\ fds' = [fds EXCEPT ![p] = [i \in Fds |-> NoFd]]
    /\ private' = private \ NamedBy(p)
    /\ UNCHANGED <<pipes, allocs>>

PipeNext == \E p \in procs :
    \/ PipeAlloc(p) \/ Exit(p)
    \/ \E q \in Procs : Fork(p, q)
    \/ \E i \in Fds :
        \/ ClosePipeEnd(p, i)
        \/ \E data \in Writes : WritePipe(p, i, data)
        \/ \E n \in 1 .. MaxLen : ReadPipe(p, i, n)

PipeSpec == PipeInit /\ [][PipeNext]_pipeVars

-----------------------------------------------------------------------------
\* A slot is a queue, through every interleaving of its writers and readers,
\* when head and tail wrap at 2^32, and when it is given to a new pipe while
\* old descriptors still name it: see Channel.
Chan == INSTANCE Channel WITH
    Capacity <- PipeBuf, MaxRead <- MaxLen, Closed <- <<-1>>,
    queue <- [s \in Slots |->
        IF pipes[s].valid
        THEN [j \in 1 .. pipes[s].count |->
                pipes[s].data[(pipes[s].head + j - 1) % PipeBuf]]
        ELSE <<-1>>]
IsChannel == Chan!Spec

\* Of a pipe whose descriptors never left the process that made it, in a slot
\* that no old descriptor names, the counts of open ends are exact and it
\* lives as long as one end is open, whatever became of the pipes before it.
Opened(s, end) == {m \in procs \X Fds : /\ fds[m[1]][m[2]].end = end
                                        /\ fds[m[1]][m[2]].slot = s}
CountsMatch(s) ==
    /\ pipes[s].readOpen = Cardinality(Opened(s, "read"))
    /\ pipes[s].writeOpen = Cardinality(Opened(s, "write"))
    /\ pipes[s].valid <=> Opened(s, "read") \cup Opened(s, "write") # {}
OpenCountsExact == \A s \in private : CountsMatch(s)

NamesItsPipe(d) == pipes[d.slot].valid /\ d.opened = allocs[d.slot]

\* A descriptor names the pipe it was opened for until its process closes it.
DescriptorsGood ==
    \A p \in procs, i \in Fds : fds[p][i] # NoFd => NamesItsPipe(fds[p][i])
=============================================================================
