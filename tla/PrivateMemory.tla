---------------------------- MODULE PrivateMemory ---------------------------
(***************************************************************************)
(* What src/28_posix/paging.c, pmm.c and mmap.c promise a process: a       *)
(* memory of its own.  exec gives it the program's image, fork gives the   *)
(* child a copy of the parent's as it is at that moment (a blank one if    *)
(* the parent runs in the kernel's directory), and from then on only its   *)
(* own stores change it.  Frames, page tables, faults and the TLB do not   *)
(* appear.                                                                 *)
(***************************************************************************)
CONSTANTS
    Procs, Pages, Values,
    Image,       \* what exec loads, by page
    Blank        \* a memory without a program

VARIABLE mem     \* by process: its memory, or NoSpace

NoSpace == [v \in {} |-> v]

Init == mem = [p \in Procs |-> NoSpace]

Exec(p) == mem[p] # NoSpace /\ mem' = [mem EXCEPT ![p] = Image]

Fork(p, q) ==
    /\ mem[q] = NoSpace
    /\ mem' = [mem EXCEPT ![q] = IF mem[p] = NoSpace THEN Blank ELSE mem[p]]

Store(p) ==
    /\ mem[p] # NoSpace
    /\ \E v \in Pages, d \in Values : mem' = [mem EXCEPT ![p][v] = d]

End(p) == mem' = [mem EXCEPT ![p] = NoSpace]

Next == \E p \in Procs :
            \/ Exec(p)
            \/ \E q \in Procs : Fork(p, q)
            \/ End(p) \/ Store(p)

Spec == Init /\ [][Next]_mem
=============================================================================
