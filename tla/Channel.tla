------------------------------- MODULE Channel ------------------------------
(***************************************************************************)
(* What a slot of the pipe table in src/28_posix/pipe.c is meant to be: a  *)
(* queue of at most Capacity bytes, first in first out.  A write takes as  *)
(* many bytes as there is room for, a read gets as many as there are.      *)
(***************************************************************************)
EXTENDS Naturals, Sequences

CONSTANTS Slots, Capacity, Writes, MaxRead, Closed

VARIABLE queue

Init == queue = [s \in Slots |-> Closed]

Open(s) == queue[s] = Closed /\ queue' = [queue EXCEPT ![s] = <<>>]

Taken(room, data) ==
    SubSeq(data, 1, IF Len(data) <= room THEN Len(data) ELSE room)

Put(s, data) ==
    /\ queue[s] # Closed
    /\ queue' = [queue EXCEPT ![s] = @ \o Taken(Capacity - Len(@), data)]

Get(s, n) ==
    /\ queue[s] # Closed
    /\ queue' = [queue EXCEPT ![s] = SubSeq(@, n + 1, Len(@))]

Close(s) == queue' = [queue EXCEPT ![s] = Closed]

Next == \E s \in Slots :
            \/ Open(s) \/ Close(s)
            \/ \E data \in Writes : Put(s, data)
            \/ \E n \in 1 .. MaxRead : Get(s, n)

Spec == Init /\ [][Next]_queue
=============================================================================
