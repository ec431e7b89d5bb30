----------------------------- MODULE LossyQueue -----------------------------
(***************************************************************************)
(* What a ring between an interrupt or a device and its reader is meant to *)
(* be: at most Capacity items, each taken once, in the order of arrival.   *)
(* What arrives may be lost; what has been taken in may not.               *)
(***************************************************************************)
EXTENDS Naturals, Sequences

CONSTANTS Items, Capacity, None

VARIABLES queue, taken

Init == queue = <<>> /\ taken = None

Put(x) == /\ Len(queue) < Capacity
          /\ queue' = Append(queue, x)
          /\ UNCHANGED taken

Take == /\ queue # <<>>
        /\ taken' = Head(queue)
        /\ queue' = Tail(queue)

Next == Take \/ \E x \in Items : Put(x)

Spec == Init /\ [][Next]_<<queue, taken>>
=============================================================================
