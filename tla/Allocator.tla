------------------------------ MODULE Allocator -----------------------------
(***************************************************************************)
(* What kmalloc and kfree (src/28_posix/heap.c) promise: an area of at     *)
(* least the size asked for, in the pool, aligned, that overlaps no other  *)
(* area in use, and that stays as it is until it is freed.                 *)
(***************************************************************************)
EXTENDS Naturals

CONSTANTS First, Last, Sizes   \* the pool is the bytes First .. Last - 1

VARIABLE areas                 \* the areas in use: <<address, length>>

Init == areas = {}

Apart(x, y) == x[1] + x[2] <= y[1] \/ y[1] + y[2] <= x[1]

\* The one new area.
Alloc(n) ==
    \E area \in areas' \ areas :
        /\ area \in (First .. Last) \X (n .. Last)
        /\ area[1] % 4 = 0 /\ area[1] + area[2] <= Last
        /\ \A x \in areas : Apart(x, area)
        /\ areas' = areas \cup {area}

Free == \E x \in areas : areas' = areas \ {x}

Next == Free \/ \E n \in Sizes : Alloc(n)

Spec == Init /\ [][Next]_areas
=============================================================================
