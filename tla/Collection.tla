----------------------------- MODULE Collection -----------------------------
(***************************************************************************)
(* What a garbage collector is meant to be: an object stays until a        *)
(* collection whose roots do not reach it, and that collection takes it.   *)
(* Marks, the order of the traversal and the sweep do not appear.          *)
(***************************************************************************)
CONSTANTS Objects, Fields, Null

VARIABLES made, alive, points,
    asked  \* the roots of the collection that is going on, if one is

Nowhere == [f \in Fields |-> Null]

Init == /\ made = {} /\ alive = {} /\ asked = {}
        /\ points = [o \in Objects |-> Nowhere]

New(o) == /\ asked = {} /\ o \notin made
          /\ made' = made \cup {o} /\ alive' = alive \cup {o}
          /\ UNCHANGED <<points, asked>>

Link(o, f, t) == /\ asked = {}
                 /\ o \in alive /\ t \in alive \cup {Null}
                 /\ points' = [points EXCEPT ![o][f] = t]
                 /\ UNCHANGED <<made, alive, asked>>

Ask(roots) == /\ asked = {} /\ asked' = {roots}
              /\ UNCHANGED <<made, alive, points>>

\* The least set that has the roots and whatever its members point at.
Closed(S) == \A o \in S, f \in Fields : points[o][f] \in S \cup {Null}
Reach(roots) == {o \in Objects :
    \A S \in SUBSET Objects : roots \subseteq S /\ Closed(S) => o \in S}

Collect == /\ \E roots \in asked : alive' = Reach(roots)
           /\ asked' = {}
           /\ points' = [o \in Objects |-> IF o \in alive' THEN points[o] ELSE Nowhere]
           /\ UNCHANGED made

Next == \/ \E o \in Objects :
             New(o) \/ \E f \in Fields, t \in Objects \cup {Null} : Link(o, f, t)
        \/ \E roots \in SUBSET alive : Ask(roots)
        \/ Collect

Spec == Init /\ [][Next]_<<made, alive, points, asked>>
=============================================================================
