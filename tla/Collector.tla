------------------------------ MODULE Collector -----------------------------
(***************************************************************************)
(* The mark-and-sweep collector of src/browser/B09_garbage_collector: the  *)
(* objects and the slots of heap.c, the recursion of gc_mark and the sweep *)
(* of gc.c.  Objects are named by their slot; a slot is never used again.  *)
(* The program acts between two collections and follows no pointer that    *)
(* the collector cannot see.                                               *)
(***************************************************************************)
EXTENDS Integers, Sequences, FiniteSets

CONSTANTS
    MAX_OBJECTS,  \* 1024
    GC_MAX_REFS,  \* 4
    MaxLinks      \* bound: references that exist at one time

ASSUME GcSizesAssumption == {MAX_OBJECTS, GC_MAX_REFS} \subseteq Nat

Objects == 0 .. MAX_OBJECTS - 1
RefSlots == 0 .. GC_MAX_REFS - 1
NULL == MAX_OBJECTS

VARIABLES
    heap_count,
    heap_slots,  \* the slots that hold an object
    refs, ref_count, marked,
    gcPc,        \* where gc_collect is: "idle", "mark", "sweep"
    roots,       \* its argument
    todo,        \* the roots that gc_mark has not been called for
    calls,       \* the activations of gc_mark, the last one at the end
    next_ref,    \* by object: i in its activation of gc_mark
    visit        \* i in heap_foreach

programVars == <<heap_count, refs, ref_count>>
gcVars == <<programVars, heap_slots, marked, gcPc, roots, todo, calls, next_ref, visit>>

NoRefs == [k \in RefSlots |-> NULL]
Links == {m \in Objects \X RefSlots : refs[m[1]][m[2]] # NULL}

GcInit ==
    /\ heap_count = 0 /\ heap_slots = {}
    /\ refs = [o \in Objects |-> NoRefs]
    /\ ref_count = [o \in Objects |-> 0]
    /\ marked = {}
    /\ gcPc = "idle" /\ roots = {} /\ todo = {} /\ calls = <<>>
    /\ next_ref = [o \in Objects |-> 0] /\ visit = 0

-----------------------------------------------------------------------------
\* gc_alloc
GcAlloc ==
    /\ gcPc = "idle" /\ heap_count < MAX_OBJECTS
    /\ heap_slots' = heap_slots \cup {heap_count}
    /\ heap_count' = heap_count + 1
    /\ UNCHANGED <<refs, ref_count, marked, gcPc, roots, todo, calls, next_ref, visit>>

\* gc_add_ref
CountPlusOne(o, k) == IF k >= ref_count[o] THEN ref_count[o] + 1 ELSE ref_count[o] \* mutant: the gap is not counted
CountWith(o, k) == IF k >= ref_count[o] THEN k + 1 ELSE ref_count[o]

GcAddRef(o, k, to) ==
    /\ gcPc = "idle" /\ o \in heap_slots /\ to \in heap_slots \cup {NULL}
    /\ refs' = [refs EXCEPT ![o][k] = to]
    /\ ref_count' = [ref_count EXCEPT ![o] = CountWith(o, k)]
    /\ Cardinality(Links') <= MaxLinks
    /\ UNCHANGED <<heap_count, heap_slots, marked, gcPc, roots, todo, calls, next_ref, visit>>

\* gc_collect, called with live objects; the array names them in any order.
GcCollect(rs) ==
    /\ gcPc = "idle"
    /\ roots' = rs /\ todo' = rs /\ gcPc' = "mark"
    /\ UNCHANGED <<programVars, heap_slots, marked, calls, next_ref, visit>>

\* gc_mark: returns at once for NULL and for a marked object.
MarkRoot(r) ==
    /\ gcPc = "mark" /\ calls = <<>> /\ r \in todo
    /\ todo' = todo \ {r}
    /\ marked' = marked \cup {r}
    /\ calls' = IF r \in marked THEN <<>> ELSE <<r>>
    /\ UNCHANGED <<programVars, heap_slots, gcPc, roots, next_ref, visit>>

\* The loop of the innermost activation: the call for its next reference, or
\* the return.
Top == calls[Len(calls)]
HasNextShort(o) == next_ref[o] + 1 < ref_count[o]   \* mutant: off by one
HasNext(o) == next_ref[o] < ref_count[o]

Advanced(o) == [next_ref EXCEPT ![o] = @ + 1]
MarkRef ==
    /\ gcPc = "mark" /\ calls # <<>> /\ HasNext(Top)
    /\ LET o == refs[Top][next_ref[Top]]
       IN IF o = NULL \/ o \in marked
          THEN next_ref' = Advanced(Top) /\ UNCHANGED <<marked, calls>>
          ELSE /\ next_ref' = Advanced(Top)
               /\ marked' = marked \cup {o}
               /\ calls' = Append(calls, o)
    /\ UNCHANGED <<programVars, heap_slots, gcPc, roots, todo, visit>>

MarkReturn ==
    /\ gcPc = "mark" /\ calls # <<>> /\ ~HasNext(Top)
    /\ calls' = SubSeq(calls, 1, Len(calls) - 1)
    /\ next_ref' = [next_ref EXCEPT ![Top] = 0]
    /\ UNCHANGED <<programVars, heap_slots, marked, gcPc, roots, todo, visit>>

MarkDone ==
    /\ gcPc = "mark" /\ calls = <<>> /\ todo = {}
    /\ gcPc' = "sweep" /\ roots' = {}
    /\ UNCHANGED <<programVars, heap_slots, marked, todo, calls, next_ref, visit>>

\* heap_foreach with sweep_visitor; heap_free_object empties the slot, and
\* the references of the object are gone with it.
UnmarkedKept == marked   \* mutant: the mark of a survivor stays
Unmarked == marked \ {visit}

SweepFree ==
    /\ gcPc = "sweep" /\ visit \in heap_slots \ marked
    /\ heap_slots' = heap_slots \ {visit}
    /\ refs' = [refs EXCEPT ![visit] = NoRefs]
    /\ ref_count' = [ref_count EXCEPT ![visit] = 0]
    /\ visit' = visit + 1
    /\ UNCHANGED <<heap_count, marked, gcPc, roots, todo, calls, next_ref>>

SweepPass ==
    /\ gcPc = "sweep" /\ visit < heap_count /\ visit \notin heap_slots \ marked
    /\ marked' = Unmarked
    /\ visit' = visit + 1
    /\ UNCHANGED <<programVars, heap_slots, gcPc, roots, todo, calls, next_ref>>

SweepDone ==
    /\ gcPc = "sweep" /\ visit >= heap_count
    /\ gcPc' = "idle" /\ visit' = 0
    /\ UNCHANGED <<programVars, heap_slots, marked, roots, todo, calls, next_ref>>

Mark == (\E r \in Objects : MarkRoot(r)) \/ MarkRef \/ MarkReturn \/ MarkDone
GcNext ==
    \/ GcAlloc
    \/ \E o \in Objects, k \in RefSlots, to \in Objects \cup {NULL} : GcAddRef(o, k, to)
    \/ \E rs \in SUBSET heap_slots : GcCollect(rs)
    \/ Mark \/ SweepFree \/ SweepPass \/ SweepDone

GcSpec == GcInit /\ [][GcNext]_gcVars
-----------------------------------------------------------------------------
\* A collection keeps what its roots reach through refs[], each object of it,
\* and frees everything else: see Collection.  It is over, as seen from
\* there, when the sweep begins.
Kept == IF gcPc = "sweep"
        THEN {o \in heap_slots : o < visit \/ o \in marked}
        ELSE heap_slots
Made == 0 .. heap_count - 1
Points == [o \in Objects |-> IF o \in Kept THEN refs[o] ELSE NoRefs]
Asked == IF gcPc = "mark" THEN {roots} ELSE {}
Abstract == INSTANCE Collection WITH
    Fields <- RefSlots, Null <- NULL,
    made <- Made, alive <- Kept, points <- Points, asked <- Asked
IsCollection == Abstract!Spec

\* Between two collections no traced reference of an object that exists names
\* one that was freed.
NoDangling ==
    gcPc = "idle" => \A o \in heap_slots, k \in RefSlots :
                         refs[o][k] \in heap_slots \cup {NULL}

\* gc_mark trusts the marks it finds: none is left from the last collection.
MarksClear == gcPc = "idle" => marked = {}
=============================================================================
