-------------------------- MODULE Collector_proofs --------------------------
(***************************************************************************)
(* The collector is correct, for every number of objects and references.   *)
(* The inductive invariant is that of tri-colour marking: a marked object  *)
(* that gc_mark has left points at marked objects only, and one whose call *)
(* is still going on does so up to the reference it has reached; and what  *)
(* is marked lies in every closed set around the roots.                    *)
(***************************************************************************)
EXTENDS Collector, SequenceTheorems, TLAPS

GcTypeOK ==
    /\ heap_count \in 0 .. MAX_OBJECTS
    /\ heap_slots \subseteq 0 .. heap_count - 1
    /\ refs \in [Objects -> [RefSlots -> Objects \cup {NULL}]]
    /\ ref_count \in [Objects -> 0 .. GC_MAX_REFS]
    /\ marked \subseteq heap_slots
    /\ gcPc \in {"idle", "mark", "sweep"}
    /\ roots \subseteq heap_slots /\ todo \subseteq roots
    /\ calls \in Seq(Objects)
    /\ next_ref \in [Objects -> 0 .. GC_MAX_REFS]
    /\ visit \in Nat

\* What ref_count bounds, and what an empty slot looks like.
Counted == /\ \A o \in Objects, k \in RefSlots : k >= ref_count[o] => refs[o][k] = NULL
           /\ \A o \in Objects \ heap_slots : refs[o] = NoRefs /\ ref_count[o] = 0

\* The references of what is kept stay among what is kept.
KeptClosed == \A o \in Kept, k \in RefSlots : refs[o][k] \in Kept \cup {NULL}

Active == {calls[i] : i \in 1 .. Len(calls)}
RefsIn(o, n, S) == \A k \in RefSlots : k < n => refs[o][k] \in S \cup {NULL}
Encloses(S) == /\ roots \subseteq S
               /\ \A o \in S, k \in RefSlots : refs[o][k] \in S \cup {NULL}

\* No call of gc_mark is going on.
Quiet == calls = <<>> /\ todo = {} /\ \A o \in Objects : next_ref[o] = 0

CallsOnce == \A i, j \in 1 .. Len(calls) : calls[i] = calls[j] => i = j
LeftDone == /\ \A o \in Objects \ Active : next_ref[o] = 0
            /\ \A o \in marked \ Active : RefsIn(o, GC_MAX_REFS, marked)
GoingOn == Active \subseteq marked /\ \A o \in Active : RefsIn(o, next_ref[o], marked)
OnlyReached == \A S \in SUBSET Objects : Encloses(S) => marked \subseteq S

WhenIdle == gcPc = "idle" => Quiet /\ marked = {} /\ roots = {} /\ visit = 0
WhenMark == gcPc = "mark" =>
    /\ visit = 0 /\ roots \ todo \subseteq marked
    /\ CallsOnce /\ LeftDone /\ GoingOn /\ OnlyReached
WhenSweep == gcPc = "sweep" => Quiet /\ roots = {} /\ \A o \in marked : o >= visit

GcInv == GcTypeOK /\ Counted /\ KeptClosed /\ WhenIdle /\ WhenMark /\ WhenSweep

USE GcSizesAssumption DEF Objects, RefSlots, NULL

-----------------------------------------------------------------------------
LEMMA GcInitInv == GcInit => GcInv
<1> SUFFICES ASSUME GcInit PROVE GcInv
  OBVIOUS
<1> USE DEF GcInit
<1>1. GcTypeOK
  <2>1. NoRefs \in [RefSlots -> Objects \cup {NULL}]
    BY DEF NoRefs
  <2> QED
    BY <2>1 DEF GcTypeOK
<1>2. Counted
  BY DEF Counted, NoRefs
<1>3. KeptClosed
  BY DEF KeptClosed, Kept
<1>4. WhenIdle /\ WhenMark /\ WhenSweep
  BY DEF WhenIdle, WhenMark, WhenSweep, Quiet
<1> QED
  BY <1>1, <1>2, <1>3, <1>4 DEF GcInv

\* The program's two operations.
LEMMA AllocInv == ASSUME GcInv, GcAlloc PROVE GcInv'
<1> USE DEF GcInv, GcAlloc
<1>1. heap_count \in Objects /\ heap_count \notin heap_slots
  BY DEF GcTypeOK
<1>2. GcTypeOK'
  BY DEF GcTypeOK
<1>3. Counted'
  BY DEF Counted
<1>4. refs[heap_count] = NoRefs
  BY <1>1 DEF Counted
<1>5. Kept' = Kept \cup {heap_count}
  BY DEF Kept
<1>6. KeptClosed'
  BY <1>4, <1>5 DEF KeptClosed, NoRefs
<1>7. WhenIdle'
  BY DEF WhenIdle, Quiet
<1>8. WhenMark' /\ WhenSweep'
  BY DEF WhenMark, WhenSweep
<1> QED
  BY <1>2, <1>3, <1>6, <1>7, <1>8

LEMMA AddRefInv ==
    ASSUME GcInv, NEW o \in Objects, NEW k \in RefSlots,
           NEW to \in Objects \cup {NULL}, GcAddRef(o, k, to)
    PROVE  GcInv'
<1> USE DEF GcInv
<1>0. /\ gcPc = "idle" /\ o \in heap_slots /\ to \in heap_slots \cup {NULL}
      /\ refs' = [refs EXCEPT ![o][k] = to]
      /\ ref_count' = [ref_count EXCEPT ![o] = CountWith(o, k)]
      /\ UNCHANGED <<heap_count, heap_slots, marked, gcPc, roots, todo, calls,
                     next_ref, visit>>
  BY DEF GcAddRef
<1>1. /\ CountWith(o, k) \in 0 .. GC_MAX_REFS /\ CountWith(o, k) > k
      /\ CountWith(o, k) >= ref_count[o] /\ ref_count[o] \in Nat
  <2>1. ref_count[o] \in 0 .. GC_MAX_REFS
    BY DEF GcTypeOK
  <2> QED
    BY <2>1 DEF CountWith
<1>2. GcTypeOK'
  <2>1. refs[o] \in [RefSlots -> Objects \cup {NULL}]
    BY DEF GcTypeOK
  <2>2. [refs[o] EXCEPT ![k] = to] \in [RefSlots -> Objects \cup {NULL}]
    BY <2>1
  <2>3. refs' \in [Objects -> [RefSlots -> Objects \cup {NULL}]]
    BY <1>0, <2>2 DEF GcTypeOK
  <2>4. ref_count' \in [Objects -> 0 .. GC_MAX_REFS]
    BY <1>0, <1>1 DEF GcTypeOK
  <2> QED
    BY <1>0, <2>3, <2>4 DEF GcTypeOK
<1>a. \A x \in Objects, y \in RefSlots :
          refs'[x][y] = IF x = o /\ y = k THEN to ELSE refs[x][y]
  BY <1>0 DEF GcTypeOK
<1>b. \A x \in Objects : x # o => refs'[x] = refs[x] /\ ref_count'[x] = ref_count[x]
  BY <1>0 DEF GcTypeOK
<1>c. ref_count'[o] = CountWith(o, k)
  BY <1>0 DEF GcTypeOK
<1>3. Counted'
  <2>1. ASSUME NEW x \in Objects, NEW y \in RefSlots, y >= ref_count'[x]
        PROVE  refs'[x][y] = NULL
    <3>1. CASE x = o
      <4>1. y # k /\ y >= ref_count[o]
        BY <1>1, <1>c, <2>1, <3>1
      <4> QED
        BY <4>1, <3>1, <1>a DEF Counted
    <3>2. CASE x # o
      BY <1>b, <2>1, <3>2 DEF Counted
    <3> QED
      BY <3>1, <3>2
  <2>2. ASSUME NEW x \in Objects \ heap_slots'
        PROVE  refs'[x] = NoRefs /\ ref_count'[x] = 0
    BY <1>0, <1>b, <2>2 DEF Counted
  <2> QED
    BY <2>1, <2>2 DEF Counted, NoRefs
<1>4. KeptClosed'
  <2>1. Kept = heap_slots /\ Kept' = heap_slots /\ heap_slots \subseteq Objects
    BY <1>0 DEF Kept, GcTypeOK
  <2> QED
    BY <1>0, <1>a, <2>1 DEF KeptClosed
<1>5. WhenIdle'
  BY <1>0 DEF WhenIdle, Quiet
<1>6. WhenMark' /\ WhenSweep'
  BY <1>0 DEF WhenMark, WhenSweep
<1> QED
  BY <1>2, <1>3, <1>4, <1>5, <1>6

LEMMA CollectInv ==
    ASSUME GcInv, NEW rs \in SUBSET heap_slots, GcCollect(rs)
    PROVE  GcInv'
<1> USE DEF GcInv, GcCollect
<1>1. GcTypeOK' /\ Counted'
  BY DEF GcTypeOK, Counted, programVars
<1>2. KeptClosed'
  BY DEF KeptClosed, Kept, programVars
<1>3. /\ Active' = {} /\ marked' = {} /\ calls' = <<>> /\ visit' = 0
      /\ \A o \in Objects : next_ref'[o] = 0
  BY DEF WhenIdle, Quiet, Active
<1>4. WhenMark'
  <2>1. CallsOnce' /\ LeftDone' /\ GoingOn' /\ OnlyReached'
    BY <1>3 DEF CallsOnce, LeftDone, GoingOn, OnlyReached
  <2> QED
    BY <1>3, <2>1 DEF WhenMark
<1>5. (WhenIdle /\ WhenSweep)'
  BY DEF WhenIdle, WhenSweep
<1> QED
  BY <1>1, <1>2, <1>4, <1>5

-----------------------------------------------------------------------------
LEMMA HeapInRange == ASSUME GcTypeOK PROVE heap_slots \subseteq Objects
<1> SUFFICES ASSUME NEW o \in heap_slots PROVE o \in Objects
  OBVIOUS
<1>1. o \in 0 .. heap_count - 1 /\ heap_count \in 0 .. MAX_OBJECTS
  BY DEF GcTypeOK
<1> QED
  BY <1>1

\* The marking step leaves the program's objects alone.
LEMMA MarkKeepsHeap ==
    ASSUME GcInv, gcPc = "mark", gcPc' = "mark",
           UNCHANGED <<programVars, heap_slots, roots, visit>>,
           marked' \subseteq heap_slots, todo' \subseteq todo,
           calls' \in Seq(Objects), next_ref' \in [Objects -> 0 .. GC_MAX_REFS],
           CallsOnce', LeftDone', GoingOn', OnlyReached',
           roots \ todo' \subseteq marked'
    PROVE  GcInv'
<1> USE DEF GcInv, programVars
<1>1. GcTypeOK'
  BY DEF GcTypeOK
<1>2. Counted' /\ KeptClosed'
  BY DEF Counted, KeptClosed, Kept
<1>3. WhenMark'
  BY DEF WhenMark
<1>4. WhenIdle' /\ WhenSweep'
  BY DEF WhenIdle, WhenSweep
<1> QED
  BY <1>1, <1>2, <1>3, <1>4

LEMMA MarkRootInv ==
    ASSUME GcInv, NEW r \in Objects, MarkRoot(r)
    PROVE  GcInv'
<1> USE DEF GcInv, MarkRoot
<1>1. /\ CallsOnce /\ LeftDone /\ GoingOn /\ OnlyReached /\ r \in roots
      /\ roots \ todo \subseteq marked /\ marked \subseteq heap_slots
      /\ r \in heap_slots /\ Active = {} /\ next_ref \in [Objects -> 0 .. GC_MAX_REFS]
  BY DEF WhenMark, GcTypeOK, Active
<1>2. OnlyReached'
  <2> SUFFICES ASSUME NEW S \in SUBSET Objects, Encloses(S) PROVE marked' \subseteq S
    BY DEF OnlyReached, Encloses, programVars
  <2>1. marked \subseteq S
    BY <1>1 DEF OnlyReached
  <2>2. r \in S
    BY <1>1 DEF Encloses
  <2>3. marked' \subseteq marked \cup {r}
    BY DEF MarkRoot
  <2> QED
    BY <2>1, <2>2, <2>3
<1>3. CASE r \in marked
  <2>1. marked' = marked /\ calls' = calls /\ Active' = Active
    BY <1>3 DEF Active
  <2>2. CallsOnce' /\ LeftDone' /\ GoingOn'
    BY <1>1, <2>1 DEF CallsOnce, LeftDone, GoingOn, RefsIn, programVars
  <2> QED
    BY <1>1, <1>2, <2>1, <2>2, MarkKeepsHeap DEF GcTypeOK
<1>4. CASE r \notin marked
  <2>1. calls' = <<r>> /\ calls' \in Seq(Objects) /\ Active' = {r} /\ CallsOnce'
    BY <1>4 DEF Active, CallsOnce
  <2>2. marked' \ Active' = marked
    BY <1>4, <2>1
  <2>3. LeftDone'
    BY <1>1, <2>1, <2>2 DEF LeftDone, RefsIn, programVars
  <2>4. GoingOn'
    <3>1. next_ref'[r] = 0 /\ Active' \subseteq marked'
      BY <1>1, <2>1 DEF LeftDone
    <3> QED
      BY <2>1, <3>1 DEF GoingOn, RefsIn
  <2>5. marked' \subseteq heap_slots /\ roots \ todo' \subseteq marked'
    BY <1>1
  <2> QED
    BY <1>1, <1>2, <2>1, <2>3, <2>4, <2>5, MarkKeepsHeap
<1> QED
  BY <1>3, <1>4

\* What both steps of the loop start from.
LEMMA TopActive ==
    ASSUME GcInv, gcPc = "mark", calls # <<>>
    PROVE  /\ CallsOnce /\ LeftDone /\ GoingOn /\ OnlyReached
           /\ calls \in Seq(Objects) /\ Len(calls) \in Nat \ {0}
           /\ Top \in Active /\ Top \in marked /\ Top \in Objects
           /\ marked \subseteq heap_slots /\ heap_slots \subseteq Objects
           /\ next_ref \in [Objects -> 0 .. GC_MAX_REFS]
           /\ ref_count[Top] \in 0 .. GC_MAX_REFS
           /\ roots \ todo \subseteq marked
<1>1. GcTypeOK /\ CallsOnce /\ LeftDone /\ GoingOn /\ OnlyReached
  BY DEF GcInv, WhenMark
<1>2. calls \in Seq(Objects) /\ Len(calls) \in Nat \ {0}
  BY <1>1, EmptySeq, LenProperties DEF GcTypeOK
<1>3. Top \in Active /\ Top \in Objects
  BY <1>2 DEF Active, Top
<1>4. Top \in marked
  BY <1>1, <1>3 DEF GoingOn
<1>5. /\ marked \subseteq heap_slots /\ next_ref \in [Objects -> 0 .. GC_MAX_REFS]
      /\ ref_count[Top] \in 0 .. GC_MAX_REFS
  BY <1>1, <1>3 DEF GcTypeOK
<1>6. roots \ todo \subseteq marked
  BY DEF GcInv, WhenMark
<1> QED
  BY <1>1, <1>2, <1>3, <1>4, <1>5, <1>6, HeapInRange

LEMMA MarkRefInv ==
    ASSUME GcInv, MarkRef
    PROVE  GcInv'
<1> DEFINE n == next_ref[Top]
<1>s. n = next_ref[Top]
  OBVIOUS
<1> HIDE DEF n
<1> DEFINE o == refs[Top][n]
<1>t. o = refs[Top][n]
  OBVIOUS
<1> HIDE DEF o
<1>0. /\ gcPc = "mark" /\ calls # <<>> /\ n < ref_count[Top]
      /\ gcPc' = "mark" /\ UNCHANGED <<programVars, heap_slots, roots, todo, visit>>
      /\ next_ref' = [next_ref EXCEPT ![Top] = n + 1]
  BY <1>s DEF MarkRef, HasNext, Advanced
<1>1. /\ CallsOnce /\ LeftDone /\ GoingOn /\ OnlyReached
      /\ calls \in Seq(Objects) /\ Len(calls) \in Nat \ {0}
      /\ Top \in Active /\ Top \in marked /\ Top \in Objects
      /\ marked \subseteq heap_slots /\ heap_slots \subseteq Objects
      /\ next_ref \in [Objects -> 0 .. GC_MAX_REFS]
      /\ ref_count[Top] \in 0 .. GC_MAX_REFS
      /\ roots \ todo \subseteq marked
  BY <1>0, TopActive
<1>2. n \in RefSlots
  <2>1. n \in 0 .. GC_MAX_REFS
    BY <1>s, <1>1
  <2> QED
    BY <1>0, <1>1, <2>1
<1>3. o \in heap_slots \cup {NULL}
  <2>1. KeptClosed /\ Kept = heap_slots
    BY <1>0 DEF GcInv, Kept
  <2> QED
    BY <1>t, <1>1, <1>2, <2>1 DEF KeptClosed
<1>4. next_ref' \in [Objects -> 0 .. GC_MAX_REFS]
  BY <1>0, <1>1, <1>2
<1>5. /\ next_ref'[Top] = n + 1
      /\ \A x \in Objects : x # Top => next_ref'[x] = next_ref[x]
  BY <1>0, <1>1
<1>a. RefsIn(Top, n, marked) /\ refs' = refs
  BY <1>s, <1>0, <1>1 DEF GoingOn, programVars
<1>6. CASE o = NULL \/ o \in marked
  <2>1. marked' = marked /\ calls' = calls /\ Active' = Active
    BY <1>s, <1>t, <1>6 DEF MarkRef, Active
  <2>2. RefsIn(Top, n + 1, marked)
    <3> SUFFICES ASSUME NEW k \in RefSlots, k < n + 1
                 PROVE  refs[Top][k] \in marked \cup {NULL}
      BY DEF RefsIn
    <3>1. CASE k = n
      BY <1>t, <1>6, <3>1
    <3>2. CASE k # n
      BY <1>2, <1>a, <3>2 DEF RefsIn
    <3> QED
      BY <3>1, <3>2
  <2>3. LeftDone'
    BY <1>1, <1>5, <1>a, <2>1 DEF LeftDone, RefsIn
  <2>4. GoingOn'
    <3> SUFFICES ASSUME NEW x \in Active PROVE RefsIn(x, next_ref'[x], marked)
      BY <1>1, <1>a, <2>1 DEF GoingOn, RefsIn
    <3>1. CASE x = Top
      BY <1>5, <2>2, <3>1
    <3>2. CASE x # Top
      <4>1. x \in Objects /\ RefsIn(x, next_ref[x], marked)
        BY <1>1 DEF GoingOn
      <4>2. next_ref'[x] = next_ref[x]
        BY <1>5, <3>2, <4>1
      <4> QED
        BY <4>1, <4>2
    <3> QED
      BY <3>1, <3>2
  <2>5. CallsOnce' /\ OnlyReached'
    BY <1>0, <1>1, <2>1 DEF CallsOnce, OnlyReached, Encloses, programVars
  <2> QED
    BY <1>0, <1>1, <1>4, <2>1, <2>3, <2>4, <2>5, MarkKeepsHeap
<1>7. CASE o # NULL /\ o \notin marked
  <2>1. marked' = marked \cup {o} /\ calls' = Append(calls, o) /\ o \in Objects
        /\ o \in heap_slots
    BY <1>s, <1>t, <1>1, <1>3, <1>7 DEF MarkRef
  <2>2. /\ calls' \in Seq(Objects) /\ Len(calls') = Len(calls) + 1
        /\ \A i \in 1 .. Len(calls) : calls'[i] = calls[i]
        /\ calls'[Len(calls) + 1] = o
    BY <1>1, <2>1, AppendProperties
  <2>3. Active' = Active \cup {o} /\ o \notin Active
    <3>1. o \notin Active
      BY <1>1, <1>7 DEF GoingOn
    <3>2. \A i \in 1 .. Len(calls') : i \in 1 .. Len(calls) \/ i = Len(calls) + 1
      BY <1>1, <2>2
    <3>4. ASSUME NEW x \in Active' PROVE x \in Active \cup {o}
      BY <2>2, <3>2 DEF Active
    <3>5. ASSUME NEW x \in Active PROVE x \in Active'
      <4>1. PICK i \in 1 .. Len(calls) : x = calls[i]
        BY DEF Active
      <4>2. i \in 1 .. Len(calls')
        BY <1>1, <2>2, <4>1
      <4> QED
        BY <2>2, <4>1, <4>2 DEF Active
    <3>6. o \in Active'
      <4>1. Len(calls) + 1 \in 1 .. Len(calls')
        BY <1>1, <2>2
      <4> QED
        BY <2>2, <4>1 DEF Active
    <3> QED
      BY <3>1, <3>4, <3>5, <3>6
  <2>4. CallsOnce'
    <3> SUFFICES ASSUME NEW i \in 1 .. Len(calls'), NEW j \in 1 .. Len(calls'),
                        calls'[i] = calls'[j]
                 PROVE  i = j
      BY DEF CallsOnce
    <3>1. \A m \in 1 .. Len(calls) : calls'[m] # o
      BY <2>2, <2>3 DEF Active
    <3>2. /\ i \in 1 .. Len(calls) \/ i = Len(calls) + 1
          /\ j \in 1 .. Len(calls) \/ j = Len(calls) + 1
      BY <1>1, <2>2
    <3> QED
      BY <1>1, <2>2, <3>1, <3>2 DEF CallsOnce
  <2>5. LeftDone'
    <3>1. marked' \ Active' = marked \ Active
      BY <1>7, <2>1, <2>3
    <3>2. \A x \in Objects \ Active' : next_ref'[x] = 0
      BY <1>1, <1>5, <2>3 DEF LeftDone
    <3> QED
      BY <1>1, <1>a, <2>1, <3>1, <3>2 DEF LeftDone, RefsIn
  <2>6. GoingOn'
    <3>1. Active' \subseteq marked'
      BY <1>1, <2>1, <2>3 DEF GoingOn
    <3>2. ASSUME NEW x \in Active' PROVE RefsIn(x, next_ref'[x], marked')
      <4>1. CASE x = o
        <5>1. next_ref'[o] = 0
          BY <1>1, <1>5, <2>1, <2>3 DEF LeftDone
        <5> QED
          BY <4>1, <5>1 DEF RefsIn
      <4>2. CASE x = Top
        <5>1. \A k \in RefSlots : k < n + 1 => k = n \/ k < n
          BY <1>2
        <5> QED
          BY <1>t, <1>5, <1>a, <2>1, <4>2, <5>1 DEF RefsIn
      <4>3. CASE x \in Active /\ x # Top
        <5>1. x \in Objects /\ RefsIn(x, next_ref[x], marked) /\ next_ref'[x] = next_ref[x]
          BY <1>1, <1>5, <4>3 DEF GoingOn
        <5> QED
          BY <1>a, <2>1, <5>1 DEF RefsIn
      <4> QED
        BY <2>3, <4>1, <4>2, <4>3
    <3> QED
      BY <1>a, <3>1, <3>2 DEF GoingOn, RefsIn
  <2>7. OnlyReached'
    <3> SUFFICES ASSUME NEW S \in SUBSET Objects, Encloses(S) PROVE o \in S
      <4>1. roots' = roots
        BY <1>0
      <4>2. \A S \in SUBSET Objects : Encloses(S)' <=> Encloses(S)
        BY <1>a, <4>1 DEF Encloses
      <4> QED
        BY <1>1, <2>1, <4>2 DEF OnlyReached
    <3>1. Top \in S
      BY <1>1 DEF OnlyReached
    <3> QED
      BY <1>t, <1>2, <1>7, <3>1 DEF Encloses
  <2>8. marked' \subseteq heap_slots /\ roots \ todo' \subseteq marked'
    BY <1>0, <1>1, <2>1
  <2> QED
    BY <1>0, <1>4, <2>2, <2>4, <2>5, <2>6, <2>7, <2>8, MarkKeepsHeap
<1> QED
  BY <1>6, <1>7

LEMMA MarkReturnInv ==
    ASSUME GcInv, MarkReturn
    PROVE  GcInv'
<1>0. /\ gcPc = "mark" /\ calls # <<>> /\ ~(next_ref[Top] < ref_count[Top])
      /\ gcPc' = "mark" /\ UNCHANGED <<programVars, heap_slots, marked, roots, todo, visit>>
      /\ calls' = SubSeq(calls, 1, Len(calls) - 1)
      /\ next_ref' = [next_ref EXCEPT ![Top] = 0] /\ refs' = refs
  BY DEF MarkReturn, HasNext, programVars
<1>1. /\ CallsOnce /\ LeftDone /\ GoingOn /\ OnlyReached
      /\ calls \in Seq(Objects) /\ Len(calls) \in Nat \ {0}
      /\ Top \in Active /\ Top \in marked /\ Top \in Objects
      /\ marked \subseteq heap_slots /\ heap_slots \subseteq Objects
      /\ next_ref \in [Objects -> 0 .. GC_MAX_REFS]
      /\ ref_count[Top] \in 0 .. GC_MAX_REFS
      /\ roots \ todo \subseteq marked
  BY <1>0, TopActive
<1>2. next_ref' \in [Objects -> 0 .. GC_MAX_REFS]
  BY <1>0, <1>1
<1>3. /\ next_ref'[Top] = 0
      /\ \A x \in Objects : x # Top => next_ref'[x] = next_ref[x]
  BY <1>0, <1>1
<1>4. /\ calls' \in Seq(Objects) /\ Len(calls') = Len(calls) - 1
      /\ \A i \in 1 .. Len(calls) - 1 : calls'[i] = calls[i]
  <2>1. 1 \in Int /\ Len(calls) - 1 \in Int /\ (1 <= Len(calls) - 1 \/ Len(calls) = 1)
        /\ \A i \in 1 .. Len(calls) - 1 : calls[i] \in Objects
    <3>1. \A i \in 1 .. Len(calls) : calls[i] \in Objects
      BY <1>1
    <3>2. \A i \in 1 .. Len(calls) - 1 : i \in 1 .. Len(calls)
      BY <1>1
    <3>3. \A m \in Nat \ {0} : 1 \in Int /\ m - 1 \in Int /\ (1 <= m - 1 \/ m = 1)
      OBVIOUS
    <3> QED
      BY <1>1, <3>1, <3>2, <3>3
  <2>2. /\ calls' \in Seq(Objects)
        /\ Len(calls') = IF 1 <= Len(calls) - 1 THEN Len(calls) - 1 - 1 + 1 ELSE 0
        /\ \A i \in 1 .. Len(calls) - 1 - 1 + 1 : calls'[i] = calls[1 + i - 1]
    BY <1>0, <2>1, SubSeqProperties
  <2> QED
    BY <1>1, <2>1, <2>2
<1>5. Active' = Active \ {Top}
  <2>1. \A i \in 1 .. Len(calls) - 1 : i \in 1 .. Len(calls) /\ calls[i] # Top
    BY <1>1 DEF CallsOnce, Top
  <2>2. \A i \in 1 .. Len(calls) : i \in 1 .. Len(calls) - 1 \/ i = Len(calls)
    BY <1>1
  <2> QED
    BY <1>4, <2>1, <2>2 DEF Active, Top
<1>6. CallsOnce'
  <2>1. 1 .. Len(calls') \subseteq 1 .. Len(calls)
        /\ \A i \in 1 .. Len(calls') : i \in 1 .. Len(calls) - 1
    BY <1>1, <1>4
  <2> QED
    BY <1>1, <1>4, <2>1 DEF CallsOnce
<1>7. RefsIn(Top, GC_MAX_REFS, marked)
  <2>1. /\ RefsIn(Top, next_ref[Top], marked) /\ Counted
        /\ next_ref[Top] \in 0 .. GC_MAX_REFS
    BY <1>1 DEF GoingOn, GcInv
  <2> SUFFICES ASSUME NEW k \in RefSlots PROVE refs[Top][k] \in marked \cup {NULL}
    BY DEF RefsIn
  <2>2. CASE k < next_ref[Top]
    BY <2>1, <2>2 DEF RefsIn
  <2>3. CASE ~(k < next_ref[Top])
    <3>1. k >= ref_count[Top]
      BY <1>0, <1>1, <2>1, <2>3
    <3> QED
      BY <1>1, <2>1, <3>1 DEF Counted
  <2> QED
    BY <2>2, <2>3
<1>8. LeftDone'
  BY <1>0, <1>1, <1>3, <1>5, <1>7 DEF LeftDone, RefsIn
<1>9. GoingOn'
  BY <1>0, <1>1, <1>3, <1>5 DEF GoingOn, RefsIn
<1>10. OnlyReached'
  BY <1>0, <1>1 DEF OnlyReached, Encloses
<1> QED
  BY <1>0, <1>1, <1>2, <1>4, <1>6, <1>8, <1>9, <1>10, MarkKeepsHeap

\* From the last return of gc_mark on, what is marked is what is kept.
LEMMA MarkDoneInv ==
    ASSUME GcInv, MarkDone
    PROVE  GcInv' /\ Kept' = marked
<1> USE DEF GcInv, MarkDone, programVars
<1>1. Active = {} /\ LeftDone /\ marked \subseteq heap_slots /\ visit = 0
  BY DEF WhenMark, GcTypeOK, Active
<1>2. heap_slots \subseteq Objects
  BY HeapInRange
<1>3. Kept' = marked
  <2>1. \A o \in heap_slots : ~(o < 0)
    BY <1>2
  <2>2. Kept' = {o \in heap_slots : o < 0 \/ o \in marked}
    BY <1>1 DEF Kept
  <2> QED
    BY <1>1, <2>1, <2>2
<1>4. GcTypeOK' /\ Counted'
  BY DEF GcTypeOK, Counted
<1>5. KeptClosed'
  BY <1>1, <1>3 DEF KeptClosed, LeftDone, RefsIn
<1>6. WhenSweep'
  <2>1. \A o \in Objects : next_ref[o] = 0
    BY <1>1 DEF LeftDone
  <2>2. \A o \in marked : o >= 0
    BY <1>1, <1>2
  <2> QED
    BY <1>1, <2>1, <2>2 DEF WhenSweep, Quiet
<1>7. WhenIdle' /\ WhenMark'
  BY DEF WhenIdle, WhenMark
<1> QED
  BY <1>3, <1>4, <1>5, <1>6, <1>7

\* The sweep changes nothing of what is kept.
LEMMA SweepFreeInv ==
    ASSUME GcInv, SweepFree
    PROVE  GcInv' /\ Kept' = Kept /\ \A o \in Kept : refs'[o] = refs[o]
<1> USE DEF GcInv, SweepFree
<1>1. /\ visit \in Objects /\ heap_slots \subseteq Objects
      /\ refs \in [Objects -> [RefSlots -> Objects \cup {NULL}]]
      /\ ref_count \in [Objects -> 0 .. GC_MAX_REFS]
  BY HeapInRange DEF GcTypeOK
<1>2. /\ refs'[visit] = NoRefs /\ ref_count'[visit] = 0
      /\ \A o \in Objects : o # visit => refs'[o] = refs[o] /\ ref_count'[o] = ref_count[o]
  BY <1>1
<1>3. Kept' = Kept /\ visit \notin Kept /\ Kept \subseteq Objects
  <2>1. \A o \in Objects : o < visit + 1 <=> o < visit \/ o = visit
    BY <1>1
  <2>2. ~(visit < visit)
    BY <1>1
  <2>3. /\ Kept = {o \in heap_slots : o < visit \/ o \in marked}
        /\ Kept' = {o \in heap_slots \ {visit} : o < visit + 1 \/ o \in marked}
    BY DEF Kept
  <2>4. visit \notin Kept /\ Kept \subseteq Objects
    BY <1>1, <2>2, <2>3
  <2>5. ASSUME NEW o \in Objects PROVE o \in Kept' <=> o \in Kept
    BY <1>1, <2>1, <2>3, <2>4, <2>5
  <2> QED
    BY <1>1, <2>3, <2>4, <2>5
<1>4. GcTypeOK'
  <2>1. NoRefs \in [RefSlots -> Objects \cup {NULL}] /\ 0 \in 0 .. GC_MAX_REFS
    BY DEF NoRefs
  <2>2. /\ refs' \in [Objects -> [RefSlots -> Objects \cup {NULL}]]
        /\ ref_count' \in [Objects -> 0 .. GC_MAX_REFS]
    BY <1>1, <2>1
  <2>3. visit' \in Nat /\ heap_slots' \subseteq 0 .. heap_count' - 1
    BY DEF GcTypeOK
  <2>4. roots = {}
    BY DEF WhenSweep
  <2> QED
    BY <2>2, <2>3, <2>4 DEF GcTypeOK
<1>5. Counted'
  BY <1>2 DEF Counted, NoRefs
<1>6. KeptClosed'
  BY <1>2, <1>3 DEF KeptClosed
<1>7. WhenSweep'
  <2>1. Quiet' /\ roots' = {}
    BY DEF WhenSweep, Quiet
  <2>2. \A o \in marked : o \in Objects /\ o >= visit /\ o # visit
    BY <1>1 DEF WhenSweep, GcTypeOK
  <2> QED
    BY <1>1, <2>1, <2>2 DEF WhenSweep
<1>8. WhenIdle' /\ WhenMark'
  BY DEF WhenIdle, WhenMark
<1> QED
  BY <1>2, <1>3, <1>4, <1>5, <1>6, <1>7, <1>8

LEMMA SweepPassInv ==
    ASSUME GcInv, SweepPass
    PROVE  GcInv' /\ Kept' = Kept /\ refs' = refs
<1> USE DEF GcInv, SweepPass, Unmarked, programVars
<1>1. visit \in Nat /\ heap_slots \subseteq Objects /\ marked \subseteq heap_slots
  BY HeapInRange DEF GcTypeOK
<1>2. Kept' = Kept
  <2>1. \A o \in Objects : o < visit + 1 <=> o < visit \/ o = visit
    BY <1>1
  <2> QED
    BY <1>1, <2>1 DEF Kept
<1>3. GcTypeOK' /\ Counted'
  BY <1>1 DEF GcTypeOK, Counted
<1>4. KeptClosed'
  BY <1>2 DEF KeptClosed
<1>5. WhenSweep'
  <2>1. Quiet' /\ roots' = {}
    BY DEF WhenSweep, Quiet
  <2>2. \A o \in marked' : o \in Objects /\ o >= visit /\ o # visit
    BY <1>1 DEF WhenSweep
  <2> QED
    BY <1>1, <2>1, <2>2 DEF WhenSweep
<1>6. WhenIdle' /\ WhenMark'
  BY DEF WhenIdle, WhenMark
<1> QED
  BY <1>2, <1>3, <1>4, <1>5, <1>6

LEMMA SweepDoneInv ==
    ASSUME GcInv, SweepDone
    PROVE  GcInv' /\ Kept' = Kept /\ refs' = refs
<1> USE DEF GcInv, SweepDone, programVars
<1>1. /\ visit \in Nat /\ heap_count \in Nat /\ visit >= heap_count
      /\ heap_slots \subseteq Objects /\ marked \subseteq heap_slots
      /\ \A o \in heap_slots : o \in 0 .. heap_count - 1
  BY HeapInRange DEF GcTypeOK
<1>2. \A o \in heap_slots : o < visit
  BY <1>1
<1>3. marked = {}
  <2> SUFFICES ASSUME NEW o \in marked PROVE FALSE
    OBVIOUS
  <2>1. o >= visit /\ o < visit /\ o \in Objects
    BY <1>1, <1>2 DEF WhenSweep
  <2> QED
    BY <1>1, <2>1
<1>4. Kept' = heap_slots /\ Kept = heap_slots
  BY <1>2 DEF Kept
<1>5. GcTypeOK' /\ Counted'
  BY DEF GcTypeOK, Counted
<1>6. KeptClosed'
  BY <1>4 DEF KeptClosed
<1>7. WhenIdle'
  BY <1>3 DEF WhenIdle, WhenSweep, Quiet
<1>8. WhenMark' /\ WhenSweep'
  BY DEF WhenMark, WhenSweep
<1> QED
  BY <1>4, <1>5, <1>6, <1>7, <1>8

-----------------------------------------------------------------------------
LEMMA GcStepInv == GcInv /\ [GcNext]_gcVars => GcInv'
<1> SUFFICES ASSUME GcInv, [GcNext]_gcVars PROVE GcInv'
  OBVIOUS
<1>1. CASE GcAlloc
  BY <1>1, AllocInv
<1>2. CASE \E o \in Objects, k \in RefSlots, to \in Objects \cup {NULL} : GcAddRef(o, k, to)
  BY <1>2, AddRefInv
<1>3. CASE \E rs \in SUBSET heap_slots : GcCollect(rs)
  BY <1>3, CollectInv
<1>4. CASE \E r \in Objects : MarkRoot(r)
  BY <1>4, MarkRootInv
<1>5. CASE MarkRef
  BY <1>5, MarkRefInv
<1>6. CASE MarkReturn
  BY <1>6, MarkReturnInv
<1>7. CASE MarkDone
  BY <1>7, MarkDoneInv
<1>8. CASE SweepFree \/ SweepPass \/ SweepDone
  BY <1>8, SweepFreeInv, SweepPassInv, SweepDoneInv
<1>9. CASE UNCHANGED gcVars
  <2> USE <1>9 DEF gcVars, programVars
  <2>1. GcTypeOK' /\ Counted' /\ Kept' = Kept
    BY DEF GcInv, GcTypeOK, Counted, Kept
  <2>2. KeptClosed' /\ WhenIdle' /\ WhenSweep'
    BY <2>1 DEF GcInv, KeptClosed, WhenIdle, WhenSweep, Quiet
  <2>3. Active' = Active /\ CallsOnce' = CallsOnce
    BY DEF Active, CallsOnce
  <2>4. GoingOn' = GoingOn /\ LeftDone' = LeftDone /\ OnlyReached' = OnlyReached
    BY <2>3 DEF GoingOn, LeftDone, OnlyReached, RefsIn, Encloses
  <2>5. WhenMark'
    BY <2>3, <2>4 DEF GcInv, WhenMark
  <2> QED
    BY <2>1, <2>2, <2>5 DEF GcInv
<1> QED
  BY <1>1, <1>2, <1>3, <1>4, <1>5, <1>6, <1>7, <1>8, <1>9 DEF GcNext, Mark

\* The collector keeps its invariant, whatever references the program sets.
THEOREM GcSafe == GcSpec => []GcInv
<1>1. GcInit => GcInv
  BY GcInitInv
<1>2. GcInv /\ [GcNext]_gcVars => GcInv'
  BY GcStepInv
<1> QED
  BY <1>1, <1>2, PTL DEF GcSpec

\* Between two collections no reference that gc_mark traces names an object
\* that heap_free_object has given back.
THEOREM ReferencesHold == GcSpec => []NoDangling
<1>1. GcInv => NoDangling
  BY DEF GcInv, KeptClosed, Kept, NoDangling
<1> QED
  BY <1>1, GcSafe, PTL

\* gc_mark finds no mark of an earlier collection.
THEOREM NoOldMark == GcSpec => []MarksClear
<1>1. GcInv => MarksClear
  BY DEF GcInv, WhenIdle, MarksClear
<1> QED
  BY <1>1, GcSafe, PTL

-----------------------------------------------------------------------------
\* Refinement.  The last step of the marking is the abstract collection; what
\* is marked then is what the roots reach: the marked objects are closed under
\* references, and they lie in every closed set around the roots.
LEMMA MarkedIsReach ==
    ASSUME GcInv, gcPc = "mark", calls = <<>>, todo = {}
    PROVE  marked = Abstract!Reach(roots)
<1>1. /\ roots \subseteq marked /\ LeftDone /\ OnlyReached /\ Active = {}
      /\ marked \subseteq heap_slots /\ Kept = heap_slots
  BY DEF GcInv, WhenMark, GcTypeOK, Active, Kept
<1>2. heap_slots \subseteq Objects
  BY HeapInRange DEF GcInv
<1>3. \A o \in Objects : Points[o] = refs[o]
  BY <1>1 DEF Points, GcInv, Counted
<1>4. Abstract!Closed(marked)
  <2>1. \A o \in marked, k \in RefSlots : refs[o][k] \in marked \cup {NULL}
    BY <1>1 DEF LeftDone, RefsIn
  <2> QED
    BY <1>1, <1>2, <1>3, <2>1 DEF Abstract!Closed
<1>5. ASSUME NEW S \in SUBSET Objects, roots \subseteq S, Abstract!Closed(S)
      PROVE  marked \subseteq S
  <2>1. Encloses(S)
    BY <1>3, <1>5 DEF Encloses, Abstract!Closed
  <2> QED
    BY <1>1, <2>1 DEF OnlyReached
<1>6. marked \in SUBSET Objects
  BY <1>1, <1>2
<1> QED
  BY <1>1, <1>4, <1>5, <1>6 DEF Abstract!Reach

abstractVars == <<Made, Kept, Points, Asked>>

LEMMA InitRefines == GcInit => Abstract!Init
  BY DEF GcInit, Abstract!Init, Abstract!Nowhere, Made, Kept, Points, Asked, NoRefs

LEMMA AllocRefines ==
    ASSUME GcInv, GcAlloc
    PROVE  \E o \in Objects : Abstract!New(o)
<1> USE DEF GcAlloc
<1>1. heap_count \in Objects /\ heap_count \in Nat
  BY DEF GcInv, GcTypeOK
<1>2. Kept' = Kept \cup {heap_count} /\ Asked' = {} /\ Asked = {}
  BY DEF Kept, Asked
<1>3. Made' = Made \cup {heap_count} /\ heap_count \notin Made
  BY <1>1 DEF Made
<1>4. refs[heap_count] = NoRefs
  BY <1>1 DEF GcInv, GcTypeOK, Counted
<1>5. Points' = Points
  BY <1>2, <1>4 DEF Points
<1> QED
  BY <1>1, <1>2, <1>3, <1>5 DEF Abstract!New

LEMMA AddRefRefines ==
    ASSUME GcInv, NEW o \in Objects, NEW k \in RefSlots,
           NEW to \in Objects \cup {NULL}, GcAddRef(o, k, to)
    PROVE  Abstract!Link(o, k, to)
<1>0. /\ gcPc = "idle" /\ o \in heap_slots /\ to \in heap_slots \cup {NULL}
      /\ refs' = [refs EXCEPT ![o][k] = to]
      /\ UNCHANGED <<heap_count, heap_slots, marked, gcPc, visit, roots>>
  BY DEF GcAddRef
<1>1. /\ Kept = heap_slots /\ Kept' = Kept /\ Made' = Made
      /\ Asked' = {} /\ Asked = {}
  BY <1>0 DEF Kept, Made, Asked
<1>2. Points = refs
  BY <1>1 DEF Points, GcInv, Counted, GcTypeOK
<1>3. \A x \in Objects \ {o} : refs'[x] = refs[x]
  BY <1>0 DEF GcInv, GcTypeOK
<1>4. Points' = refs'
  <2>1. \A x \in Objects : IF x \in Kept' THEN TRUE ELSE refs'[x] = NoRefs
    BY <1>0, <1>1, <1>3 DEF GcInv, Counted
  <2>2. refs' = [x \in Objects |-> refs'[x]]
    BY <1>0 DEF GcInv, GcTypeOK
  <2> QED
    BY <2>1, <2>2 DEF Points
<1> QED
  BY <1>0, <1>1, <1>2, <1>4 DEF Abstract!Link

LEMMA CollectRefines ==
    ASSUME GcInv, NEW rs \in SUBSET heap_slots, GcCollect(rs)
    PROVE  rs \in SUBSET Kept /\ Abstract!Ask(rs)
<1> USE DEF GcCollect, programVars
<1>1. Kept = heap_slots /\ Kept' = Kept /\ Made' = Made /\ Points' = Points
  BY DEF Kept, Made, Points
<1>2. Asked = {} /\ Asked' = {rs}
  BY DEF Asked
<1> QED
  BY <1>1, <1>2 DEF Abstract!Ask

LEMMA DoneRefines == ASSUME GcInv, MarkDone PROVE Abstract!Collect
<1> USE DEF MarkDone, programVars
<1>1. Kept' = marked /\ Kept = heap_slots /\ marked \subseteq heap_slots
  BY MarkDoneInv DEF Kept, GcInv, GcTypeOK
<1>2. Kept' = Abstract!Reach(roots)
  BY <1>1, MarkedIsReach
<1>3. Asked = {roots} /\ Asked' = {} /\ Made' = Made
  BY DEF Asked, Made
<1>4. Points' = [o \in Objects |-> IF o \in Kept' THEN Points[o] ELSE Abstract!Nowhere]
  BY <1>1 DEF Points, NoRefs, Abstract!Nowhere
<1> QED
  BY <1>2, <1>3, <1>4 DEF Abstract!Collect

LEMMA OthersStutter ==
    ASSUME GcInv, \/ \E r \in Objects : MarkRoot(r)
                  \/ MarkRef \/ MarkReturn \/ SweepFree \/ SweepPass \/ SweepDone
                  \/ UNCHANGED gcVars
    PROVE  UNCHANGED abstractVars
<1>1. CASE (\E r \in Objects : MarkRoot(r)) \/ MarkRef \/ MarkReturn
  <2>1. gcPc = "mark" /\ gcPc' = "mark" /\ UNCHANGED <<programVars, heap_slots, roots>>
    BY <1>1 DEF MarkRoot, MarkRef, MarkReturn
  <2> QED
    BY <2>1 DEF abstractVars, Made, Kept, Points, Asked, programVars
<1>2. CASE SweepFree
  <2>1. Kept' = Kept /\ \A o \in Kept : refs'[o] = refs[o]
    BY <1>2, SweepFreeInv
  <2>2. Points' = Points
    BY <2>1 DEF Points
  <2> QED
    BY <1>2, <2>1, <2>2 DEF SweepFree, abstractVars, Made, Asked
<1>3. CASE SweepPass
  BY <1>3, SweepPassInv DEF SweepPass, abstractVars, Made, Points, Asked, programVars
<1>4. CASE SweepDone
  BY <1>4, SweepDoneInv DEF SweepDone, abstractVars, Made, Points, Asked, programVars
<1>5. CASE UNCHANGED gcVars
  BY <1>5 DEF gcVars, programVars, abstractVars, Made, Kept, Points, Asked
<1> QED
  BY <1>1, <1>2, <1>3, <1>4, <1>5

LEMMA StepRefines == GcInv /\ [GcNext]_gcVars => [Abstract!Next]_abstractVars
<1> SUFFICES ASSUME GcInv, [GcNext]_gcVars PROVE [Abstract!Next]_abstractVars
  OBVIOUS
<1>1. CASE GcAlloc
  BY <1>1, AllocRefines DEF Abstract!Next
<1>2. CASE \E o \in Objects, k \in RefSlots, to \in Objects \cup {NULL} : GcAddRef(o, k, to)
  BY <1>2, AddRefRefines DEF Abstract!Next
<1>3. CASE \E rs \in SUBSET heap_slots : GcCollect(rs)
  BY <1>3, CollectRefines DEF Abstract!Next
<1>4. CASE MarkDone
  BY <1>4, DoneRefines DEF Abstract!Next
<1>5. CASE \/ \E r \in Objects : MarkRoot(r)
           \/ MarkRef \/ MarkReturn \/ SweepFree \/ SweepPass \/ SweepDone
           \/ UNCHANGED gcVars
  BY <1>5, OthersStutter
<1> QED
  BY <1>1, <1>2, <1>3, <1>4, <1>5 DEF GcNext, Mark

\* The collector implements the collection: it frees what the roots do not
\* reach, and nothing else, for every shape of the references.
THEOREM CollectorImplements == GcSpec => IsCollection
<1>1. GcInit => Abstract!Init
  BY InitRefines
<1>2. GcInv /\ [GcNext]_gcVars => [Abstract!Next]_abstractVars
  BY StepRefines
<1> QED
  BY <1>1, <1>2, GcSafe, PTL DEF GcSpec, IsCollection, Abstract!Spec, abstractVars
=============================================================================
