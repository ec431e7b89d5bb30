-------------------------- MODULE Allocation_proofs -------------------------
(***************************************************************************)
(* Theorems about the two allocators that outlive a process.               *)
(*                                                                         *)
(* Heap: the pool is always tiled by its blocks, and the heap implements   *)
(* Allocator, for every size of the pool and whatever sizes are asked for. *)
(*                                                                         *)
(* SharedMemory: how long a segment keeps its frames, for every number of  *)
(* processes, pages, frames and segments.                                  *)
(***************************************************************************)
EXTENDS Heap, SharedMemory, FiniteSetTheorems, FunctionTheorems,
        WellFoundedInduction, TLAPS

USE DEF HdrSize, MinSplit, Sentinel, Starts, EndOf

\* A set of natural numbers below a bound has a greatest member: the merge
\* loop of kfree ends.
LEMMA Greatest ==
    ASSUME NEW bound \in Nat, NEW S, S \subseteq 0 .. bound, S # {}
    PROVE  \E m \in S : \A k \in S : k <= m
<1> DEFINE T == {bound - k : k \in S}
<1>0. \A k \in S : k \in Nat /\ k <= bound /\ bound - k \in Nat
  OBVIOUS
<1>1. T \subseteq Nat /\ T # {}
  <2>1. \A t \in T : t \in Nat
    BY <1>0
  <2>2. PICK k \in S : TRUE
    OBVIOUS
  <2>3. bound - k \in T
    OBVIOUS
  <2> HIDE DEF T
  <2> QED
    BY <2>1, <2>3
<1>2. PICK x \in T : \A y \in T : ~ (<<y, x>> \in OpToRel(<, Nat))
  BY <1>1, WFMin, NatLessThanWellFounded
<1>3. \A y \in T : ~ (y < x)
  <2> TAKE y \in T
  <2>1. x \in Nat /\ y \in Nat
    BY <1>1
  <2> QED
    BY <1>2, <2>1 DEF OpToRel
<1>4. PICK m \in S : x = bound - m
  OBVIOUS
<1>5. \A k \in S : k <= m
  <2> TAKE k \in S
  <2>1. bound - k \in T
    OBVIOUS
  <2> QED
    BY <1>0, <1>3, <1>4, <2>1
<1> QED
  BY <1>5

\* A size rounded up is a positive multiple of four, at least the size.
LEMMA AlignedUp ==
    ASSUME NEW n \in Nat \ {0}
    PROVE  Aligned(n) \in Nat \ {0} /\ Aligned(n) >= n /\ Aligned(n) % 4 = 0
BY DEF Aligned

\* heap_init lays out one block between the start and the sentinel.
LEMMA InitTiled == HeapInit => Tiled
<1> SUFFICES ASSUME HeapInit
             PROVE  Tiled
  OBVIOUS
<1>1. /\ Starts = {0}
      /\ blocks[0] = [size |-> PoolBytes - 2 * HdrSize, used |-> FALSE]
  BY DEF HeapInit
<1>2. EndOf(0) = Sentinel /\ 0 \in 0 .. Sentinel - 1
  BY <1>1, PoolAssumption
<1>3. 0 % 4 = 0
  OBVIOUS
<1>4. 0 \in Starts /\ \A a \in Starts : a \in 0 .. Sentinel - 1 /\ a % 4 = 0
  BY <1>1, <1>2, <1>3
<1>5. blocks \in [Starts -> [size : Nat \ {0}, used : BOOLEAN]]
  BY PoolAssumption DEF HeapInit
<1>6. \A a \in Starts : /\ EndOf(a) \in Starts \cup {Sentinel}
                        /\ \A b \in Starts : a < b => EndOf(a) <= b
  BY <1>1, <1>2
<1> QED
  BY <1>4, <1>5, <1>6 DEF Tiled

\* The numbers of Tiled.
LEMMA Geometry ==
    ASSUME Tiled, NEW a \in Starts
    PROVE  /\ a \in Nat /\ a < Sentinel /\ a % 4 = 0
           /\ blocks[a].size \in Nat /\ blocks[a].size > 0
           /\ EndOf(a) \in Starts \cup {Sentinel}
           /\ a + HdrSize < EndOf(a) /\ EndOf(a) <= Sentinel
           /\ \A b \in Starts : a < b => EndOf(a) <= b
<1>1. a \in Nat /\ a < Sentinel
  BY PoolAssumption DEF Tiled
<1>2. a % 4 = 0
  BY DEF Tiled
<1>3. blocks[a].size \in Nat /\ blocks[a].size > 0
  BY DEF Tiled
<1>4. EndOf(a) \in Starts \cup {Sentinel}
  BY DEF Tiled
<1>5. EndOf(a) <= Sentinel
  <2>1. CASE EndOf(a) = Sentinel
    BY <2>1, PoolAssumption
  <2>2. CASE EndOf(a) \in Starts
    BY <2>2, PoolAssumption DEF Tiled
  <2> QED
    BY <1>4, <2>1, <2>2
<1>6. a + HdrSize < EndOf(a)
  BY <1>1, <1>3
<1>7. \A b \in Starts : a < b => EndOf(a) <= b
  BY DEF Tiled
<1> QED
  BY <1>1, <1>2, <1>3, <1>4, <1>5, <1>6, <1>7

\* The state after kmalloc has used block a.
MallocAt(a, n) ==
    blocks' = IF Splits(a, n) THEN Split(a, n)
              ELSE [blocks EXCEPT ![a].used = TRUE]

LEMMA MallocTiled ==
    ASSUME Tiled, NEW a \in Starts, NEW n \in Nat \ {0}, n % 4 = 0,
           Fits(a, n), MallocAt(a, n)
    PROVE  Tiled'
<1>1. CASE ~Splits(a, n)
  <2>1. blocks' = [blocks EXCEPT ![a].used = TRUE]
    BY <1>1 DEF MallocAt
  <2>2. /\ Starts' = Starts
        /\ \A b \in Starts : blocks'[b].size = blocks[b].size
    BY <2>1 DEF Tiled
  <2>3. blocks' \in [Starts -> [size : Nat \ {0}, used : BOOLEAN]]
    BY <2>1 DEF Tiled
  <2>4. \A b \in Starts : EndOf(b)' = EndOf(b)
    BY <2>2
  <2> QED
    BY <2>2, <2>3, <2>4 DEF Tiled
<1>2. CASE Splits(a, n)
  <2> DEFINE rest == a + HdrSize + n
  <2>0. /\ a \in Nat /\ a % 4 = 0 /\ blocks[a].size \in Nat
        /\ EndOf(a) \in Starts \cup {Sentinel} /\ EndOf(a) <= Sentinel
    BY Geometry
  <2>1. /\ rest % 4 = 0 /\ rest \in Nat
        /\ blocks[a].size >= n + HdrSize + MinSplit
    BY <1>2, <2>0 DEF Splits
  <2>2. /\ DOMAIN blocks' = Starts \cup {rest}
        /\ blocks'[a] = [size |-> n, used |-> TRUE]
        /\ blocks'[rest] = [size |-> blocks[a].size - n - HdrSize, used |-> FALSE]
        /\ \A b \in Starts : b # a /\ b # rest => blocks'[b] = blocks[b]
    BY <1>2, <2>1 DEF MallocAt, Split
  <2>3. a < rest /\ rest < EndOf(a)
    BY <2>0, <2>1
  <2>4. rest \notin Starts
    BY <2>0, <2>1, <2>3, Geometry
  <2>5. /\ Starts' = Starts \cup {rest}
        /\ EndOf(a)' = rest /\ EndOf(rest)' = EndOf(a)
        /\ \A b \in Starts : b # a => EndOf(b)' = EndOf(b)
    BY <2>0, <2>1, <2>2, <2>4
  <2>6. \A b \in Starts' : b \in 0 .. Sentinel - 1 /\ b % 4 = 0
    BY <2>0, <2>1, <2>3, <2>5, Geometry, PoolAssumption
  <2>7. blocks' \in [Starts' -> [size : Nat \ {0}, used : BOOLEAN]]
    <3>1. blocks' = Split(a, n)
      BY <1>2 DEF MallocAt
    <3>2. blocks[a].size - n - HdrSize \in Nat \ {0}
      BY <2>0, <2>1
    <3>3. \A b \in Starts : blocks[b] \in [size : Nat \ {0}, used : BOOLEAN]
      BY DEF Tiled
    <3> QED
      BY <2>5, <3>1, <3>2, <3>3 DEF Split
  <2>9. \A b \in Starts' : EndOf(b)' \in Starts' \cup {Sentinel}
    BY <2>0, <2>5, Geometry
  <2>10. \A b, c \in Starts' : b < c => EndOf(b)' <= c
    <3> SUFFICES ASSUME NEW b \in Starts', NEW c \in Starts', b < c
                 PROVE  EndOf(b)' <= c
      OBVIOUS
    <3>1. CASE b = rest
      <4>1. c \in Starts /\ a < c
        BY <3>1, <2>0, <2>1, <2>3, <2>5, Geometry
      <4> QED
        BY <3>1, <4>1, <2>5, Geometry
    <3>2. CASE b = a
      <4>1. CASE c = rest
        BY <3>2, <4>1, <2>1, <2>5
      <4>2. CASE c \in Starts
        BY <3>2, <4>2, <2>0, <2>1, <2>3, <2>5, Geometry
      <4> QED
        BY <4>1, <4>2, <2>5
    <3>3. CASE b \in Starts /\ b # a /\ c = rest
      <4>1. a < b => rest < b
        BY <3>3, <2>0, <2>1, <2>3, Geometry
      <4>2. b < a
        BY <3>3, <4>1, <2>0, <2>1, Geometry
      <4> QED
        BY <3>3, <4>2, <2>0, <2>1, <2>3, <2>5, Geometry
    <3>4. CASE b \in Starts /\ b # a /\ c \in Starts
      BY <3>4, <2>5, Geometry
    <3> QED
      BY <3>1, <3>2, <3>3, <3>4, <2>5
  <2> QED
    BY <2>0, <2>5, <2>6, <2>7, <2>9, <2>10 DEF Tiled
<1> QED
  BY <1>1, <1>2

-----------------------------------------------------------------------------
\* What the merge loop of kfree finds behind block a.
Gone(a) == {b \in Starts : Follows(a, b)}

\* The merged block reaches to a header that stays, or to the sentinel, and
\* no header between the two is left.
LEMMA MergedBlock ==
    ASSUME Tiled, NEW a \in Starts
    PROVE  \E stop \in Int :
             /\ Merged(a) = [b \in Starts \ Gone(a) |->
                               IF b = a THEN [size |-> stop - a - HdrSize,
                                              used |-> FALSE]
                               ELSE blocks[b]]
             /\ stop \in (Starts \ Gone(a)) \cup {Sentinel}
             /\ EndOf(a) <= stop
             /\ \A b \in Starts \ Gone(a) : a < b => stop <= b
<1> DEFINE gone == Gone(a)
           IsLast(e) == \A b \in gone : EndOf(b) <= e
           stop == IF gone = {} THEN EndOf(a)
                   ELSE CHOOSE e \in {EndOf(b) : b \in gone} : IsLast(e)
<1>1. Merged(a) = [b \in Starts \ gone |->
                     IF b = a THEN [size |-> stop - a - HdrSize, used |-> FALSE]
                     ELSE blocks[b]]
  BY DEF Merged, Gone
<1>2. \A b \in Starts : /\ b \in Int /\ EndOf(b) \in Int /\ b < EndOf(b)
                        /\ b < Sentinel
                        /\ EndOf(b) \in Starts \cup {Sentinel}
                        /\ blocks[b].used \in BOOLEAN
  BY PoolAssumption DEF Tiled
<1>3. \A b, c \in Starts : b < c => EndOf(b) <= c
  BY DEF Tiled
<1>4. \A b \in gone : /\ b \in Starts /\ a < b /\ ~blocks[b].used
                      /\ \A c \in Starts : a < c /\ c < b => ~blocks[c].used
  BY DEF Gone, Follows
<1>5. \A b \in gone, c \in Starts : a < c /\ c < b => c \in gone
  BY <1>2, <1>4 DEF Gone, Follows
<1>6. CASE gone = {}
  <2>1. stop = EndOf(a)
    BY <1>6
  <2>2. stop \in Int /\ stop \in (Starts \ gone) \cup {Sentinel}
    BY <2>1, <1>2, <1>6
  <2>3. \A b \in Starts \ gone : a < b => stop <= b
    BY <2>1, <1>3
  <2>4. EndOf(a) <= stop
    BY <2>1, <1>2
  <2> HIDE DEF stop
  <2> QED
    BY <1>1, <2>2, <2>3, <2>4
<1>7. CASE gone # {}
  <2>1. PICK m \in gone : \A k \in gone : k <= m
    <3>1. gone \subseteq 0 .. Sentinel /\ Sentinel \in Nat
      BY <1>4, PoolAssumption DEF Tiled
    <3> QED
      BY <3>1, <1>7, Greatest
  <2>2. \A b \in gone : EndOf(b) <= EndOf(m)
    BY <2>1, <1>2, <1>3, <1>4
  <2>3. stop = EndOf(m)
    <3>1. EndOf(m) \in {EndOf(b) : b \in gone} /\ IsLast(EndOf(m))
      BY <2>1, <2>2
    <3>2. \A e \in {EndOf(b) : b \in gone} : IsLast(e) => e = EndOf(m)
      BY <2>1, <2>2, <1>2, <1>4
    <3> QED
      BY <3>1, <3>2, <1>7
  <2>4. stop \notin gone
    BY <2>1, <2>3, <1>2, <1>4
  <2>5. EndOf(a) <= stop
    BY <2>1, <2>3, <1>2, <1>3, <1>4
  <2>6. ASSUME NEW b \in Starts \ gone, a < b
        PROVE  stop <= b
    <3>1. m < b
      BY <2>1, <2>6, <1>2, <1>4, <1>5
    <3> QED
      BY <3>1, <2>1, <2>3, <1>3, <1>4
  <2> QED
    BY <1>1, <1>2, <1>4, <2>1, <2>3, <2>4, <2>5, <2>6
<1> HIDE DEF stop, gone
<1> QED
  BY <1>6, <1>7 DEF gone

LEMMA FreeTiled ==
    ASSUME Tiled, NEW a \in Starts, Kfree(a)
    PROVE  Tiled'
<1>1. PICK stop \in Int :
         /\ Merged(a) = [b \in Starts \ Gone(a) |->
                           IF b = a THEN [size |-> stop - a - HdrSize,
                                          used |-> FALSE]
                           ELSE blocks[b]]
         /\ stop \in (Starts \ Gone(a)) \cup {Sentinel}
         /\ EndOf(a) <= stop
         /\ \A b \in Starts \ Gone(a) : a < b => stop <= b
  BY MergedBlock
<1>2. /\ a \notin Gone(a) /\ 0 \notin Gone(a)
      /\ \A b \in Gone(a) : b \in Starts /\ a < b /\ ~blocks[b].used
      /\ \A b \in Gone(a), c \in Starts : a < c /\ c < b => c \in Gone(a)
  BY DEF Gone, Follows, Tiled
<1>3. /\ Starts' = Starts \ Gone(a)
      /\ blocks'[a] = [size |-> stop - a - HdrSize, used |-> FALSE]
      /\ \A b \in Starts' : b # a => blocks'[b] = blocks[b]
  BY <1>1, <1>2 DEF Kfree
<1>4. EndOf(a)' = stop /\ \A b \in Starts' : b # a => EndOf(b)' = EndOf(b)
  BY <1>1, <1>3 DEF Tiled
<1>5. \A b \in Starts' : EndOf(b)' \in Starts' \cup {Sentinel}
  <2> TAKE b \in Starts'
  <2>1. CASE b = a
    BY <2>1, <1>1, <1>3, <1>4
  <2>2. CASE b # a
    <3>1. EndOf(b) \in Starts \cup {Sentinel} /\ b < EndOf(b) /\ b \in Int
      BY <1>3 DEF Tiled
    <3>2. ASSUME EndOf(b) \in Gone(a)
          PROVE  FALSE
      <4>1. CASE b < a
        <5>1. EndOf(b) <= a
          BY <4>1, <1>3 DEF Tiled
        <5> QED
          BY <5>1, <3>1, <3>2, <1>2 DEF Tiled
      <4>2. CASE b > a
        BY <4>2, <3>1, <3>2, <1>2, <1>3
      <4> QED
        BY <4>1, <4>2, <2>2, <3>1 DEF Tiled
    <3> QED
      BY <2>2, <3>1, <3>2, <1>3, <1>4
  <2> QED
    BY <2>1, <2>2
<1>6. \A b, c \in Starts' : b < c => EndOf(b)' <= c
  BY <1>1, <1>3, <1>4 DEF Tiled
<1>7. blocks' \in [Starts' -> [size : Nat \ {0}, used : BOOLEAN]]
  <2>1. stop - a - HdrSize \in Nat \ {0}
    BY <1>1, Geometry
  <2>2. \A b \in Starts : blocks[b] \in [size : Nat \ {0}, used : BOOLEAN]
    BY DEF Tiled
  <2> QED
    BY <1>1, <1>3, <2>1, <2>2 DEF Kfree
<1>8. 0 \in Starts' /\ \A b \in Starts' : b \in 0 .. Sentinel - 1 /\ b % 4 = 0
  BY <1>2, <1>3 DEF Tiled
<1> QED
  BY <1>5, <1>6, <1>7, <1>8 DEF Tiled

-----------------------------------------------------------------------------
LEMMA StepTiled == Tiled /\ [HeapNext]_blocks => Tiled'
<1> SUFFICES ASSUME Tiled, [HeapNext]_blocks
             PROVE  Tiled'
  OBVIOUS
<1>1. ASSUME NEW size \in Sizes, Kmalloc(size)
      PROVE  Tiled'
  BY <1>1, MallocTiled, AlignedUp, HeapSizesAssumption DEF Kmalloc, MallocAt
<1>2. ASSUME NEW a \in Starts, Kfree(a)
      PROVE  Tiled'
  BY <1>2, FreeTiled
<1>3. CASE UNCHANGED blocks
  BY <1>3 DEF Tiled
<1> QED
  BY <1>1, <1>2, <1>3 DEF HeapNext

\* Walking the pool by sizes always meets every header and the sentinel.
THEOREM PoolTiled == HeapSpec => []Tiled
BY InitTiled, StepTiled, PTL DEF HeapSpec

-----------------------------------------------------------------------------
\* The areas that callers hold, as Areas maps them.
InUse == {Area(a) : a \in {b \in Starts : blocks[b].used}}

\* kmalloc adds one area to those in use, apart from all of them.
LEMMA MallocAllocates ==
    ASSUME Tiled, NEW size \in Nat \ {0}, NEW a \in Starts,
           NEW n \in Nat \ {0}, n >= size, Fits(a, n), MallocAt(a, n)
    PROVE  Areas!Alloc(size)
<1> DEFINE len == blocks'[a].size
<1>1. \A b \in Starts : blocks[b] \in [size : Nat \ {0}, used : BOOLEAN]
  BY DEF Tiled
<1>2. blocks[a].size >= n /\ ~blocks[a].used
  BY DEF Fits
<1>3. /\ a \in Starts' /\ blocks'[a].used
      /\ len \in Nat /\ len >= size /\ len <= blocks[a].size
      /\ \A b \in Starts : b # a => b \in Starts' /\ blocks'[b] = blocks[b]
      /\ \A b \in Starts' : b \notin Starts => ~blocks'[b].used
  <2>1. CASE ~Splits(a, n)
    BY <2>1, <1>1, <1>2 DEF MallocAt
  <2>2. CASE Splits(a, n)
    <3>1. a + HdrSize + n \notin Starts /\ a # a + HdrSize + n
      BY <2>2, <1>1, Geometry DEF Splits
    <3>2. blocks' = Split(a, n)
      BY <2>2 DEF MallocAt
    <3>3. /\ Starts' = Starts \cup {a + HdrSize + n}
          /\ blocks'[a] = [size |-> n, used |-> TRUE]
          /\ blocks'[a + HdrSize + n].used = FALSE
          /\ \A b \in Starts : b # a => blocks'[b] = blocks[b]
      BY <3>1, <3>2 DEF Split
    <3> QED
      BY <3>1, <3>3, <1>1, <1>2
  <2> QED
    BY <2>1, <2>2
<1>4. InUse' = InUse \cup {<<a + HdrSize, len>>}
  BY <1>2, <1>3 DEF InUse, Area
<1>5. \A x \in InUse : Areas!Apart(x, <<a + HdrSize, len>>)
  <2> SUFFICES ASSUME NEW b \in Starts, blocks[b].used
               PROVE  Areas!Apart(Area(b), <<a + HdrSize, len>>)
    BY DEF InUse
  <2>1. a # b
    BY <1>2
  <2>2. CASE b < a
    BY <2>2, <1>3, Geometry DEF Areas!Apart, Area
  <2>3. CASE a < b
    BY <2>3, <1>3, Geometry DEF Areas!Apart, Area
  <2> QED
    BY <2>1, <2>2, <2>3, Geometry
<1>6. /\ a + HdrSize \in HdrSize .. Sentinel /\ (a + HdrSize) % 4 = 0
      /\ len \in size .. Sentinel /\ a + HdrSize + len <= Sentinel
  BY <1>3, Geometry, PoolAssumption
<1>7. <<a + HdrSize, len>> \in InUse' \ InUse
  BY <1>4, <1>5, <1>6 DEF Areas!Apart
<1> QED
  BY <1>4, <1>5, <1>6, <1>7 DEF Areas!Alloc, InUse

\* kfree takes one area from those in use and touches no other.
LEMMA FreeFrees ==
    ASSUME Tiled, NEW a \in Starts, Kfree(a)
    PROVE  Areas!Free
<1>1. PICK stop \in Int :
         Merged(a) = [b \in Starts \ Gone(a) |->
                        IF b = a THEN [size |-> stop - a - HdrSize,
                                       used |-> FALSE]
                        ELSE blocks[b]]
  BY MergedBlock
<1>2. a \notin Gone(a) /\ \A b \in Gone(a) : ~blocks[b].used
  BY Geometry DEF Gone, Follows
<1>3. /\ blocks[a].used /\ a \in Starts' /\ ~blocks'[a].used
      /\ \A b \in Starts' : b \in Starts /\ (b # a => blocks'[b] = blocks[b])
      /\ \A b \in Starts : blocks[b].used => b \in Starts'
  BY <1>1, <1>2 DEF Kfree
<1>4. \A b \in Starts : Area(b) = Area(a) => b = a
  BY Geometry DEF Area
<1>5. InUse' = InUse \ {Area(a)} /\ Area(a) \in InUse
  BY <1>3, <1>4 DEF InUse, Area
<1> QED
  BY <1>5 DEF Areas!Free, InUse

\* Every step of the heap is a step of Allocator, or changes no area.
LEMMA StepAllocates == Tiled /\ [HeapNext]_blocks => [Areas!Next]_InUse
<1> SUFFICES ASSUME Tiled, [HeapNext]_blocks
             PROVE  [Areas!Next]_InUse
  OBVIOUS
<1>1. ASSUME NEW size \in Sizes, Kmalloc(size)
      PROVE  Areas!Next
  BY <1>1, MallocAllocates, AlignedUp, HeapSizesAssumption
     DEF Kmalloc, MallocAt, Areas!Next
<1>2. ASSUME NEW a \in Starts, Kfree(a)
      PROVE  Areas!Next
  BY <1>2, FreeFrees DEF Areas!Next
<1>3. CASE UNCHANGED blocks
  BY <1>3 DEF InUse, Area
<1> QED
  BY <1>1, <1>2, <1>3 DEF HeapNext

\* kmalloc and kfree keep the promise of Allocator: aligned areas of at
\* least the size asked for, in the pool, that never overlap.
THEOREM HeapAllocates == HeapSpec => IsAllocator
<1>1. HeapInit => Areas!Init
  BY DEF HeapInit, Areas!Init
<1>2. Tiled /\ [HeapNext]_blocks => [Areas!Next]_InUse
  BY StepAllocates
<1> QED
  BY <1>1, <1>2, PoolTiled, PTL DEF HeapSpec, IsAllocator, Areas!Spec, InUse

HIDE DEF HdrSize, MinSplit, Sentinel, Starts, EndOf

-----------------------------------------------------------------------------
(***************************************************************************)
(* Shared memory.  As long as no segment has lost a frame, the count of a  *)
(* frame of a segment and the pages that shm_at put exceed by two the      *)
(* entries that point at it, and the count of any other frame is at least  *)
(* their number (FramesCovered): exit can then free a segment's frame only *)
(* when two attached pages have gone uncounted.                            *)
(***************************************************************************)
MapTables == [ShmProcs -> [ShmPages -> PhysFrames \cup {Absent}]]
Entries == ShmProcs \X ShmPages
EntriesAt(tab, f) == {m \in Entries : tab[m[1]][m[2]] = f}
PagesAt(tab, p, f) == {v \in ShmPages : tab[p][v] = f}
NotOf(tab, p, f) == {m \in EntriesAt(tab, f) : m[1] # p}

ShmTypeOK ==
    /\ frees \subseteq PhysFrames
    /\ refcounts \in [PhysFrames -> Nat]
    /\ spaces \subseteq ShmProcs
    /\ maps \in MapTables
    /\ shm_table \in Seq([key : Keys, frames : Seq(PhysFrames)])
    /\ attaches \in [PhysFrames -> Nat]
    /\ intact \in BOOLEAN
    /\ \A q \in ShmProcs \ spaces : maps[q] = NoMaps

FramesCovered == intact => \A f \in PhysFrames \ {PageZero} :
    /\ f \in frees <=> refcounts[f] = 0
    /\ f \in SegFrames => f \notin frees /\ refcounts[f] + attaches[f] >= 2 + Users(f)
    /\ f \notin SegFrames => refcounts[f] >= Users(f)

ShmInv == ShmTypeOK /\ FramesCovered

\* Counting the entries that point at a frame.
LEMMA EntriesFinite ==
    ASSUME NEW tab, NEW p, NEW f
    PROVE  /\ IsFiniteSet(EntriesAt(tab, f)) /\ Cardinality(EntriesAt(tab, f)) \in Nat
           /\ IsFiniteSet(PagesAt(tab, p, f)) /\ Cardinality(PagesAt(tab, p, f)) \in Nat
<1>1. IsFiniteSet(Entries)
  BY ShmProcsAssumption, ShmPagesAssumption, FS_Product DEF Entries
<1>2. EntriesAt(tab, f) \in SUBSET Entries /\ PagesAt(tab, p, f) \in SUBSET ShmPages
  BY DEF EntriesAt, PagesAt
<1>3. IsFiniteSet(EntriesAt(tab, f)) /\ IsFiniteSet(PagesAt(tab, p, f))
  BY <1>1, <1>2, ShmPagesAssumption, FS_Subset
<1> QED
  BY <1>3, FS_CardinalityType

LEMMA EntriesSplit ==
    ASSUME NEW tab, NEW p \in ShmProcs, NEW f
    PROVE  /\ Cardinality(NotOf(tab, p, f)) \in Nat
           /\ Cardinality(EntriesAt(tab, f)) =
                  Cardinality(NotOf(tab, p, f)) + Cardinality(PagesAt(tab, p, f))
<1> DEFINE E == PagesAt(tab, p, f)
<1>1. E = PagesAt(tab, p, f)
  OBVIOUS
<1> HIDE DEF E
<1> DEFINE R == EntriesAt(tab, f)
<1>2. R = EntriesAt(tab, f)
  OBVIOUS
<1> HIDE DEF R
<1> DEFINE B == {m \in R : m[1] = p}
<1>3. B = {m \in R : m[1] = p}
  OBVIOUS
<1> HIDE DEF B
<1> DEFINE O == NotOf(tab, p, f)
<1>4. O = NotOf(tab, p, f)
  OBVIOUS
<1> HIDE DEF O
<1>5. IsFiniteSet(R) /\ IsFiniteSet(E)
  BY <1>1, <1>2, EntriesFinite
<1>6. O \in SUBSET R /\ B \in SUBSET R /\ O \cup B = R /\ O \cap B = {}
  BY <1>2, <1>3, <1>4 DEF NotOf
<1>7. IsFiniteSet(O) /\ IsFiniteSet(B)
  BY <1>5, <1>6, FS_Subset
<1>8. Cardinality(B) = Cardinality(E)
  <2> DEFINE g == [v \in E |-> <<p, v>>]
  <2>1. g = [v \in E |-> <<p, v>>]
    OBVIOUS
  <2> HIDE DEF g
  <2>2. \A v \in E : v \in ShmPages /\ tab[p][v] = f
    BY <1>1 DEF PagesAt
  <2>3. \A v \in E : <<p, v>> \in B
    BY <1>2, <1>3, <2>2 DEF EntriesAt, Entries
  <2>4. g \in [E -> B]
    BY <2>1, <2>3
  <2>5. \A a, b \in E : g[a] = g[b] => a = b
    BY <2>1
  <2>6. \A m \in B : \E v \in E : g[v] = m
    <3> SUFFICES ASSUME NEW m \in B PROVE \E v \in E : g[v] = m
      OBVIOUS
    <3>1. PICK q \in ShmProcs, v \in ShmPages : m = <<q, v>>
      BY <1>2, <1>3 DEF EntriesAt, Entries
    <3>2. q = p /\ tab[p][v] = f
      BY <1>2, <1>3, <3>1 DEF EntriesAt
    <3>3. v \in E
      BY <1>1, <3>2 DEF PagesAt
    <3> QED
      BY <2>1, <3>1, <3>2, <3>3
  <2>7. g \in Bijection(E, B)
    BY <2>4, <2>5, <2>6, Fun_IsBij
  <2> QED
    BY <1>5, <2>7, FS_Bijection DEF ExistsBijection
<1>9. Cardinality(R) = Cardinality(O) + Cardinality(B) - Cardinality(O \cap B)
  BY <1>6, <1>7, FS_Union
<1>10. Cardinality(O \cap B) = 0
  BY <1>6, FS_EmptySet
<1>11. Cardinality(O) \in Nat /\ Cardinality(B) \in Nat
  BY <1>7, FS_CardinalityType
<1> QED
  BY <1>1, <1>2, <1>4, <1>8, <1>9, <1>10, <1>11

\* The frame Absent and the frames are different things, as an empty table
\* points at none of them.
LEMMA FrameFacts ==
    /\ PageZero \in PhysFrames /\ PhysFrames \subseteq Nat
    /\ Absent \notin PhysFrames
    /\ \A f \in PhysFrames : {v \in ShmPages : NoMaps[v] = f} = {}
    /\ NoMaps \in [ShmPages -> PhysFrames \cup {Absent}]
  BY ShmFramesAssumption DEF PageZero, PhysFrames, Absent, NoMaps

\* What the definitions of the module say, in the terms used here.
LEMMA UsersAre ==
    ASSUME NEW f
    PROVE  /\ Users(f) = Cardinality(EntriesAt(maps, f))
           /\ \A p : MapsOf(p, f) = Cardinality(PagesAt(maps, p, f))
           /\ Users(f) \in Nat /\ \A p : MapsOf(p, f) \in Nat
<1>1. Users(f) = Cardinality(EntriesAt(maps, f))
  BY DEF Users, EntriesAt, Entries
<1>2. \A p : MapsOf(p, f) = Cardinality(PagesAt(maps, p, f))
  BY DEF MapsOf, PagesAt
<1>3. /\ Cardinality(EntriesAt(maps, f)) \in Nat
      /\ \A p : Cardinality(PagesAt(maps, p, f)) \in Nat
  BY EntriesFinite
<1> QED
  BY <1>1, <1>2, <1>3

LEMMA SegFrameIs ==
    ASSUME NEW f
    PROVE  f \in SegFrames <=> \E i \in 1 .. Len(shm_table) :
               \E j \in DOMAIN shm_table[i].frames : f = shm_table[i].frames[j]
  BY DEF SegFrames

-----------------------------------------------------------------------------
LEMMA InitShm == ShmInit => ShmInv
<1> SUFFICES ASSUME ShmInit PROVE ShmInv
  OBVIOUS
<1> USE FrameFacts DEF ShmInit
<1>1. spaces \subseteq ShmProcs
  BY ShmProcsAssumption
<1>2. ShmTypeOK
  BY <1>1 DEF ShmTypeOK, MapTables
<1>3. SegFrames = {}
  BY DEF SegFrames
<1>4. ASSUME NEW f \in PhysFrames
      PROVE  Users(f) = 0
  <2>1. \A m \in Entries : maps[m[1]][m[2]] # f
    BY DEF Entries, NoMaps
  <2>2. EntriesAt(maps, f) = {}
    BY <2>1 DEF EntriesAt
  <2> QED
    BY <2>2, UsersAre, FS_EmptySet
<1>5. FramesCovered
  BY <1>3, <1>4 DEF FramesCovered
<1> QED
  BY <1>2, <1>5 DEF ShmInv

\* A step that changes no table of pages, only counts of frames outside any
\* table, keeps the number of users.
LEMMA UsersKept ==
    ASSUME maps' = maps, NEW f
    PROVE  Users(f)' = Users(f)
  BY DEF Users

\* A step that changes the table of p only.
LEMMA UsersMoved ==
    ASSUME NEW p \in ShmProcs, \A q \in ShmProcs \ {p} : maps'[q] = maps[q], NEW f
    PROVE  /\ Users(f)' \in Nat /\ MapsOf(p, f)' \in Nat
           /\ Users(f)' + MapsOf(p, f) = Users(f) + MapsOf(p, f)'
<1> DEFINE tab == maps
<1> DEFINE tab2 == maps'
<1>1. \A q \in ShmProcs \ {p} : tab2[q] = tab[q]
  OBVIOUS
<1>2. /\ Users(f)' = Cardinality(EntriesAt(tab2, f))
      /\ MapsOf(p, f)' = Cardinality(PagesAt(tab2, p, f))
  BY DEF Users, EntriesAt, Entries, MapsOf, PagesAt
<1>3. /\ Users(f) = Cardinality(EntriesAt(tab, f))
      /\ MapsOf(p, f) = Cardinality(PagesAt(tab, p, f))
  BY UsersAre
<1> HIDE DEF tab, tab2
<1>4. NotOf(tab2, p, f) = NotOf(tab, p, f)
  BY <1>1 DEF NotOf, EntriesAt, Entries
<1>5. /\ Cardinality(NotOf(tab, p, f)) \in Nat
      /\ Cardinality(EntriesAt(tab, f)) =
             Cardinality(NotOf(tab, p, f)) + Cardinality(PagesAt(tab, p, f))
      /\ Cardinality(EntriesAt(tab2, f)) =
             Cardinality(NotOf(tab2, p, f)) + Cardinality(PagesAt(tab2, p, f))
  BY EntriesSplit
<1>6. /\ Cardinality(PagesAt(tab, p, f)) \in Nat /\ Cardinality(PagesAt(tab2, p, f)) \in Nat
      /\ Cardinality(EntriesAt(tab2, f)) \in Nat
  BY EntriesFinite
<1> QED
  BY <1>2, <1>3, <1>4, <1>5, <1>6

\* shm_get: the frames of a new segment were free, or are PageZero.
LEMMA ShmGetStep ==
    ASSUME ShmInv, NEW key \in Keys, NEW n \in 0 .. MaxSegPages, ShmGet(key, n)
    PROVE  ShmInv'
<1> USE FrameFacts DEF ShmInv
<1>1. n \in Nat
  BY ShmAssumption
<1>2. PICK fs \in Allocations(n) :
        /\ shm_table' = Append(shm_table, [key |-> key, frames |-> fs])
        /\ refcounts' = [f \in PhysFrames |->
              IF Cardinality({j \in 1 .. n : fs[j] = f}) = 0 THEN refcounts[f]
              ELSE IF f \in frees THEN CountOfSegment
              ELSE refcounts[f] + Cardinality({j \in 1 .. n : fs[j] = f})]
        /\ frees' = frees \ {fs[j] : j \in 1 .. n}
        /\ UNCHANGED <<spaces, maps, attaches, intact>>
  BY DEF ShmGet
<1>3. fs \in [1 .. n -> frees \cup {PageZero}]
  BY DEF Allocations
<1>4. fs \in Seq(PhysFrames) /\ DOMAIN fs = 1 .. n
  <2>1. fs \in [1 .. n -> PhysFrames]
    BY <1>3 DEF ShmTypeOK
  <2> QED
    BY <1>1, <2>1
<1> DEFINE times(f) == Cardinality({j \in 1 .. n : fs[j] = f})
<1>5. ASSUME NEW f
      PROVE  /\ times(f) \in Nat
             /\ times(f) = 0 <=> \A j \in 1 .. n : fs[j] # f
  <2> DEFINE J == {j \in 1 .. n : fs[j] = f}
  <2>1. IsFiniteSet(1 .. n) /\ J \in SUBSET (1 .. n)
    BY <1>1, FS_Interval
  <2>2. IsFiniteSet(J)
    BY <2>1, FS_Subset
  <2>3. Cardinality(J) \in Nat /\ (Cardinality(J) = 0 <=> J = {})
    BY <2>2, FS_CardinalityType, FS_EmptySet
  <2> QED
    BY <2>3
<1> HIDE DEF times
<1>6. refcounts' = [f \in PhysFrames |->
              IF times(f) = 0 THEN refcounts[f]
              ELSE IF f \in frees THEN CountOfSegment
              ELSE refcounts[f] + times(f)]
  BY <1>2 DEF times
<1>7. ShmTypeOK'
  <2>1. refcounts' \in [PhysFrames -> Nat]
    BY <1>5, <1>6 DEF ShmTypeOK, CountOfSegment
  <2>2. [key |-> key, frames |-> fs] \in [key : Keys, frames : Seq(PhysFrames)]
    BY <1>4
  <2>3. shm_table' \in Seq([key : Keys, frames : Seq(PhysFrames)])
    BY <1>2, <2>2 DEF ShmTypeOK
  <2> QED
    BY <1>2, <2>1, <2>3 DEF ShmTypeOK, MapTables
<1>8. ASSUME NEW f
      PROVE  f \in SegFrames' <=> f \in SegFrames \/ \E j \in 1 .. n : f = fs[j]
  <2> DEFINE L == Len(shm_table)
  <2>1. /\ L \in Nat /\ Len(shm_table') = L + 1
        /\ \A i \in 1 .. L : shm_table'[i] = shm_table[i]
        /\ shm_table'[L + 1].frames = fs
    BY <1>2 DEF ShmTypeOK
  <2>2. f \in SegFrames' <=> \E i \in 1 .. L + 1 :
            \E j \in DOMAIN shm_table'[i].frames : f = shm_table'[i].frames[j]
    BY <2>1 DEF SegFrames
  <2>3. 1 .. L + 1 = (1 .. L) \cup {L + 1}
    BY <2>1
  <2> HIDE DEF L
  <2>4. f \in SegFrames <=> \E i \in 1 .. L :
            \E j \in DOMAIN shm_table[i].frames : f = shm_table[i].frames[j]
    BY SegFrameIs DEF L
  <2>5. (\E j \in DOMAIN shm_table'[L + 1].frames : f = shm_table'[L + 1].frames[j])
            <=> \E j \in 1 .. n : f = fs[j]
    BY <1>4, <2>1
  <2> QED
    BY <2>1, <2>2, <2>3, <2>4, <2>5
<1>9. ASSUME intact, NEW f \in PhysFrames \ {PageZero}
      PROVE  /\ f \in frees' <=> refcounts'[f] = 0
             /\ f \in SegFrames' => f \notin frees' /\ refcounts'[f] + attaches'[f] >= 2 + Users(f)'
             /\ f \notin SegFrames' => refcounts'[f] >= Users(f)'
  <2>0. Users(f)' = Users(f) /\ Users(f) \in Nat /\ attaches'[f] = attaches[f]
        /\ attaches[f] \in Nat /\ refcounts[f] \in Nat
    BY <1>2, UsersKept, UsersAre DEF ShmTypeOK
  <2>1. CASE \E j \in 1 .. n : f = fs[j]
    <3>1. f \in frees /\ times(f) # 0
      BY <1>3, <1>5, <1>9, <2>1
    <3>2. refcounts[f] = 0 /\ f \notin SegFrames
      BY <1>9, <3>1 DEF FramesCovered
    <3>3. Users(f) = 0
      BY <1>9, <2>0, <3>2 DEF FramesCovered
    <3>4. refcounts'[f] = 2 /\ f \notin frees' /\ f \in SegFrames'
      BY <1>2, <1>6, <1>8, <2>1, <3>1 DEF CountOfSegment
    <3> QED
      BY <2>0, <3>3, <3>4
  <2>2. CASE \A j \in 1 .. n : f # fs[j]
    <3>1. refcounts'[f] = refcounts[f]
      BY <1>5, <1>6, <2>2
    <3>2. (f \in frees' <=> f \in frees) /\ (f \in SegFrames' <=> f \in SegFrames)
      BY <1>2, <1>8, <2>2
    <3> QED
      BY <1>9, <2>0, <3>1, <3>2 DEF FramesCovered
  <2> QED
    BY <2>1, <2>2
<1>10. FramesCovered'
  BY <1>2, <1>9 DEF FramesCovered
<1> QED
  BY <1>7, <1>10

\* A set of pages inside two others.
LEMMA CoverBound ==
    ASSUME NEW X, NEW A \in SUBSET ShmPages, NEW B \in SUBSET ShmPages, X \subseteq A \cup B
    PROVE  /\ Cardinality(X) \in Nat /\ Cardinality(A) \in Nat /\ Cardinality(B) \in Nat
           /\ Cardinality(X) <= Cardinality(A) + Cardinality(B)
<1>1. IsFiniteSet(A) /\ IsFiniteSet(B)
  BY ShmPagesAssumption, FS_Subset
<1>2. IsFiniteSet(A \cup B)
      /\ Cardinality(A \cup B) = Cardinality(A) + Cardinality(B) - Cardinality(A \cap B)
  BY <1>1, FS_Union
<1>3. A \cap B \in SUBSET A /\ X \in SUBSET (A \cup B)
  OBVIOUS
<1>4. IsFiniteSet(A \cap B) /\ IsFiniteSet(X)
  BY <1>1, <1>2, <1>3, FS_Subset
<1>5. Cardinality(X) <= Cardinality(A \cup B)
  BY <1>2, <1>3, FS_Subset
<1>6. /\ Cardinality(X) \in Nat /\ Cardinality(A) \in Nat /\ Cardinality(B) \in Nat
      /\ Cardinality(A \cap B) \in Nat
  BY <1>1, <1>4, FS_CardinalityType
<1> QED
  BY <1>2, <1>5, <1>6

\* The table of p loses entries to f, or gains none but those counted in new.
LEMMA UsersGained ==
    ASSUME NEW p \in ShmProcs, \A q \in ShmProcs \ {p} : maps'[q] = maps[q],
           NEW f, NEW new \in SUBSET ShmPages,
           \A v \in ShmPages : maps'[p][v] = f => maps[p][v] = f \/ v \in new
    PROVE  /\ Cardinality(new) \in Nat
           /\ Users(f) \in Nat /\ Users(f)' \in Nat
           /\ Users(f)' <= Users(f) + Cardinality(new)
<1> DEFINE X == PagesAt(maps', p, f)
<1> DEFINE A == PagesAt(maps, p, f)
<1>1. X \subseteq A \cup new /\ A \in SUBSET ShmPages
  BY DEF PagesAt
<1>2. MapsOf(p, f) = Cardinality(A) /\ MapsOf(p, f)' = Cardinality(X)
  BY DEF MapsOf, PagesAt
<1> HIDE DEF X, A
<1>3. /\ Cardinality(X) \in Nat /\ Cardinality(A) \in Nat /\ Cardinality(new) \in Nat
      /\ Cardinality(X) <= Cardinality(A) + Cardinality(new)
  BY <1>1, CoverBound
<1>4. /\ Users(f)' + MapsOf(p, f) = Users(f) + MapsOf(p, f)'
      /\ Users(f)' \in Nat
  BY UsersMoved
<1>5. Users(f) \in Nat
  BY UsersAre
<1> QED
  BY <1>2, <1>3, <1>4, <1>5

LEMMA MorePages ==
    ASSUME NEW r \in Nat, NEW a \in Nat, NEW k \in Nat, NEW u \in Nat, NEW u2 \in Nat,
           r + a >= 2 + u, u2 <= u + k
    PROVE  r + (a + k) >= 2 + u2
OBVIOUS

\* shm_at: each entry that it makes and that was not there is counted.
LEMMA ShmAtStep ==
    ASSUME ShmInv, NEW p \in ShmProcs, NEW i \in 1 .. Len(shm_table),
           NEW v \in ShmPages, ShmAt(p, i, v)
    PROVE  ShmInv'
<1> USE FrameFacts DEF ShmInv
<1> DEFINE fs == shm_table[i].frames
<1> DEFINE At(u) == u - v + 1
<1> DEFINE Here == {u \in ShmPages : At(u) \in DOMAIN fs}
<1> DEFINE row == [u \in ShmPages |-> IF u \in Here THEN fs[At(u)] ELSE maps[p][u]]
<1> DEFINE New(f) == {u \in Here : fs[At(u)] = f /\ maps[p][u] # f}
<1>1. /\ maps' = [maps EXCEPT ![p] = row]
      /\ attaches' = [f \in PhysFrames |-> attaches[f] + Cardinality(New(f))]
      /\ UNCHANGED <<frees, refcounts, spaces, shm_table, intact>>
      /\ p \in spaces
  BY DEF ShmAt
<1>2. fs \in Seq(PhysFrames)
  <2>1. shm_table[i] \in [key : Keys, frames : Seq(PhysFrames)]
    <3> DEFINE S == [key : Keys, frames : Seq(PhysFrames)]
    <3>1. shm_table \in Seq(S)
      BY DEF ShmTypeOK
    <3> HIDE DEF S
    <3>2. shm_table[i] \in S
      BY <3>1
    <3> QED
      BY <3>2 DEF S
  <2> QED
    BY <2>1
<1>3. \A u \in Here : fs[At(u)] \in PhysFrames /\ fs[At(u)] \in SegFrames
  BY <1>2, SegFrameIs
<1>4. row \in [ShmPages -> PhysFrames \cup {Absent}]
  BY <1>3 DEF ShmTypeOK, MapTables
<1>5. ASSUME NEW f
      PROVE  /\ New(f) \in SUBSET ShmPages
             /\ \A u \in ShmPages : row[u] = f => maps[p][u] = f \/ u \in New(f)
             /\ f \notin SegFrames => New(f) = {}
  BY <1>3
<1> HIDE DEF row, New
<1>6. ASSUME NEW f
      PROVE  /\ Cardinality(New(f)) \in Nat
             /\ Users(f) \in Nat /\ Users(f)' \in Nat
             /\ Users(f)' <= Users(f) + Cardinality(New(f))
  <2> DEFINE new == New(f)
  <2>1. /\ new \in SUBSET ShmPages
        /\ \A u \in ShmPages : row[u] = f => maps[p][u] = f \/ u \in new
    BY <1>5
  <2>2. maps'[p] = row /\ \A q \in ShmProcs \ {p} : maps'[q] = maps[q]
    BY <1>1 DEF ShmTypeOK, MapTables
  <2> HIDE DEF new
  <2>3. /\ Cardinality(new) \in Nat
        /\ Users(f) \in Nat /\ Users(f)' \in Nat
        /\ Users(f)' <= Users(f) + Cardinality(new)
    BY <2>1, <2>2, UsersGained
  <2> QED
    BY <2>3 DEF new
<1>7. ShmTypeOK'
  <2>1. maps' \in MapTables /\ \A q \in ShmProcs \ spaces : maps'[q] = maps[q]
    BY <1>1, <1>4 DEF ShmTypeOK, MapTables
  <2>2. attaches' \in [PhysFrames -> Nat]
    <3>1. ASSUME NEW f \in PhysFrames
          PROVE  attaches[f] + Cardinality(New(f)) \in Nat
      <4>1. attaches[f] \in Nat
        BY DEF ShmTypeOK
      <4>2. Cardinality(New(f)) \in Nat
        BY <1>6
      <4> QED
        BY <4>1, <4>2
    <3> QED
      BY <1>1, <3>1
  <2> QED
    BY <1>1, <2>1, <2>2 DEF ShmTypeOK
<1>8. SegFrames' = SegFrames
  BY <1>1 DEF SegFrames
<1>9. ASSUME intact, NEW f \in PhysFrames \ {PageZero}
      PROVE  /\ f \in frees' <=> refcounts'[f] = 0
             /\ f \in SegFrames' => f \notin frees' /\ refcounts'[f] + attaches'[f] >= 2 + Users(f)'
             /\ f \notin SegFrames' => refcounts'[f] >= Users(f)'
  <2>1. /\ attaches[f] \in Nat /\ refcounts[f] \in Nat
        /\ attaches'[f] = attaches[f] + Cardinality(New(f))
        /\ f \in frees' <=> f \in frees
        /\ refcounts'[f] = refcounts[f]
    BY <1>1 DEF ShmTypeOK
  <2>2. f \notin SegFrames => Cardinality(New(f)) = 0
    BY <1>5, FS_EmptySet
  <2>3. /\ f \in frees <=> refcounts[f] = 0
        /\ f \in SegFrames => f \notin frees /\ refcounts[f] + attaches[f] >= 2 + Users(f)
        /\ f \notin SegFrames => refcounts[f] >= Users(f)
    BY <1>1, <1>9 DEF FramesCovered
  <2>4. /\ Cardinality(New(f)) \in Nat /\ Users(f) \in Nat /\ Users(f)' \in Nat
        /\ Users(f)' <= Users(f) + Cardinality(New(f))
    BY <1>6
  <2>5. CASE f \in SegFrames
    <3>1. refcounts'[f] + attaches'[f] >= 2 + Users(f)'
      <4>1. refcounts[f] + attaches[f] >= 2 + Users(f)
        BY <2>3, <2>5
      <4>2. refcounts[f] + (attaches[f] + Cardinality(New(f))) >= 2 + Users(f)'
        BY <2>1, <2>4, <4>1, MorePages
      <4> QED
        BY <2>1, <4>2
    <3> QED
      BY <1>8, <2>1, <2>3, <2>5, <3>1
  <2>6. CASE f \notin SegFrames
    BY <1>8, <2>1, <2>2, <2>3, <2>4, <2>6
  <2> QED
    BY <2>5, <2>6
<1>10. FramesCovered'
  BY <1>1, <1>9 DEF FramesCovered
<1> QED
  BY <1>7, <1>10

\* Demand paging takes a free frame, which nobody uses.
LEMMA TouchStep ==
    ASSUME ShmInv, NEW p \in ShmProcs, NEW v \in ShmPages, Touch(p, v)
    PROVE  ShmInv'
<1> USE FrameFacts DEF ShmInv
<1>1. PICK f \in frees :
        /\ maps' = IF f = PageZero THEN maps ELSE [maps EXCEPT ![p][v] = f]
        /\ refcounts' = [refcounts EXCEPT ![f] = 1]
        /\ frees' = frees \ {f}
        /\ UNCHANGED <<spaces, shm_table, attaches, intact>>
        /\ p \in spaces /\ maps[p][v] = Absent
  BY DEF Touch
<1> DEFINE row == IF f = PageZero THEN maps[p] ELSE [maps[p] EXCEPT ![v] = f]
<1>2. f \in PhysFrames /\ row \in [ShmPages -> PhysFrames \cup {Absent}]
  BY <1>1 DEF ShmTypeOK, MapTables
<1>3. maps' = [maps EXCEPT ![p] = row]
  BY <1>1 DEF ShmTypeOK, MapTables
<1>4. ASSUME NEW g
      PROVE  \A u \in ShmPages : row[u] = g => maps[p][u] = g \/ u \in (IF g = f THEN {v} ELSE {})
  BY <1>1 DEF ShmTypeOK, MapTables
<1> HIDE DEF row
<1>5. ASSUME NEW g
      PROVE  /\ Users(g) \in Nat /\ Users(g)' \in Nat
             /\ g # f => Users(g)' <= Users(g)
             /\ g = f => Users(g)' <= Users(g) + 1
  <2> DEFINE new == IF g = f THEN {v} ELSE {}
  <2>1. new \in SUBSET ShmPages /\ Cardinality(new) = IF g = f THEN 1 ELSE 0
    BY FS_EmptySet, FS_Singleton
  <2>2. \A u \in ShmPages : row[u] = g => maps[p][u] = g \/ u \in new
    BY <1>4
  <2>3. maps'[p] = row /\ \A q \in ShmProcs \ {p} : maps'[q] = maps[q]
    BY <1>3 DEF ShmTypeOK, MapTables
  <2> HIDE DEF new
  <2>4. /\ Users(g) \in Nat /\ Users(g)' \in Nat
        /\ Users(g)' <= Users(g) + Cardinality(new)
    BY <2>1, <2>2, <2>3, UsersGained
  <2> QED
    BY <2>1, <2>4
<1>6. ShmTypeOK'
  <2>1. maps' \in MapTables /\ \A q \in ShmProcs \ spaces : maps'[q] = maps[q]
    BY <1>1, <1>2, <1>3 DEF ShmTypeOK, MapTables
  <2>2. refcounts' \in [PhysFrames -> Nat] /\ frees' \subseteq PhysFrames
    BY <1>1 DEF ShmTypeOK
  <2> QED
    BY <1>1, <2>1, <2>2 DEF ShmTypeOK
<1>7. SegFrames' = SegFrames
  BY <1>1 DEF SegFrames
<1>8. ASSUME intact, NEW g \in PhysFrames \ {PageZero}
      PROVE  /\ g \in frees' <=> refcounts'[g] = 0
             /\ g \in SegFrames' => g \notin frees' /\ refcounts'[g] + attaches'[g] >= 2 + Users(g)'
             /\ g \notin SegFrames' => refcounts'[g] >= Users(g)'
  <2>1. attaches[g] \in Nat /\ refcounts[g] \in Nat
    BY DEF ShmTypeOK
  <2>4. /\ g \in frees <=> refcounts[g] = 0
        /\ g \in SegFrames => g \notin frees /\ refcounts[g] + attaches[g] >= 2 + Users(g)
        /\ g \notin SegFrames => refcounts[g] >= Users(g)
    BY <1>1, <1>8 DEF FramesCovered
  <2>2. CASE g = f
    BY <1>1, <1>5, <1>7, <1>8, <2>1, <2>2, <2>4 DEF ShmTypeOK
  <2>3. CASE g # f
    <3>1. /\ g \in frees' <=> g \in frees
          /\ refcounts'[g] = refcounts[g] /\ attaches' = attaches
      BY <1>1, <2>3 DEF ShmTypeOK
    <3>2. Users(g) \in Nat /\ Users(g)' \in Nat /\ Users(g)' <= Users(g)
      BY <1>5, <2>3
    <3> QED
      BY <1>7, <2>1, <2>4, <3>1, <3>2
  <2> QED
    BY <2>2, <2>3
<1>9. FramesCovered'
  BY <1>1, <1>8 DEF FramesCovered
<1> QED
  BY <1>6, <1>9

\* A table that is empty, before or after, points at no frame.
LEMMA NoMapsNone ==
    ASSUME NEW p, NEW f \in PhysFrames
    PROVE  /\ maps[p] = NoMaps => MapsOf(p, f) = 0
           /\ maps'[p] = NoMaps => MapsOf(p, f)' = 0
  BY FrameFacts, FS_EmptySet DEF MapsOf

\* fork: the copied entries are counted.
LEMMA ForkSpaceStep ==
    ASSUME ShmInv, NEW p \in ShmProcs, NEW q \in ShmProcs, ForkSpace(p, q)
    PROVE  ShmInv'
<1> USE FrameFacts DEF ShmInv
<1>1. /\ p \in spaces /\ q \notin spaces /\ p # q
      /\ spaces' = spaces \cup {q}
      /\ maps' = [maps EXCEPT ![q] = maps[p]]
      /\ refcounts' = [f \in PhysFrames |-> refcounts[f] + MapsOf(p, f)]
      /\ UNCHANGED <<frees, shm_table, attaches, intact>>
  BY DEF ForkSpace
<1>2. ShmTypeOK'
  <2>1. maps' \in MapTables /\ \A r \in ShmProcs \ {q} : maps'[r] = maps[r]
    BY <1>1 DEF ShmTypeOK, MapTables
  <2>2. refcounts' \in [PhysFrames -> Nat]
    <3>1. \A f \in PhysFrames : MapsOf(p, f) \in Nat /\ refcounts[f] \in Nat
      BY UsersAre DEF ShmTypeOK
    <3> QED
      BY <1>1, <3>1
  <2> QED
    BY <1>1, <2>1, <2>2 DEF ShmTypeOK
<1>3. SegFrames' = SegFrames
  BY <1>1 DEF SegFrames
<1>4. /\ \A r \in ShmProcs \ {q} : maps'[r] = maps[r]
      /\ maps[q] = NoMaps /\ maps'[q] = maps[p]
  BY <1>1 DEF ShmTypeOK, MapTables
<1>5. ASSUME NEW f \in PhysFrames
      PROVE  /\ Users(f)' = Users(f) + MapsOf(p, f)
             /\ Users(f) \in Nat /\ MapsOf(p, f) \in Nat
             /\ refcounts'[f] = refcounts[f] + MapsOf(p, f)
             /\ refcounts[f] \in Nat /\ attaches[f] \in Nat
  <2>1. MapsOf(q, f) = 0
    BY <1>4, NoMapsNone
  <2>2. MapsOf(q, f)' = MapsOf(p, f)
    BY <1>4 DEF MapsOf
  <2>3. Users(f)' \in Nat /\ Users(f)' + MapsOf(q, f) = Users(f) + MapsOf(q, f)'
    BY <1>4, UsersMoved
  <2> QED
    BY <1>1, <2>1, <2>2, <2>3, UsersAre DEF ShmTypeOK
<1>6. ASSUME intact, NEW f \in PhysFrames \ {PageZero}
      PROVE  /\ f \in frees' <=> refcounts'[f] = 0
             /\ f \in SegFrames' => f \notin frees' /\ refcounts'[f] + attaches'[f] >= 2 + Users(f)'
             /\ f \notin SegFrames' => refcounts'[f] >= Users(f)'
  <2>1. f \in frees => MapsOf(p, f) = 0
    <3>1. f \in frees => Users(f) = 0
      BY <1>5, <1>6 DEF FramesCovered
    <3>2. MapsOf(p, f) = Cardinality(PagesAt(maps, p, f))
          /\ Users(f) = Cardinality(EntriesAt(maps, f))
      BY UsersAre
    <3>3. /\ Cardinality(EntriesAt(maps, f)) =
                 Cardinality(NotOf(maps, p, f)) + Cardinality(PagesAt(maps, p, f))
          /\ Cardinality(NotOf(maps, p, f)) \in Nat
          /\ Cardinality(PagesAt(maps, p, f)) \in Nat
      BY EntriesSplit, EntriesFinite
    <3> QED
      BY <3>1, <3>2, <3>3
  <2> QED
    BY <1>1, <1>3, <1>5, <1>6, <2>1 DEF FramesCovered
<1>7. FramesCovered'
  BY <1>1, <1>6 DEF FramesCovered
<1> QED
  BY <1>2, <1>7

\* What exit or exec leaves of the users of a frame.
LEMMA UsersDropped ==
    ASSUME ShmTypeOK, NEW p \in ShmProcs, maps' = [maps EXCEPT ![p] = NoMaps],
           NEW f \in PhysFrames
    PROVE  /\ Users(f) \in Nat /\ Users(f)' \in Nat /\ MapsOf(p, f) \in Nat
           /\ Users(f)' + MapsOf(p, f) = Users(f)
           /\ refcounts[f] \in Nat /\ attaches[f] \in Nat
<1>1. maps'[p] = NoMaps /\ \A q \in ShmProcs \ {p} : maps'[q] = maps[q]
  BY DEF ShmTypeOK, MapTables
<1>2. MapsOf(p, f)' = 0
  BY <1>1, NoMapsNone
<1>3. Users(f)' \in Nat /\ Users(f)' + MapsOf(p, f) = Users(f) + MapsOf(p, f)'
  BY <1>1, UsersMoved
<1> QED
  BY <1>2, <1>3, UsersAre DEF ShmTypeOK

LEMMA DropTypes ==
    ASSUME ShmTypeOK, NEW p \in ShmProcs, maps' = [maps EXCEPT ![p] = NoMaps]
    PROVE  maps' \in MapTables /\ \A q \in ShmProcs : q = p \/ maps[q] = NoMaps => maps'[q] = NoMaps
  BY FrameFacts DEF ShmTypeOK, MapTables

\* exit: the counts go down by the entries there are.
LEMMA EndSpaceStep ==
    ASSUME ShmInv, NEW p \in ShmProcs, EndSpace(p)
    PROVE  ShmInv'
<1> USE FrameFacts DEF ShmInv
<1>1. /\ spaces' = spaces \ {p}
      /\ maps' = [maps EXCEPT ![p] = NoMaps]
      /\ refcounts' = [f \in PhysFrames |-> DecRef(f, MapsOf(p, f))]
      /\ frees' = frees \cup {f \in PhysFrames : refcounts[f] > 0 /\ refcounts'[f] = 0}
      /\ intact' = (intact /\ (SegFrames \ {PageZero}) \cap frees' = {})
      /\ UNCHANGED <<shm_table, attaches>>
  BY DEF EndSpace
<1>2. ASSUME NEW f \in PhysFrames
      PROVE  /\ Users(f) \in Nat /\ Users(f)' \in Nat /\ MapsOf(p, f) \in Nat
             /\ Users(f)' + MapsOf(p, f) = Users(f)
             /\ refcounts[f] \in Nat /\ attaches[f] \in Nat
             /\ refcounts'[f] = IF refcounts[f] < MapsOf(p, f) THEN 0
                                ELSE refcounts[f] - MapsOf(p, f)
  BY <1>1, UsersDropped DEF DecRef
<1>3. ShmTypeOK'
  <2>1. refcounts' \in [PhysFrames -> Nat]
    BY <1>1, <1>2 DEF DecRef
  <2>2. maps' \in MapTables /\ \A q \in ShmProcs \ spaces' : maps'[q] = NoMaps
    BY <1>1, DropTypes DEF ShmTypeOK
  <2> QED
    BY <1>1, <2>1, <2>2 DEF ShmTypeOK
<1>4. SegFrames' = SegFrames
  BY <1>1 DEF SegFrames
<1>5. ASSUME intact', NEW f \in PhysFrames \ {PageZero}
      PROVE  /\ f \in frees' <=> refcounts'[f] = 0
             /\ f \in SegFrames' => f \notin frees' /\ refcounts'[f] + attaches'[f] >= 2 + Users(f)'
             /\ f \notin SegFrames' => refcounts'[f] >= Users(f)'
  <2>1. intact /\ (f \in SegFrames => f \notin frees')
    BY <1>1, <1>5
  <2>2. f \in frees' <=> f \in frees \/ (refcounts[f] > 0 /\ refcounts'[f] = 0)
    BY <1>1
  <2>3. f \in frees' <=> refcounts'[f] = 0
    BY <1>2, <2>1, <2>2 DEF FramesCovered
  <2>4. CASE f \in SegFrames
    BY <1>1, <1>2, <1>4, <2>1, <2>3, <2>4 DEF FramesCovered
  <2>5. CASE f \notin SegFrames
    BY <1>2, <1>4, <2>1, <2>3, <2>5 DEF FramesCovered
  <2> QED
    BY <2>3, <2>4, <2>5, <1>4
<1>6. FramesCovered'
  BY <1>5 DEF FramesCovered
<1> QED
  BY <1>3, <1>6

\* exec counts nothing down, so there are at most fewer users.
LEMMA ExecSpaceStep ==
    ASSUME ShmInv, NEW p \in ShmProcs, ExecSpace(p)
    PROVE  ShmInv'
<1> USE FrameFacts DEF ShmInv
<1>1. /\ maps' = [maps EXCEPT ![p] = NoMaps]
      /\ UNCHANGED <<frees, refcounts, spaces, shm_table, attaches, intact>>
  BY DEF ExecSpace
<1>2. ShmTypeOK'
  BY <1>1, DropTypes DEF ShmTypeOK
<1>3. SegFrames' = SegFrames
  BY <1>1 DEF SegFrames
<1>4. ASSUME NEW f \in PhysFrames
      PROVE  /\ Users(f) \in Nat /\ Users(f)' \in Nat /\ Users(f)' <= Users(f)
             /\ refcounts[f] \in Nat /\ attaches[f] \in Nat
  <2>1. /\ Users(f) \in Nat /\ Users(f)' \in Nat /\ MapsOf(p, f) \in Nat
        /\ Users(f)' + MapsOf(p, f) = Users(f)
        /\ refcounts[f] \in Nat /\ attaches[f] \in Nat
    BY <1>1, UsersDropped
  <2> QED
    BY <2>1
<1>5. FramesCovered'
  BY <1>1, <1>3, <1>4 DEF FramesCovered
<1> QED
  BY <1>2, <1>5

LEMMA StepShm ==
    ASSUME ShmInv, [ShmNext]_shmVars
    PROVE  ShmInv'
<1>1. ASSUME NEW p \in ShmProcs, StartSpace(p)
      PROVE  ShmInv'
  <2>1. ShmTypeOK'
    BY <1>1 DEF StartSpace, ShmInv, ShmTypeOK, MapTables
  <2>2. FramesCovered'
    BY <1>1 DEF StartSpace, ShmInv, FramesCovered, SegFrames, Users
  <2> QED
    BY <2>1, <2>2 DEF ShmInv
<1>2. CASE UNCHANGED shmVars
  <2> USE <1>2 DEF shmVars, ShmInv
  <2>1. ShmTypeOK'
    BY DEF ShmTypeOK, MapTables
  <2>2. SegFrames' = SegFrames /\ \A f : Users(f)' = Users(f)
    BY DEF SegFrames, Users
  <2>3. FramesCovered'
    BY <2>2 DEF FramesCovered
  <2> QED
    BY <2>1, <2>3
<1> QED
  BY <1>1, <1>2, ShmGetStep, ShmAtStep, TouchStep, ForkSpaceStep, EndSpaceStep,
     ExecSpaceStep DEF ShmNext

\* When exit frees the first frame of a segment, two attached pages are gone.
LEMMA FirstLoss ==
    ASSUME ShmInv, [ShmNext]_shmVars, intact, ~intact'
    PROVE  \E f \in SegFrames : attaches'[f] - Users(f)' >= 2
<1>1. PICK p \in ShmProcs : EndSpace(p)
  BY DEF ShmNext, ShmGet, ShmAt, Touch, ForkSpace, ExecSpace, StartSpace, shmVars
<1>2. /\ maps' = [maps EXCEPT ![p] = NoMaps]
      /\ refcounts' = [f \in PhysFrames |-> DecRef(f, MapsOf(p, f))]
      /\ frees' = frees \cup {f \in PhysFrames : refcounts[f] > 0 /\ refcounts'[f] = 0}
      /\ intact' = (intact /\ (SegFrames \ {PageZero}) \cap frees' = {})
      /\ attaches' = attaches
  BY <1>1 DEF EndSpace
<1>3. PICK f \in SegFrames \ {PageZero} : f \in frees'
  BY <1>2
<1>4. f \in PhysFrames
  BY <1>2, <1>3 DEF ShmInv, ShmTypeOK
<1>5. f \notin frees /\ refcounts[f] + attaches[f] >= 2 + Users(f)
  BY <1>3, <1>4 DEF ShmInv, FramesCovered
<1>6. refcounts'[f] = 0 /\ refcounts[f] > 0
  BY <1>2, <1>3, <1>5
<1>7. /\ Users(f) \in Nat /\ Users(f)' \in Nat /\ MapsOf(p, f) \in Nat
      /\ Users(f)' + MapsOf(p, f) = Users(f)
      /\ refcounts[f] \in Nat /\ attaches[f] \in Nat
  BY <1>2, <1>4, UsersDropped DEF ShmInv
<1>8. refcounts[f] <= MapsOf(p, f)
  BY <1>2, <1>4, <1>6, <1>7 DEF DecRef
<1>9. attaches'[f] - Users(f)' >= 2
  BY <1>2, <1>5, <1>7, <1>8
<1> QED
  BY <1>3, <1>9

-----------------------------------------------------------------------------
\* Until a segment has lost a frame, the counts cover the entries; shm_at, which
\* counts nothing, is paid for by the two that shm_get counted.
THEOREM CountsCoverUsers == ShmSpec => []ShmInv
<1>1. ShmInv /\ [ShmNext]_shmVars => ShmInv'
  BY StepShm
<1> QED
  BY InitShm, <1>1, PTL DEF ShmSpec

\* A segment survives, however it is attached, inherited and overwritten, until
\* two of the pages that shm_at itself put have gone uncounted.
THEOREM SegmentsLast == ShmSpec => KeptUntilSecondExit
<1>1. ShmInv /\ [ShmNext]_shmVars =>
        [intact /\ ~intact' =>
           \E f \in SegFrames : attaches'[f] - Users(f)' >= 2]_shmVars
  BY FirstLoss
<1> QED
  BY CountsCoverUsers, <1>1, PTL DEF ShmSpec, KeptUntilSecondExit

=============================================================================
