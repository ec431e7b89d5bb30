---------------------------- MODULE Memory_proofs ---------------------------
(***************************************************************************)
(* The page tables and the reference counts agree, for every number of     *)
(* processes, pages and frames.  The inductive invariant is that of the    *)
(* run memory_frames, and that a process without tables maps no page.      *)
(*                                                                         *)
(* From it follows that Memory implements PrivateMemory, as long as every  *)
(* store to a page that is not writable faults.                            *)
(***************************************************************************)
EXTENDS Memory, FiniteSetTheorems, FunctionTheorems, TLAPS

PageTables == [Procs -> [Pages -> Entries]]
Slots == Procs \X Pages
RefsTo(tab, f) == {m \in Slots : tab[m[1]][m[2]].frame = f}
EntriesTo(tab, p, f) == {v \in Pages : tab[p][v].frame = f}
OthersTo(tab, p, f) == {m \in RefsTo(tab, f) : m[1] # p}

CountsRight(r, l, tab) == \A f \in Frames : r[f] = l[f] + Cardinality(RefsTo(tab, f))
WritableAlone(r, tab) ==
    \A p \in Procs, v \in Pages :
        tab[p][v].w => tab[p][v].frame # 0 /\ r[tab[p][v].frame] = 1

NoTablesNoPages == \A p \in Procs : tables[p] = {} =>
                       \A v \in Pages : pte[p][v].frame = 0

MemInv == TypeOK /\ RefCountExact /\ SharedReadOnly /\ TlbNamesFrame /\ NoTablesNoPages

-----------------------------------------------------------------------------
\* Counting the entries that point at a frame.
LEMMA RefsFinite ==
    ASSUME NEW tab, NEW f
    PROVE  IsFiniteSet(RefsTo(tab, f)) /\ Cardinality(RefsTo(tab, f)) \in Nat
<1>1. IsFiniteSet(Slots)
  BY ProcsAssumption, PagesAssumption, FS_Product DEF Slots
<1>2. RefsTo(tab, f) \in SUBSET Slots
  BY DEF RefsTo
<1>3. IsFiniteSet(RefsTo(tab, f))
  BY <1>1, <1>2, FS_Subset
<1> QED
  BY <1>3, FS_CardinalityType

LEMMA EntriesFinite ==
    ASSUME NEW tab, NEW p, NEW f
    PROVE  IsFiniteSet(EntriesTo(tab, p, f)) /\ Cardinality(EntriesTo(tab, p, f)) \in Nat
<1>1. EntriesTo(tab, p, f) \in SUBSET Pages
  BY DEF EntriesTo
<1>2. IsFiniteSet(EntriesTo(tab, p, f))
  BY <1>1, PagesAssumption, FS_Subset
<1> QED
  BY <1>2, FS_CardinalityType

LEMMA RefsSplit ==
    ASSUME NEW tab, NEW p \in Procs, NEW f
    PROVE  /\ Cardinality(OthersTo(tab, p, f)) \in Nat
           /\ Cardinality(RefsTo(tab, f)) =
                  Cardinality(OthersTo(tab, p, f)) + Cardinality(EntriesTo(tab, p, f))
<1> DEFINE E == EntriesTo(tab, p, f)
<1>1. E = EntriesTo(tab, p, f)
  OBVIOUS
<1> HIDE DEF E
<1> DEFINE B == {m \in RefsTo(tab, f) : m[1] = p}
<1>2. B = {m \in RefsTo(tab, f) : m[1] = p}
  OBVIOUS
<1> HIDE DEF B
<1> DEFINE R == RefsTo(tab, f)
<1>3. R = RefsTo(tab, f)
  OBVIOUS
<1> HIDE DEF R
<1> DEFINE O == OthersTo(tab, p, f)
<1>4. O = OthersTo(tab, p, f)
  OBVIOUS
<1> HIDE DEF O
<1>5. IsFiniteSet(R) /\ IsFiniteSet(E)
  BY <1>1, <1>3, RefsFinite, EntriesFinite
<1>6. O \in SUBSET R /\ B \in SUBSET R /\ O \cup B = R /\ O \cap B = {}
  BY <1>2, <1>3, <1>4 DEF OthersTo
<1>7. IsFiniteSet(O) /\ IsFiniteSet(B)
  BY <1>5, <1>6, FS_Subset
<1>8. Cardinality(B) = Cardinality(E)
  <2> DEFINE g == [v \in E |-> <<p, v>>]
  <2>1. g = [v \in E |-> <<p, v>>]
    OBVIOUS
  <2> HIDE DEF g
  <2>2. \A v \in E : v \in Pages /\ tab[p][v].frame = f
    BY <1>1 DEF EntriesTo
  <2>3. \A v \in E : <<p, v>> \in B
    BY <1>2, <2>2 DEF RefsTo, Slots
  <2>4. g \in [E -> B]
    BY <2>1, <2>3
  <2>5. \A a, b \in E : g[a] = g[b] => a = b
    BY <2>1
  <2>6. \A m \in B : \E v \in E : g[v] = m
    <3> SUFFICES ASSUME NEW m \in B PROVE \E v \in E : g[v] = m
      OBVIOUS
    <3>1. PICK q \in Procs, v \in Pages : m = <<q, v>>
      BY <1>2 DEF RefsTo, Slots
    <3>2. q = p /\ tab[p][v].frame = f
      BY <1>2, <3>1 DEF RefsTo
    <3>3. v \in E
      BY <1>1, <3>2 DEF EntriesTo
    <3> QED
      BY <2>1, <3>1, <3>2, <3>3
  <2>7. g \in Bijection(E, B)
    BY <2>4, <2>5, <2>6, Fun_IsBij
  <2> QED
    BY <1>5, <2>7, FS_Bijection DEF ExistsBijection
<1>9. Cardinality(R) = Cardinality(O) + Cardinality(B) - Cardinality(O \cap B)
  BY <1>6, <1>7, FS_Union
<1>10. Cardinality(O \cap B) = 0
  BY <1>6, FS_EmptySet
<1>11. Cardinality(O) \in Nat /\ Cardinality(B) \in Nat
  BY <1>7, FS_CardinalityType
<1> QED
  BY <1>1, <1>3, <1>4, <1>8, <1>9, <1>10, <1>11

\* Only the entries of p point at other frames than before.
LEMMA RefsChange ==
    ASSUME NEW tab, NEW tab2, NEW p \in Procs, NEW f,
           \A q \in Procs \ {p}, v \in Pages : tab2[q][v].frame = tab[q][v].frame
    PROVE  Cardinality(RefsTo(tab2, f)) + Cardinality(EntriesTo(tab, p, f)) =
           Cardinality(RefsTo(tab, f)) + Cardinality(EntriesTo(tab2, p, f))
<1>1. OthersTo(tab2, p, f) = OthersTo(tab, p, f)
  BY DEF OthersTo, RefsTo, Slots
<1>2. /\ Cardinality(OthersTo(tab, p, f)) \in Nat
      /\ Cardinality(RefsTo(tab, f)) =
             Cardinality(OthersTo(tab, p, f)) + Cardinality(EntriesTo(tab, p, f))
      /\ Cardinality(RefsTo(tab2, f)) =
             Cardinality(OthersTo(tab2, p, f)) + Cardinality(EntriesTo(tab2, p, f))
  BY RefsSplit
<1>3. Cardinality(EntriesTo(tab, p, f)) \in Nat /\ Cardinality(EntriesTo(tab2, p, f)) \in Nat
  BY EntriesFinite
<1> QED
  BY <1>1, <1>2, <1>3

OthersSame(tab, tab2, p, v) ==
    \A q \in Procs, u \in Pages :
        (q # p \/ u # v) => tab2[q][u].frame = tab[q][u].frame

OneMoved(tab, tab2, a, b) ==
    /\ Cardinality(RefsTo(tab2, a)) = Cardinality(RefsTo(tab, a)) - 1
    /\ Cardinality(RefsTo(tab2, b)) = Cardinality(RefsTo(tab, b)) + 1
    /\ \A f : f # a /\ f # b =>
           Cardinality(RefsTo(tab2, f)) = Cardinality(RefsTo(tab, f))

\* One entry is taken from frame a and pointed at frame b.
LEMMA RefsMove ==
    ASSUME NEW tab, NEW tab2, NEW p \in Procs, NEW v \in Pages, NEW a, NEW b,
           tab[p][v].frame = a, tab2[p][v].frame = b, a # b,
           OthersSame(tab, tab2, p, v)
    PROVE  OneMoved(tab, tab2, a, b)
<1>1. <<p, v>> \in Slots /\ \A m \in Slots : m # <<p, v>> =>
          tab2[m[1]][m[2]].frame = tab[m[1]][m[2]].frame
  BY DEF Slots, OthersSame
<1>2. RefsTo(tab2, a) = RefsTo(tab, a) \ {<<p, v>>} /\ <<p, v>> \in RefsTo(tab, a)
  BY <1>1 DEF RefsTo
<1>3. RefsTo(tab2, b) = RefsTo(tab, b) \cup {<<p, v>>} /\ <<p, v>> \notin RefsTo(tab, b)
  BY <1>1 DEF RefsTo
<1>4. \A f : f # a /\ f # b => RefsTo(tab2, f) = RefsTo(tab, f)
  BY <1>1 DEF RefsTo
<1>5. IsFiniteSet(RefsTo(tab, a)) /\ IsFiniteSet(RefsTo(tab, b))
  BY RefsFinite
<1>6. Cardinality(RefsTo(tab2, a)) = Cardinality(RefsTo(tab, a)) - 1
  BY <1>2, <1>5, FS_RemoveElement
<1>7. Cardinality(RefsTo(tab2, b)) = Cardinality(RefsTo(tab, b)) + 1
  BY <1>3, <1>5, FS_AddElement
<1> QED
  BY <1>4, <1>6, <1>7 DEF OneMoved

\* What a count of 0 and a count of 1 mean.
LEMMA FreeUnmapped ==
    ASSUME NEW r, NEW l \in [Frames -> Nat], NEW tab, CountsRight(r, l, tab),
           NEW f \in Frames, r[f] = 0
    PROVE  l[f] = 0 /\ RefsTo(tab, f) = {}
<1>1. l[f] \in Nat /\ Cardinality(RefsTo(tab, f)) \in Nat /\ IsFiniteSet(RefsTo(tab, f))
  BY RefsFinite
<1>2. 0 = l[f] + Cardinality(RefsTo(tab, f))
  BY DEF CountsRight
<1>3. l[f] = 0 /\ Cardinality(RefsTo(tab, f)) = 0
  BY <1>1, <1>2
<1> QED
  BY <1>1, <1>3, FS_EmptySet

LEMMA MappedCounted ==
    ASSUME NEW r, NEW l \in [Frames -> Nat], NEW tab, CountsRight(r, l, tab),
           NEW p \in Procs, NEW v \in Pages, tab[p][v].frame \in Frames
    PROVE  r[tab[p][v].frame] \in Nat \ {0}
<1>1. PICK f \in Frames : f = tab[p][v].frame
  OBVIOUS
<1>2. <<p, v>> \in RefsTo(tab, f)
  BY <1>1 DEF RefsTo, Slots
<1>3. Cardinality(RefsTo(tab, f)) \in Nat \ {0}
  BY <1>2, RefsFinite, FS_EmptySet
<1>4. l[f] \in Nat /\ r[f] = l[f] + Cardinality(RefsTo(tab, f))
  BY DEF CountsRight
<1> QED
  BY <1>1, <1>3, <1>4

LEMMA OneEntry ==
    ASSUME NEW r, NEW l \in [Frames -> Nat], NEW tab, CountsRight(r, l, tab),
           NEW p \in Procs, NEW v \in Pages, NEW q \in Procs, NEW u \in Pages,
           NEW f \in Frames, tab[p][v].frame = f, tab[q][u].frame = f, r[f] = 1
    PROVE  q = p /\ u = v
<1>1. <<p, v>> \in RefsTo(tab, f) /\ <<q, u>> \in RefsTo(tab, f)
  BY DEF RefsTo, Slots
<1>2. /\ l[f] \in Nat /\ 1 = l[f] + Cardinality(RefsTo(tab, f))
      /\ Cardinality(RefsTo(tab, f)) \in Nat /\ IsFiniteSet(RefsTo(tab, f))
  BY RefsFinite DEF CountsRight
<1>3. Cardinality(RefsTo(tab, f)) # 0
  BY <1>1, <1>2, FS_EmptySet
<1>4. Cardinality(RefsTo(tab, f)) = 1
  BY <1>2, <1>3
<1>5. PICK x \in RefsTo(tab, f) : RefsTo(tab, f) = {x}
  BY <1>2, <1>4, FS_Singleton
<1>6. <<p, v>> = <<q, u>>
  BY <1>1, <1>5
<1> QED
  BY <1>6

-----------------------------------------------------------------------------
\* Page table entries.
LEMMA EntryFacts ==
    /\ NoPage \in Entries /\ NoPage.frame = 0 /\ NoPage.w = FALSE
    /\ \A f \in Frames : Mapped(f) \in Entries /\ Mapped(f).frame = f /\ Mapped(f).w = TRUE
    /\ \A e \in Entries : /\ Unwritable(e) \in Entries
                          /\ Unwritable(e).frame = e.frame /\ Unwritable(e).w = FALSE
    /\ \A e \in Entries : e.frame \in 0 .. NFrames /\ e.w \in BOOLEAN
    /\ \A e \in Entries : e.frame # 0 => e.frame \in Frames
    /\ \A e \in Entries : e # NoPage /\ e.frame = 0 => e.w
<1>1. NoPage \in Entries /\ NoPage.frame = 0 /\ NoPage.w = FALSE
  BY NFramesAssumption DEF Entries, NoPage
<1>2. \A f \in Frames : Mapped(f) \in Entries /\ Mapped(f).frame = f /\ Mapped(f).w = TRUE
  BY NFramesAssumption DEF Entries, Mapped, Frames
<1>3. \A e \in Entries : /\ Unwritable(e) \in Entries
                         /\ Unwritable(e).frame = e.frame /\ Unwritable(e).w = FALSE
  BY DEF Entries, Unwritable
<1>4. \A e \in Entries : e.frame \in 0 .. NFrames /\ e.w \in BOOLEAN
  BY DEF Entries
<1>5. \A e \in Entries : e.frame # 0 => e.frame \in Frames
  BY <1>4, NFramesAssumption DEF Frames
<1>6. \A e \in Entries : e # NoPage /\ e.frame = 0 => e.w
  <2> SUFFICES ASSUME NEW e \in Entries, e.frame = 0, ~e.w PROVE e = NoPage
    OBVIOUS
  <2>1. e = [frame |-> e.frame, w |-> e.w] /\ e.w \in BOOLEAN
    BY DEF Entries
  <2>2. e.w = FALSE
    BY <2>1
  <2> QED
    BY <2>1, <2>2 DEF NoPage
<1> QED
  BY <1>1, <1>2, <1>3, <1>4, <1>5, <1>6

\* The pages of the identity map, and those of a cloned or fresh space.
LEMMA LowTypes ==
    /\ NoLow \in [LowFrames -> Covered]
    /\ \A l \in [LowFrames -> Covered] : Supervisor(l) \in [LowFrames -> Covered]
  BY DEF NoLow, Supervisor, Covered

LEMMA TablesFinite ==
    ASSUME NEW S \in SUBSET Tables
    PROVE  IsFiniteSet(S) /\ Cardinality(S) \in Nat
<1>1. IsFiniteSet({"pd", "pt0", "image", "anon"})
  <2>1. IsFiniteSet({})
    BY FS_EmptySet
  <2>2. IsFiniteSet({} \cup {"pd"})
    BY <2>1, FS_AddElement
  <2>3. IsFiniteSet(({} \cup {"pd"}) \cup {"pt0"})
    BY <2>2, FS_AddElement
  <2>4. IsFiniteSet((({} \cup {"pd"}) \cup {"pt0"}) \cup {"image"})
    BY <2>3, FS_AddElement
  <2>5. IsFiniteSet(((({} \cup {"pd"}) \cup {"pt0"}) \cup {"image"}) \cup {"anon"})
    BY <2>4, FS_AddElement
  <2>6. ((({} \cup {"pd"}) \cup {"pt0"}) \cup {"image"}) \cup {"anon"} =
            {"pd", "pt0", "image", "anon"}
    OBVIOUS
  <2> QED
    BY <2>5, <2>6
<1>2. IsFiniteSet(S)
  BY <1>1, FS_Subset DEF Tables
<1> QED
  BY <1>2, FS_CardinalityType

LEMMA EntriesOfNat ==
    ASSUME NEW c, NEW V \in SUBSET Pages, NEW f
    PROVE  EntriesOf(c, V, f) \in Nat
<1>1. {v \in V : pte[c][v].frame = f} \in SUBSET Pages
  OBVIOUS
<1>2. IsFiniteSet({v \in V : pte[c][v].frame = f})
  BY <1>1, PagesAssumption, FS_Subset
<1> QED
  BY <1>2, FS_CardinalityType DEF EntriesOf

\* The frame of a writable entry is in no other entry.
LEMMA AloneCount ==
    ASSUME MemInv, NEW p \in Procs, NEW v \in Pages, pte[p][v].w,
           NEW c \in Procs, NEW V \in SUBSET Pages, ~(p = c /\ v \in V)
    PROVE  /\ pte[p][v].frame \in Frames
           /\ ref[pte[p][v].frame] = 1
           /\ EntriesOf(c, V, pte[p][v].frame) = 0
<1>1. pte[p][v] \in Entries
  BY DEF MemInv, TypeOK
<1>2. pte[p][v].frame # 0 /\ ref[pte[p][v].frame] = 1
  BY DEF MemInv, SharedReadOnly
<1>3. PICK f \in Frames : f = pte[p][v].frame
  BY <1>1, <1>2, EntryFacts
<1>4. CountsRight(ref, lost, pte) /\ lost \in [Frames -> Nat]
  BY DEF MemInv, TypeOK, RefCountExact, CountsRight, RefsTo, Slots
<1>5. \A u \in V : pte[c][u].frame # f
  BY <1>2, <1>3, <1>4, OneEntry
<1>6. {u \in V : pte[c][u].frame = f} = {}
  BY <1>5
<1> QED
  BY <1>2, <1>3, <1>6, FS_EmptySet DEF EntriesOf

\* A history of whole counts makes the counts whole.
LEMMA CountsNat ==
    ASSUME NEW r, NEW l \in [Frames -> Nat], NEW tab, CountsRight(r, l, tab),
           r = [f \in Frames |-> r[f]]
    PROVE  r \in [Frames -> Nat]
<1>1. \A f \in Frames : r[f] \in Nat
  BY RefsFinite DEF CountsRight
<1> QED
  BY <1>1

-----------------------------------------------------------------------------
\* The TLB.
TlbRight(t, tab, p) ==
    \A v \in TlbPages : t[v] # NoPage => t[v].frame = tab[p][v].frame

LEMMA TlbEmpty ==
    /\ NoTlb \in [TlbPages -> Entries]
    /\ \A tab, p : TlbRight(NoTlb, tab, p)
  BY EntryFacts DEF NoTlb, TlbRight

LEMMA TlbFlushed ==
    ASSUME MemInv, NEW v \in Pages, NEW tab, Invlpg(v),
           \A u \in Pages \ {v} : tab[current][u].frame = pte[current][u].frame
    PROVE  tlb' \in [TlbPages -> Entries] /\ TlbRight(tlb', tab, current)
<1>1. tlb \in [TlbPages -> Entries] /\ TlbRight(tlb, pte, current)
  BY DEF MemInv, TypeOK, TlbNamesFrame, TlbRight
<1> QED
  BY <1>1, EntryFacts, TlbAssumption DEF Invlpg, Filled, TlbRight

LEMMA TlbFilled ==
    ASSUME MemInv, NEW v \in Pages, NEW e \in Translations(v), tlb' = Filled(v, e)
    PROVE  tlb' \in [TlbPages -> Entries] /\ TlbRight(tlb', pte, current)
<1>1. tlb \in [TlbPages -> Entries] /\ TlbRight(tlb, pte, current)
  BY DEF MemInv, TypeOK, TlbNamesFrame, TlbRight
<1>2. pte[current][v] \in Entries
  BY DEF MemInv, TypeOK
<1>3. e \in Entries /\ e.frame = pte[current][v].frame
  BY <1>1, <1>2 DEF Translations, TlbRight
<1> QED
  BY <1>1, <1>3 DEF Filled, TlbRight

-----------------------------------------------------------------------------
\* The invariant, with its parts as operators of the values.
LEMMA InvParts ==
    ASSUME MemInv
    PROVE  /\ CountsRight(ref, lost, pte) /\ WritableAlone(ref, pte)
           /\ TlbRight(tlb, pte, current)
  BY DEF MemInv, RefCountExact, SharedReadOnly, TlbNamesFrame,
         CountsRight, RefsTo, Slots, WritableAlone, TlbRight

LEMMA InvNext ==
    ASSUME TypeOK', CountsRight(ref', lost', pte'), WritableAlone(ref', pte'),
           TlbRight(tlb', pte', current'), NoTablesNoPages'
    PROVE  MemInv'
  BY DEF MemInv, RefCountExact, SharedReadOnly, TlbNamesFrame,
         CountsRight, RefsTo, Slots, WritableAlone, TlbRight

LEMMA MemInit == Init => MemInv
<1> SUFFICES ASSUME Init PROVE MemInv
  OBVIOUS
<1>1. TypeOK
  BY EntryFacts, TlbEmpty, ValuesAssumption DEF Init, TypeOK, NoLow, Covered
<1>2. \A f \in Frames : RefsTo(pte, f) = {}
  BY EntryFacts DEF Init, RefsTo, Slots, Frames
<1>3. CountsRight(ref, lost, pte)
  <2>1. \A f \in Frames : ref[f] = 0 /\ lost[f] = 0
    BY DEF Init
  <2>2. \A f \in Frames : Cardinality(RefsTo(pte, f)) = 0
    BY <1>2, FS_EmptySet
  <2> QED
    BY <2>1, <2>2 DEF CountsRight
<1>4. WritableAlone(ref, pte)
  BY EntryFacts DEF Init, WritableAlone
<1>5. TlbRight(tlb, pte, current)
  BY TlbEmpty DEF Init
<1>6. NoTablesNoPages
  BY EntryFacts DEF Init, NoTablesNoPages
<1> QED
  BY <1>1, <1>3, <1>4, <1>5, <1>6
  DEF MemInv, RefCountExact, SharedReadOnly, TlbNamesFrame,
      CountsRight, RefsTo, Slots, WritableAlone, TlbRight

\* Steps that leave counts and page tables alone.
LEMMA QuietKeeps ==
    ASSUME MemInv, UNCHANGED <<ref, pte, lost>>,
           TypeOK', TlbRight(tlb', pte, current'),
           \A p \in Procs : tables'[p] = {} => tables[p] = {}
    PROVE  MemInv'
<1>1. NoTablesNoPages'
  BY DEF MemInv, NoTablesNoPages
<1> QED
  BY <1>1, InvParts, InvNext

LEMMA RunKeeps ==
    ASSUME MemInv, NEW q \in Procs, Run(q), UNCHANGED panicked PROVE MemInv'
<1>1. TypeOK' /\ TlbRight(tlb', pte, current')
  BY TlbEmpty DEF MemInv, TypeOK, Run
<1> QED
  BY <1>1, QuietKeeps DEF Run

LEMMA MmapKeeps ==
    ASSUME MemInv, NEW v \in Pages, Mmap(v), UNCHANGED panicked PROVE MemInv'
<1>1. TypeOK'
  BY DEF MemInv, TypeOK, Mmap
<1>2. TlbRight(tlb', pte, current')
  BY InvParts DEF Mmap
<1> QED
  BY <1>1, <1>2, QuietKeeps DEF Mmap

LEMMA AccessKeeps ==
    ASSUME MemInv, NEW v \in Pages, NEW d \in Values,
           Load(v) \/ Store(v, d) \/ KernelStore(v, d), UNCHANGED panicked
    PROVE  MemInv'
<1>1. PICK e \in Translations(v) : tlb' = Filled(v, e)
  BY DEF Load, Store, KernelStore
<1>2. tlb' \in [TlbPages -> Entries] /\ TlbRight(tlb', pte, current)
  BY <1>1, TlbFilled
<1>3. /\ UNCHANGED <<ref, tables, pte, regions, low, current, leaked, lost>>
      /\ content' \in [Frames -> Values]
  BY DEF Load, Store, KernelStore, MemInv, TypeOK
<1>4. TypeOK'
  BY <1>2, <1>3 DEF MemInv, TypeOK
<1> QED
  BY <1>2, <1>3, <1>4, QuietKeeps

LEMMA LowKeeps ==
    ASSUME MemInv, NEW f \in LowFrames, NEW d \in Values,
           MmapLow(f) \/ LowFault(f) \/ LowStore(f, d), UNCHANGED panicked
    PROVE  MemInv'
<1>0. /\ content \in [Frames -> Values] /\ low \in [Procs -> [LowFrames -> Covered]]
      /\ current \in Procs
  BY DEF MemInv, TypeOK
<1>1. /\ UNCHANGED <<ref, tables, pte, regions, current, tlb, leaked, lost>>
      /\ content' \in [Frames -> Values] /\ low' \in [Procs -> [LowFrames -> Covered]]
  <2>1. CASE MmapLow(f)
    BY <1>0, <2>1 DEF MmapLow, Covered
  <2>2. CASE LowFault(f)
    BY <1>0, <2>2 DEF LowFault, Covered
  <2>3. CASE LowStore(f, d)
    BY <1>0, <2>3 DEF LowStore
  <2> QED
    BY <2>1, <2>2, <2>3
<1>2. TypeOK'
  BY <1>1 DEF MemInv, TypeOK
<1>3. TlbRight(tlb', pte, current')
  BY <1>1, InvParts
<1> QED
  BY <1>1, <1>2, <1>3, QuietKeeps

\* A panic changes no table.
LEMMA PanicKeeps ==
    ASSUME MemInv, UNCHANGED memory, panicked' \in BOOLEAN PROVE MemInv'
<1>1. /\ UNCHANGED <<ref, pte, lost, tables, tlb, current, leaked>>
      /\ UNCHANGED <<content, regions, low>>
  BY DEF memory
<1>2. TypeOK' /\ NoTablesNoPages'
  BY <1>1 DEF MemInv, TypeOK, NoTablesNoPages
<1> QED
  BY <1>1, <1>2, InvParts, QuietKeeps

LEMMA ExecFailsKeeps ==
    ASSUME MemInv, ExecFails, UNCHANGED panicked PROVE MemInv'
<1>1. ImagePages \in SUBSET Pages
  BY DEF Pages, Window
<1>2. IsFiniteSet(ImagePages)
  BY <1>1, PagesAssumption, FS_Subset
<1>3. ExecNeeds \in Nat
  BY <1>2, FS_CardinalityType DEF ExecNeeds
<1> DEFINE r == Room
<1>4. r = Room
  OBVIOUS
<1> HIDE DEF r
<1>5. r \in 1 .. ExecNeeds - 1 /\ leaked' = leaked + r
  BY <1>4 DEF ExecFails
<1>6. leaked' \in Nat
  BY <1>3, <1>5 DEF MemInv, TypeOK
<1>7. TypeOK'
  BY <1>6 DEF MemInv, TypeOK, ExecFails
<1>8. TlbRight(tlb', pte, current')
  BY InvParts DEF ExecFails
<1> QED
  BY <1>7, <1>8, QuietKeeps DEF ExecFails

LEMMA NoFrameKeeps ==
    ASSUME MemInv, NEW v \in Pages, DemandFaultNoFrame(v), UNCHANGED panicked PROVE MemInv'
<1>1. TypeOK'
  BY DEF MemInv, TypeOK, DemandFaultNoFrame, Tables, TableOf
<1>2. TlbRight(tlb', pte, current')
  BY InvParts DEF DemandFaultNoFrame
<1>3. \A p \in Procs : tables'[p] = {} => tables[p] = {}
  BY DEF MemInv, TypeOK, DemandFaultNoFrame
<1> QED
  BY <1>1, <1>2, <1>3, QuietKeeps DEF DemandFaultNoFrame

LEMMA FaultAgainKeeps ==
    ASSUME MemInv, NEW v \in Pages, DemandFaultAgain(v), UNCHANGED panicked PROVE MemInv'
<1>1. tlb' \in [TlbPages -> Entries] /\ TlbRight(tlb', pte, current)
  BY TlbFlushed DEF DemandFaultAgain
<1>2. TypeOK'
  BY <1>1 DEF MemInv, TypeOK, DemandFaultAgain
<1> QED
  BY <1>1, <1>2, QuietKeeps DEF DemandFaultAgain

-----------------------------------------------------------------------------
\* An address space is freed.
LEMMA FreeKeeps ==
    ASSUME MemInv, NEW p \in Procs, FreeAddressSpace(p), UNCHANGED panicked,
           current' \in Procs, tlb' \in [TlbPages -> Entries],
           TlbRight(tlb', pte', current')
    PROVE  MemInv'
<1> DEFINE E == [f \in Frames |-> EntriesOf(p, Pages, f)]
<1>1. E = [f \in Frames |-> EntriesOf(p, Pages, f)]
  OBVIOUS
<1> HIDE DEF E
<1>2. \A f \in Frames : /\ E[f] = Cardinality(EntriesTo(pte, p, f))
                        /\ E[f] \in Nat
  <2>1. \A f \in Frames : EntriesOf(p, Pages, f) = Cardinality(EntriesTo(pte, p, f))
    BY DEF EntriesOf, EntriesTo
  <2>2. \A f \in Frames : Cardinality(EntriesTo(pte, p, f)) \in Nat
    BY EntriesFinite
  <2> QED
    BY <1>1, <2>1, <2>2
<1>3. ref' = [f \in Frames |-> ref[f] - E[f]] /\ lost' = lost
  BY <1>1 DEF FreeAddressSpace
<1>4. pte' = [pte EXCEPT ![p] = [v \in Pages |-> NoPage]] /\ pte \in [Procs -> [Pages -> Entries]]
  BY DEF FreeAddressSpace, MemInv, TypeOK
<1>5. \A f \in Frames : Cardinality(EntriesTo(pte', p, f)) = 0
  <2> SUFFICES ASSUME NEW f \in Frames PROVE Cardinality(EntriesTo(pte', p, f)) = 0
    OBVIOUS
  <2>1. EntriesTo(pte', p, f) = {}
    BY <1>4, EntryFacts DEF EntriesTo, Frames
  <2> QED
    BY <2>1, FS_EmptySet
<1>6. CountsRight(ref', lost', pte')
  <2> SUFFICES ASSUME NEW f \in Frames
               PROVE  ref'[f] = lost'[f] + Cardinality(RefsTo(pte', f))
    BY DEF CountsRight
  <2>1. \A q \in Procs \ {p}, v \in Pages : pte'[q][v].frame = pte[q][v].frame
    BY <1>4
  <2> DEFINE tab == pte'
  <2>2. tab = pte'
    OBVIOUS
  <2> HIDE DEF tab
  <2>3. Cardinality(RefsTo(tab, f)) + Cardinality(EntriesTo(pte, p, f)) =
        Cardinality(RefsTo(pte, f)) + Cardinality(EntriesTo(tab, p, f))
    BY <2>1, <2>2, RefsChange
  <2>4. Cardinality(RefsTo(pte, f)) \in Nat /\ Cardinality(RefsTo(tab, f)) \in Nat
    BY RefsFinite
  <2>5. ref[f] = lost[f] + Cardinality(RefsTo(pte, f)) /\ lost[f] \in Nat
    BY InvParts DEF CountsRight, MemInv, TypeOK
  <2>6. Cardinality(EntriesTo(tab, p, f)) = 0
    BY <1>5, <2>2
  <2>7. ref'[f] = lost[f] + Cardinality(RefsTo(tab, f))
    BY <1>2, <1>3, <2>3, <2>4, <2>5, <2>6
  <2> QED
    BY <1>3, <2>2, <2>7
<1>7. ref' \in [Frames -> Nat]
  <2>1. lost' \in [Frames -> Nat]
    BY <1>3 DEF MemInv, TypeOK
  <2>2. ref' = [f \in Frames |-> ref'[f]]
    BY <1>3
  <2> QED
    BY <1>6, <2>1, <2>2, CountsNat
<1>8. TypeOK'
  <2>1. pte' \in [Procs -> [Pages -> Entries]]
    BY <1>4, EntryFacts
  <2> QED
    BY <1>7, <2>1, LowTypes DEF TypeOK, MemInv, FreeAddressSpace
<1>9. WritableAlone(ref', pte')
  <2> SUFFICES ASSUME NEW q \in Procs, NEW v \in Pages, pte'[q][v].w
               PROVE  pte'[q][v].frame # 0 /\ ref'[pte'[q][v].frame] = 1
    BY DEF WritableAlone
  <2>1. q # p /\ pte'[q][v] = pte[q][v]
    BY <1>4, EntryFacts
  <2> DEFINE f == pte[q][v].frame
  <2>2. f = pte[q][v].frame
    OBVIOUS
  <2> HIDE DEF f
  <2>3. f \in Frames /\ ref[f] = 1 /\ EntriesOf(p, Pages, f) = 0
    BY <2>1, <2>2, AloneCount
  <2>4. E[f] = 0
    BY <1>1, <2>3
  <2>5. f # 0
    BY <2>3 DEF Frames
  <2> QED
    BY <1>3, <2>1, <2>2, <2>3, <2>4, <2>5
<1>10. NoTablesNoPages'
  <2>1. tables' = [tables EXCEPT ![p] = {}] /\ NoTablesNoPages
    BY DEF FreeAddressSpace, MemInv
  <2>2. \A q \in Procs : q # p => tables'[q] = tables[q] /\ pte'[q] = pte[q]
    BY <1>4, <2>1 DEF MemInv, TypeOK
  <2>3. \A v \in Pages : pte'[p][v] = NoPage
    BY <1>4
  <2> QED
    BY <2>1, <2>2, <2>3, EntryFacts DEF NoTablesNoPages
<1> QED
  BY <1>6, <1>8, <1>9, <1>10, InvNext

LEMMA ExitKeeps ==
    ASSUME MemInv, Exit, UNCHANGED panicked PROVE MemInv'
<1>1. /\ FreeAddressSpace(current) /\ current \in Procs /\ current' \in Procs
      /\ tlb' \in [TlbPages -> Entries] /\ TlbRight(tlb', pte', current')
  BY TlbEmpty DEF Exit, MemInv, TypeOK
<1> QED
  BY <1>1, FreeKeeps

LEMMA KillKeeps ==
    ASSUME MemInv, NEW q \in Procs, Kill(q), UNCHANGED panicked PROVE MemInv'
<1>1. /\ FreeAddressSpace(q) /\ q # current /\ current' = current /\ tlb' = tlb
      /\ current \in Procs /\ tlb \in [TlbPages -> Entries]
      /\ pte \in [Procs -> [Pages -> Entries]]
  BY DEF Kill, MemInv, TypeOK
<1>2. pte'[current] = pte[current]
  BY <1>1 DEF FreeAddressSpace
<1>3. TlbRight(tlb', pte', current')
  BY <1>1, <1>2, InvParts DEF TlbRight
<1> QED
  BY <1>1, <1>3, FreeKeeps

-----------------------------------------------------------------------------
\* The entries of the running process are cleared of their write bit.
LEMMA SharedFacts ==
    ASSUME MemInv, NEW V \in SUBSET Pages
    PROVE  /\ SharedEntries(current, V) \in [Pages -> Entries]
           /\ \A v \in Pages : /\ SharedEntries(current, V)[v].frame = pte[current][v].frame
                               /\ SharedEntries(current, V)[v].w =>
                                      pte[current][v].w /\ v \notin V
<1>1. pte[current] \in [Pages -> Entries]
  BY DEF MemInv, TypeOK
<1>2. \A v \in Pages : pte[current][v] \in Entries
  BY <1>1
<1>3. \A v \in Pages : SharedEntries(current, V)[v] =
          IF v \in V THEN Unwritable(pte[current][v]) ELSE pte[current][v]
  BY DEF SharedEntries
<1>4. \A v \in Pages : SharedEntries(current, V)[v] \in Entries
  BY <1>2, <1>3, EntryFacts
<1>5. SharedEntries(current, V) \in [Pages -> Entries]
  BY <1>4 DEF SharedEntries
<1>6. \A v \in Pages : SharedEntries(current, V)[v].frame = pte[current][v].frame
  BY <1>2, <1>3, EntryFacts
<1>7. \A v \in Pages : SharedEntries(current, V)[v].w => pte[current][v].w /\ v \notin V
  BY <1>2, <1>3, EntryFacts
<1> QED
  BY <1>5, <1>6, <1>7

LEMMA ForkUndoneKeeps ==
    ASSUME MemInv, ForkUndone, UNCHANGED panicked PROVE MemInv'
<1> DEFINE S == SharedEntries(current, Pages)
<1>1. S = SharedEntries(current, Pages)
  OBVIOUS
<1> HIDE DEF S
<1>2. /\ S \in [Pages -> Entries]
      /\ \A v \in Pages : S[v].frame = pte[current][v].frame /\ (S[v].w => pte[current][v].w)
  BY <1>1, SharedFacts
<1>3. pte' = [pte EXCEPT ![current] = S] /\ UNCHANGED <<ref, tables, current, tlb, lost>>
  BY <1>1 DEF ForkUndone
<1>4. pte \in [Procs -> [Pages -> Entries]] /\ current \in Procs
  BY DEF MemInv, TypeOK
<1>5. TypeOK'
  BY <1>2, <1>3, <1>4 DEF ForkUndone, MemInv, TypeOK
<1>6. \A q \in Procs, v \in Pages : pte'[q][v].frame = pte[q][v].frame /\ (pte'[q][v].w => pte[q][v].w)
  BY <1>2, <1>3, <1>4
<1>7. \A f \in Frames : RefsTo(pte', f) = RefsTo(pte, f)
  BY <1>6 DEF RefsTo, Slots
<1>8. CountsRight(ref', lost', pte')
  BY <1>3, <1>7, InvParts DEF CountsRight
<1>9. WritableAlone(ref', pte')
  BY <1>3, <1>6, InvParts DEF WritableAlone
<1>10. TlbRight(tlb', pte', current')
  BY <1>3, <1>4, <1>6, TlbAssumption, InvParts DEF TlbRight
<1>11. NoTablesNoPages'
  BY <1>3, <1>6 DEF MemInv, NoTablesNoPages
<1> QED
  BY <1>5, <1>8, <1>9, <1>10, <1>11, InvNext

LEMMA ForkFailsKeeps ==
    ASSUME MemInv, ForkFails, UNCHANGED panicked PROVE MemInv'
<1> DEFINE V == IF Room > 2 THEN Window ELSE {}
<1>1. V = IF Room > 2 THEN Window ELSE {}
  OBVIOUS
<1> HIDE DEF V
<1>2. V \in SUBSET Pages
  BY <1>1 DEF Pages, Window
<1> DEFINE S == SharedEntries(current, V)
<1>3. S = SharedEntries(current, V)
  OBVIOUS
<1> HIDE DEF S
<1> DEFINE E == [f \in Frames |-> EntriesOf(current, V, f)]
<1>4. E = [f \in Frames |-> EntriesOf(current, V, f)]
  OBVIOUS
<1> HIDE DEF E
<1>5. /\ S \in [Pages -> Entries]
      /\ \A v \in Pages : /\ S[v].frame = pte[current][v].frame
                          /\ (S[v].w => pte[current][v].w /\ v \notin V)
  BY <1>2, <1>3, SharedFacts
<1>6. \A f \in Frames : E[f] \in Nat
  BY <1>2, <1>4, EntriesOfNat
<1>7. /\ pte' = [pte EXCEPT ![current] = S]
      /\ ref' = [f \in Frames |-> ref[f] + E[f]]
      /\ lost' = [f \in Frames |-> lost[f] + E[f]]
      /\ UNCHANGED <<content, tables, regions, low, current, tlb>>
  BY <1>1, <1>3, <1>4 DEF ForkFails, RefsAfterClone
<1>8. /\ pte \in [Procs -> [Pages -> Entries]] /\ current \in Procs
      /\ ref \in [Frames -> Nat] /\ lost \in [Frames -> Nat]
  BY DEF MemInv, TypeOK
<1>9. leaked' \in Nat
  <2>1. CloneTables(current) \in SUBSET Tables
    BY <1>8 DEF CloneTables, MemInv, TypeOK, Tables
  <2>2. Cardinality(CloneTables(current)) \in Nat
    BY <2>1, TablesFinite
  <2> DEFINE r == Room
  <2>3. r = Room
    OBVIOUS
  <2> HIDE DEF r
  <2>4. r \in 1 .. Cardinality(CloneTables(current)) - 1 /\ leaked' = leaked + r
    BY <2>3 DEF ForkFails
  <2> QED
    BY <2>2, <2>4 DEF MemInv, TypeOK
<1>10. TypeOK'
  <2>1. ref' \in [Frames -> Nat] /\ lost' \in [Frames -> Nat]
    BY <1>6, <1>7, <1>8
  <2>2. pte' \in [Procs -> [Pages -> Entries]]
    BY <1>5, <1>7, <1>8
  <2> QED
    BY <1>7, <1>9, <2>1, <2>2 DEF MemInv, TypeOK
<1>11. \A q \in Procs, v \in Pages :
           /\ pte'[q][v].frame = pte[q][v].frame
           /\ (pte'[q][v].w => pte[q][v].w /\ ~(q = current /\ v \in V))
  BY <1>5, <1>7, <1>8
<1>12. \A f \in Frames : RefsTo(pte', f) = RefsTo(pte, f)
  BY <1>11 DEF RefsTo, Slots
<1>13. CountsRight(ref', lost', pte')
  <2> SUFFICES ASSUME NEW f \in Frames
               PROVE  ref'[f] = lost'[f] + Cardinality(RefsTo(pte', f))
    BY DEF CountsRight
  <2>1. Cardinality(RefsTo(pte, f)) \in Nat /\ lost[f] \in Nat /\ E[f] \in Nat
    BY RefsFinite, <1>6, <1>8
  <2>2. ref[f] = lost[f] + Cardinality(RefsTo(pte, f))
    BY InvParts DEF CountsRight
  <2>3. RefsTo(pte', f) = RefsTo(pte, f)
    BY <1>12
  <2> QED
    BY <1>7, <2>1, <2>2, <2>3
<1>14. WritableAlone(ref', pte')
  <2> SUFFICES ASSUME NEW q \in Procs, NEW v \in Pages, pte'[q][v].w
               PROVE  pte'[q][v].frame # 0 /\ ref'[pte'[q][v].frame] = 1
    BY DEF WritableAlone
  <2> DEFINE f == pte[q][v].frame
  <2>1. f = pte[q][v].frame
    OBVIOUS
  <2> HIDE DEF f
  <2>2. f \in Frames /\ ref[f] = 1 /\ EntriesOf(current, V, f) = 0
    BY <1>2, <1>8, <1>11, <2>1, AloneCount
  <2>3. E[f] = 0 /\ f # 0
    BY <1>4, <2>2 DEF Frames
  <2>4. ref'[f] = 1
    BY <1>7, <2>2, <2>3
  <2> QED
    BY <1>11, <2>1, <2>3, <2>4
<1>15. TlbRight(tlb', pte', current')
  BY <1>7, <1>8, <1>11, TlbAssumption, InvParts DEF TlbRight
<1>16. NoTablesNoPages'
  BY <1>7, <1>11 DEF MemInv, NoTablesNoPages
<1> QED
  BY <1>10, <1>13, <1>14, <1>15, <1>16, InvNext

LEMMA ForkKeeps ==
    ASSUME MemInv, NEW q \in Procs, Fork(q), UNCHANGED panicked PROVE MemInv'
<1> DEFINE S == SharedEntries(current, Pages)
<1>1. S = SharedEntries(current, Pages)
  OBVIOUS
<1> HIDE DEF S
<1> DEFINE E == [f \in Frames |-> EntriesOf(current, Pages, f)]
<1>2. E = [f \in Frames |-> EntriesOf(current, Pages, f)]
  OBVIOUS
<1> HIDE DEF E
<1>3. /\ S \in [Pages -> Entries]
      /\ \A v \in Pages : /\ S[v].frame = pte[current][v].frame
                          /\ ~S[v].w
  BY <1>1, SharedFacts
<1>4. \A f \in Frames : E[f] = Cardinality(EntriesTo(pte, current, f)) /\ E[f] \in Nat
  <2>1. \A f \in Frames : EntriesOf(current, Pages, f) = Cardinality(EntriesTo(pte, current, f))
    BY DEF EntriesOf, EntriesTo
  <2>2. \A f \in Frames : Cardinality(EntriesTo(pte, current, f)) \in Nat
    BY EntriesFinite
  <2> QED
    BY <1>2, <2>1, <2>2
<1>5. /\ q # current /\ tables[q] = {}
      /\ pte' = [pte EXCEPT ![current] = S, ![q] = S]
      /\ ref' = [f \in Frames |-> ref[f] + E[f]]
      /\ tables' = [tables EXCEPT ![q] = CloneTables(current)]
      /\ regions' = [regions EXCEPT ![q] = regions[current]]
      /\ low' = [low EXCEPT ![q] = Supervisor(low[current])]
      /\ UNCHANGED <<content, current, tlb, leaked, lost>>
  BY <1>1, <1>2 DEF Fork, RefsAfterClone, Spaced
<1>6. /\ pte \in [Procs -> [Pages -> Entries]] /\ current \in Procs
      /\ ref \in [Frames -> Nat] /\ lost \in [Frames -> Nat]
  BY DEF MemInv, TypeOK
<1>7. CloneTables(current) \in SUBSET Tables /\ CloneTables(current) # {}
  BY <1>6 DEF CloneTables, MemInv, TypeOK, Tables
<1>8. TypeOK'
  <2>1. ref' \in [Frames -> Nat]
    BY <1>4, <1>5, <1>6
  <2>2. pte' \in [Procs -> [Pages -> Entries]]
    BY <1>3, <1>5, <1>6
  <2> QED
    BY <1>5, <1>7, <2>1, <2>2, LowTypes DEF MemInv, TypeOK
<1>9. /\ pte'[current] = S /\ pte'[q] = S
      /\ \A p \in Procs \ {current, q} : pte'[p] = pte[p]
  BY <1>5, <1>6
<1>10. CountsRight(ref', lost', pte')
  <2> SUFFICES ASSUME NEW f \in Frames
               PROVE  ref'[f] = lost'[f] + Cardinality(RefsTo(pte', f))
    BY DEF CountsRight
  <2> DEFINE tab == pte'
  <2>1. tab = pte'
    OBVIOUS
  <2> HIDE DEF tab
  <2>2. \A p \in Procs \ {q}, v \in Pages : tab[p][v].frame = pte[p][v].frame
    BY <1>3, <1>9, <2>1
  <2>3. Cardinality(RefsTo(tab, f)) + Cardinality(EntriesTo(pte, q, f)) =
        Cardinality(RefsTo(pte, f)) + Cardinality(EntriesTo(tab, q, f))
    BY <2>2, RefsChange
  <2>4. EntriesTo(pte, q, f) = {}
    BY <1>5 DEF EntriesTo, MemInv, NoTablesNoPages, Frames
  <2>5. Cardinality(EntriesTo(pte, q, f)) = 0
    BY <2>4, FS_EmptySet
  <2>6. EntriesTo(tab, q, f) = EntriesTo(pte, current, f)
    BY <1>3, <1>9, <2>1 DEF EntriesTo
  <2>7. Cardinality(RefsTo(tab, f)) \in Nat /\ Cardinality(RefsTo(pte, f)) \in Nat
    BY RefsFinite
  <2>8. Cardinality(RefsTo(tab, f)) = Cardinality(RefsTo(pte, f)) + E[f]
    BY <1>4, <2>3, <2>5, <2>6, <2>7
  <2>9. ref[f] = lost[f] + Cardinality(RefsTo(pte, f))
    BY InvParts DEF CountsRight
  <2>10. lost[f] \in Nat /\ E[f] \in Nat
    BY <1>4, <1>6
  <2>11. ref'[f] = ref[f] + E[f] /\ lost'[f] = lost[f]
    BY <1>5
  <2>12. ref'[f] = lost'[f] + Cardinality(RefsTo(tab, f))
    BY <2>7, <2>8, <2>9, <2>10, <2>11
  <2> QED
    BY <2>1, <2>12
<1>11. WritableAlone(ref', pte')
  <2> SUFFICES ASSUME NEW p \in Procs, NEW v \in Pages, pte'[p][v].w
               PROVE  pte'[p][v].frame # 0 /\ ref'[pte'[p][v].frame] = 1
    BY DEF WritableAlone
  <2>1. p \notin {current, q} /\ pte'[p] = pte[p]
    BY <1>3, <1>9
  <2> DEFINE f == pte[p][v].frame
  <2>2. f = pte[p][v].frame
    OBVIOUS
  <2> HIDE DEF f
  <2>3. f \in Frames /\ ref[f] = 1 /\ EntriesOf(current, Pages, f) = 0
    BY <1>6, <2>1, <2>2, AloneCount
  <2>4. E[f] = 0 /\ f # 0
    BY <1>2, <2>3 DEF Frames
  <2>5. ref'[f] = 1
    BY <1>5, <2>3, <2>4
  <2> QED
    BY <2>1, <2>2, <2>4, <2>5
<1>12. TlbRight(tlb', pte', current')
  BY <1>3, <1>5, <1>9, TlbAssumption, InvParts DEF TlbRight
<1>13. NoTablesNoPages'
  <2>1. NoTablesNoPages
    BY DEF MemInv
  <2>2. tables'[q] # {} /\ \A p \in Procs \ {q} : tables'[p] = tables[p]
    BY <1>5, <1>7 DEF MemInv, TypeOK
  <2>3. \A p \in Procs \ {q}, v \in Pages : pte'[p][v].frame = pte[p][v].frame
    BY <1>3, <1>9
  <2> QED
    BY <2>1, <2>2, <2>3 DEF NoTablesNoPages
<1> QED
  BY <1>8, <1>10, <1>11, <1>12, <1>13, InvNext

-----------------------------------------------------------------------------
\* A program is loaded: every fresh frame is in one entry.
LEMMA ExecKeeps ==
    ASSUME MemInv, Exec, UNCHANGED panicked PROVE MemInv'
<1> DEFINE loaded == IF Room > ExecNeeds THEN Window ELSE ImagePages
<1>1. loaded = IF Room > ExecNeeds THEN Window ELSE ImagePages
  OBVIOUS
<1> HIDE DEF loaded
<1>2. loaded \in SUBSET Pages
  BY <1>1 DEF Pages, Window
<1>3. PICK fresh \in {Lowest(Cardinality(loaded))} : LoadPages(loaded, fresh)
  BY <1>1 DEF Exec
<1>4. PICK at \in [loaded -> fresh] :
        /\ fresh = {at[v] : v \in loaded}
        /\ \A u, v \in loaded : u < v => at[u] < at[v]
        /\ ref' = [f \in Frames |-> IF f \in fresh THEN 1 ELSE ref[f]]
        /\ content' = [f \in Frames |->
             IF f \in fresh
             THEN IF \E v \in ImagePages : at[v] = f THEN FileData ELSE Zero
             ELSE content[f]]
        /\ pte' = [pte EXCEPT ![current] =
             [v \in Pages |-> IF v \in loaded THEN Mapped(at[v]) ELSE NoPage]]
  BY <1>3 DEF LoadPages
<1>5. fresh \in SUBSET Frames /\ \A f \in fresh : ref[f] = 0
  BY <1>3 DEF Lowest, FreeFrames
<1>6. \A u, v \in loaded : at[u] = at[v] => u = v
  <2> SUFFICES ASSUME NEW u \in loaded, NEW v \in loaded, at[u] = at[v], u # v
               PROVE  FALSE
    OBVIOUS
  <2>1. u \in Nat /\ v \in Nat
    BY <1>2, PagesAssumption
  <2>2. at[u] \in Frames /\ at[v] \in Frames
    BY <1>4, <1>5
  <2>3. at[u] \in Nat /\ at[v] \in Nat
    BY <2>2 DEF Frames
  <2>4. u < v \/ v < u
    BY <2>1
  <2> QED
    BY <1>4, <2>3, <2>4
<1> DEFINE new == [v \in Pages |-> IF v \in loaded THEN Mapped(at[v]) ELSE NoPage]
<1>7. new = [v \in Pages |-> IF v \in loaded THEN Mapped(at[v]) ELSE NoPage]
  OBVIOUS
<1> HIDE DEF new
<1>8. /\ pte' = [pte EXCEPT ![current] = new]
      /\ pte \in [Procs -> [Pages -> Entries]] /\ current \in Procs
      /\ ref \in [Frames -> Nat] /\ lost \in [Frames -> Nat]
  BY <1>4, <1>7 DEF MemInv, TypeOK
<1>9. \A v \in loaded : at[v] \in Frames /\ new[v] = Mapped(at[v])
  BY <1>2, <1>4, <1>5, <1>7
<1>10. \A v \in Pages \ loaded : new[v] = NoPage
  BY <1>7
<1>11. new \in [Pages -> Entries]
  <2>1. \A v \in Pages : new[v] \in Entries
    BY <1>9, <1>10, EntryFacts
  <2> QED
    BY <1>7, <2>1
<1> DEFINE E == [f \in Frames |-> EntriesOf(current, Pages, f)]
<1>12. E = [f \in Frames |-> EntriesOf(current, Pages, f)]
  OBVIOUS
<1> HIDE DEF E
<1>13. \A f \in Frames : E[f] = Cardinality(EntriesTo(pte, current, f)) /\ E[f] \in Nat
  <2>1. \A f \in Frames : EntriesOf(current, Pages, f) = Cardinality(EntriesTo(pte, current, f))
    BY DEF EntriesOf, EntriesTo
  <2>2. \A f \in Frames : Cardinality(EntriesTo(pte, current, f)) \in Nat
    BY EntriesFinite
  <2> QED
    BY <1>12, <2>1, <2>2
<1>14. /\ lost' = [f \in Frames |-> lost[f] + E[f]]
       /\ tables' = [tables EXCEPT ![current] = {"pd", "pt0", "image"}]
       /\ leaked' = leaked + Cardinality(tables[current])
       /\ low' = [low EXCEPT ![current] = Supervisor(low[current])]
       /\ tlb' = NoTlb /\ UNCHANGED <<regions, current>>
  BY <1>12 DEF Exec
<1>15. TypeOK'
  <2>1. ref' \in [Frames -> Nat] /\ lost' \in [Frames -> Nat]
    BY <1>4, <1>8, <1>13, <1>14
  <2>2. pte' \in [Procs -> [Pages -> Entries]]
    BY <1>8, <1>11
  <2>3. content' \in [Frames -> Values]
    BY <1>4, ValuesAssumption DEF MemInv, TypeOK
  <2>4. tables[current] \in SUBSET Tables
    BY <1>8 DEF MemInv, TypeOK
  <2>5. leaked' \in Nat
    BY <1>14, <2>4, TablesFinite DEF MemInv, TypeOK
  <2>6. tables' \in [Procs -> SUBSET Tables]
    BY <1>14 DEF MemInv, TypeOK, Tables
  <2> QED
    BY <1>14, <2>1, <2>2, <2>3, <2>5, <2>6, TlbEmpty, LowTypes DEF MemInv, TypeOK
<1>16. pte'[current] = new /\ \A p \in Procs \ {current} : pte'[p] = pte[p]
  BY <1>8
<1>17. ASSUME NEW f \in Frames
       PROVE  ref'[f] = lost'[f] + Cardinality(RefsTo(pte', f))
  <2> DEFINE tab == pte'
  <2>1. tab = pte'
    OBVIOUS
  <2> HIDE DEF tab
  <2>2. Cardinality(RefsTo(tab, f)) + Cardinality(EntriesTo(pte, current, f)) =
        Cardinality(RefsTo(pte, f)) + Cardinality(EntriesTo(tab, current, f))
    <3>1. \A p \in Procs \ {current}, v \in Pages : tab[p][v].frame = pte[p][v].frame
      BY <1>16, <2>1
    <3> QED
      BY <1>8, <3>1, RefsChange
  <2>3. Cardinality(RefsTo(tab, f)) \in Nat /\ Cardinality(RefsTo(pte, f)) \in Nat
    BY RefsFinite
  <2>4. ref[f] = lost[f] + Cardinality(RefsTo(pte, f)) /\ lost[f] \in Nat /\ E[f] \in Nat
    BY <1>8, <1>13, InvParts DEF CountsRight
  <2>5. lost'[f] = lost[f] + E[f] /\ E[f] = Cardinality(EntriesTo(pte, current, f))
    BY <1>13, <1>14
  <2>6. CASE f \in fresh
    <3>1. ref[f] = 0 /\ ref'[f] = 1
      BY <1>4, <1>5, <2>6
    <3>2. PICK v \in loaded : at[v] = f
      BY <1>4, <2>6
    <3>3. \A u \in Pages : new[u].frame = f <=> u = v
      BY <1>2, <1>6, <1>9, <1>10, <3>2, EntryFacts DEF Frames
    <3>4. EntriesTo(tab, current, f) = {v}
      BY <1>2, <1>16, <2>1, <3>3 DEF EntriesTo
    <3>5. Cardinality(EntriesTo(tab, current, f)) = 1
      BY <3>4, FS_Singleton
    <3>6. ref'[f] = lost'[f] + Cardinality(RefsTo(tab, f))
      BY <2>2, <2>3, <2>4, <2>5, <3>1, <3>5
    <3> QED
      BY <2>1, <3>6
  <2>7. CASE f \notin fresh
    <3>1. ref'[f] = ref[f]
      BY <1>4, <2>7
    <3>2. \A u \in Pages : new[u].frame # f
      BY <1>4, <1>9, <1>10, <2>7, EntryFacts DEF Frames
    <3>3. EntriesTo(tab, current, f) = {}
      BY <1>16, <2>1, <3>2 DEF EntriesTo
    <3>4. Cardinality(EntriesTo(tab, current, f)) = 0
      BY <3>3, FS_EmptySet
    <3>5. ref'[f] = lost'[f] + Cardinality(RefsTo(tab, f))
      BY <2>2, <2>3, <2>4, <2>5, <3>1, <3>4
    <3> QED
      BY <2>1, <3>5
  <2> QED
    BY <2>6, <2>7
<1>18. CountsRight(ref', lost', pte')
  BY <1>17 DEF CountsRight
<1>19. WritableAlone(ref', pte')
  <2> SUFFICES ASSUME NEW p \in Procs, NEW v \in Pages, pte'[p][v].w
               PROVE  pte'[p][v].frame # 0 /\ ref'[pte'[p][v].frame] = 1
    BY DEF WritableAlone
  <2>1. CASE p = current
    <3>1. v \in loaded
      BY <1>10, <1>16, <2>1, EntryFacts
    <3>2. pte'[p][v].frame = at[v] /\ at[v] \in Frames
      BY <1>9, <1>16, <2>1, <3>1, EntryFacts
    <3>3. ref'[at[v]] = 1
      BY <1>4, <3>1, <3>2
    <3> QED
      BY <3>2, <3>3 DEF Frames
  <2>2. CASE p # current
    <3>1. pte'[p][v] = pte[p][v]
      BY <1>16, <2>2
    <3> DEFINE f == pte[p][v].frame
    <3>2. f = pte[p][v].frame
      OBVIOUS
    <3> HIDE DEF f
    <3>3. f \in Frames /\ ref[f] = 1
      BY <1>8, <2>2, <3>1, <3>2, AloneCount
    <3>4. f # 0 /\ f \notin fresh
      BY <1>5, <3>3 DEF Frames
    <3>5. ref'[f] = 1
      BY <1>4, <3>3, <3>4
    <3> QED
      BY <3>1, <3>2, <3>4, <3>5
  <2> QED
    BY <2>1, <2>2
<1>20. TlbRight(tlb', pte', current')
  BY <1>14, TlbEmpty
<1>21. NoTablesNoPages'
  <2>1. NoTablesNoPages /\ tables \in [Procs -> SUBSET Tables]
    BY DEF MemInv, TypeOK
  <2>2. tables'[current] # {} /\ \A p \in Procs \ {current} : tables'[p] = tables[p]
    BY <1>8, <1>14, <2>1
  <2> QED
    BY <1>16, <2>1, <2>2 DEF NoTablesNoPages
<1> QED
  BY <1>15, <1>18, <1>19, <1>20, <1>21, InvNext

-----------------------------------------------------------------------------
\* One entry of the running process is pointed at a free frame.
PageMoved(v, f, old) ==
    /\ pte' = [pte EXCEPT ![current][v] = Mapped(f)]
    /\ ref' = [g \in Frames |-> ref'[g]]
    /\ \A g \in Frames : ref'[g] = IF g = f THEN 1
                                   ELSE IF g = old THEN ref[g] - 1 ELSE ref[g]

LEMMA MoveKeeps ==
    ASSUME MemInv, NEW v \in Pages, NEW f \in Frames, ref[f] = 0,
           NEW old, old = pte[current][v].frame, PageMoved(v, f, old),
           old \in Frames => ref[old] > 1,
           Invlpg(v), UNCHANGED <<lost, regions, low, current, leaked, panicked>>,
           content' \in [Frames -> Values], tables' \in [Procs -> SUBSET Tables],
           tables'[current] # {},
           \A p \in Procs : tables'[p] = {} => tables[p] = {}
    PROVE  MemInv'
<1>1. /\ pte \in [Procs -> [Pages -> Entries]] /\ current \in Procs
      /\ ref \in [Frames -> Nat] /\ lost \in [Frames -> Nat]
      /\ CountsRight(ref, lost, pte)
      /\ pte' = [pte EXCEPT ![current][v] = Mapped(f)]
      /\ ref' = [g \in Frames |-> ref'[g]]
      /\ \A g \in Frames : ref'[g] = IF g = f THEN 1
                                     ELSE IF g = old THEN ref[g] - 1 ELSE ref[g]
  BY InvParts DEF MemInv, TypeOK, PageMoved
<1>2. lost[f] = 0 /\ RefsTo(pte, f) = {}
  BY <1>1, FreeUnmapped
<1>3. old # f
  BY <1>2, <1>1 DEF RefsTo, Slots
<1>4. /\ pte'[current][v] = Mapped(f)
      /\ \A p \in Procs, u \in Pages :
             p # current \/ u # v => pte'[p][u] = pte[p][u]
  BY <1>1
<1> DEFINE tab == pte'
<1>5. tab = pte'
  OBVIOUS
<1> HIDE DEF tab
<1>here. current \in Procs
  BY <1>1
<1>moved. OneMoved(pte, tab, old, f)
  <2>1. tab[current][v].frame = f /\ pte[current][v].frame = old
    BY <1>4, <1>5, EntryFacts
  <2>2. OthersSame(pte, tab, current, v)
    BY <1>4, <1>5 DEF OthersSame
  <2> QED
    BY <1>here, <1>3, <2>1, <2>2, RefsMove, Zenon
<1>6. /\ Cardinality(RefsTo(tab, old)) = Cardinality(RefsTo(pte, old)) - 1
      /\ Cardinality(RefsTo(tab, f)) = Cardinality(RefsTo(pte, f)) + 1
      /\ \A g : g # old /\ g # f =>
             Cardinality(RefsTo(tab, g)) = Cardinality(RefsTo(pte, g))
  BY <1>moved DEF OneMoved
<1>7. \A g \in Frames : ref'[g] = lost'[g] + Cardinality(RefsTo(tab, g))
  <2> SUFFICES ASSUME NEW g \in Frames
               PROVE  ref'[g] = lost[g] + Cardinality(RefsTo(tab, g))
    OBVIOUS
  <2>1. /\ ref[g] = lost[g] + Cardinality(RefsTo(pte, g))
        /\ lost[g] \in Nat /\ Cardinality(RefsTo(pte, g)) \in Nat
    BY <1>1, RefsFinite DEF CountsRight
  <2>2. CASE g = f
    <3>1. Cardinality(RefsTo(pte, g)) = 0
      BY <1>2, <2>2, FS_EmptySet
    <3>2. Cardinality(RefsTo(tab, g)) = 1
      BY <1>6, <2>2, <3>1
    <3>3. ref'[g] = 1 /\ lost[g] = 0
      BY <1>1, <1>2, <2>2
    <3> QED
      BY <3>2, <3>3
  <2>3. CASE g = old
    <3>1. ref'[g] = ref[g] - 1
      BY <1>1, <1>3, <2>3
    <3>2. Cardinality(RefsTo(tab, g)) = Cardinality(RefsTo(pte, g)) - 1
      BY <1>6, <2>3
    <3> QED
      BY <2>1, <3>1, <3>2
  <2>4. CASE g # f /\ g # old
    <3>1. ref'[g] = ref[g]
      BY <1>1, <2>4
    <3>2. Cardinality(RefsTo(tab, g)) = Cardinality(RefsTo(pte, g))
      BY <1>6, <2>4
    <3> QED
      BY <2>1, <3>1, <3>2
  <2> QED
    BY <2>2, <2>3, <2>4
<1>8. CountsRight(ref', lost', pte')
  BY <1>5, <1>7 DEF CountsRight
<1>9. ref' \in [Frames -> Nat]
  <2>1. \A g \in Frames : ref'[g] \in Nat
    BY <1>1
  <2> QED
    BY <1>1, <2>1
<1>10. tlb' \in [TlbPages -> Entries] /\ TlbRight(tlb', pte', current')
  <2>1. \A u \in Pages \ {v} : tab[current][u].frame = pte[current][u].frame
    BY <1>1, <1>4, <1>5
  <2>2. tlb' \in [TlbPages -> Entries] /\ TlbRight(tlb', tab, current)
    BY <2>1, TlbFlushed
  <2> QED
    BY <1>5, <2>2
<1>11. TypeOK'
  <2>1. pte' \in [Procs -> [Pages -> Entries]]
    BY <1>1, EntryFacts
  <2> QED
    BY <1>9, <1>10, <2>1 DEF MemInv, TypeOK
<1>12. WritableAlone(ref', pte')
  <2> SUFFICES ASSUME NEW p \in Procs, NEW u \in Pages, pte'[p][u].w
               PROVE  pte'[p][u].frame # 0 /\ ref'[pte'[p][u].frame] = 1
    BY DEF WritableAlone
  <2>1. CASE p = current /\ u = v
    <3>1. pte'[p][u].frame = f
      BY <1>4, <2>1, EntryFacts
    <3> QED
      BY <1>1, <3>1 DEF Frames
  <2>2. CASE p # current \/ u # v
    <3>1. pte'[p][u] = pte[p][u]
      BY <1>4, <2>2
    <3> DEFINE g == pte[p][u].frame
    <3>2. g = pte[p][u].frame
      OBVIOUS
    <3> HIDE DEF g
    <3>3. g \in Frames /\ ref[g] = 1
      <4>1. {v} \in SUBSET Pages /\ ~(p = current /\ u \in {v}) /\ pte[p][u].w
        BY <2>2, <3>1
      <4> QED
        BY <1>here, <3>2, <4>1, AloneCount
    <3>4. g # f /\ g # old /\ g # 0
      BY <3>3 DEF Frames
    <3>5. ref'[g] = 1
      BY <1>1, <3>3, <3>4
    <3> QED
      BY <3>1, <3>2, <3>4, <3>5
  <2> QED
    BY <2>1, <2>2
<1>13. NoTablesNoPages'
  <2>1. NoTablesNoPages
    BY DEF MemInv
  <2>2. \A p \in Procs \ {current} : pte'[p] = pte[p]
    BY <1>1
  <2> QED
    BY <2>1, <2>2 DEF NoTablesNoPages
<1> QED
  BY <1>8, <1>10, <1>11, <1>12, <1>13, InvNext

LEMMA LowestFree == \A k : Lowest(k) \in SUBSET Frames /\ \A f \in Lowest(k) : ref[f] = 0
  BY DEF Lowest, FreeFrames

LEMMA DemandFaultKeeps ==
    ASSUME MemInv, NEW v \in Pages, DemandFault(v), UNCHANGED panicked PROVE MemInv'
<1>1. PICK f \in Lowest(1) : /\ pte' = [pte EXCEPT ![current][v] = Mapped(f)]
                             /\ ref' = [ref EXCEPT ![f] = 1]
                             /\ content' = [content EXCEPT ![f] = Zero]
  BY DEF DemandFault
<1>2. f \in Frames /\ ref[f] = 0
  BY <1>1, LowestFree
<1>3. /\ pte[current][v].frame = 0 /\ 0 \notin Frames
  BY EntryFacts DEF DemandFault, Frames
<1>4. PageMoved(v, f, 0)
  BY <1>1, <1>3 DEF MemInv, TypeOK, PageMoved
<1>5. /\ Invlpg(v) /\ UNCHANGED <<lost, regions, low, current, leaked>>
      /\ tables' = [tables EXCEPT ![current] = @ \cup {TableOf(v)}]
  BY DEF DemandFault
<1>6. tables \in [Procs -> SUBSET Tables] /\ current \in Procs /\ TableOf(v) \in Tables
  BY DEF MemInv, TypeOK, Tables, TableOf
<1>7. /\ tables' \in [Procs -> SUBSET Tables] /\ tables'[current] # {}
      /\ \A p \in Procs : tables'[p] = {} => tables[p] = {}
  BY <1>5, <1>6
<1>8. content' \in [Frames -> Values]
  BY <1>1, ValuesAssumption DEF MemInv, TypeOK
<1> QED
  BY <1>1, <1>2, <1>3, <1>4, <1>5, <1>7, <1>8, MoveKeeps

LEMMA PresentFrame ==
    ASSUME MemInv, NEW v \in Pages, pte[current][v] # NoPage
    PROVE  pte[current][v].frame \in Frames
<1>1. current \in Procs /\ pte[current][v] \in Entries
  BY DEF MemInv, TypeOK
<1>2. pte[current][v].frame # 0
  BY <1>1, EntryFacts DEF MemInv, SharedReadOnly
<1> QED
  BY <1>1, <1>2, EntryFacts

LEMMA CowCopyKeeps ==
    ASSUME MemInv, NEW v \in Pages, CowCopy(v), UNCHANGED panicked PROVE MemInv'
<1> DEFINE old == pte[current][v].frame
<1>1. old = pte[current][v].frame
  OBVIOUS
<1> HIDE DEF old
<1>2. PICK f \in Lowest(1) : /\ content' = [content EXCEPT ![f] = content[old]]
                             /\ ref' = RefsAfterCopy(f, old)
                             /\ pte' = [pte EXCEPT ![current][v] = Mapped(f)]
  BY <1>1 DEF CowCopy
<1>3. f \in Frames /\ ref[f] = 0
  BY <1>2, LowestFree
<1>4. old \in Frames
  BY <1>1, PresentFrame DEF CowCopy, CowPage
<1>5. ref \in [Frames -> Nat] /\ content \in [Frames -> Values]
  BY DEF MemInv, TypeOK
<1>6. ref[old] > 1
  BY <1>1, <1>4, <1>5 DEF CowCopy, SoleOwner
<1>7. PageMoved(v, f, old)
  <2>1. f # old
    BY <1>3, <1>6
  <2>2. ref' = [ref EXCEPT ![f] = 1, ![old] = ref[old] - 1]
    BY <1>2, <2>1 DEF RefsAfterCopy
  <2>3. \A g \in Frames : ref'[g] = IF g = f THEN 1
                                    ELSE IF g = old THEN ref[g] - 1 ELSE ref[g]
    BY <1>3, <1>4, <1>5, <2>1, <2>2
  <2>4. ref' = [g \in Frames |-> ref'[g]]
    BY <1>5, <2>2
  <2> QED
    BY <1>2, <2>3, <2>4 DEF PageMoved
<1>8. Invlpg(v) /\ UNCHANGED <<lost, tables, regions, low, current, leaked>>
  BY DEF CowCopy
<1>9. /\ tables' \in [Procs -> SUBSET Tables]
      /\ \A p \in Procs : tables'[p] = {} => tables[p] = {}
  BY <1>8 DEF MemInv, TypeOK
<1>10. tables'[current] # {}
  BY <1>8 DEF CowCopy, CowPage, Faults, AtUser
<1>11. content' \in [Frames -> Values]
  BY <1>2, <1>4, <1>5
<1> QED
  BY <1>1, <1>2, <1>3, <1>6, <1>7, <1>8, <1>9, <1>10, <1>11, MoveKeeps

\* The only entry of a frame becomes writable again.
LEMMA CowRestoreKeeps ==
    ASSUME MemInv, NEW v \in Pages, CowRestore(v), UNCHANGED panicked PROVE MemInv'
<1> DEFINE f == pte[current][v].frame
<1>1. f = pte[current][v].frame
  OBVIOUS
<1> HIDE DEF f
<1>2. f \in Frames
  BY <1>1, PresentFrame DEF CowRestore, CowPage
<1>3. /\ pte \in [Procs -> [Pages -> Entries]] /\ current \in Procs
      /\ ref \in [Frames -> Nat] /\ lost \in [Frames -> Nat]
      /\ CountsRight(ref, lost, pte)
  BY InvParts DEF MemInv, TypeOK
<1>4. ref[f] \in Nat \ {0}
  BY <1>1, <1>2, <1>3, MappedCounted
<1>5. ref[f] = 1
  BY <1>1, <1>4 DEF CowRestore, SoleOwner
<1>6. /\ pte' = [pte EXCEPT ![current][v].w = TRUE]
      /\ Invlpg(v) /\ UNCHANGED <<ref, content, tables, regions, low, current, leaked, lost>>
  BY DEF CowRestore
<1> DEFINE e == [pte[current][v] EXCEPT !.w = TRUE]
<1>7. e = [pte[current][v] EXCEPT !.w = TRUE]
  OBVIOUS
<1> HIDE DEF e
<1>8. e \in Entries /\ e.frame = f
  <2>1. PICK x \in Entries : x = pte[current][v]
    BY <1>3
  <2>2. e = [x EXCEPT !.w = TRUE] /\ x.frame = f
    BY <1>1, <1>7, <2>1
  <2> QED
    BY <2>1, <2>2 DEF Entries
<1>9. pte' = [pte EXCEPT ![current] = [pte[current] EXCEPT ![v] = e]]
  BY <1>6, <1>7
<1>10. pte' \in [Procs -> [Pages -> Entries]]
  BY <1>3, <1>8, <1>9
<1>11. /\ pte'[current][v] = e
       /\ \A p \in Procs, u \in Pages : p # current \/ u # v => pte'[p][u] = pte[p][u]
  BY <1>3, <1>9
<1>12. \A p \in Procs, u \in Pages : pte'[p][u].frame = pte[p][u].frame
  BY <1>1, <1>8, <1>11
<1>13. \A g \in Frames : RefsTo(pte', g) = RefsTo(pte, g)
  BY <1>12 DEF RefsTo, Slots
<1>14. CountsRight(ref', lost', pte')
  BY <1>3, <1>6, <1>13 DEF CountsRight
<1>15. WritableAlone(ref', pte')
  <2> SUFFICES ASSUME NEW p \in Procs, NEW u \in Pages, pte'[p][u].w
               PROVE  pte'[p][u].frame # 0 /\ ref'[pte'[p][u].frame] = 1
    BY DEF WritableAlone
  <2>1. CASE p = current /\ u = v
    <3>1. pte'[p][u].frame = f
      BY <1>8, <1>11, <2>1
    <3>2. f # 0 /\ ref'[f] = 1
      BY <1>2, <1>5, <1>6 DEF Frames
    <3> QED
      BY <3>1, <3>2
  <2>2. CASE p # current \/ u # v
    <3>1. pte'[p][u] = pte[p][u] /\ ref' = ref
      BY <1>6, <1>11, <2>2
    <3> QED
      BY <3>1, InvParts DEF WritableAlone
  <2> QED
    BY <2>1, <2>2
<1>16. tlb' \in [TlbPages -> Entries] /\ TlbRight(tlb', pte', current')
  <2> DEFINE tab == pte'
  <2>1. tab = pte'
    OBVIOUS
  <2> HIDE DEF tab
  <2>2. \A u \in Pages \ {v} : tab[current][u].frame = pte[current][u].frame
    BY <1>3, <1>12, <2>1
  <2>3. tlb' \in [TlbPages -> Entries] /\ TlbRight(tlb', tab, current)
    BY <1>6, <2>2, TlbFlushed
  <2> QED
    BY <1>6, <2>1, <2>3
<1>17. TypeOK'
  BY <1>6, <1>10, <1>16 DEF MemInv, TypeOK
<1>18. NoTablesNoPages'
  BY <1>6, <1>12 DEF MemInv, NoTablesNoPages
<1> QED
  BY <1>14, <1>15, <1>16, <1>17, <1>18, InvNext

-----------------------------------------------------------------------------
LEMMA MemStep == MemInv /\ [Next]_vars => MemInv'
<1> SUFFICES ASSUME MemInv, [Next]_vars PROVE MemInv'
  OBVIOUS
<1>1. CASE \E v \in Pages : KernelFault(v)
  BY <1>1, PanicKeeps DEF KernelFault
<1>2. CASE UNCHANGED vars
  <2>1. UNCHANGED memory /\ panicked' \in BOOLEAN
    BY <1>2 DEF vars, MemInv, TypeOK
  <2> QED
    BY <2>1, PanicKeeps
<1>3. CASE Running /\ UNCHANGED panicked
  <2>1. CASE \E q \in Procs : Run(q) \/ Kill(q) \/ Fork(q)
    BY <1>3, <2>1, RunKeeps, KillKeeps, ForkKeeps
  <2>2. CASE ExitCall
    BY <1>3, <2>2, ExitKeeps DEF ExitCall
  <2>3. CASE Exec \/ ExecFails
    BY <1>3, <2>3, ExecKeeps, ExecFailsKeeps
  <2>4. CASE ForkUndone \/ ForkFails
    BY <1>3, <2>4, ForkUndoneKeeps, ForkFailsKeeps
  <2>5. CASE \E v \in Pages : \/ Mmap(v) \/ DemandFault(v)
                              \/ DemandFaultNoFrame(v) \/ DemandFaultAgain(v)
    BY <1>3, <2>5, MmapKeeps, DemandFaultKeeps, NoFrameKeeps, FaultAgainKeeps
  <2>6. CASE \E v \in Pages : CowRestore(v) \/ CowCopy(v)
    BY <1>3, <2>6, CowRestoreKeeps, CowCopyKeeps
  <2>7. CASE \E v \in Pages : FatalFault(v)
    BY <1>3, <2>7, ExitKeeps DEF FatalFault
  <2>8. CASE \E v \in Pages : Load(v) \/ \E d \in Values : Store(v, d) \/ KernelStore(v, d)
    BY <1>3, <2>8, AccessKeeps, ValuesAssumption
  <2>9. CASE \E f \in LowFrames : \/ MmapLow(f) \/ LowFault(f)
                                  \/ \E d \in Values : LowStore(f, d)
    BY <1>3, <2>9, LowKeeps, ValuesAssumption
  <2> QED
    BY <1>3, <2>1, <2>2, <2>3, <2>4, <2>5, <2>6, <2>7, <2>8, <2>9 DEF Running
<1> QED
  BY <1>1, <1>2, <1>3 DEF Next

LEMMA MemSafe == Spec => []MemInv
  BY MemInit, MemStep, PTL DEF Spec

\* Every variable of paging keeps its type: a count of references (pmm.c)
\* never falls below 0.
THEOREM TypeCorrect == Spec => []TypeOK
<1>1. MemInv => TypeOK
  BY DEF MemInv
<1> QED
  BY <1>1, MemSafe, PTL

\* pmm_incref and pmm_decref keep step with the page tables, whatever fork,
\* exec, exit, faults and want of frames do: no frame is freed while a process
\* maps it, and none stays in use when the last entry has gone.
THEOREM CountsExact == Spec => []RefCountExact
<1>1. MemInv => RefCountExact
  BY DEF MemInv
<1> QED
  BY <1>1, MemSafe, PTL

\* A page that several page tables name is writable through none of them, so
\* that every store to it enters paging_cow_fault.
THEOREM SharedIsReadOnly == Spec => []SharedReadOnly
<1>1. MemInv => SharedReadOnly
  BY DEF MemInv
<1> QED
  BY <1>1, MemSafe, PTL

\* The handlers flush what they must: a translation left in the TLB names the
\* frame that the page table of the running process names.
THEOREM TlbAgrees == Spec => []TlbNamesFrame
<1>1. MemInv => TlbNamesFrame
  BY DEF MemInv
<1> QED
  BY <1>1, MemSafe, PTL

-----------------------------------------------------------------------------
(***************************************************************************)
(* Each process has a memory of its own, as long as every store to a page  *)
(* that is not writable faults: no translation outlives the change of its  *)
(* entry, the kernel does not store for a process (see memory_v_read), and *)
(* no process has a region over the identity map, whose pages are frames   *)
(* of any process, all writable.  Regions over the program or its stack    *)
(* are no exception.                                                       *)
(***************************************************************************)
StoresFault == TlbPages = {} /\ "read" \notin Calls /\ LowFrames = {}

\* What a process sees through an entry, and through a table.
PageOf(e, c) == IF e.frame = 0 THEN Zero ELSE c[e.frame]
Seen(tab, c, p) == [v \in Pages |-> PageOf(tab[p][v], c)]
Mem == [p \in Procs |-> MemoryOf(p)]

LEMMA MemoryIs ==
    ASSUME NEW p \in Procs
    PROVE  /\ MemoryOf(p) = IF tables[p] = {} THEN Private!NoSpace ELSE Seen(pte, content, p)
           /\ MemoryOf(p)' = IF tables'[p] = {} THEN Private!NoSpace
                             ELSE Seen(pte', content', p)
<1>1. Spaced' = {q \in Procs : tables'[q] # {}}
  BY DEF Spaced
<1> QED
  BY <1>1 DEF MemoryOf, Seen, PageOf, Spaced, Private!NoSpace

LEMMA SpaceIsThere == \A tab, c, p : Seen(tab, c, p) # Private!NoSpace
<1> SUFFICES ASSUME NEW tab, NEW c, NEW p, Seen(tab, c, p) = Private!NoSpace
             PROVE  FALSE
  OBVIOUS
<1>1. DOMAIN Seen(tab, c, p) = Pages /\ DOMAIN Private!NoSpace = {}
  BY DEF Seen, Private!NoSpace
<1>2. StackPage \in Pages
  BY DEF Pages, Window
<1> QED
  BY <1>1, <1>2

LEMMA PageSame ==
    ASSUME NEW e, NEW e2, NEW c, e2.frame = e.frame
    PROVE  PageOf(e2, c) = PageOf(e, c)
BY DEF PageOf

LEMMA SeenSame ==
    ASSUME NEW tab, NEW c, NEW tab2, NEW c2, NEW p, NEW q,
           \A v \in Pages : PageOf(tab2[q][v], c2) = PageOf(tab[p][v], c)
    PROVE  Seen(tab2, c2, q) = Seen(tab, c, p)
BY DEF Seen

\* Nobody's memory changes when each entry still shows what it showed.
LEMMA MemSame ==
    ASSUME NEW p \in Procs, tables'[p] = {} <=> tables[p] = {},
           \A v \in Pages : PageOf(pte'[p][v], content') = PageOf(pte[p][v], content)
    PROVE  MemoryOf(p)' = MemoryOf(p)
<1>1. Seen(pte', content', p) = Seen(pte, content, p)
  BY SeenSame
<1> QED
  BY <1>1, MemoryIs

LEMMA QuietMem ==
    ASSUME UNCHANGED content, \A p \in Procs : tables'[p] = {} <=> tables[p] = {},
           \A p \in Procs, v \in Pages : pte'[p][v].frame = pte[p][v].frame
    PROVE  UNCHANGED Mem
<1>1. ASSUME NEW p \in Procs
      PROVE  MemoryOf(p)' = MemoryOf(p)
  <2>1. \A v \in Pages : PageOf(pte'[p][v], content') = PageOf(pte[p][v], content)
    BY DEF PageOf
  <2> QED
    BY <2>1, MemSame
<1> QED
  BY <1>1 DEF Mem

\* No entry shows a free frame.
LEMMA FreshUnseen ==
    ASSUME MemInv, NEW f \in Frames, ref[f] = 0, NEW p \in Procs, NEW v \in Pages
    PROVE  pte[p][v].frame # f
<1>1. RefsTo(pte, f) = {}
  BY InvParts, FreeUnmapped DEF MemInv, TypeOK
<1>2. <<p, v>> \in Slots /\ <<p, v>> \notin RefsTo(pte, f)
  BY <1>1 DEF Slots
<1> QED
  BY <1>2 DEF RefsTo

\* Giving an address space back ends one memory.
LEMMA EndMem ==
    ASSUME MemInv, NEW p \in Procs, FreeAddressSpace(p)
    PROVE  Private!Next
<1>1. /\ tables' = [tables EXCEPT ![p] = {}]
      /\ pte' = [pte EXCEPT ![p] = [v \in Pages |-> NoPage]]
      /\ content' = content
      /\ tables \in [Procs -> SUBSET Tables] /\ pte \in [Procs -> [Pages -> Entries]]
  BY DEF FreeAddressSpace, MemInv, TypeOK
<1>2. MemoryOf(p)' = Private!NoSpace
  <2>1. tables'[p] = {}
    BY <1>1
  <2> QED
    BY <2>1, MemoryIs
<1>3. ASSUME NEW q \in Procs, q # p
      PROVE  MemoryOf(q)' = MemoryOf(q)
  <2>1. tables'[q] = tables[q] /\ pte'[q] = pte[q]
    BY <1>1, <1>3
  <2> QED
    BY <1>1, <2>1, MemSame
<1>4. Mem' = [Mem EXCEPT ![p] = Private!NoSpace]
  BY <1>2, <1>3 DEF Mem
<1>5. Private!End(p)
  BY <1>4 DEF Private!End, Mem
<1> QED
  BY <1>5 DEF Private!Next

\* A page that moves to a free frame with what it held is not seen to move.
LEMMA MoveMem ==
    ASSUME MemInv, NEW v \in Pages, NEW f \in Frames, ref[f] = 0,
           pte' = [pte EXCEPT ![current][v] = Mapped(f)],
           content' = [content EXCEPT ![f] = PageOf(pte[current][v], content)],
           \A p \in Procs : tables'[p] = {} <=> tables[p] = {}
    PROVE  UNCHANGED Mem
<1>1. /\ pte \in [Procs -> [Pages -> Entries]] /\ content \in [Frames -> Values]
      /\ current \in Procs
  BY DEF MemInv, TypeOK
<1>2. ASSUME NEW p \in Procs, NEW u \in Pages
      PROVE  PageOf(pte'[p][u], content') = PageOf(pte[p][u], content)
  <2>1. CASE p = current /\ u = v
    <3>1. pte'[p][u] = Mapped(f)
      BY <1>1, <2>1
    <3>2. Mapped(f).frame = f /\ f # 0
      BY EntryFacts DEF Frames
    <3>3. content'[f] = PageOf(pte[current][v], content)
      BY <1>1
    <3>4. PageOf(Mapped(f), content') = content'[f]
      BY <3>2 DEF PageOf
    <3> QED
      BY <2>1, <3>1, <3>3, <3>4
  <2>2. CASE ~(p = current /\ u = v)
    <3>1. pte'[p][u] = pte[p][u]
      BY <1>1, <2>2
    <3>2. pte[p][u].frame # f
      BY FreshUnseen
    <3>3. \A g \in Frames : g # f => content'[g] = content[g]
      BY <1>1
    <3>4. pte[p][u].frame # 0 => pte[p][u].frame \in Frames
      BY <1>1, EntryFacts
    <3>5. PageOf(pte[p][u], content') = PageOf(pte[p][u], content)
      BY <3>2, <3>3, <3>4 DEF PageOf
    <3> QED
      BY <3>1, <3>5
  <2> QED
    BY <2>1, <2>2
<1>3. ASSUME NEW p \in Procs
      PROVE  MemoryOf(p)' = MemoryOf(p)
  BY <1>2, MemSame
<1> QED
  BY <1>3 DEF Mem

LEMMA DemandMem ==
    ASSUME MemInv, NEW v \in Pages, DemandFault(v)
    PROVE  UNCHANGED Mem
<1>1. PICK f \in Lowest(1) : /\ pte' = [pte EXCEPT ![current][v] = Mapped(f)]
                             /\ content' = [content EXCEPT ![f] = Zero]
  BY DEF DemandFault
<1>2. f \in Frames /\ ref[f] = 0
  BY <1>1, LowestFree
<1>3. PageOf(pte[current][v], content) = Zero
  BY EntryFacts DEF DemandFault, PageOf
<1>4. \A p \in Procs : tables'[p] = {} <=> tables[p] = {}
  <2>1. /\ tables' = [tables EXCEPT ![current] = tables[current] \cup {TableOf(v)}]
        /\ "image" \in tables[current]
    BY DEF DemandFault, Faults, AtUser
  <2>2. tables \in [Procs -> SUBSET Tables] /\ current \in Procs
    BY DEF MemInv, TypeOK
  <2> QED
    BY <2>1, <2>2
<1>5. content' = [content EXCEPT ![f] = PageOf(pte[current][v], content)]
  BY <1>1, <1>3
<1> QED
  BY <1>1, <1>2, <1>4, <1>5, MoveMem

LEMMA CowCopyMem ==
    ASSUME MemInv, NEW v \in Pages, CowCopy(v)
    PROVE  UNCHANGED Mem
<1> DEFINE old == pte[current][v].frame
<1>1. PICK f \in Lowest(1) : /\ pte' = [pte EXCEPT ![current][v] = Mapped(f)]
                             /\ content' = [content EXCEPT ![f] = content[old]]
  BY DEF CowCopy
<1>2. f \in Frames /\ ref[f] = 0
  BY <1>1, LowestFree
<1>3. old \in Frames
  BY PresentFrame DEF CowCopy, CowPage
<1>4. PageOf(pte[current][v], content) = content[old]
  BY <1>3 DEF PageOf, Frames
<1>5. tables' = tables
  BY DEF CowCopy
<1>6. content' = [content EXCEPT ![f] = PageOf(pte[current][v], content)]
  BY <1>1, <1>4
<1> QED
  BY <1>1, <1>2, <1>5, <1>6, MoveMem

\* A store that does not fault changes the memory of the running process
\* alone: its frame is in no other entry.
LEMMA StoreMem ==
    ASSUME StoresFault, MemInv, NEW v \in Pages, NEW d \in Values, Store(v, d)
    PROVE  Private!Next
<1>1. /\ pte \in [Procs -> [Pages -> Entries]] /\ content \in [Frames -> Values]
      /\ current \in Procs /\ lost \in [Frames -> Nat] /\ ref \in [Frames -> Nat]
      /\ CountsRight(ref, lost, pte) /\ WritableAlone(ref, pte)
  BY InvParts DEF MemInv, TypeOK
<1>2. /\ pte[current][v].frame # 0 /\ pte[current][v].w
      /\ content' = [content EXCEPT ![pte[current][v].frame] = d]
      /\ pte' = pte /\ tables' = tables
      /\ "image" \in tables[current]
  BY DEF StoresFault, Store, Translations, AtUser
<1>3. PICK f \in Frames : f = pte[current][v].frame
  BY <1>1, <1>2, EntryFacts
<1>4. ref[f] = 1 /\ f # 0
  BY <1>1, <1>2, <1>3 DEF WritableAlone
<1>5. content'[f] = d /\ \A g \in Frames : g # f => content'[g] = content[g]
  BY <1>1, <1>2, <1>3
<1>6. ASSUME NEW p \in Procs, NEW u \in Pages
      PROVE  PageOf(pte'[p][u], content') =
                 IF p = current /\ u = v THEN d ELSE PageOf(pte[p][u], content)
  <2>1. CASE p = current /\ u = v
    BY <1>2, <1>3, <1>4, <1>5, <2>1 DEF PageOf
  <2>2. CASE ~(p = current /\ u = v)
    <3>1. pte[p][u].frame # f
      <4> SUFFICES ASSUME pte[p][u].frame = f
                   PROVE  FALSE
        OBVIOUS
      <4>1. PICK c \in Procs : c = current
        BY <1>1
      <4>2. pte[c][v].frame = f /\ ref[f] = 1
        BY <1>3, <1>4, <4>1
      <4>3. lost \in [Frames -> Nat] /\ CountsRight(ref, lost, pte)
        BY <1>1
      <4>4. p = c /\ u = v
        BY <4>2, <4>3, OneEntry
      <4> QED
        BY <2>2, <4>1, <4>4
    <3>2. pte[p][u].frame # 0 => pte[p][u].frame \in Frames
      BY <1>1, EntryFacts
    <3> QED
      BY <1>2, <1>5, <2>2, <3>1, <3>2 DEF PageOf
  <2> QED
    BY <2>1, <2>2
<1>7. ASSUME NEW p \in Procs, p # current
      PROVE  MemoryOf(p)' = MemoryOf(p)
  <2>1. \A u \in Pages : PageOf(pte'[p][u], content') = PageOf(pte[p][u], content)
    BY <1>6, <1>7
  <2> QED
    BY <1>2, <2>1, MemSame
<1>8. MemoryOf(current) # Private!NoSpace
      /\ MemoryOf(current)' = [MemoryOf(current) EXCEPT ![v] = d]
  <2>1. PICK c \in Procs : c = current
    BY <1>1
  <2>2. tables[c] # {} /\ tables'[c] # {}
    BY <1>2, <2>1
  <2>3. MemoryOf(c) = Seen(pte, content, c) /\ MemoryOf(c)' = Seen(pte', content', c)
    BY <2>2, MemoryIs
  <2>4. Seen(pte', content', c) = [Seen(pte, content, c) EXCEPT ![v] = d]
    BY <1>6, <2>1 DEF Seen
  <2>5. current' = current
    BY DEF Store
  <2> QED
    BY <2>1, <2>3, <2>4, <2>5, SpaceIsThere
<1>9. Mem' = [Mem EXCEPT ![current][v] = d]
  BY <1>1, <1>7, <1>8 DEF Mem, Store
<1>10. Private!Store(current)
  BY <1>1, <1>8, <1>9 DEF Private!Store, Mem
<1> QED
  BY <1>1, <1>10 DEF Private!Next

\* The child starts with what its parent sees.
LEMMA ForkMem ==
    ASSUME MemInv, NEW q \in Procs, Fork(q)
    PROVE  Private!Next
<1> DEFINE S == SharedEntries(current, Pages)
<1>0. content' = content
  BY DEF Fork
<1>1. S = SharedEntries(current, Pages)
  OBVIOUS
<1> HIDE DEF S
<1>2. /\ q # current /\ tables[q] = {}
      /\ pte' = [pte EXCEPT ![current] = S, ![q] = S]
      /\ tables' = [tables EXCEPT ![q] = CloneTables(current)]
      /\ content' = content
  BY <1>1 DEF Fork, Spaced
<1>3. /\ pte \in [Procs -> [Pages -> Entries]] /\ current \in Procs
      /\ tables \in [Procs -> SUBSET Tables]
  BY DEF MemInv, TypeOK
<1>4. \A v \in Pages : S[v].frame = pte[current][v].frame
  BY <1>1, SharedFacts
<1>5. /\ pte'[current] = S /\ pte'[q] = S
      /\ \A p \in Procs \ {current, q} : pte'[p] = pte[p]
  BY <1>2, <1>3
<1>6. /\ tables'[q] # {}
      /\ \A p \in Procs \ {q} : tables'[p] = tables[p]
  <2>1. tables'[q] = CloneTables(current)
    BY <1>2, <1>3
  <2> QED
    BY <1>2, <1>3, <2>1 DEF CloneTables
<1>7. ASSUME NEW p \in Procs, p # q
      PROVE  MemoryOf(p)' = MemoryOf(p)
  <2>1. \A v \in Pages : pte'[p][v].frame = pte[p][v].frame
    BY <1>4, <1>5, <1>7
  <2>2. \A v \in Pages : PageOf(pte'[p][v], content') = PageOf(pte[p][v], content)
    BY <1>0, <2>1, PageSame
  <2> QED
    BY <1>6, <1>7, <2>2, MemSame
<1> DEFINE child == IF tables[current] = {} THEN [v \in Pages |-> Zero]
                    ELSE MemoryOf(current)
<1>8. MemoryOf(q)' = child
  <2>1. MemoryOf(q)' = Seen(pte', content', q)
    BY <1>6, MemoryIs
  <2>2. \A v \in Pages : pte'[q][v].frame = pte[current][v].frame
    BY <1>4, <1>5
  <2>3. CASE tables[current] = {}
    <3>1. \A v \in Pages : pte[current][v].frame = 0
      BY <1>3, <2>3 DEF MemInv, NoTablesNoPages
    <3> QED
      BY <2>1, <2>2, <2>3, <3>1 DEF Seen, PageOf
  <2>4. CASE tables[current] # {}
    <3>1. MemoryOf(current) = Seen(pte, content, current)
      BY <1>3, <2>4, MemoryIs
    <3>2. \A v \in Pages : PageOf(pte'[q][v], content') = PageOf(pte[current][v], content)
      BY <1>0, <2>2, PageSame
    <3>3. Seen(pte', content', q) = Seen(pte, content, current)
      BY <3>2, SeenSame
    <3> QED
      BY <2>1, <2>4, <3>1, <3>3
  <2> QED
    BY <2>3, <2>4
<1>9. /\ Mem[q] = Private!NoSpace
      /\ Mem[current] = Private!NoSpace <=> tables[current] = {}
  BY <1>2, <1>3, MemoryIs, SpaceIsThere DEF Mem
<1> HIDE DEF child
<1>10. Mem' = [Mem EXCEPT ![q] = child]
  BY <1>7, <1>8 DEF Mem
<1>11. child = IF Mem[current] = Private!NoSpace THEN [v \in Pages |-> Zero] ELSE Mem[current]
  BY <1>3, <1>9 DEF child, Mem
<1>12. Private!Fork(current, q)
  BY <1>9, <1>10, <1>11 DEF Private!Fork, Mem
<1> QED
  BY <1>3, <1>12 DEF Private!Next

\* exec gives the process the image of the program, on frames nobody sees.
LEMMA ExecMem ==
    ASSUME MemInv, Exec
    PROVE  Private!Next
<1> DEFINE loaded == IF Room > ExecNeeds THEN Window ELSE ImagePages
<1>1. loaded = IF Room > ExecNeeds THEN Window ELSE ImagePages
  OBVIOUS
<1> HIDE DEF loaded
<1>2. /\ loaded \in SUBSET Pages /\ ImagePages \subseteq loaded
      /\ \A v \in loaded : v \in ImagePages \/ v = StackPage
  BY <1>1 DEF Pages, Window
<1>3. PICK fresh \in {Lowest(Cardinality(loaded))} : LoadPages(loaded, fresh)
  BY <1>1 DEF Exec
<1>4. PICK at \in [loaded -> fresh] :
        /\ \A u, v \in loaded : u < v => at[u] < at[v]
        /\ content' = [f \in Frames |->
             IF f \in fresh
             THEN IF \E v \in ImagePages : at[v] = f THEN FileData ELSE Zero
             ELSE content[f]]
        /\ pte' = [pte EXCEPT ![current] =
             [v \in Pages |-> IF v \in loaded THEN Mapped(at[v]) ELSE NoPage]]
  BY <1>3 DEF LoadPages
<1>5. fresh \in SUBSET Frames /\ \A f \in fresh : ref[f] = 0
  BY <1>3, LowestFree
<1>6. \A u, v \in loaded : at[u] = at[v] => u = v
  <2> SUFFICES ASSUME NEW u \in loaded, NEW v \in loaded, at[u] = at[v], u # v
               PROVE  FALSE
    OBVIOUS
  <2>1. u \in Nat /\ v \in Nat
    BY <1>2, PagesAssumption
  <2>2. at[u] \in Frames /\ at[v] \in Frames
    BY <1>4, <1>5
  <2>3. at[u] \in Nat /\ at[v] \in Nat
    BY <2>2 DEF Frames
  <2>4. u < v \/ v < u
    BY <2>1
  <2> QED
    BY <1>4, <2>3, <2>4
<1>7. /\ pte \in [Procs -> [Pages -> Entries]] /\ current \in Procs
      /\ tables \in [Procs -> SUBSET Tables]
  BY DEF MemInv, TypeOK
<1>8. /\ \A v \in loaded : pte'[current][v] = Mapped(at[v])
      /\ \A v \in Pages \ loaded : pte'[current][v] = NoPage
      /\ \A p \in Procs \ {current} : pte'[p] = pte[p]
  BY <1>2, <1>4, <1>7
<1>9. /\ tables[current] # {} /\ tables'[current] # {}
      /\ \A p \in Procs \ {current} : tables'[p] = tables[p]
  BY <1>7 DEF Exec, Spaced
<1>10. ASSUME NEW p \in Procs, p # current
       PROVE  MemoryOf(p)' = MemoryOf(p)
  <2>1. ASSUME NEW v \in Pages
        PROVE  PageOf(pte'[p][v], content') = PageOf(pte[p][v], content)
    <3>1. pte[p][v].frame \notin fresh
      BY <1>5, FreshUnseen
    <3>2. pte[p][v].frame # 0 => pte[p][v].frame \in Frames
      BY <1>7, EntryFacts
    <3>3. \A f \in Frames \ fresh : content'[f] = content[f]
      BY <1>4
    <3> QED
      BY <1>8, <1>10, <3>1, <3>2, <3>3 DEF PageOf
  <2> QED
    BY <1>9, <1>10, <2>1, MemSame
<1> DEFINE image == [v \in Pages |-> IF v \in ImagePages THEN FileData ELSE Zero]
<1>11. ASSUME NEW v \in Pages
       PROVE  PageOf(pte'[current][v], content') = image[v]
  <2>1. CASE v \in loaded
    <3>1. PICK f \in Frames : f = at[v] /\ f \in fresh
      BY <1>4, <1>5, <2>1
    <3>2. pte'[current][v].frame = f /\ f # 0
      BY <1>8, <2>1, <3>1, EntryFacts DEF Frames
    <3>3. (\E u \in ImagePages : at[u] = f) <=> v \in ImagePages
      BY <1>2, <1>6, <2>1, <3>1
    <3>4. content'[f] = IF v \in ImagePages THEN FileData ELSE Zero
      BY <1>4, <3>1, <3>3
    <3> QED
      BY <3>2, <3>4 DEF PageOf
  <2>2. CASE v \notin loaded
    BY <1>2, <1>8, <2>2, EntryFacts DEF PageOf
  <2> QED
    BY <2>1, <2>2
<1>12. MemoryOf(current)' = image /\ current' = current
  <2>1. PICK c \in Procs : c = current
    BY <1>7
  <2>2. MemoryOf(c)' = Seen(pte', content', c)
    BY <1>9, <2>1, MemoryIs
  <2>3. Seen(pte', content', c) = image
    BY <1>11, <2>1 DEF Seen
  <2>4. current' = current
    BY DEF Exec
  <2> QED
    BY <2>1, <2>2, <2>3, <2>4
<1>13. Mem[current] # Private!NoSpace
  BY <1>7, <1>9, MemoryIs, SpaceIsThere DEF Mem
<1> HIDE DEF image
<1>14. Mem' = [Mem EXCEPT ![current] = image]
  BY <1>7, <1>10, <1>12 DEF Mem
<1>15. Private!Exec(current)
  BY <1>13, <1>14 DEF Private!Exec, Mem, image
<1> QED
  BY <1>7, <1>15 DEF Private!Next

-----------------------------------------------------------------------------
\* Every other step leaves all memories as they are.
LEMMA OtherMem ==
    ASSUME MemInv,
           \/ \E q \in Procs : Run(q)
           \/ ExecFails \/ ForkUndone \/ ForkFails
           \/ \E v \in Pages : \/ Mmap(v) \/ Load(v) \/ DemandFaultNoFrame(v)
                               \/ DemandFaultAgain(v) \/ CowRestore(v)
           \/ UNCHANGED vars \/ UNCHANGED memory
    PROVE  UNCHANGED Mem
<1>1. /\ pte \in [Procs -> [Pages -> Entries]] /\ current \in Procs
      /\ tables \in [Procs -> SUBSET Tables]
  BY DEF MemInv, TypeOK
<1>2. CASE \/ \E q \in Procs : Run(q)
           \/ ExecFails
           \/ \E v \in Pages : Mmap(v) \/ Load(v) \/ DemandFaultAgain(v)
           \/ UNCHANGED vars \/ UNCHANGED memory
  <2>1. UNCHANGED <<content, tables, pte>>
    BY <1>2 DEF Run, ExecFails, Mmap, Load, DemandFaultAgain, vars, memory
  <2> QED
    BY <2>1, QuietMem
<1>3. CASE ForkUndone \/ ForkFails
  <2>1. PICK V \in SUBSET Pages :
          /\ pte' = [pte EXCEPT ![current] = SharedEntries(current, V)]
          /\ UNCHANGED <<content, tables>>
    <3>1. CASE ForkUndone
      BY <3>1 DEF ForkUndone
    <3>2. CASE ForkFails
      <4>1. PICK V \in {Window, {}} :
              /\ pte' = [pte EXCEPT ![current] = SharedEntries(current, V)]
              /\ UNCHANGED <<content, tables>>
        BY <3>2 DEF ForkFails
      <4>2. V \in SUBSET Pages
        BY DEF Pages
      <4> QED
        BY <4>1, <4>2
    <3> QED
      BY <1>3, <3>1, <3>2
  <2>2. \A v \in Pages : SharedEntries(current, V)[v].frame = pte[current][v].frame
    BY SharedFacts
  <2>3. \A p \in Procs, v \in Pages : pte'[p][v].frame = pte[p][v].frame
    BY <1>1, <2>1, <2>2
  <2> QED
    BY <2>1, <2>3, QuietMem
<1>4. ASSUME NEW v \in Pages, DemandFaultNoFrame(v)
      PROVE  UNCHANGED Mem
  <2>1. /\ UNCHANGED <<content, pte>>
        /\ tables' = [tables EXCEPT ![current] = tables[current] \cup {TableOf(v)}]
        /\ "image" \in tables[current]
    BY <1>4 DEF DemandFaultNoFrame, Faults, AtUser
  <2>2. \A p \in Procs : tables'[p] = {} <=> tables[p] = {}
    BY <1>1, <2>1
  <2> QED
    BY <2>1, <2>2, QuietMem
<1>5. ASSUME NEW v \in Pages, CowRestore(v)
      PROVE  UNCHANGED Mem
  <2>1. /\ UNCHANGED <<content, tables>>
        /\ pte' = [pte EXCEPT ![current][v].w = TRUE]
    BY <1>5 DEF CowRestore
  <2>2. \A p \in Procs, u \in Pages : pte'[p][u].frame = pte[p][u].frame
    BY <1>1, <2>1 DEF Entries
  <2> QED
    BY <2>1, <2>2, QuietMem
<1> QED
  BY <1>2, <1>3, <1>4, <1>5

LEMMA MemRefines ==
    ASSUME StoresFault, MemInv, [Next]_vars
    PROVE  [Private!Next]_Mem
<1>0. current \in Procs
  BY DEF MemInv, TypeOK
<1>1. CASE \E q \in Procs : Kill(q) \/ Fork(q)
  BY <1>1, EndMem, ForkMem DEF Kill
<1>2. CASE Exit
  BY <1>0, <1>2, EndMem DEF Exit
<1>3. CASE Exec
  BY <1>3, ExecMem
<1>4. CASE \E v \in Pages : DemandFault(v) \/ CowCopy(v)
  BY <1>4, DemandMem, CowCopyMem
<1>5. CASE \E v \in Pages, d \in Values : Store(v, d)
  BY <1>5, StoreMem
<1>6. CASE \/ \E q \in Procs : Run(q)
           \/ ExecFails \/ ForkUndone \/ ForkFails
           \/ \E v \in Pages : \/ Mmap(v) \/ Load(v) \/ DemandFaultNoFrame(v)
                               \/ DemandFaultAgain(v) \/ CowRestore(v)
           \/ UNCHANGED vars
  BY <1>6, OtherMem
<1>7. \A v, d : ~KernelStore(v, d) /\ ~KernelFault(v)
  BY DEF StoresFault, KernelStore, KernelFault
<1>8. ~\E f \in LowFrames : TRUE
  BY DEF StoresFault
<1>9. CASE Running
  BY <1>1, <1>2, <1>3, <1>4, <1>5, <1>6, <1>7, <1>8, <1>9 DEF Running, ExitCall, FatalFault
<1> QED
  BY <1>6, <1>7, <1>9 DEF Next

LEMMA MemStarts == Init => Private!Init
<1> SUFFICES ASSUME Init PROVE Private!Init
  OBVIOUS
<1>1. \A p \in Procs : MemoryOf(p) = Private!NoSpace
  BY MemoryIs DEF Init
<1> QED
  BY <1>1 DEF Private!Init

\* fork by copy-on-write, demand paging, exec and the freeing of frames give
\* every process a memory that only its own stores change, for any number of
\* processes, pages and frames, while each store to a shared page faults.
THEOREM MemoryIsPrivate == StoresFault => (Spec => IsPrivate)
<1> SUFFICES ASSUME StoresFault
             PROVE  Spec => IsPrivate
  OBVIOUS
<1>1. MemInv /\ [Next]_vars => [Private!Next]_Mem
  BY MemRefines
<1> QED
  BY <1>1, MemSafe, MemStarts, PTL DEF Spec, IsPrivate, Private!Spec, Mem
=============================================================================
