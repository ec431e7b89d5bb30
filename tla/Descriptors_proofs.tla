------------------------ MODULE Descriptors_proofs -------------------------
(***************************************************************************)
(* What descriptors name: open files and pipes.                            *)
(*                                                                         *)
(* Files, for all files, inodes and processes: no inode is lost but to a   *)
(* process that ends, and a descriptor whose file nobody has displaced     *)
(* reads that file.  Needed beside the two: a process that does not run    *)
(* has no descriptor, and alone has open descriptors only.                 *)
(*                                                                         *)
(* Pipes, for all sizes, processes and slots: the ring of a slot is a      *)
(* queue of bytes (Channel), and the counts of open ends are exact for a   *)
(* pipe that one process holds.                                            *)
(***************************************************************************)
EXTENDS Files, Pipe, SequenceTheorems, FiniteSetTheorems, TLAPS
-----------------------------------------------------------------------------
(***************************************************************************)
(* Pipes.  head and tail run through 0 .. IndexWrap - 1, and their         *)
(* remainders by PipeBuf through the ring, whenever they wrap.             *)
(***************************************************************************)
LEMMA Divide ==
    ASSUME NEW a \in Nat, NEW b \in Nat \ {0}
    PROVE  a % b \in 0 .. b - 1 /\ a = (a \div b) * b + (a % b) /\ a \div b \in Nat
  OBVIOUS

LEMMA Remainder ==
    ASSUME NEW b \in Nat \ {0}, NEW q \in Int, NEW r \in 0 .. b - 1
    PROVE  (q * b + r) % b = r
  OBVIOUS

LEMMA TwiceRemainder ==
    ASSUME NEW a \in Nat, NEW b \in Nat \ {0}, NEW w \in Nat \ {0}, w % b = 0
    PROVE  (a % w) % b = a % b
<1> DEFINE r == a % w
<1> DEFINE q == a \div w
<1> DEFINE k == w \div b
<1> DEFINE q2 == r \div b
<1> DEFINE r2 == r % b
<1>1. r \in Nat /\ q \in Nat /\ a = q * w + r
  BY Divide
<1>2. k \in Nat /\ w = k * b
  BY Divide
<1> HIDE DEF r, q, k
<1>3. r2 \in 0 .. b - 1 /\ q2 \in Nat /\ r = q2 * b + r2
  BY <1>1, Divide
<1> HIDE DEF q2, r2
<1>4. a = q * (k * b) + (q2 * b + r2)
  BY <1>1, <1>2, <1>3
<1>5. q * (k * b) + (q2 * b + r2) = (q * k + q2) * b + r2
  BY <1>1, <1>2, <1>3
<1>6. q * k + q2 \in Int
  BY <1>1, <1>2, <1>3
<1> DEFINE m == q * k + q2
<1>7. a = m * b + r2 /\ m \in Int
  BY <1>4, <1>5, <1>6
<1> HIDE DEF m
<1>8. (m * b + r2) % b = r2
  BY <1>3, <1>7, Remainder
<1> QED
  BY <1>7, <1>8 DEF r, r2

Cells == 0 .. PipeBuf - 1

\* The cell i places behind cell t.
Behind(t, i) == IF t + i < PipeBuf THEN t + i ELSE t + i - PipeBuf

PipeRecords == [data : [Cells -> Nat], head : Nat, tail : Nat, count : 0 .. PipeBuf,
                readOpen : Int, writeOpen : Int, valid : BOOLEAN]

\* A buffer is well formed when tail is count places behind head.
RingOK(b) == /\ b \in PipeRecords
             /\ b.tail % PipeBuf = Behind(b.head % PipeBuf, b.count)

\* What is in the buffer, oldest byte first.
Content(b) == [j \in 1 .. b.count |-> b.data[(b.head + j - 1) % PipeBuf]]

LEMMA BehindIs ==
    ASSUME NEW a \in Nat, NEW i \in 0 .. PipeBuf
    PROVE  /\ a % PipeBuf \in Cells
           /\ (a + i) % PipeBuf = Behind(a % PipeBuf, i)
           /\ Behind(a % PipeBuf, i) \in Cells
<1> DEFINE B == PipeBuf
<1> DEFINE q == a \div B
<1> DEFINE r == a % B
<1>0. B \in Nat \ {0}
  BY PipeSizesAssumption
<1>1. r \in 0 .. B - 1 /\ a = q * B + r /\ q \in Nat
  BY <1>0, Divide
<1>a. q \in Int
  BY <1>1
<1>2. r = a % PipeBuf /\ B = PipeBuf
  OBVIOUS
<1> HIDE DEF q, r, B
<1>3. CASE r + i < B
  <2>1. r + i \in 0 .. B - 1
    BY <1>0, <1>1, <1>2, <1>3
  <2> DEFINE m == r + i
  <2> HIDE DEF m
  <2>2. a + i = q * B + m
    BY <1>0, <1>1, <1>2 DEF m
  <2>3. (q * B + m) % B = m
    BY <1>0, <1>a, <2>1, Remainder, Zenon DEF m
  <2> QED
    BY <1>1, <1>2, <1>3, <2>1, <2>2, <2>3 DEF m, Behind, Cells
<1>4. CASE ~(r + i < B)
  <2>1. r + i - B \in 0 .. B - 1
    BY <1>0, <1>1, <1>2, <1>4
  <2> DEFINE m == r + i - B
  <2> DEFINE q2 == q + 1
  <2>2. q2 \in Int /\ q2 * B = q * B + B
    BY <1>0, <1>1
  <2> HIDE DEF m, q2
  <2>3. a + i = q2 * B + m
    <3> DEFINE y == q * B
    <3> DEFINE z == q2 * B
    <3>1. y \in Int /\ z = y + B /\ a = y + r /\ B \in Int /\ r \in Int
      BY <1>0, <1>1, <2>2
    <3> HIDE DEF y, z
    <3>2. a + i = z + m
      BY <3>1 DEF m
    <3> QED
      BY <3>2 DEF z
  <2>4. (q2 * B + m) % B = m
    BY <1>0, <2>1, <2>2, Remainder, Zenon DEF m
  <2> QED
    BY <1>1, <1>2, <1>4, <2>1, <2>3, <2>4 DEF m, Behind, Cells
<1> QED
  BY <1>3, <1>4

LEMMA BehindTwice ==
    ASSUME NEW h \in Cells, NEW n \in Nat, NEW k \in Nat, n + k <= PipeBuf
    PROVE  Behind(Behind(h, n), k) = Behind(h, n + k)
  BY PipeSizesAssumption DEF Behind, Cells

LEMMA BehindOnce ==
    ASSUME NEW h \in Cells, NEW i \in Cells, NEW j \in Cells,
           Behind(h, i) = Behind(h, j)
    PROVE  i = j
  BY PipeSizesAssumption DEF Behind, Cells

LEMMA ContentIs ==
    ASSUME NEW b, RingOK(b)
    PROVE  /\ Content(b) \in Seq(Nat)
           /\ Len(Content(b)) = b.count
           /\ \A j \in 1 .. b.count :
                /\ Behind(b.head % PipeBuf, j - 1) \in Cells
                /\ Content(b)[j] = b.data[Behind(b.head % PipeBuf, j - 1)]
<1>1. /\ b.head \in Nat /\ b.count \in 0 .. PipeBuf /\ b.data \in [Cells -> Nat]
      /\ PipeBuf \in Nat \ {0}
  BY PipeSizesAssumption DEF RingOK, PipeRecords
<1>2. ASSUME NEW j \in 1 .. b.count
      PROVE  /\ (b.head + j - 1) % PipeBuf = Behind(b.head % PipeBuf, j - 1)
             /\ Behind(b.head % PipeBuf, j - 1) \in Cells
  <2> DEFINE i == j - 1
  <2>1. i \in 0 .. PipeBuf /\ b.head + j - 1 = b.head + i
    BY <1>1
  <2> HIDE DEF i
  <2>2. (b.head + i) % PipeBuf = Behind(b.head % PipeBuf, i) /\ Behind(b.head % PipeBuf, i) \in Cells
    BY <1>1, <2>1, BehindIs
  <2> QED
    BY <2>1, <2>2 DEF i
<1>3. Content(b) \in [1 .. b.count -> Nat]
  BY <1>1, <1>2 DEF Content
<1>4. Content(b) \in Seq(Nat) /\ Len(Content(b)) = b.count
  BY <1>1, <1>3
<1> QED
  BY <1>2, <1>4 DEF Content

\* A write fills the cells behind tail with the bytes that it takes, in order.
LEMMA WrittenIs ==
    ASSUME NEW b, RingOK(b), NEW data \in Writes
    PROVE  LET k == Takes(b, Len(data)) IN
           /\ data \in Seq(Nat) /\ k \in 0 .. Len(data)
           /\ k = IF Len(data) <= PipeBuf - b.count THEN Len(data) ELSE PipeBuf - b.count
           /\ RingOK(Written(b, data))
           /\ Written(b, data).count = b.count + k
           /\ Content(Written(b, data)) = Content(b) \o SubSeq(data, 1, k)
<1> DEFINE k == Takes(b, Len(data))
<1> DEFINE w == Written(b, data)
<1> DEFINE h == b.head % PipeBuf
<1> DEFINE t == b.tail % PipeBuf
<1> DEFINE n == b.count
<1>1. /\ b \in PipeRecords /\ b.head \in Nat /\ b.tail \in Nat /\ n \in 0 .. PipeBuf
      /\ b.data \in [Cells -> Nat] /\ PipeBuf \in Nat \ {0} /\ IndexWrap \in Nat \ {0}
      /\ t = Behind(h, n)
  BY PipeSizesAssumption, WrapAssumption DEF RingOK, PipeRecords
<1>2. h \in Cells /\ t \in Cells
  BY <1>1, BehindIs
<1>3. data \in Seq(Nat) /\ Len(data) \in Nat
  <2>1. PICK m \in 1 .. MaxLen : data \in [1 .. m -> Bytes]
    BY DEF Writes
  <2>2. m \in Nat
    BY <2>1, PipeSizesAssumption
  <2>3. data \in [1 .. m -> Nat]
    BY <2>1, BytesAssumption
  <2> QED
    BY <2>2, <2>3
<1>4. /\ k \in 0 .. Len(data) /\ n + k <= PipeBuf
      /\ k = IF Len(data) <= PipeBuf - n THEN Len(data) ELSE PipeBuf - n
  BY <1>1, <1>3 DEF Takes
<1> DEFINE Lands(x, j) == (b.tail + j - 1) % PipeBuf = x
<1> DEFINE cells == [x \in Cells |-> IF \E j \in 1 .. k : Lands(x, j)
                                     THEN data[CHOOSE j \in 1 .. k : Lands(x, j)]
                                     ELSE b.data[x]]
<1>5. w = [b EXCEPT !.data = cells, !.tail = (b.tail + k) % IndexWrap, !.count = n + k]
  BY <1>1 DEF Written, Cells, PipeRecords
<1>6. ASSUME NEW x, NEW j \in 1 .. k
      PROVE  /\ Lands(x, j) <=> Behind(t, j - 1) = x
             /\ Behind(t, j - 1) \in Cells
  <2> DEFINE i == j - 1
  <2>1. i \in 0 .. PipeBuf /\ b.tail + j - 1 = b.tail + i
    BY <1>1, <1>3, <1>4
  <2> HIDE DEF i
  <2>2. (b.tail + i) % PipeBuf = Behind(b.tail % PipeBuf, i) /\ Behind(b.tail % PipeBuf, i) \in Cells
    BY <1>1, <2>1, BehindIs
  <2> QED
    BY <2>1, <2>2 DEF i
<1> HIDE DEF k, w, h, t, Lands, n
<1>0. n \in Nat /\ k \in Nat /\ n + k <= PipeBuf /\ PipeBuf \in Nat
  BY <1>1, <1>3, <1>4
<1>b. ASSUME NEW j \in 1 .. k
      PROVE  Behind(t, j - 1) = Behind(h, n + (j - 1)) /\ n + (j - 1) \in Cells
  <2>1. j - 1 \in Nat /\ n + (j - 1) <= PipeBuf /\ n + (j - 1) \in Cells
    BY <1>0 DEF Cells
  <2> QED
    BY <1>0, <1>1, <1>2, <2>1, BehindTwice
<1>7. ASSUME NEW j \in 1 .. k
      PROVE  cells[Behind(t, j - 1)] = data[j]
  <2> DEFINE x == Behind(t, j - 1)
  <2>1. x \in Cells /\ Lands(x, j)
    BY <1>6
  <2>2. ASSUME NEW i \in 1 .. k, Lands(x, i)
        PROVE  i = j
    <3>1. Behind(h, n + (i - 1)) = Behind(h, n + (j - 1))
      BY <1>6, <1>b, <2>2
    <3>2. n + (i - 1) = n + (j - 1)
      BY <1>2, <1>b, <3>1, BehindOnce
    <3> QED
      BY <1>0, <3>2
  <2> HIDE DEF x
  <2>3. (CHOOSE i \in 1 .. k : Lands(x, i)) = j
    BY <2>1, <2>2
  <2> QED
    BY <2>1, <2>3 DEF x
<1>8. ASSUME NEW x \in Cells, \A j \in 1 .. k : Behind(t, j - 1) # x
      PROVE  cells[x] = b.data[x]
  BY <1>6, <1>8
<1>9. cells \in [Cells -> Nat]
  <2> SUFFICES ASSUME NEW x \in Cells PROVE cells[x] \in Nat
    OBVIOUS
  <2>1. CASE \E j \in 1 .. k : Behind(t, j - 1) = x
    <3>1. PICK j \in 1 .. k : Behind(t, j - 1) = x
      BY <2>1
    <3>2. cells[Behind(t, j - 1)] = data[j]
      BY <1>7
    <3>3. j \in 1 .. Len(data)
      BY <1>0, <1>3, <1>4
    <3>4. data[j] \in Nat
      BY <1>3, <3>3
    <3> QED
      BY <3>1, <3>2, <3>4
  <2>2. CASE \A j \in 1 .. k : Behind(t, j - 1) # x
    BY <1>1, <1>8, <2>2
  <2> QED
    BY <2>1, <2>2
<1> HIDE DEF cells
<1>10. (b.tail + k) % IndexWrap \in Nat
       /\ ((b.tail + k) % IndexWrap) % PipeBuf = Behind(h, n + k)
  <2>1. b.tail + k \in Nat /\ k \in 0 .. PipeBuf
    BY <1>1, <1>3, <1>4
  <2>2. (b.tail + k) % IndexWrap \in Nat
    BY <1>1, <2>1, Divide
  <2>3. ((b.tail + k) % IndexWrap) % PipeBuf = (b.tail + k) % PipeBuf
    BY <1>1, <2>1, WrapAssumption, TwiceRemainder
  <2>4. (b.tail + k) % PipeBuf = Behind(t, k)
    BY <1>1, <2>1, BehindIs DEF t
  <2>5. Behind(t, k) = Behind(h, n + k)
    BY <1>0, <1>1, <1>2, BehindTwice
  <2> QED
    BY <2>2, <2>3, <2>4, <2>5
<1>11. /\ w \in PipeRecords /\ w.data = cells /\ w.head = b.head /\ w.count = n + k
       /\ w.tail = (b.tail + k) % IndexWrap
  <2> DEFINE tl == (b.tail + k) % IndexWrap
  <2> DEFINE ct == n + k
  <2>1. tl \in Nat /\ ct \in 0 .. PipeBuf
    BY <1>0, <1>10
  <2>2. w = [b EXCEPT !.data = cells, !.tail = tl, !.count = ct]
    BY <1>5
  <2> HIDE DEF tl, ct
  <2>3. w \in PipeRecords /\ w.data = cells /\ w.head = b.head /\ w.count = ct /\ w.tail = tl
    BY <1>1, <1>9, <2>1, <2>2 DEF PipeRecords
  <2> QED
    BY <2>3 DEF tl, ct
<1>12. RingOK(w)
  BY <1>10, <1>11 DEF RingOK, h
<1>13. /\ Content(w) \in Seq(Nat) /\ Len(Content(w)) = n + k
       /\ \A j \in 1 .. n + k : Content(w)[j] = cells[Behind(h, j - 1)]
  BY <1>11, <1>12, ContentIs DEF h
<1>14. /\ Content(b) \in Seq(Nat) /\ Len(Content(b)) = n
       /\ \A j \in 1 .. n : /\ Content(b)[j] = b.data[Behind(h, j - 1)]
                            /\ Behind(h, j - 1) \in Cells
  BY ContentIs DEF h, n
<1> DEFINE s == SubSeq(data, 1, k)
<1>15. s \in Seq(Nat) /\ Len(s) = k /\ \A j \in 1 .. k : s[j] = data[j]
  BY <1>3, <1>4, SubSeqProperties
<1> HIDE DEF s
<1> DEFINE u == Content(b) \o s
<1>16. /\ u \in Seq(Nat) /\ Len(u) = n + k
       /\ \A j \in 1 .. n : u[j] = Content(b)[j]
       /\ \A j \in n + 1 .. n + k : u[j] = s[j - n]
  <2>1. /\ u \in Seq(Nat) /\ Len(u) = Len(Content(b)) + Len(s)
        /\ \A j \in 1 .. Len(Content(b)) + Len(s) :
               u[j] = IF j <= Len(Content(b)) THEN Content(b)[j] ELSE s[j - Len(Content(b))]
    BY <1>14, <1>15, ConcatProperties
  <2> HIDE DEF u
  <2> QED
    BY <1>0, <1>14, <1>15, <2>1
<1> HIDE DEF u
<1>17. ASSUME NEW j \in 1 .. n + k
       PROVE  Content(w)[j] = u[j]
  <2>1. CASE j \in 1 .. n
    <3>1. j - 1 \in Cells
      BY <1>0, <2>1 DEF Cells
    <3>2. ASSUME NEW i \in 1 .. k, Behind(t, i - 1) = Behind(h, j - 1)
          PROVE  FALSE
      <4>1. n + (i - 1) = j - 1
        BY <1>2, <1>b, <3>1, <3>2, BehindOnce
      <4> QED
        BY <1>0, <2>1, <4>1
    <3>3. cells[Behind(h, j - 1)] = b.data[Behind(h, j - 1)]
      BY <1>8, <1>14, <2>1, <3>2
    <3> QED
      BY <1>0, <1>13, <1>14, <1>16, <2>1, <3>3
  <2>2. CASE j \notin 1 .. n
    <3> DEFINE i == j - n
    <3>1. j \in n + 1 .. n + k /\ i \in 1 .. k /\ n + (i - 1) = j - 1
      BY <1>0, <2>2
    <3>2. u[j] = s[i]
      BY <1>16, <3>1
    <3> HIDE DEF i
    <3>3. Behind(h, j - 1) = Behind(t, i - 1)
      BY <1>b, <3>1
    <3> QED
      BY <1>7, <1>13, <1>15, <3>1, <3>2, <3>3
  <2> QED
    BY <2>1, <2>2
<1>18. Content(w) = u
  BY <1>13, <1>16, <1>17, SeqEqual
<1> QED
  BY <1>3, <1>4, <1>11, <1>12, <1>18 DEF k, w, u, s, n

\* A read takes as many bytes as there are, from the front.
LEMMA ConsumedIs ==
    ASSUME NEW b, RingOK(b), NEW n \in Nat \ {0}
    PROVE  /\ RingOK(Consumed(b, n))
           /\ Content(Consumed(b, n)) = SubSeq(Content(b), n + 1, Len(Content(b)))
<1> DEFINE c == b.count
<1> DEFINE k == IF n <= c THEN n ELSE c
<1> DEFINE w == Consumed(b, n)
<1> DEFINE h == b.head % PipeBuf
<1>1. /\ b \in PipeRecords /\ b.head \in Nat /\ b.tail \in Nat /\ c \in 0 .. PipeBuf
      /\ b.data \in [Cells -> Nat] /\ PipeBuf \in Nat \ {0} /\ IndexWrap \in Nat \ {0}
      /\ b.tail % PipeBuf = Behind(h, c)
  BY PipeSizesAssumption, WrapAssumption DEF RingOK, PipeRecords
<1>2. h \in Cells
  BY <1>1, BehindIs
<1>3. k \in 0 .. PipeBuf /\ c - k \in 0 .. PipeBuf /\ c \in Nat /\ k \in Nat /\ c - k \in Nat
  BY <1>1
<1>4. w = [b EXCEPT !.head = (b.head + k) % IndexWrap, !.count = c - k]
  BY <1>1 DEF Consumed, PipeRecords
<1> HIDE DEF w, h, k, c
<1>5. (b.head + k) % IndexWrap \in Nat
      /\ ((b.head + k) % IndexWrap) % PipeBuf = Behind(h, k)
      /\ Behind(h, k) \in Cells
  <2>1. b.head + k \in Nat
    BY <1>1, <1>3
  <2>2. (b.head + k) % IndexWrap \in Nat
    BY <1>1, <2>1, Divide
  <2>3. ((b.head + k) % IndexWrap) % PipeBuf = (b.head + k) % PipeBuf
    BY <1>1, <2>1, WrapAssumption, TwiceRemainder
  <2>4. (b.head + k) % PipeBuf = Behind(h, k) /\ Behind(h, k) \in Cells
    BY <1>1, <1>3, BehindIs DEF h
  <2> QED
    BY <2>2, <2>3, <2>4
<1>6. /\ w \in PipeRecords /\ w.data = b.data /\ w.tail = b.tail /\ w.count = c - k
      /\ w.head = (b.head + k) % IndexWrap
  <2> DEFINE hd == (b.head + k) % IndexWrap
  <2> DEFINE ct == c - k
  <2>1. hd \in Nat /\ ct \in 0 .. PipeBuf
    BY <1>3, <1>5
  <2>2. w = [b EXCEPT !.head = hd, !.count = ct]
    BY <1>4
  <2> HIDE DEF hd, ct
  <2>3. w \in PipeRecords /\ w.data = b.data /\ w.tail = b.tail /\ w.count = ct /\ w.head = hd
    BY <1>1, <2>1, <2>2 DEF PipeRecords
  <2> QED
    BY <2>3 DEF hd, ct
<1>7. ASSUME NEW i \in Nat, i <= c - k
      PROVE  Behind(Behind(h, k), i) = Behind(h, k + i)
  BY <1>1, <1>2, <1>3, <1>7, BehindTwice
<1>8. RingOK(w)
  <2>1. Behind(Behind(h, k), c - k) = Behind(h, c)
    BY <1>3, <1>7
  <2> QED
    BY <1>1, <1>5, <1>6, <2>1 DEF RingOK
<1>9. /\ Content(w) \in Seq(Nat) /\ Len(Content(w)) = c - k
      /\ \A j \in 1 .. c - k : Content(w)[j] = b.data[Behind(Behind(h, k), j - 1)]
  BY <1>5, <1>6, <1>8, ContentIs
<1>10. /\ Content(b) \in Seq(Nat) /\ Len(Content(b)) = c
       /\ \A j \in 1 .. c : Content(b)[j] = b.data[Behind(h, j - 1)]
  BY ContentIs DEF h, c
<1> DEFINE u == SubSeq(Content(b), n + 1, c)
<1>11. /\ u \in Seq(Nat) /\ Len(u) = c - k
       /\ \A j \in 1 .. c - k : u[j] = Content(b)[j + k]
  <2>1. \A i \in n + 1 .. c : Content(b)[i] \in Nat
    BY <1>3, <1>10
  <2>2. /\ u \in Seq(Nat) /\ Len(u) = IF n + 1 <= c THEN c - (n + 1) + 1 ELSE 0
        /\ \A i \in 1 .. c - (n + 1) + 1 : u[i] = Content(b)[n + 1 + i - 1]
    BY <1>3, <2>1, SubSeqProperties
  <2> HIDE DEF u
  <2>3. CASE n <= c
    BY <1>3, <2>2, <2>3 DEF k
  <2>4. CASE ~(n <= c)
    BY <1>3, <2>2, <2>4 DEF k
  <2> QED
    BY <2>3, <2>4
<1> HIDE DEF u
<1>12. ASSUME NEW j \in 1 .. c - k
       PROVE  Content(w)[j] = u[j]
  <2>1. j - 1 \in Nat /\ j - 1 <= c - k /\ j + k \in 1 .. c /\ k + (j - 1) = (j + k) - 1
    BY <1>3
  <2>2. Behind(Behind(h, k), j - 1) = Behind(h, (j + k) - 1)
    BY <1>7, <2>1
  <2> QED
    BY <1>9, <1>10, <1>11, <2>1, <2>2
<1>13. Content(w) = u
  BY <1>9, <1>11, <1>12, SeqEqual
<1> QED
  BY <1>8, <1>10, <1>13 DEF w, u

-----------------------------------------------------------------------------
Descriptors == {NoFd} \cup [end : {"read", "write"}, slot : Slots, opened : 0 .. 2]

PipeTypeOK ==
    /\ pipes \in [Slots -> PipeRecords] /\ \A s \in Slots : RingOK(pipes[s])
    /\ fds \in [Procs -> [Fds -> Descriptors]]
    /\ procs \subseteq Procs /\ IsFiniteSet(procs)
    /\ allocs \in [Slots -> 0 .. 2]
    /\ private \subseteq Slots

LEMMA EmptyRing == EmptyPipe \in PipeRecords /\ RingOK(EmptyPipe)
<1>1. 0 % PipeBuf \in Cells /\ PipeBuf \in Nat \ {0}
  BY BehindIs, PipeSizesAssumption
<1>2. 0 % PipeBuf = Behind(0 % PipeBuf, 0)
  BY <1>1 DEF Behind, Cells
<1>3. /\ EmptyPipe \in PipeRecords /\ EmptyPipe.head = 0 /\ EmptyPipe.tail = 0
      /\ EmptyPipe.count = 0
  BY <1>1 DEF EmptyPipe, PipeRecords, Cells
<1> QED
  BY <1>2, <1>3 DEF RingOK

LEMMA FreshRing ==
    ASSUME NEW b \in PipeRecords
    PROVE  /\ Fresh(b) \in PipeRecords /\ RingOK(Fresh(b)) /\ Fresh(b).count = 0
           /\ Fresh(b).valid /\ Fresh(b).readOpen = 1 /\ Fresh(b).writeOpen = 1
<1>1. 0 % PipeBuf \in Cells /\ PipeBuf \in Nat \ {0}
  BY BehindIs, PipeSizesAssumption
<1>2. 0 % PipeBuf = Behind(0 % PipeBuf, 0)
  BY <1>1 DEF Behind, Cells
<1> DEFINE f == Fresh(b)
<1>3. f = [b EXCEPT !.head = 0, !.tail = 0, !.count = 0,
                    !.readOpen = 1, !.writeOpen = 1, !.valid = TRUE]
  BY DEF Fresh
<1> HIDE DEF f
<1>4. f \in PipeRecords
  <2>1. 0 \in 0 .. PipeBuf /\ 0 \in Nat /\ 1 \in Int /\ TRUE \in BOOLEAN
    BY <1>1
  <2> DEFINE ct == 0 .. PipeBuf
  <2> DEFINE dt == [Cells -> Nat]
  <2>2. b \in [data : dt, head : Nat, tail : Nat, count : ct,
                readOpen : Int, writeOpen : Int, valid : BOOLEAN]
    BY DEF PipeRecords
  <2> HIDE DEF ct, dt
  <2>3. 0 \in ct
    BY <2>1 DEF ct
  <2>4. f \in [data : dt, head : Nat, tail : Nat, count : ct,
                readOpen : Int, writeOpen : Int, valid : BOOLEAN]
    BY <1>3, <2>1, <2>2, <2>3
  <2> QED
    BY <2>4 DEF PipeRecords, ct, dt
<1>5. /\ f.head = 0 /\ f.tail = 0 /\ f.count = 0 /\ f.valid
      /\ f.readOpen = 1 /\ f.writeOpen = 1
  BY <1>3 DEF PipeRecords
<1>6. RingOK(f)
  BY <1>2, <1>4, <1>5 DEF RingOK
<1> QED
  BY <1>4, <1>5, <1>6 DEF f

LEMMA ClosingRing ==
    ASSUME NEW b, RingOK(b), NEW end
    PROVE  /\ RingOK(Closing(b, end))
           /\ Content(Closing(b, end)) = Content(b)
           /\ Closing(b, end).valid => b.valid
           /\ Closing(b, end).readOpen = IF end = "read" THEN b.readOpen - 1 ELSE b.readOpen
           /\ Closing(b, end).writeOpen = IF end = "write" THEN b.writeOpen - 1 ELSE b.writeOpen
           /\ Closing(b, end).valid <=>
                  b.valid /\ (Closing(b, end).readOpen > 0 \/ Closing(b, end).writeOpen > 0)
<1> DEFINE r == IF end = "read" THEN b.readOpen - 1 ELSE b.readOpen
<1> DEFINE w == IF end = "write" THEN b.writeOpen - 1 ELSE b.writeOpen
<1> DEFINE v == b.valid /\ ~(r <= 0 /\ w <= 0)
<1>1. b \in PipeRecords /\ r \in Int /\ w \in Int /\ v \in BOOLEAN
  BY DEF RingOK, PipeRecords
<1>2. v <=> b.valid /\ (r > 0 \/ w > 0)
  BY <1>1
<1>3. Closing(b, end) = [b EXCEPT !.readOpen = r, !.writeOpen = w, !.valid = v]
  BY <1>1 DEF Closing, PipeRecords
<1> HIDE DEF r, w, v
<1> DEFINE c == Closing(b, end)
<1>4. /\ c \in PipeRecords /\ c.data = b.data /\ c.head = b.head /\ c.tail = b.tail
      /\ c.count = b.count /\ c.readOpen = r /\ c.writeOpen = w /\ c.valid = v
  BY <1>1, <1>3 DEF PipeRecords
<1> HIDE DEF c
<1>5. RingOK(c) /\ Content(c) = Content(b)
  BY <1>4 DEF RingOK, Content
<1> QED
  BY <1>2, <1>4, <1>5 DEF c, r, w

LEMMA WrittenKeeps ==
    ASSUME NEW b \in PipeRecords, NEW data, NEW n
    PROVE  /\ Written(b, data).readOpen = b.readOpen /\ Consumed(b, n).readOpen = b.readOpen
           /\ Written(b, data).writeOpen = b.writeOpen /\ Consumed(b, n).writeOpen = b.writeOpen
           /\ Written(b, data).valid = b.valid /\ Consumed(b, n).valid = b.valid
  BY DEF Written, Consumed, PipeRecords

\* One buffer is replaced by another well-formed one.
LEMMA RingsKept ==
    ASSUME PipeTypeOK, NEW s \in Slots, NEW b, RingOK(b),
           pipes' = [pipes EXCEPT ![s] = b]
    PROVE  pipes' \in [Slots -> PipeRecords] /\ \A t \in Slots : RingOK(pipes'[t])
  BY DEF PipeTypeOK, RingOK

LEMMA InitPipes == PipeInit => PipeTypeOK
<1> SUFFICES ASSUME PipeInit PROVE PipeTypeOK
  OBVIOUS
<1>1. pipes \in [Slots -> PipeRecords] /\ \A s \in Slots : RingOK(pipes[s])
  BY EmptyRing DEF PipeInit
<1>2. fds \in [Procs -> [Fds -> Descriptors]] /\ allocs \in [Slots -> 0 .. 2]
  BY DEF PipeInit, Descriptors
<1>3. procs \subseteq Procs /\ IsFiniteSet(procs)
  BY RootAssumption, FS_Singleton DEF PipeInit
<1> QED
  BY <1>1, <1>2, <1>3 DEF PipeInit, PipeTypeOK

\* What a slot's descriptors hold, with the names that the action uses.
LEMMA DescriptorType ==
    ASSUME PipeTypeOK, NEW p \in procs, NEW i \in Fds, fds[p][i] # NoFd
    PROVE  fds[p][i].slot \in Slots /\ fds[p][i].end \in {"read", "write"}
  BY DEF PipeTypeOK, Descriptors

LEMMA EndIsFd ==
    ASSUME NEW p \in Procs, NEW i \in Fds, fds[p][i].end \in {"read", "write"}
    PROVE  fds[p][i] # NoFd
  BY DEF NoFd

LEMMA StepPipeType ==
    ASSUME PipeTypeOK, [PipeNext]_pipeVars
    PROVE  PipeTypeOK'
<1>1. ASSUME NEW p \in procs, PipeAlloc(p)
      PROVE  PipeTypeOK'
  <2>1. PICK s \in FreeSlots, r \in FreeFds(p), w \in FreeFds(p) :
          /\ allocs' = [allocs EXCEPT ![s] = (allocs[s] + 1) % 3]
          /\ pipes' = [pipes EXCEPT ![s] = Fresh(pipes[s])]
          /\ fds' = [fds EXCEPT
               ![p][r] = [end |-> "read", slot |-> s, opened |-> allocs'[s]],
               ![p][w] = [end |-> "write", slot |-> s, opened |-> allocs'[s]]]
          /\ private' = IF \E q \in procs : s \in NamedBy(q) THEN private \ {s}
                        ELSE private \cup {s}
          /\ procs' = procs
    BY <1>1 DEF PipeAlloc
  <2>2. s \in Slots /\ r \in Fds /\ w \in Fds /\ p \in Procs
    BY DEF FreeSlots, FreeFds, PipeTypeOK
  <2>3. allocs' \in [Slots -> 0 .. 2] /\ allocs'[s] \in 0 .. 2
    BY <2>1, <2>2 DEF PipeTypeOK
  <2>4. RingOK(Fresh(pipes[s]))
    BY <2>2, FreshRing DEF PipeTypeOK
  <2>5. pipes' \in [Slots -> PipeRecords] /\ \A t \in Slots : RingOK(pipes'[t])
    BY <2>1, <2>2, <2>4, RingsKept
  <2>6. fds' \in [Procs -> [Fds -> Descriptors]]
    <3> DEFINE dr == [end |-> "read", slot |-> s, opened |-> allocs'[s]]
    <3> DEFINE dw == [end |-> "write", slot |-> s, opened |-> allocs'[s]]
    <3>1. dr \in Descriptors /\ dw \in Descriptors
      BY <2>2, <2>3 DEF Descriptors
    <3> HIDE DEF dr, dw
    <3>2. fds' = [fds EXCEPT ![p][r] = dr, ![p][w] = dw]
      BY <2>1 DEF dr, dw
    <3> QED
      BY <2>2, <3>1, <3>2 DEF PipeTypeOK
  <2> QED
    BY <2>1, <2>2, <2>3, <2>5, <2>6 DEF PipeTypeOK
<1>2. ASSUME NEW p \in procs, Exit(p)
      PROVE  PipeTypeOK'
  <2>1. IsFiniteSet(procs \ {p})
    BY FS_RemoveElement DEF PipeTypeOK
  <2> QED
    BY <1>2, <2>1 DEF Exit, PipeTypeOK, Descriptors
<1>3. ASSUME NEW p \in procs, NEW q \in Procs, Fork(p, q)
      PROVE  PipeTypeOK'
  <2>1. IsFiniteSet(procs \cup {q})
    BY FS_AddElement DEF PipeTypeOK
  <2> QED
    BY <1>3, <2>1 DEF Fork, PipeTypeOK
<1>4. ASSUME NEW p \in procs, NEW i \in Fds, ClosePipeEnd(p, i)
      PROVE  PipeTypeOK'
  <2> DEFINE s == fds[p][i].slot
  <2>1. s \in Slots /\ p \in Procs
    BY <1>4, DescriptorType DEF ClosePipeEnd, PipeTypeOK
  <2>2. pipes' = [pipes EXCEPT ![s] = Closing(pipes[s], fds[p][i].end)]
    BY <1>4 DEF ClosePipeEnd
  <2>3. RingOK(Closing(pipes[s], fds[p][i].end))
    BY <2>1, ClosingRing DEF PipeTypeOK
  <2>4. pipes' \in [Slots -> PipeRecords] /\ \A t \in Slots : RingOK(pipes'[t])
    BY <2>1, <2>2, <2>3, RingsKept
  <2> QED
    BY <1>4, <2>1, <2>4 DEF ClosePipeEnd, PipeTypeOK, Descriptors
<1>5. ASSUME NEW p \in procs, NEW i \in Fds, NEW data \in Writes, WritePipe(p, i, data)
      PROVE  PipeTypeOK'
  <2> DEFINE s == fds[p][i].slot
  <2>1. s \in Slots
    BY <1>5, DescriptorType, EndIsFd DEF WritePipe, PipeTypeOK
  <2>2. pipes' = [pipes EXCEPT ![s] = Written(pipes[s], data)]
    BY <1>5 DEF WritePipe
  <2>3. RingOK(Written(pipes[s], data))
    BY <2>1, WrittenIs DEF PipeTypeOK
  <2>4. pipes' \in [Slots -> PipeRecords] /\ \A t \in Slots : RingOK(pipes'[t])
    BY <2>1, <2>2, <2>3, RingsKept
  <2> QED
    BY <1>5, <2>4 DEF WritePipe, PipeTypeOK
<1>6. ASSUME NEW p \in procs, NEW i \in Fds, NEW n \in 1 .. MaxLen, ReadPipe(p, i, n)
      PROVE  PipeTypeOK'
  <2> DEFINE s == fds[p][i].slot
  <2>1. s \in Slots /\ n \in Nat \ {0}
    BY <1>6, DescriptorType, EndIsFd, PipeSizesAssumption DEF ReadPipe, PipeTypeOK
  <2>2. pipes' = [pipes EXCEPT ![s] = Consumed(pipes[s], n)]
    BY <1>6 DEF ReadPipe
  <2>3. RingOK(Consumed(pipes[s], n))
    BY <2>1, ConsumedIs DEF PipeTypeOK
  <2>4. pipes' \in [Slots -> PipeRecords] /\ \A t \in Slots : RingOK(pipes'[t])
    BY <2>1, <2>2, <2>3, RingsKept
  <2> QED
    BY <1>6, <2>4 DEF ReadPipe, PipeTypeOK
<1>7. CASE UNCHANGED pipeVars
  BY <1>7 DEF pipeVars, PipeTypeOK
<1> QED
  BY <1>1, <1>2, <1>3, <1>4, <1>5, <1>6, <1>7 DEF PipeNext

LEMMA OpenedFinite ==
    ASSUME PipeTypeOK, NEW s, NEW end
    PROVE  IsFiniteSet(Opened(s, end)) /\ Cardinality(Opened(s, end)) \in Nat
<1>1. IsFiniteSet(Fds)
  BY PipeSizesAssumption, FS_Interval DEF Fds
<1>2. IsFiniteSet(procs \X Fds)
  BY <1>1, FS_Product DEF PipeTypeOK
<1>3. Opened(s, end) \in SUBSET (procs \X Fds)
  BY DEF Opened
<1> QED
  BY <1>2, <1>3, FS_Subset, FS_CardinalityType

\* A step that a slot's counts and descriptors do not notice.
LEMMA CountsUntouched ==
    ASSUME NEW s, CountsMatch(s),
           pipes'[s].readOpen = pipes[s].readOpen,
           pipes'[s].writeOpen = pipes[s].writeOpen,
           pipes'[s].valid = pipes[s].valid,
           \A end \in {"read", "write"} : Opened(s, end)' = Opened(s, end)
    PROVE  CountsMatch(s)'
  BY DEF CountsMatch

LEMMA AllocCounts ==
    ASSUME PipeTypeOK, OpenCountsExact, NEW p \in procs, PipeAlloc(p)
    PROVE  OpenCountsExact'
<1>1. PICK s \in FreeSlots, r \in FreeFds(p), w \in FreeFds(p) :
        /\ r < w
        /\ pipes' = [pipes EXCEPT ![s] = Fresh(pipes[s])]
        /\ fds' = [fds EXCEPT
             ![p][r] = [end |-> "read", slot |-> s, opened |-> allocs'[s]],
             ![p][w] = [end |-> "write", slot |-> s, opened |-> allocs'[s]]]
        /\ private' = IF \E q \in procs : s \in NamedBy(q) THEN private \ {s}
                      ELSE private \cup {s}
        /\ procs' = procs
  BY DEF PipeAlloc
<1>2. /\ s \in Slots /\ r \in Fds /\ w \in Fds /\ p \in Procs /\ r # w
      /\ fds[p][r] = NoFd /\ fds[p][w] = NoFd /\ pipes[s] \in PipeRecords
      /\ procs \subseteq Procs
  BY <1>1 DEF FreeSlots, FreeFds, PipeTypeOK, Fds
<1>a. procs' = procs
  BY <1>1
<1>3. ASSUME NEW q \in procs, NEW i \in Fds
      PROVE  /\ <<q, i>> = <<p, r>> => fds'[q][i].end = "read" /\ fds'[q][i].slot = s
             /\ <<q, i>> = <<p, w>> => fds'[q][i].end = "write" /\ fds'[q][i].slot = s
             /\ <<q, i>> \notin {<<p, r>>, <<p, w>>} => fds'[q][i] = fds[q][i]
  <2> DEFINE dr == [end |-> "read", slot |-> s, opened |-> allocs'[s]]
  <2> DEFINE dw == [end |-> "write", slot |-> s, opened |-> allocs'[s]]
  <2>1. dr.end = "read" /\ dr.slot = s /\ dw.end = "write" /\ dw.slot = s
    OBVIOUS
  <2>2. fds' = [fds EXCEPT ![p][r] = dr, ![p][w] = dw]
    BY <1>1
  <2> HIDE DEF dr, dw
  <2> QED
    BY <1>2, <2>1, <2>2 DEF PipeTypeOK
<1>4. ASSUME NEW t \in private', t # s
      PROVE  CountsMatch(t)'
  <2>1. t \in private /\ t \in Slots
    BY <1>1, <1>4 DEF PipeTypeOK
  <2>2. pipes'[t] = pipes[t]
    BY <1>1, <1>4, <2>1 DEF PipeTypeOK
  <2>3. ASSUME NEW end \in {"read", "write"}
        PROVE  Opened(t, end)' = Opened(t, end)
    <3>1. NoFd.end = "none"
      BY DEF NoFd
    <3>2. ASSUME NEW q \in procs, NEW i \in Fds
          PROVE  (fds'[q][i].end = end /\ fds'[q][i].slot = t)
                   <=> (fds[q][i].end = end /\ fds[q][i].slot = t)
      BY <1>2, <1>3, <1>4, <3>1
    <3> QED
      BY <1>a, <3>2 DEF Opened
  <2>4. CountsMatch(t)
    BY <2>1 DEF OpenCountsExact
  <2> QED
    BY <2>2, <2>3, <2>4, CountsUntouched
<1>5. ASSUME s \in private'
      PROVE  CountsMatch(s)'
  <2>1. \A q \in procs : s \notin NamedBy(q)
    BY <1>1, <1>5
  <2>2. ASSUME NEW q \in procs, NEW i \in Fds, fds[q][i].end \in {"read", "write"}
        PROVE  fds[q][i].slot # s
    BY <1>2, <2>1, <2>2, EndIsFd DEF NamedBy
  <2>3. Opened(s, "read")' = {<<p, r>>}
    <3>1. ASSUME NEW q \in procs, NEW i \in Fds
          PROVE  (fds'[q][i].end = "read" /\ fds'[q][i].slot = s) <=> <<q, i>> = <<p, r>>
      BY <1>2, <1>3, <2>2
    <3> QED
      BY <1>a, <1>2, <3>1 DEF Opened
  <2>4. Opened(s, "write")' = {<<p, w>>}
    <3>1. ASSUME NEW q \in procs, NEW i \in Fds
          PROVE  (fds'[q][i].end = "write" /\ fds'[q][i].slot = s) <=> <<q, i>> = <<p, w>>
      BY <1>2, <1>3, <2>2
    <3> QED
      BY <1>a, <1>2, <3>1 DEF Opened
  <2>5. Cardinality({<<p, r>>}) = 1 /\ Cardinality({<<p, w>>}) = 1
    BY FS_Singleton
  <2>6. pipes'[s] = Fresh(pipes[s])
    BY <1>1, <1>2 DEF PipeTypeOK
  <2>7. pipes'[s].valid /\ pipes'[s].readOpen = 1 /\ pipes'[s].writeOpen = 1
    BY <1>2, <2>6, FreshRing
  <2> QED
    BY <2>3, <2>4, <2>5, <2>7 DEF CountsMatch
<1> QED
  BY <1>4, <1>5 DEF OpenCountsExact

LEMMA CloseCounts ==
    ASSUME PipeTypeOK, OpenCountsExact, NEW p \in procs, NEW i \in Fds, ClosePipeEnd(p, i),
           NEW s, NEW e, NEW o, s = fds[p][i].slot, e = fds[p][i].end,
           o = IF e = "read" THEN "write" ELSE "read"
    PROVE  OpenCountsExact'
<1>1. s \in Slots /\ e \in {"read", "write"} /\ p \in Procs
  BY DescriptorType DEF ClosePipeEnd, PipeTypeOK
<1>2. /\ pipes' = [pipes EXCEPT ![s] = Closing(pipes[s], e)]
      /\ fds' = [fds EXCEPT ![p][i] = NoFd]
      /\ procs' = procs /\ private' = private
  BY DEF ClosePipeEnd
<1>3. ASSUME NEW q \in procs, NEW j \in Fds
      PROVE  fds'[q][j] = IF <<q, j>> = <<p, i>> THEN NoFd ELSE fds[q][j]
  BY <1>1, <1>2 DEF PipeTypeOK
<1>4. ASSUME NEW t, NEW end \in {"read", "write"}, <<t, end>> # <<s, e>>
      PROVE  Opened(t, end)' = Opened(t, end)
  <2>1. NoFd.end = "none"
    BY DEF NoFd
  <2>2. ASSUME NEW q \in procs, NEW j \in Fds
        PROVE  (fds'[q][j].end = end /\ fds'[q][j].slot = t)
                 <=> (fds[q][j].end = end /\ fds[q][j].slot = t)
    BY <1>3, <1>4, <2>1
  <2> QED
    BY <1>2, <2>2 DEF Opened
<1>5. Opened(s, e)' = Opened(s, e) \ {<<p, i>>} /\ <<p, i>> \in Opened(s, e)
  <2>1. NoFd.end = "none"
    BY DEF NoFd
  <2>2. ASSUME NEW q \in procs, NEW j \in Fds
        PROVE  (fds'[q][j].end = e /\ fds'[q][j].slot = s)
                 <=> (fds[q][j].end = e /\ fds[q][j].slot = s /\ <<q, j>> # <<p, i>>)
    BY <1>1, <1>3, <2>1
  <2>3. Opened(s, e)' = Opened(s, e) \ {<<p, i>>}
    BY <1>2, <2>2 DEF Opened
  <2>4. <<p, i>> \in Opened(s, e)
    BY DEF Opened
  <2> QED
    BY <2>3, <2>4
<1>6. ASSUME NEW t \in private, t # s
      PROVE  CountsMatch(t)'
  <2>1. t \in Slots /\ pipes'[t] = pipes[t]
    BY <1>2, <1>6 DEF PipeTypeOK
  <2>2. CountsMatch(t)
    BY DEF OpenCountsExact
  <2>3. \A end \in {"read", "write"} : Opened(t, end)' = Opened(t, end)
    BY <1>4, <1>6
  <2> QED
    BY <2>1, <2>2, <2>3, CountsUntouched
<1>7. ASSUME s \in private
      PROVE  CountsMatch(s)'
  <2>1. CountsMatch(s)
    BY <1>7 DEF OpenCountsExact
  <2>2. pipes'[s] = Closing(pipes[s], e) /\ RingOK(pipes[s])
    BY <1>1, <1>2 DEF PipeTypeOK
  <2> DEFINE Pipe1 == pipes[s]
  <2> DEFINE Pipe2 == pipes'[s]
  <2> DEFINE n1 == Cardinality(Opened(s, e))
  <2> DEFINE n2 == Cardinality(Opened(s, o))

  <2>3. /\ Pipe2.readOpen = IF e = "read" THEN Pipe1.readOpen - 1 ELSE Pipe1.readOpen
        /\ Pipe2.writeOpen = IF e = "write" THEN Pipe1.writeOpen - 1 ELSE Pipe1.writeOpen
        /\ Pipe2.valid <=> Pipe1.valid /\ (Pipe2.readOpen > 0 \/ Pipe2.writeOpen > 0)
    BY <2>2, ClosingRing
  <2>4. /\ IsFiniteSet(Opened(s, e)) /\ n1 \in Nat
        /\ IsFiniteSet(Opened(s, o)) /\ n2 \in Nat
    BY OpenedFinite
  <2>5. Cardinality(Opened(s, e)') = n1 - 1 /\ IsFiniteSet(Opened(s, e)')
    BY <1>5, <2>4, FS_RemoveElement
  <2>6. Opened(s, o)' = Opened(s, o) /\ o \in {"read", "write"} /\ o # e
    <3>1. o \in {"read", "write"} /\ o # e
      BY <1>1
    <3> QED
      BY <3>1, <1>4
  <2>7. n1 # 0
    BY <1>5, <2>4, FS_EmptySet
  <2>8. (n1 - 1 = 0) <=> (Opened(s, e)' = {})
    BY <2>5, FS_EmptySet
  <2>9. (n2 = 0) <=> (Opened(s, o)' = {})
    BY <2>4, <2>6, FS_EmptySet
  <2>10. Cardinality(Opened(s, o)') = n2
    BY <2>6
  <2> HIDE DEF Pipe1, Pipe2, n1, n2
  <2>11. CASE e = "read"
    <3>1. o = "write"
      BY <2>11
    <3>2. Pipe1.readOpen = n1 /\ Pipe1.writeOpen = n2 /\ Pipe1.valid
      BY <1>5, <2>1, <2>11, <3>1 DEF CountsMatch, Pipe1, n1, n2
    <3>3. Pipe2.readOpen = n1 - 1 /\ Pipe2.writeOpen = n2
      BY <2>3, <2>11, <3>2
    <3>4. Pipe2.valid <=> (n1 - 1 > 0 \/ n2 > 0)
      BY <2>3, <3>2, <3>3
    <3>5. Pipe2.valid <=> (n1 - 1 # 0 \/ n2 # 0)
      BY <2>4, <2>7, <3>4 DEF n1, n2
    <3>6. Pipe2.valid <=> Opened(s, e)' \cup Opened(s, o)' # {}
      BY <2>8, <2>9, <3>5
    <3>7. /\ Pipe2.readOpen = Cardinality(Opened(s, "read")')
          /\ Pipe2.writeOpen = Cardinality(Opened(s, "write")')
      BY <2>5, <2>10, <2>11, <3>1, <3>3
    <3>8. Opened(s, "read")' \cup Opened(s, "write")' = Opened(s, e)' \cup Opened(s, o)'
      BY <2>11, <3>1

    <3> QED
      BY <3>6, <3>7, <3>8 DEF CountsMatch, Pipe2
  <2>12. CASE e = "write"
    <3>1. o = "read"
      BY <2>12
    <3>2. Pipe1.readOpen = n2 /\ Pipe1.writeOpen = n1 /\ Pipe1.valid
      BY <1>5, <2>1, <2>12, <3>1 DEF CountsMatch, Pipe1, n1, n2
    <3>3. Pipe2.readOpen = n2 /\ Pipe2.writeOpen = n1 - 1
      BY <2>3, <2>12, <3>2
    <3>4. Pipe2.valid <=> (n1 - 1 > 0 \/ n2 > 0)
      BY <2>3, <3>2, <3>3
    <3>5. Pipe2.valid <=> (n1 - 1 # 0 \/ n2 # 0)
      BY <2>4, <2>7, <3>4 DEF n1, n2
    <3>6. Pipe2.valid <=> Opened(s, e)' \cup Opened(s, o)' # {}
      BY <2>8, <2>9, <3>5
    <3>7. /\ Pipe2.readOpen = Cardinality(Opened(s, "read")')
          /\ Pipe2.writeOpen = Cardinality(Opened(s, "write")')
      BY <2>5, <2>10, <2>12, <3>1, <3>3
    <3>8. Opened(s, "read")' \cup Opened(s, "write")' = Opened(s, e)' \cup Opened(s, o)'
      BY <2>12, <3>1
    <3> QED
      BY <3>6, <3>7, <3>8 DEF CountsMatch, Pipe2
  <2> QED
    BY <1>1, <2>11, <2>12
<1> QED
  BY <1>2, <1>6, <1>7 DEF OpenCountsExact

LEMMA StepCounts ==
    ASSUME PipeTypeOK, OpenCountsExact, [PipeNext]_pipeVars
    PROVE  OpenCountsExact'
<1>1. ASSUME NEW p \in procs, Exit(p)
      PROVE  OpenCountsExact'
  <2> SUFFICES ASSUME NEW s \in private' PROVE CountsMatch(s)'
    BY DEF OpenCountsExact
  <2>1. /\ procs' = procs \ {p} /\ pipes' = pipes /\ private' = private \ NamedBy(p)
        /\ \A q \in procs \ {p} : fds'[q] = fds[q]
    BY <1>1 DEF Exit, PipeTypeOK
  <2>2. CountsMatch(s)
    BY <2>1 DEF OpenCountsExact
  <2>3. ASSUME NEW end \in {"read", "write"}
        PROVE  Opened(s, end)' = Opened(s, end)
    <3>1. ASSUME NEW i \in Fds, fds[p][i].end = end
          PROVE  fds[p][i].slot # s
      BY <2>1, <3>1, EndIsFd DEF NamedBy, PipeTypeOK
    <3>2. \A q \in procs \ {p}, i \in Fds : fds'[q][i] = fds[q][i]
      BY <2>1
    <3>3. procs' = procs \ {p}
      BY <2>1
    <3> QED
      BY <3>1, <3>2, <3>3 DEF Opened
  <2> QED
    BY <2>1, <2>2, <2>3, CountsUntouched
<1>2. ASSUME NEW p \in procs, NEW q \in Procs, Fork(p, q)
      PROVE  OpenCountsExact'
  <2> SUFFICES ASSUME NEW s \in private' PROVE CountsMatch(s)'
    BY DEF OpenCountsExact
  <2>1. /\ procs' = procs \cup {q} /\ pipes' = pipes /\ private' = private \ NamedBy(p)
        /\ fds'[q] = fds[p] /\ q \notin procs
        /\ \A u \in procs : fds'[u] = fds[u]
    BY <1>2 DEF Fork, PipeTypeOK
  <2>2. CountsMatch(s)
    BY <2>1 DEF OpenCountsExact
  <2>3. ASSUME NEW end \in {"read", "write"}
        PROVE  Opened(s, end)' = Opened(s, end)
    <3>1. ASSUME NEW i \in Fds, fds[p][i].end = end
          PROVE  fds[p][i].slot # s
      BY <2>1, <3>1, EndIsFd DEF NamedBy, PipeTypeOK
    <3>2. /\ \A u \in procs, i \in Fds : fds'[u][i] = fds[u][i]
          /\ \A i \in Fds : fds'[q][i] = fds[p][i]
      BY <2>1
    <3>3. procs' = procs \cup {q}
      BY <2>1
    <3> QED
      BY <3>1, <3>2, <3>3 DEF Opened
  <2> QED
    BY <2>1, <2>2, <2>3, CountsUntouched
<1>3. ASSUME NEW p \in procs, NEW i \in Fds, ClosePipeEnd(p, i)
      PROVE  OpenCountsExact'
  BY <1>3, CloseCounts
<1>4. ASSUME procs' = procs, fds' = fds, private' = private,
             NEW s \in Slots, NEW b, pipes' = [pipes EXCEPT ![s] = b],
             b.readOpen = pipes[s].readOpen, b.writeOpen = pipes[s].writeOpen,
             b.valid = pipes[s].valid
      PROVE  OpenCountsExact'
  <2> SUFFICES ASSUME NEW t \in private' PROVE CountsMatch(t)'
    BY DEF OpenCountsExact
  <2>1. CountsMatch(t) /\ t \in Slots
    BY <1>4 DEF OpenCountsExact, PipeTypeOK
  <2>2. \A end \in {"read", "write"} : Opened(t, end)' = Opened(t, end)
    BY <1>4 DEF Opened
  <2>3. /\ pipes'[t].readOpen = pipes[t].readOpen
        /\ pipes'[t].writeOpen = pipes[t].writeOpen
        /\ pipes'[t].valid = pipes[t].valid
    BY <1>4, <2>1 DEF PipeTypeOK
  <2> QED
    BY <2>1, <2>2, <2>3, CountsUntouched
<1>5. ASSUME NEW p \in procs, NEW i \in Fds, NEW data \in Writes, WritePipe(p, i, data)
      PROVE  OpenCountsExact'
  <2> DEFINE s == fds[p][i].slot
  <2>1. s \in Slots /\ pipes[s] \in PipeRecords
    BY <1>5, DescriptorType, EndIsFd DEF WritePipe, PipeTypeOK
  <2>2. /\ pipes' = [pipes EXCEPT ![s] = Written(pipes[s], data)]
        /\ procs' = procs /\ fds' = fds /\ private' = private
    BY <1>5 DEF WritePipe
  <2> HIDE DEF s
  <2> QED
    BY <1>4, <2>1, <2>2, WrittenKeeps
<1>6. ASSUME NEW p \in procs, NEW i \in Fds, NEW n \in 1 .. MaxLen, ReadPipe(p, i, n)
      PROVE  OpenCountsExact'
  <2> DEFINE s == fds[p][i].slot
  <2>1. s \in Slots /\ pipes[s] \in PipeRecords
    BY <1>6, DescriptorType, EndIsFd DEF ReadPipe, PipeTypeOK
  <2>2. /\ pipes' = [pipes EXCEPT ![s] = Consumed(pipes[s], n)]
        /\ procs' = procs /\ fds' = fds /\ private' = private
    BY <1>6 DEF ReadPipe
  <2> HIDE DEF s
  <2> QED
    BY <1>4, <2>1, <2>2, WrittenKeeps
<1>7. CASE UNCHANGED pipeVars
  <2>1. pipes' = pipes /\ fds' = fds /\ procs' = procs /\ private' = private
    BY <1>7 DEF pipeVars
  <2>2. ASSUME NEW s \in private'
        PROVE  CountsMatch(s)'
    <3>1. CountsMatch(s)
      BY <2>1 DEF OpenCountsExact
    <3>2. \A end \in {"read", "write"} : Opened(s, end)' = Opened(s, end)
      BY <2>1 DEF Opened
    <3> QED
      BY <2>1, <3>1, <3>2, CountsUntouched
  <2> QED
    BY <2>2 DEF OpenCountsExact
<1> QED
  BY <1>1, <1>2, <1>3, <1>5, <1>6, <1>7, AllocCounts DEF PipeNext

LEMMA InitCounts == PipeInit => OpenCountsExact
<1> SUFFICES ASSUME PipeInit PROVE OpenCountsExact
  OBVIOUS
<1> SUFFICES ASSUME NEW s \in Slots PROVE CountsMatch(s)
  BY DEF OpenCountsExact, PipeInit
<1>1. \A end \in {"read", "write"} : Opened(s, end) = {}
  BY RootAssumption DEF Opened, PipeInit, NoFd
<1>2. pipes[s].readOpen = 0 /\ pipes[s].writeOpen = 0 /\ ~pipes[s].valid
  BY DEF PipeInit, EmptyPipe
<1> QED
  BY <1>1, <1>2, FS_EmptySet DEF CountsMatch

\* In every reachable state the ring buffers are well formed (tail is count
\* places behind head, also when both wrap) and every descriptor that is
\* open names a slot of the table.
THEOREM PipesWellFormed == PipeSpec => []PipeTypeOK
<1>1. PipeInit => PipeTypeOK
  BY InitPipes
<1>2. PipeTypeOK /\ [PipeNext]_pipeVars => PipeTypeOK'
  BY StepPipeType
<1> QED
  BY <1>1, <1>2, PTL DEF PipeSpec

\* Of a pipe that only its maker has held, in a slot no older descriptor
\* names, the counts of open ends are exact and it lives as long as an end
\* is open.
THEOREM PipeCountsExact == PipeSpec => []OpenCountsExact
<1>1. PipeInit => OpenCountsExact
  BY InitCounts
<1>2. PipeTypeOK /\ OpenCountsExact /\ [PipeNext]_pipeVars => OpenCountsExact'
  BY StepCounts
<1> QED
  BY <1>1, <1>2, PipesWellFormed, PTL DEF PipeSpec

-----------------------------------------------------------------------------
\* Channel's queue: what each slot holds, or that it is closed.
View(b) == IF b.valid THEN Content(b) ELSE <<-1>>
Queues == [s \in Slots |-> View(pipes[s])]

LEMMA QueuesEdited ==
    ASSUME PipeTypeOK, NEW s \in Slots, NEW b, pipes' = [pipes EXCEPT ![s] = b]
    PROVE  Queues' = [Queues EXCEPT ![s] = View(b)]
  BY DEF PipeTypeOK, Queues

LEMMA ViewOpen ==
    ASSUME NEW b, RingOK(b)
    PROVE  /\ b.valid => View(b) = Content(b) /\ View(b) # <<-1>>
           /\ ~b.valid => View(b) = <<-1>>
<1>1. Content(b) \in Seq(Nat)
  BY ContentIs
<1>2. <<-1>> \notin Seq(Nat)
  <2>1. ASSUME <<-1>> \in Seq(Nat) PROVE FALSE
    <3>1. <<-1>>[1] \in Nat
      BY <2>1, ElementOfSeq
    <3> QED
      BY <3>1
  <2> QED
    BY <2>1
<1> QED
  BY <1>1, <1>2 DEF View

LEMMA StepChannel ==
    ASSUME PipeTypeOK, [PipeNext]_pipeVars
    PROVE  [Chan!Next]_Queues
<1>1. ASSUME NEW p \in procs, PipeAlloc(p)
      PROVE  [Chan!Next]_Queues
  <2>1. PICK s \in FreeSlots : pipes' = [pipes EXCEPT ![s] = Fresh(pipes[s])]
    BY <1>1 DEF PipeAlloc
  <2>2. s \in Slots /\ ~pipes[s].valid /\ RingOK(pipes[s]) /\ pipes[s] \in PipeRecords
    BY DEF FreeSlots, PipeTypeOK
  <2>3. Fresh(pipes[s]).valid /\ Fresh(pipes[s]).count = 0
    BY <2>2, FreshRing
  <2>4. View(Fresh(pipes[s])) = <<>>
    BY <2>3 DEF View, Content
  <2>5. Queues' = [Queues EXCEPT ![s] = <<>>]
    BY <2>1, <2>2, <2>4, QueuesEdited
  <2>6. Queues[s] = <<-1>>
    BY <2>2, ViewOpen DEF Queues
  <2> QED
    BY <2>2, <2>5, <2>6 DEF Chan!Next, Chan!Open, Queues, View, Content
<1>2. ASSUME NEW p \in procs, NEW i \in Fds, ClosePipeEnd(p, i)
      PROVE  [Chan!Next]_Queues
  <2> DEFINE s == fds[p][i].slot
  <2> DEFINE b == Closing(pipes[s], fds[p][i].end)
  <2>1. s \in Slots /\ RingOK(pipes[s])
    BY <1>2, DescriptorType DEF ClosePipeEnd, PipeTypeOK
  <2>2. pipes' = [pipes EXCEPT ![s] = b]
    BY <1>2 DEF ClosePipeEnd
  <2>3. RingOK(b) /\ Content(b) = Content(pipes[s]) /\ (b.valid => pipes[s].valid)
    BY <2>1, ClosingRing
  <2> HIDE DEF s, b
  <2>4. Queues' = [Queues EXCEPT ![s] = View(b)]
    BY <2>1, <2>2, QueuesEdited
  <2>5. CASE b.valid
    <3>1. View(b) = View(pipes[s])
      BY <2>3, <2>5 DEF View
    <3>2. Queues' = Queues
      BY <2>1, <2>4, <3>1 DEF Queues
    <3> QED
      BY <3>2
  <2>6. CASE ~b.valid
    <3>1. View(b) = <<-1>>
      BY <2>6 DEF View
    <3> QED
      BY <2>1, <2>4, <3>1 DEF Chan!Next, Chan!Close, Queues, View, Content
  <2> QED
    BY <2>5, <2>6
<1>3. ASSUME NEW p \in procs, NEW i \in Fds, NEW data \in Writes, WritePipe(p, i, data)
      PROVE  [Chan!Next]_Queues
  <2>0. PICK s \in Slots : s = fds[p][i].slot
    BY <1>3, DescriptorType, EndIsFd DEF WritePipe, PipeTypeOK
  <2> DEFINE b == pipes[s]
  <2> DEFINE w == Written(b, data)
  <2> DEFINE q == Queues[s]
  <2>1. s \in Slots /\ RingOK(b) /\ b \in PipeRecords /\ b.valid
    BY <1>3, <2>0 DEF WritePipe, PipeTypeOK
  <2>2. pipes' = [pipes EXCEPT ![s] = w]
    BY <1>3, <2>0 DEF WritePipe
  <2>3. q = Content(b) /\ q # <<-1>> /\ Len(q) = b.count
    BY <2>1, ViewOpen, ContentIs DEF Queues
  <2>4. w.valid
    BY <2>1, WrittenKeeps
  <2> DEFINE k == Takes(b, Len(data))
  <2>5. /\ Content(w) = Content(b) \o SubSeq(data, 1, k)
        /\ k = IF Len(data) <= PipeBuf - b.count THEN Len(data) ELSE PipeBuf - b.count
    BY <2>1, WrittenIs
  <2>6. SubSeq(data, 1, k) = Chan!Taken(PipeBuf - Len(q), data)
    BY <2>3, <2>5 DEF Chan!Taken
  <2>7. View(w) = q \o Chan!Taken(PipeBuf - Len(q), data)
    BY <2>3, <2>4, <2>5, <2>6 DEF View
  <2> HIDE DEF b, w, k
  <2>8. Queues' = [Queues EXCEPT ![s] = View(w)]
    BY <2>1, <2>2, QueuesEdited
  <2>9. Queues' = [Queues EXCEPT ![s] = Queues[s] \o Chan!Taken(PipeBuf - Len(Queues[s]), data)]
    BY <2>7, <2>8
  <2>10. Chan!Put(s, data)
    BY <2>3, <2>9 DEF Chan!Put, Queues, View, Content
  <2> QED
    BY <2>1, <2>10 DEF Chan!Next
<1>4. ASSUME NEW p \in procs, NEW i \in Fds, NEW n \in 1 .. MaxLen, ReadPipe(p, i, n)
      PROVE  [Chan!Next]_Queues
  <2>0. PICK s \in Slots : s = fds[p][i].slot
    BY <1>4, DescriptorType, EndIsFd DEF ReadPipe, PipeTypeOK
  <2> DEFINE b == pipes[s]
  <2> DEFINE w == Consumed(b, n)
  <2> DEFINE q == Queues[s]
  <2>1. s \in Slots /\ RingOK(b) /\ b \in PipeRecords /\ b.valid
    BY <1>4, <2>0 DEF ReadPipe, PipeTypeOK
  <2>2. pipes' = [pipes EXCEPT ![s] = w]
    BY <1>4, <2>0 DEF ReadPipe
  <2>3. q = Content(b) /\ q # <<-1>>
    BY <2>1, ViewOpen DEF Queues
  <2>4. w.valid
    BY <2>1, WrittenKeeps
  <2>5. n \in Nat \ {0}
    BY PipeSizesAssumption
  <2>6. Content(w) = SubSeq(Content(b), n + 1, Len(Content(b)))
    BY <2>1, <2>5, ConsumedIs
  <2>7. View(w) = SubSeq(q, n + 1, Len(q))
    BY <2>3, <2>4, <2>6 DEF View
  <2> HIDE DEF b, w
  <2>8. Queues' = [Queues EXCEPT ![s] = View(w)]
    BY <2>1, <2>2, QueuesEdited
  <2>9. Queues' = [Queues EXCEPT ![s] = SubSeq(Queues[s], n + 1, Len(Queues[s]))]
    BY <2>7, <2>8
  <2>10. Chan!Get(s, n)
    BY <2>3, <2>9 DEF Chan!Get, Queues, View, Content
  <2> QED
    BY <2>1, <2>10 DEF Chan!Next
<1>5. ASSUME pipes' = pipes
      PROVE  [Chan!Next]_Queues
  BY <1>5 DEF Queues
<1> QED
  BY <1>1, <1>2, <1>3, <1>4, <1>5 DEF PipeNext, Fork, Exit, pipeVars

\* Every slot of the pipe table is a bounded first-in, first-out queue, for
\* every number of processes, slots and bytes: what is written is read once
\* and in order, a write takes what there is room for, and a slot that is
\* used again starts empty.
THEOREM PipesAreChannels == PipeSpec => IsChannel
<1>1. PipeInit => Chan!Init
  BY DEF PipeInit, EmptyPipe, Chan!Init
<1>2. PipeTypeOK /\ [PipeNext]_pipeVars => [Chan!Next]_Queues
  BY StepChannel
<1> QED
  BY <1>1, <1>2, PipesWellFormed, PTL DEF PipeSpec, IsChannel, Chan!Spec, Queues, View, Content

-----------------------------------------------------------------------------
(***************************************************************************)
(* Open files.                                                             *)
(***************************************************************************)
OpenFd == [inode : Inodes, offset : Nat, file : Paths]

FilesTypeOK ==
    /\ fd_table \in [FileProcs -> [FileFds -> OpenFd \cup {NotOpen}]]
    /\ running \subseteq FileProcs
    /\ bobfs_used \subseteq Inodes
    /\ bobfs_sizes \in [Inodes -> Nat]
    /\ alone \subseteq Fds2

GoneHaveNone == \A d \in Fds2 : d[1] \notin running => fd_table[d[1]][d[2]] = NotOpen

\* The whole file lies in bobfs_buf and its inode knows its size.
Holds(fd) == /\ fd \in OpenFd
             /\ fd.inode \in bobfs_used
             /\ bobfs_sizes[fd.inode] = FileSize[fd.file]
             /\ \A k \in 0 .. FileSize[fd.file] - 1 :
                    k \in DOMAIN bobfs_buf /\ bobfs_buf[k] = fd.file
AloneHold == \A d \in alone : d[1] \in running /\ Holds(fd_table[d[1]][d[2]])

\* InodesHeld without the set of the inodes that are open.
Held == \A i \in bobfs_used \ orphans :
            \E d \in Fds2 : IsOpen(d) /\ InodeOf(d) = i

FilesInv == FilesTypeOK /\ GoneHaveNone /\ AloneHold /\ Held

USE FileSizeAssumption, FilesAssumption, SectorAssumption

LEMMA OpenFdIsOpen ==
    /\ NotOpen \notin OpenFd
    /\ \A fd \in OpenFd : /\ fd # NotOpen /\ fd.inode \in Inodes
                          /\ fd.offset \in Nat /\ fd.file \in Paths
<1>1. \A fd \in OpenFd : /\ fd.inode \in Inodes /\ fd.offset \in Nat
                         /\ fd.file \in Paths
  BY DEF OpenFd
<1>2. NotOpen.inode \notin Inodes
  BY DEF NotOpen, Inodes
<1> QED
  BY <1>1, <1>2

\* The table after one entry has changed.
Edited(tab, p, fd, v) == tab = [fd_table EXCEPT ![p][fd] = v]

LEMMA OneEntry ==
    ASSUME FilesTypeOK, NEW p \in FileProcs, NEW fd \in FileFds,
           NEW v \in OpenFd \cup {NotOpen},
           NEW tab, Edited(tab, p, fd, v)
    PROVE  /\ tab \in [FileProcs -> [FileFds -> OpenFd \cup {NotOpen}]]
           /\ \A d \in Fds2 : tab[d[1]][d[2]] =
                  IF d = <<p, fd>> THEN v ELSE fd_table[d[1]][d[2]]
<1> USE DEF Edited
<1>1. [fd_table[p] EXCEPT ![fd] = v] \in [FileFds -> OpenFd \cup {NotOpen}]
  BY DEF FilesTypeOK
<1>2. tab \in [FileProcs -> [FileFds -> OpenFd \cup {NotOpen}]]
  BY <1>1 DEF FilesTypeOK
<1>3. \A q \in FileProcs, e \in FileFds :
          tab[q][e] = IF q = p /\ e = fd THEN v ELSE fd_table[q][e]
  BY DEF FilesTypeOK
<1> QED
  BY <1>2, <1>3 DEF Fds2

LEMMA FilesInitInv == FilesInit => FilesInv
<1> SUFFICES ASSUME FilesInit PROVE FilesInv
  OBVIOUS
<1> USE DEF FilesInit
<1>1. FilesTypeOK
  <2>1. (CHOOSE p \in FileProcs : TRUE) \in FileProcs
    OBVIOUS
  <2>2. bobfs_sizes \in [Inodes -> Nat]
    OBVIOUS
  <2> QED
    BY <2>1, <2>2 DEF FilesTypeOK, NoFiles, Fds2
<1> QED
  BY <1>1 DEF FilesInv, GoneHaveNone, AloneHold, Held, NoFiles, Fds2

\* What a load leaves of a file: all of it, if it is the file that is loaded,
\* wholly or in part.
LEMMA CopiedIs ==
    ASSUME NEW path \in Paths, NEW n \in Nat, n <= FileSize[path]
    PROVE  /\ \A k \in 0 .. n - 1 : k \in DOMAIN Copied(path, n) /\ Copied(path, n)[k] = path
           /\ \A k \in Nat : k \in DOMAIN bobfs_buf /\ bobfs_buf[k] = path =>
                  k \in DOMAIN Copied(path, n) /\ Copied(path, n)[k] = path
  BY DEF Copied

LEMMA LoadedIs ==
    ASSUME NEW path \in Paths
    PROVE  \A k \in 0 .. FileSize[path] - 1 : k \in DOMAIN Loaded(path) /\ Loaded(path)[k] = path
<1> DEFINE n == FileSize[path]
<1> DEFINE c == Copied(path, n)
<1>1. n \in Nat
  OBVIOUS
<1>2. \A k \in 0 .. n - 1 : k \in DOMAIN c /\ c[k] = path
  BY <1>1, CopiedIs
<1>3. Loaded(path) = [k \in DOMAIN c \ {n} |-> c[k]]
  BY DEF Loaded
<1> HIDE DEF c
<1> QED
  BY <1>1, <1>2, <1>3

\* The descriptors that were alone with the file that is loaded still are, if
\* their inodes are left as they are.
LEMMA AloneWithHold ==
    ASSUME FilesInv, NEW path \in Paths, NEW d \in AloneWith(path), NEW w,
           fd_table[d[1]][d[2]] = w
    PROVE  /\ d \in Fds2 /\ d[1] \in running /\ Holds(w)
           /\ w.file = path
  BY DEF AloneWith, FileOf, FilesInv, AloneHold, FilesTypeOK

-----------------------------------------------------------------------------
LEMMA OpenInv ==
    ASSUME FilesInv, NEW p \in FileProcs, NEW path \in Paths, OpenFile(p, path)
    PROVE  FilesInv'
<1> USE DEF FilesInv
<1>1. PICK i \in Inodes, fd \in FileFds :
          /\ p \in running /\ i \notin bobfs_used /\ fd_table[p][fd] = NotOpen
          /\ bobfs_buf' = Loaded(path)
          /\ bobfs_sizes' = [bobfs_sizes EXCEPT ![i] = FileSize[path]]
          /\ bobfs_used' = bobfs_used \cup {i}
          /\ fd_table' = [fd_table EXCEPT
                 ![p][fd] = [inode |-> i, offset |-> 0, file |-> path]]
          /\ alone' = AloneWith(path) \cup {<<p, fd>>}
          /\ UNCHANGED <<running, orphans>>
  BY DEF OpenFile, FirstInode, FirstFd, SizeSet
<1> DEFINE v == [inode |-> i, offset |-> 0, file |-> path]
<1>2. v = [inode |-> i, offset |-> 0, file |-> path]
  OBVIOUS
<1> HIDE DEF v
<1>3. v \in OpenFd /\ v.inode = i /\ v.file = path /\ FileSize[path] \in Nat
  BY <1>2 DEF OpenFd
<1>4. /\ fd_table' \in [FileProcs -> [FileFds -> OpenFd \cup {NotOpen}]]
      /\ \A d \in Fds2 : fd_table'[d[1]][d[2]] =
             IF d = <<p, fd>> THEN v ELSE fd_table[d[1]][d[2]]
  <2>1. PICK tab \in {[fd_table EXCEPT ![p][fd] = v]} : Edited(tab, p, fd, v)
    BY DEF Edited
  <2>2. v \in OpenFd \cup {NotOpen} /\ FilesTypeOK /\ fd_table' = tab
    BY <2>1, <1>1, <1>2, <1>3 DEF Edited
  <2>3. /\ tab \in [FileProcs -> [FileFds -> OpenFd \cup {NotOpen}]]
        /\ \A e \in Fds2 : tab[e[1]][e[2]] =
               IF e = <<p, fd>> THEN v ELSE fd_table[e[1]][e[2]]
    BY <1>1, <2>1, <2>2, OneEntry
  <2> QED
    BY <2>2, <2>3
<1>6. <<p, fd>> \in Fds2 /\ <<p, fd>>[1] = p /\ <<p, fd>>[2] = fd
  BY DEF Fds2
<1>5. FilesTypeOK'
  <2>1. alone' \subseteq Fds2
    BY <1>1, <1>6 DEF FilesTypeOK, AloneWith
  <2>2. bobfs_sizes' \in [Inodes -> Nat]
    BY <1>1, <1>3 DEF FilesTypeOK
  <2> QED
    BY <1>1, <1>4, <2>1, <2>2 DEF FilesTypeOK
<1>7. GoneHaveNone'
  BY <1>1, <1>4, <1>6 DEF GoneHaveNone
<1>8. AloneHold'
  <2>1. fd_table'[p][fd] = v
    BY <1>4, <1>6
  <2>2. \A k \in 0 .. FileSize[path] - 1 : k \in DOMAIN bobfs_buf' /\ bobfs_buf'[k] = path
    BY <1>1, LoadedIs
  <2>3. bobfs_sizes'[i] = FileSize[path]
    BY <1>1 DEF FilesTypeOK
  <2>4. Holds(fd_table[p][fd])'
    BY <1>1, <1>3, <2>1, <2>2, <2>3 DEF Holds
  <2>5. ASSUME NEW d \in AloneWith(path)
        PROVE  d[1] \in running' /\ Holds(fd_table[d[1]][d[2]])'
    <3>1. PICK w : w = fd_table[d[1]][d[2]]
      OBVIOUS
    <3>2. /\ d \in Fds2 /\ d[1] \in running /\ Holds(w)
          /\ w.file = path
      BY <3>1, AloneWithHold
    <3>3. d # <<p, fd>>
      BY <1>1, <1>6, <3>1, <3>2, OpenFdIsOpen DEF Holds
    <3>4. fd_table'[d[1]][d[2]] = w /\ w.inode # i /\ w.inode \in Inodes
      BY <1>1, <1>4, <3>1, <3>2, <3>3, OpenFdIsOpen DEF Holds
    <3>5. w.inode \in bobfs_used' /\ bobfs_sizes'[w.inode] = FileSize[path]
      BY <1>1, <3>2, <3>4 DEF Holds, FilesTypeOK
    <3> QED
      BY <1>1, <2>2, <3>2, <3>4, <3>5 DEF Holds
  <2> QED
    BY <1>1, <1>6, <2>4, <2>5 DEF AloneHold
<1>9. Held'
  <2> SUFFICES ASSUME NEW j \in bobfs_used', j \notin orphans
               PROVE  \E d \in Fds2 : IsOpen(d)' /\ InodeOf(d)' = j
    BY <1>1 DEF Held
  <2>1. CASE j = i
    BY <1>3, <1>4, <1>6, <2>1, OpenFdIsOpen DEF IsOpen, InodeOf
  <2>2. CASE j # i
    <3>1. PICK d \in Fds2 : IsOpen(d) /\ InodeOf(d) = j
      BY <1>1, <2>2 DEF Held
    <3>2. d # <<p, fd>>
      BY <1>1, <1>6, <3>1 DEF IsOpen
    <3> QED
      BY <1>4, <3>1, <3>2 DEF IsOpen, InodeOf
  <2> QED
    BY <2>1, <2>2
<1> QED
  BY <1>5, <1>7, <1>8, <1>9

\* Two opens that fail: they change the buffer, and the first the size that a
\* free inode has.
LEMMA LoadOnlyInv ==
    ASSUME FilesInv, NEW path \in Paths, NEW left, left \subseteq Fds2,
           UNCHANGED <<fd_table, running, bobfs_used, orphans>>,
           alone' = left, bobfs_sizes' \in [Inodes -> Nat],
           \A j \in bobfs_used : bobfs_sizes'[j] = bobfs_sizes[j],
           \A d \in left : d \in AloneWith(path) \/ (d \in alone /\ bobfs_buf' = bobfs_buf),
           \A k \in 0 .. FileSize[path] - 1 :
               k \in DOMAIN bobfs_buf /\ bobfs_buf[k] = path =>
                   k \in DOMAIN bobfs_buf' /\ bobfs_buf'[k] = path
    PROVE  FilesInv'
<1> USE DEF FilesInv
<1>1. FilesTypeOK'
  BY DEF FilesTypeOK
<1>2. GoneHaveNone' /\ Held'
  BY DEF GoneHaveNone, Held, IsOpen, InodeOf
<1>3. AloneHold'
  <2> SUFFICES ASSUME NEW d \in left
               PROVE  d[1] \in running /\ Holds(fd_table[d[1]][d[2]])'
    BY DEF AloneHold
  <2>1. PICK w : w = fd_table[d[1]][d[2]]
    OBVIOUS
  <2>2. /\ d[1] \in running /\ Holds(w)
        /\ w.file = path \/ bobfs_buf' = bobfs_buf
    BY <2>1, AloneWithHold DEF AloneHold
  <2>3. bobfs_sizes'[w.inode] = FileSize[w.file]
    BY <2>2 DEF Holds
  <2>4. fd_table'[d[1]][d[2]] = w /\ bobfs_used' = bobfs_used
    BY <2>1
  <2> QED
    BY <2>2, <2>3, <2>4 DEF Holds
<1> QED
  BY <1>1, <1>2, <1>3

LEMMA OpenNoFdInv ==
    ASSUME FilesInv, NEW p \in FileProcs, NEW path \in Paths, OpenFileNoFd(p, path)
    PROVE  FilesInv'
<1>1. PICK i \in Inodes :
          /\ i \notin bobfs_used
          /\ bobfs_sizes' = [bobfs_sizes EXCEPT ![i] = FileSize[path]]
          /\ bobfs_buf' = Loaded(path)
          /\ bobfs_used' = bobfs_used /\ alone' = AloneWith(path)
          /\ UNCHANGED <<fd_table, running, orphans>>
  BY DEF OpenFileNoFd, SizeSet, UsedAfterFail, FirstInode
<1>2. /\ bobfs_sizes' \in [Inodes -> Nat] /\ AloneWith(path) \subseteq Fds2
      /\ \A j \in bobfs_used : bobfs_sizes'[j] = bobfs_sizes[j]
  BY <1>1 DEF FilesInv, FilesTypeOK, AloneWith
<1> QED
  BY <1>1, <1>2, LoadedIs, LoadOnlyInv

LEMMA OpenFailsInv ==
    ASSUME FilesInv, NEW p \in FileProcs, NEW path \in Paths, OpenFileFails(p, path)
    PROVE  FilesInv'
<1>1. PICK s \in 1 .. FileSize[path] :
          /\ s * SectorBytes < FileSize[path]
          /\ bobfs_buf' = Copied(path, s * SectorBytes)
          /\ alone' = AloneWith(path)
          /\ UNCHANGED <<fd_table, running, bobfs_used, bobfs_sizes, orphans>>
  BY DEF OpenFileFails
<1>2. /\ bobfs_sizes' \in [Inodes -> Nat] /\ alone' \subseteq Fds2
      /\ \A j \in bobfs_used : bobfs_sizes'[j] = bobfs_sizes[j]
  BY <1>1 DEF FilesInv, FilesTypeOK, AloneWith
<1>3. s * SectorBytes \in Nat /\ FileSize[path] \in Nat
  BY <1>1
<1>4. \A k \in 0 .. FileSize[path] - 1 :
          k \in DOMAIN bobfs_buf /\ bobfs_buf[k] = path =>
              k \in DOMAIN bobfs_buf' /\ bobfs_buf'[k] = path
  <2>1. s * SectorBytes <= FileSize[path]
    BY <1>1, <1>3
  <2> QED
    BY <1>1, <1>3, <2>1, CopiedIs
<1>5. \A d \in alone' : d \in AloneWith(path)
  BY <1>1
<1> QED
  BY <1>1, <1>2, <1>4, <1>5, LoadOnlyInv

LEMMA ReadInv ==
    ASSUME FilesInv, NEW d \in Fds2, NEW n \in Nat, ReadFile(d, n)
    PROVE  FilesInv'
<1> USE DEF FilesInv
<1>1. PICK p \in FileProcs, fd \in FileFds : d = <<p, fd>> /\ d[1] = p /\ d[2] = fd
  BY DEF Fds2
<1> DEFINE old == fd_table[p][fd]
<1>2. old = fd_table[p][fd]
  OBVIOUS
<1> HIDE DEF old
<1>3. old \in OpenFd
  BY <1>1, <1>2 DEF FilesTypeOK, ReadFile, IsOpen
<1> DEFINE v == [old EXCEPT !.offset = @ + n]
<1>4. v = [old EXCEPT !.offset = @ + n]
  OBVIOUS
<1> HIDE DEF v
<1>5. /\ v \in OpenFd /\ v.inode = old.inode /\ v.file = old.file
  BY <1>3, <1>4 DEF OpenFd
<1>6. /\ fd_table' = [fd_table EXCEPT ![p][fd] = v] /\ p \in running
      /\ UNCHANGED <<running, bobfs_used, bobfs_sizes, bobfs_buf, alone, orphans>>
  BY <1>1, <1>2, <1>4 DEF ReadFile
<1>7. /\ fd_table' \in [FileProcs -> [FileFds -> OpenFd \cup {NotOpen}]]
      /\ \A e \in Fds2 : fd_table'[e[1]][e[2]] =
             IF e = d THEN v ELSE fd_table[e[1]][e[2]]
  <2>1. PICK tab \in {[fd_table EXCEPT ![p][fd] = v]} : Edited(tab, p, fd, v)
    BY DEF Edited
  <2>2. v \in OpenFd \cup {NotOpen} /\ FilesTypeOK /\ fd_table' = tab
    BY <2>1, <1>5, <1>6 DEF Edited
  <2>3. /\ tab \in [FileProcs -> [FileFds -> OpenFd \cup {NotOpen}]]
        /\ \A e \in Fds2 : tab[e[1]][e[2]] =
               IF e = <<p, fd>> THEN v ELSE fd_table[e[1]][e[2]]
    BY <1>1, <2>1, <2>2, OneEntry
  <2> QED
    BY <2>2, <2>3, <1>1
<1>8. FilesTypeOK'
  BY <1>6, <1>7 DEF FilesTypeOK
<1>9. GoneHaveNone'
  BY <1>1, <1>6, <1>7 DEF GoneHaveNone
<1>10. AloneHold'
  <2> SUFFICES ASSUME NEW e \in alone
               PROVE  e[1] \in running /\ Holds(fd_table'[e[1]][e[2]])
    BY <1>6 DEF AloneHold, Holds
  <2>1. e \in Fds2 /\ e[1] \in running /\ Holds(fd_table[e[1]][e[2]])
    BY DEF AloneHold, FilesTypeOK
  <2>2. e = d => Holds(v)
    BY <1>1, <1>2, <1>5, <2>1 DEF Holds
  <2> QED
    BY <1>7, <2>1, <2>2
<1>11. Held'
  <2>1. \A e \in Fds2 : IsOpen(e) => IsOpen(e)' /\ InodeOf(e)' = InodeOf(e)
    BY <1>1, <1>2, <1>5, <1>7, OpenFdIsOpen DEF IsOpen, InodeOf
  <2> QED
    BY <1>6, <2>1 DEF Held
<1> QED
  BY <1>8, <1>9, <1>10, <1>11

LEMMA CloseInv ==
    ASSUME FilesInv, NEW d \in Fds2, CloseFile(d)
    PROVE  FilesInv'
<1> USE DEF FilesInv
<1>1. PICK p \in FileProcs, fd \in FileFds : d = <<p, fd>> /\ d[1] = p /\ d[2] = fd
  BY DEF Fds2
<1>2. /\ bobfs_used' = bobfs_used \ {InodeOf(d)}
      /\ fd_table' = [fd_table EXCEPT ![p][fd] = NotOpen]
      /\ alone' = {e \in alone : InodeOf(e) # InodeOf(d)}
      /\ UNCHANGED <<running, bobfs_sizes, bobfs_buf, orphans>>
  BY <1>1 DEF CloseFile, UsedAfterClose
<1>3. /\ fd_table' \in [FileProcs -> [FileFds -> OpenFd \cup {NotOpen}]]
      /\ \A e \in Fds2 : fd_table'[e[1]][e[2]] =
             IF e = d THEN NotOpen ELSE fd_table[e[1]][e[2]]
  <2>1. PICK tab \in {[fd_table EXCEPT ![p][fd] = NotOpen]} : Edited(tab, p, fd, NotOpen)
    BY DEF Edited
  <2>2. NotOpen \in OpenFd \cup {NotOpen} /\ FilesTypeOK /\ fd_table' = tab
    BY <2>1, <1>2 DEF Edited
  <2>3. /\ tab \in [FileProcs -> [FileFds -> OpenFd \cup {NotOpen}]]
        /\ \A e \in Fds2 : tab[e[1]][e[2]] =
               IF e = <<p, fd>> THEN NotOpen ELSE fd_table[e[1]][e[2]]
    BY <1>1, <2>1, <2>2, OneEntry
  <2> QED
    BY <2>2, <2>3, <1>1
<1>4. FilesTypeOK'
  BY <1>2, <1>3 DEF FilesTypeOK
<1>5. GoneHaveNone'
  BY <1>2, <1>3 DEF GoneHaveNone
<1>6. AloneHold'
  <2> SUFFICES ASSUME NEW e \in alone'
               PROVE  e[1] \in running /\ Holds(fd_table[e[1]][e[2]])'
    BY <1>2 DEF AloneHold
  <2>1. /\ e \in Fds2 /\ e[1] \in running /\ Holds(fd_table[e[1]][e[2]])
        /\ InodeOf(e) # InodeOf(d)
    BY <1>2 DEF AloneHold, FilesTypeOK
  <2>2. fd_table'[e[1]][e[2]] = fd_table[e[1]][e[2]]
    BY <1>3, <2>1
  <2>3. fd_table[e[1]][e[2]].inode \in bobfs_used'
    BY <1>2, <2>1 DEF Holds, InodeOf
  <2> QED
    BY <1>2, <2>1, <2>2, <2>3 DEF Holds
<1>7. Held'
  <2> SUFFICES ASSUME NEW j \in bobfs_used', j \notin orphans
               PROVE  \E e \in Fds2 : IsOpen(e)' /\ InodeOf(e)' = j
    BY <1>2 DEF Held
  <2>1. PICK e \in Fds2 : IsOpen(e) /\ InodeOf(e) = j
    BY <1>2 DEF Held
  <2>2. e # d
    BY <1>2, <2>1
  <2> QED
    BY <1>3, <2>1, <2>2 DEF IsOpen, InodeOf
<1> QED
  BY <1>4, <1>5, <1>6, <1>7

LEMMA ForkFilesInv ==
    ASSUME FilesInv, NEW p \in FileProcs, NEW q \in FileProcs, ForkFiles(p, q)
    PROVE  FilesInv'
<1> USE DEF FilesInv
<1>1. /\ p \in running /\ q \notin running /\ running' = running \cup {q}
      /\ fd_table' = [fd_table EXCEPT ![q] = fd_table[p]]
      /\ alone' = alone \cup {<<q, fd>> : fd \in {fd \in FileFds : <<p, fd>> \in alone}}
      /\ UNCHANGED <<bobfs_used, bobfs_sizes, bobfs_buf, orphans>>
  BY DEF ForkFiles
<1>2. /\ \A d \in Fds2 : d[1] # q => fd_table'[d[1]][d[2]] = fd_table[d[1]][d[2]]
      /\ \A fd \in FileFds : fd_table'[q][fd] = fd_table[p][fd]
  BY <1>1 DEF FilesTypeOK, Fds2
<1>3. FilesTypeOK'
  <2>1. fd_table[p] \in [FileFds -> OpenFd \cup {NotOpen}]
    BY DEF FilesTypeOK
  <2>2. fd_table' \in [FileProcs -> [FileFds -> OpenFd \cup {NotOpen}]]
    BY <1>1, <2>1 DEF FilesTypeOK
  <2> QED
    <3>1. \A fd \in FileFds : <<q, fd>> \in Fds2
      BY DEF Fds2
    <3>2. alone' \subseteq Fds2
      BY <1>1, <3>1 DEF FilesTypeOK
    <3> QED
      BY <1>1, <2>2, <3>2 DEF FilesTypeOK
<1>4. GoneHaveNone'
  BY <1>1, <1>2 DEF GoneHaveNone
<1>5. AloneHold'
  <2> SUFFICES ASSUME NEW e \in alone'
               PROVE  e[1] \in running' /\ Holds(fd_table[e[1]][e[2]])'
    BY DEF AloneHold
  <2>1. CASE e \in alone
    <3>1. e \in Fds2 /\ e[1] \in running /\ Holds(fd_table[e[1]][e[2]])
      BY <2>1 DEF AloneHold, FilesTypeOK
    <3>2. fd_table'[e[1]][e[2]] = fd_table[e[1]][e[2]]
      BY <1>1, <1>2, <3>1
    <3> DEFINE v == fd_table[e[1]][e[2]]
    <3>3. v = fd_table[e[1]][e[2]]
      OBVIOUS
    <3> HIDE DEF v
    <3>4. Holds(v) /\ fd_table'[e[1]][e[2]] = v
      BY <3>1, <3>2, <3>3
    <3>5. bobfs_used' = bobfs_used /\ bobfs_sizes' = bobfs_sizes /\ bobfs_buf' = bobfs_buf
      BY <1>1
    <3> QED
      BY <1>1, <3>1, <3>4, <3>5 DEF Holds
  <2>2. CASE e \notin alone
    <3>1. PICK fd \in FileFds : e = <<q, fd>> /\ <<p, fd>> \in alone
      BY <1>1, <2>2
    <3>2. Holds(fd_table[p][fd])
      BY <3>1 DEF AloneHold
    <3>3. e[1] = q /\ e[2] = fd /\ fd_table'[q][fd] = fd_table[p][fd]
      BY <1>2, <3>1
    <3>4. e[1] \in running' /\ fd_table'[e[1]][e[2]] = fd_table[p][fd]
      BY <1>1, <3>3
    <3> DEFINE v == fd_table[p][fd]
    <3>5. v = fd_table[p][fd]
      OBVIOUS
    <3> HIDE DEF v
    <3>6. bobfs_used' = bobfs_used /\ bobfs_sizes' = bobfs_sizes /\ bobfs_buf' = bobfs_buf
      BY <1>1
    <3>7. Holds(v) /\ fd_table'[e[1]][e[2]] = v
      BY <3>2, <3>4, <3>5
    <3> QED
      BY <3>4, <3>6, <3>7 DEF Holds
  <2> QED
    BY <2>1, <2>2
<1>6. Held'
  <2>1. ASSUME NEW e \in Fds2, IsOpen(e)
        PROVE  IsOpen(e)' /\ InodeOf(e)' = InodeOf(e)
    <3>1. e[1] \in running
      BY <2>1 DEF GoneHaveNone, IsOpen
    <3> QED
      BY <1>1, <1>2, <2>1, <3>1 DEF IsOpen, InodeOf
  <2> QED
    BY <1>1, <2>1 DEF Held
<1> QED
  BY <1>3, <1>4, <1>5, <1>6

LEMMA ExitInv ==
    ASSUME FilesInv, NEW p \in FileProcs, ExitFiles(p)
    PROVE  FilesInv'
<1> USE DEF FilesInv
<1>1. /\ running' = running \ {p}
      /\ fd_table' = [fd_table EXCEPT ![p] = NoFiles]
      /\ orphans' = orphans \cup {InodeOf(d) : d \in {e \in Fds2 : e[1] = p /\ IsOpen(e)}}
      /\ alone' = {d \in alone : d[1] # p}
      /\ UNCHANGED <<bobfs_used, bobfs_sizes, bobfs_buf>>
  BY DEF ExitFiles
<1>2. /\ \A d \in Fds2 : d[1] # p => fd_table'[d[1]][d[2]] = fd_table[d[1]][d[2]]
      /\ \A fd \in FileFds : fd_table'[p][fd] = NotOpen
  BY <1>1 DEF FilesTypeOK, Fds2, NoFiles
<1>3. FilesTypeOK'
  BY <1>1 DEF FilesTypeOK, NoFiles
<1>4. GoneHaveNone'
  <2> SUFFICES ASSUME NEW d \in Fds2, d[1] \notin running'
               PROVE  fd_table'[d[1]][d[2]] = NotOpen
    BY DEF GoneHaveNone
  <2>1. d[2] \in FileFds
    BY DEF Fds2
  <2> QED
    BY <1>1, <1>2, <2>1 DEF GoneHaveNone
<1>5. AloneHold'
  <2> SUFFICES ASSUME NEW e \in alone'
               PROVE  e[1] \in running' /\ Holds(fd_table[e[1]][e[2]])'
    BY DEF AloneHold
  <2>1. e \in Fds2 /\ e[1] \in running /\ Holds(fd_table[e[1]][e[2]]) /\ e[1] # p
    BY <1>1 DEF AloneHold, FilesTypeOK
  <2>2. fd_table'[e[1]][e[2]] = fd_table[e[1]][e[2]]
    BY <1>2, <2>1
  <2>3. e[1] \in running'
    BY <1>1, <2>1
  <2> DEFINE fd == fd_table[e[1]][e[2]]
  <2>a. fd = fd_table[e[1]][e[2]] /\ fd_table'[e[1]][e[2]] = fd
    BY <2>2
  <2> HIDE DEF fd
  <2>b. UNCHANGED <<bobfs_used, bobfs_sizes, bobfs_buf>>
    BY <1>1
  <2>4. Holds(fd_table[e[1]][e[2]])'
    BY ONLY <2>1, <2>a, <2>b DEF Holds
  <2> QED
    BY <2>3, <2>4
<1>6. Held'
  <2> SUFFICES ASSUME NEW j \in bobfs_used, j \notin orphans'
               PROVE  \E e \in Fds2 : IsOpen(e)' /\ InodeOf(e)' = j
    BY <1>1 DEF Held
  <2>1. PICK e \in Fds2 : IsOpen(e) /\ InodeOf(e) = j
    BY <1>1 DEF Held
  <2>2. e[1] # p
    BY <1>1, <2>1
  <2>3. fd_table'[e[1]][e[2]] = fd_table[e[1]][e[2]]
    BY <1>2, <2>1, <2>2
  <2>4. IsOpen(e)' /\ InodeOf(e)' = j
    BY <2>1, <2>3 DEF IsOpen, InodeOf
  <2> QED
    BY <2>1, <2>4
<1> QED
  BY <1>3, <1>4, <1>5, <1>6

-----------------------------------------------------------------------------
LEMMA FilesStepInv == FilesInv /\ [FilesNext]_fileVars => FilesInv'
<1> SUFFICES ASSUME FilesInv, [FilesNext]_fileVars PROVE FilesInv'
  OBVIOUS
<1>1. CASE \E p \in FileProcs : ExitFiles(p)
  BY <1>1, ExitInv
<1>2. CASE \E p \in FileProcs, path \in Paths :
              OpenFile(p, path) \/ OpenFileNoFd(p, path) \/ OpenFileFails(p, path)
  BY <1>2, OpenInv, OpenNoFdInv, OpenFailsInv
<1>3. CASE \E p \in FileProcs, q \in FileProcs : ForkFiles(p, q)
  BY <1>3, ForkFilesInv
<1>4. CASE \E d \in Fds2 : CloseFile(d)
  BY <1>4, CloseInv
<1>5. CASE \E d \in Fds2 : IsOpen(d) /\ \E n \in 1 .. Available(d) : ReadFile(d, n)
  <2>0. PICK d \in Fds2 : IsOpen(d) /\ \E n \in 1 .. Available(d) : ReadFile(d, n)
    BY <1>5
  <2>1. PICK n \in 1 .. Available(d) : ReadFile(d, n) /\ IsOpen(d)
    BY <2>0
  <2>2. n \in Nat
    <3>1. Available(d) \in Int
      <4>1. fd_table[d[1]][d[2]] \in OpenFd
        BY <2>1 DEF FilesInv, FilesTypeOK, IsOpen, Fds2
      <4> QED
        BY <4>1, OpenFdIsOpen DEF Available, InodeOf, FilesInv, FilesTypeOK
    <3> QED
      BY <2>1, <3>1
  <2> QED
    BY <2>1, <2>2, ReadInv
<1>6. CASE UNCHANGED fileVars
  BY <1>6 DEF FilesInv, FilesTypeOK, GoneHaveNone, AloneHold, Held, Holds,
              IsOpen, InodeOf, fileVars
<1> QED
  BY <1>1, <1>2, <1>3, <1>4, <1>5, <1>6 DEF FilesNext

\* The file descriptors and the inodes keep their invariant.
THEOREM FilesSafe == FilesSpec => []FilesInv
<1>1. FilesInit => FilesInv
  BY FilesInitInv
<1>2. FilesInv /\ [FilesNext]_fileVars => FilesInv'
  BY FilesStepInv
<1> QED
  BY <1>1, <1>2, PTL DEF FilesSpec

\* bobfs_open, bobfs_close and the failing vfs_open between them lose no inode;
\* only process_exit does.
THEOREM NoInodeLost == FilesSpec => []InodesHeld
<1>1. FilesInv => InodesHeld
  BY DEF FilesInv, Held, InodesHeld
<1> QED
  BY <1>1, FilesSafe, PTL

\* A descriptor and its copies read the file they were opened for, as long as
\* nobody opens another file, or tries to, or closes that inode.
THEOREM OwnFileRead == FilesSpec => []AloneReadsOwnFile
<1>1. FilesInv => AloneReadsOwnFile
  <2> SUFFICES ASSUME FilesInv, NEW d \in alone PROVE ReadsItsFile(d)
    BY DEF AloneReadsOwnFile
  <2>1. Holds(fd_table[d[1]][d[2]])
    BY DEF FilesInv, AloneHold
  <2>2. /\ InodeOf(d) \in bobfs_used
        /\ bobfs_sizes[InodeOf(d)] = FileSize[FileOf(d)]
        /\ \A k \in 0 .. FileSize[FileOf(d)] - 1 :
               k \in DOMAIN bobfs_buf /\ bobfs_buf[k] = FileOf(d)
        /\ fd_table[d[1]][d[2]].offset \in Nat /\ FileOf(d) \in Paths
    BY <2>1, OpenFdIsOpen DEF Holds, InodeOf, FileOf
  <2>3. \A k \in fd_table[d[1]][d[2]].offset .. bobfs_sizes[InodeOf(d)] - 1 :
            k \in 0 .. FileSize[FileOf(d)] - 1
    BY <2>2
  <2> QED
    BY <2>2, <2>3 DEF ReadsItsFile, Available
<1> QED
  BY <1>1, FilesSafe, PTL
=============================================================================
