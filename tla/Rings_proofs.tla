--------------------------- MODULE Rings_proofs ----------------------------
(***************************************************************************)
(* The two rings between a device and its reader, which share indices and  *)
(* no lock, for every size of either.                                      *)
(*                                                                         *)
(* The receive ring of the NIC: every frame is copied once, whole and in   *)
(* order, and the sockets keep the newest datagrams.                       *)
(*                                                                         *)
(* The ring of the keyboard implements LossyQueue: no interrupt between    *)
(* two steps of buf_pop loses or repeats a character.                      *)
(***************************************************************************)
EXTENDS Keyboard, Network, SequenceTheorems, TLAPS

-----------------------------------------------------------------------------
(***************************************************************************)
(* The receive ring.  Between the page that the driver reads next and CURR *)
(* lie the frames not yet polled, page after page (RingInOrder); what the  *)
(* driver has copied are the first of these pages (DriverHolds).           *)
(***************************************************************************)
Width == RxStop - RxStart
InRing(p) == IF p < RxStop THEN p ELSE p - Width
Dist(p, q) == IF p <= q THEN q - p ELSE q - p + Width
Unread == Dist(ReadPage, curr)
PageAt(k) == InRing(ReadPage + k)

PageParts == [id : Nat, part : Nat, next : Nat, pages : Nat]
SocketRecords == [bound : BOOLEAN, port : Ports \cup {0}, valid : BOOLEAN,
                  rx : [id : Nat, len : Nat, own : Nat]]

NetTypeOK ==
    /\ ring \in [Pages -> PageParts] /\ hdr \in PageParts /\ rx_buf \in Seq(PageParts)
    /\ curr \in Pages /\ bnry \in Pages
    /\ nicPc \in {"poll", "header", "data", "advance"}
    /\ arrived \in Seq(Wire) /\ polled \in 0 .. Len(arrived)

\* a is the part of a frame that the page k places behind the first holds.
HoldsPart(k, a) ==
    /\ a.id \in 1 .. Len(arrived) /\ a.pages = PagesOf(arrived[a.id])
    /\ a.part \in 1 .. a.pages
    /\ a.part = 1 => a.next = InRing(PageAt(k) + a.pages)
Last(a) == a.id = Len(arrived) /\ a.part = a.pages
GoesOn(a, b) == IF a.part < a.pages THEN b.id = a.id /\ b.part = a.part + 1
                 ELSE b.id = a.id + 1 /\ b.part = 1

RingInOrder ==
    /\ Unread = 0 => polled = Len(arrived)
    /\ Unread > 0 => ring[PageAt(0)].id = polled + 1 /\ ring[PageAt(0)].part = 1
    /\ \A k \in 0 .. Unread - 1 :
         /\ HoldsPart(k, ring[PageAt(k)])
         /\ k < Unread - 1 => GoesOn(ring[PageAt(k)], ring[PageAt(k + 1)])
         /\ k = Unread - 1 => Last(ring[PageAt(k)])

DriverHolds ==
    /\ nicPc # "poll" => Unread > 0
    /\ nicPc \in {"data", "advance"} =>
         /\ hdr = ring[PageAt(0)]
         /\ Len(rx_buf) <= Unread
         /\ \A i \in 1 .. Len(rx_buf) :
              rx_buf[i] = ring[PageAt(i - 1)] /\ rx_buf[i].part = i /\ rx_buf[i].id = polled + 1
    /\ nicPc = "data" => Len(rx_buf) < hdr.pages
    /\ nicPc = "advance" => Len(rx_buf) = hdr.pages

SocketsOK ==
    /\ sockets \in [Sockets -> SocketRecords]
    /\ got \in [Sockets -> 0 .. polled] /\ boundAt \in [Sockets -> 0 .. polled]
    /\ \A s \in Sockets :
         /\ sockets[s].valid => sockets[s].bound
         /\ sockets[s].bound => \A t \in 0 .. s - 1 : sockets[t].bound

LEMMA RingSizes == /\ RxStart \in Nat /\ RxStop \in Nat /\ Width \in Nat
                   /\ 2 <= Width /\ RxStop = RxStart + Width
  BY RingAssumption DEF Width

LEMMA Quotient ==
    ASSUME NEW a \in Nat, NEW b \in Nat \ {0}
    PROVE  a \div b \in Nat
  OBVIOUS

LEMMA InRingIs ==
    ASSUME NEW p \in Pages, NEW k \in 0 .. Width
    PROVE  InRing(p + k) \in Pages /\ Around(p, k) = InRing(p + k)
<1> DEFINE m == p - RxStart + k
<1>1. m \in 0 .. 2 * Width - 1 /\ p + k = RxStart + m
  BY RingSizes DEF Pages
<1> HIDE DEF m
<1>2. m % Width = IF m < Width THEN m ELSE m - Width
  BY <1>1, RingSizes
<1>3. Around(p, k) = RxStart + (m % Width)
  BY DEF Around, Width, m
<1> QED
  BY <1>1, <1>2, <1>3, RingSizes DEF InRing, Pages

LEMMA DistIs ==
    ASSUME NEW p \in Pages, NEW q \in Pages
    PROVE  /\ Dist(p, q) \in 0 .. Width - 1 /\ Dist(p, q) = (q - p) % Width
           /\ InRing(p + Dist(p, q)) = q /\ (Dist(p, q) = 0 <=> p = q)
<1> DEFINE d == q - p
<1>1. d \in -(Width - 1) .. Width - 1
  BY RingSizes DEF Pages
<1> HIDE DEF d
<1>2. d % Width = IF d >= 0 THEN d ELSE d + Width
  BY <1>1, RingSizes
<1> QED
  BY <1>1, <1>2, RingSizes DEF Dist, InRing, Pages, d

LEMMA InRingTwice ==
    ASSUME NEW p \in Pages, NEW i \in Nat, NEW j \in Nat, i + j <= Width
    PROVE  InRing(InRing(p + i) + j) = InRing(p + (i + j))
  BY RingSizes DEF InRing, Pages

LEMMA DistBetween ==
    ASSUME NEW p \in Pages, NEW i \in 0 .. Width - 1, NEW j \in 0 .. Width - 1
    PROVE  Dist(InRing(p + i), InRing(p + j)) = IF i <= j THEN j - i ELSE j - i + Width
  BY RingSizes DEF InRing, Pages, Dist

\* The pages seen from the one that is read next.
LEMMA PagesSeen ==
    ASSUME NetTypeOK
    PROVE  /\ ReadPage \in Pages /\ ReadPage = InRing(bnry + 1) /\ PageAt(0) = ReadPage
           /\ Unread \in 0 .. Width - 1 /\ PageAt(Unread) = curr
           /\ PageAt(Width - 1) = bnry /\ (Unread = 0 <=> ReadPage = curr)
           /\ \A k \in 0 .. Width : PageAt(k) \in Pages
<1>1. bnry \in Pages /\ curr \in Pages
  BY DEF NetTypeOK
<1>2. ReadPage \in Pages /\ ReadPage = InRing(bnry + 1) /\ ReadPage + 0 = ReadPage
  BY <1>1, RingSizes DEF ReadPage, Pages, InRing
<1>3. InRing(ReadPage + (Width - 1)) = bnry
  BY <1>1, <1>2, RingSizes DEF Pages, InRing
<1>4. InRing(ReadPage) = ReadPage
  BY <1>2, RingSizes DEF Pages, InRing
<1> QED
  BY <1>1, <1>2, <1>3, <1>4, DistIs, InRingIs DEF Unread, PageAt

LEMMA PageAtFrom ==
    ASSUME NetTypeOK, NEW i \in Nat, NEW j \in Nat, i + j <= Width
    PROVE  InRing(PageAt(i) + j) = PageAt(i + j)
  BY PagesSeen, InRingTwice DEF PageAt

\* One page at least, and the lengths of the headers.
LEMMA FramePages ==
    ASSUME NEW f \in Wire
    PROVE  /\ PagesOf(f) \in Nat \ {0} /\ f.carried \in Nat /\ f.ihl \in Nat
           /\ f.length \in 0 .. LengthWrap - 1
<1> USE NetSizesAssumption
<1>1. f.carried \in Nat /\ f.ihl \in Nat /\ f.length \in 0 .. LengthWrap - 1
  <2>1. CASE f \in Foreign
    BY <2>1, ForeignAssumption
  <2>2. CASE f \notin Foreign
    <3>1. PICK port \in Ports, n \in 0 .. UdpBuf : f = UdpFrame(port, n)
      BY <2>2 DEF Wire
    <3>2. /\ f.ihl = IpHdr /\ f.length = UdpHdr + n
          /\ f.carried = IF IpHdr + UdpHdr + n < MinCarried THEN MinCarried
                         ELSE IpHdr + UdpHdr + n
      BY <3>1 DEF UdpFrame
    <3> QED
      BY <3>2
  <2> QED
    BY <2>1, <2>2
<1>2. LinkHdr + f.carried \in Nat /\ PageSize \in Nat \ {0}
  BY <1>1
<1>3. (LinkHdr + f.carried) \div PageSize \in Nat
  BY <1>2, Quotient
<1> QED
  BY <1>1, <1>3 DEF PagesOf

\* What a socket gets of a datagram that was delivered: never more than its
\* buffer takes, and all that was sent if the header is honest.
LEMMA LengthsAre ==
    ASSUME NEW f \in Wire, Delivers(f)
    PROVE  /\ DataLen(f) \in Nat /\ OwnLen(f) \in Nat
           /\ OwnLen(f) <= DataLen(f) /\ DataLen(f) <= UdpBuf
           /\ Honest(f) => /\ DataLen(f) = Smaller(f.length - UdpHdr, UdpBuf)
                           /\ OwnLen(f) = DataLen(f)
<1> USE NetSizesAssumption
<1> DEFINE d == f.length - UdpHdr
<1> DEFINE w == d % LengthWrap
<1>1. d \in Int /\ f.carried \in Nat /\ f.ihl \in Nat /\ f.length \in 0 .. LengthWrap - 1
  BY FramePages
<1>2. w \in Nat
  BY <1>1
<1>3. f.carried - f.ihl - UdpHdr \in Nat
  BY <1>1 DEF Delivers
<1>4. Honest(f) => /\ d \in 0 .. LengthWrap - 1
                   /\ d <= f.carried - f.ihl - UdpHdr
  BY <1>1 DEF Honest
<1>5. Honest(f) => w = d
  BY <1>1, <1>4
<1>6. DataLen(f) = Smaller(w, UdpBuf) /\ OwnLen(f) = Smaller(DataLen(f), f.carried - f.ihl - UdpHdr)
  BY DEF DataLen, OwnLen
<1>7. d = f.length - UdpHdr
  OBVIOUS
<1> HIDE DEF w, d
<1> QED
  BY <1>2, <1>3, <1>4, <1>5, <1>6, <1>7 DEF Smaller

-----------------------------------------------------------------------------
LEMMA InitRing == NetInit => NetTypeOK /\ RingInOrder /\ DriverHolds
<1> SUFFICES ASSUME NetInit PROVE NetTypeOK /\ RingInOrder /\ DriverHolds
  OBVIOUS
<1>1. NoPart \in PageParts
  BY DEF NoPart, PageParts
<1>2. NetTypeOK
  <2>1. RxStart \in Pages /\ RxStart + 1 \in Pages
    BY RingSizes, RingAssumption DEF Pages
  <2> QED
    BY <1>1, <2>1 DEF NetInit, NetTypeOK
<1>3. ReadPage = curr
  BY RingAssumption DEF NetInit, ReadPage
<1>4. Unread = 0
  BY <1>2, <1>3, PagesSeen
<1> QED
  BY <1>2, <1>4 DEF RingInOrder, DriverHolds, NetInit

\* The NIC finds room only between CURR and BNRY, and what it writes there
\* goes on where the last frame ends.
LEMMA ArrivesRing ==
    ASSUME NetTypeOK, RingInOrder, DriverHolds, NEW f \in Wire, Arrives(f)
    PROVE  NetTypeOK' /\ RingInOrder' /\ DriverHolds'
<1> DEFINE n == PagesOf(f)
<1>u. PICK u \in 0 .. Width - 1 : u = Unread
  BY PagesSeen
<1>1. n \in Nat \ {0} /\ u \in 0 .. Width - 1 /\ Width \in Nat /\ n = PagesOf(f)
  BY FramePages, PagesSeen, RingSizes
<1>2. /\ HasPages(n)
      /\ ring' = [p \in Pages |->
             IF (p - curr) % Width < n
             THEN [id |-> Len(arrived) + 1, part |-> ((p - curr) % Width) + 1,
                   next |-> Around(curr, n), pages |-> n]
             ELSE ring[p]]
      /\ curr' = Around(curr, n) /\ arrived' = Append(arrived, f)
  BY DEF Arrives, Width
<1>3. bnry' = bnry /\ nicPc' = nicPc /\ hdr' = hdr /\ rx_buf' = rx_buf /\ polled' = polled
  BY DEF Arrives, recvVars
<1> HIDE DEF n
<1>4. u + n <= Width - 1
  <2> DEFINE e == Width - 1 - u
  <2>1. e \in 0 .. Width - 1 /\ u + e = Width - 1
    BY <1>1
  <2>2. InRing(PageAt(u) + e) = PageAt(u + e)
    BY <1>1, <2>1, PageAtFrom
  <2>3. InRing(curr + e) = bnry
    BY <1>u, <2>1, <2>2, PagesSeen
  <2>4. Around(curr, e) = bnry
    <3>1. curr \in Pages /\ e \in 0 .. Width
      BY <1>1, <2>1 DEF NetTypeOK
    <3> HIDE DEF e
    <3> QED
      BY <2>3, <3>1, InRingIs
  <2>5. e \notin 0 .. n - 1
    BY <1>2, <2>4 DEF HasPages
  <2> QED
    BY <1>1, <2>1, <2>5
<1>5. curr' = PageAt(u + n) /\ Around(curr, n) = InRing(curr + n) /\ curr' \in Pages
  <2>1. InRing(PageAt(u) + n) = PageAt(u + n)
    BY <1>1, <1>4, PageAtFrom
  <2>2. n \in 0 .. Width /\ curr \in Pages /\ u + n \in 0 .. Width
    BY <1>1, <1>4 DEF NetTypeOK
  <2>3. Around(curr, n) = InRing(curr + n)
    BY <2>2, InRingIs
  <2> QED
    BY <1>u, <1>2, <2>1, <2>2, <2>3, PagesSeen
<1>6. /\ ReadPage' = ReadPage /\ Unread' = u + n
      /\ \A k \in 0 .. Width : PageAt(k)' = PageAt(k)
  <2>1. ReadPage' = ReadPage
    BY <1>3 DEF ReadPage
  <2>2. Dist(PageAt(0), PageAt(u + n)) = u + n
    <3>1. ReadPage \in Pages /\ 0 \in 0 .. Width - 1 /\ u + n \in 0 .. Width - 1
      BY <1>1, <1>4, PagesSeen
    <3> DEFINE m == u + n
    <3> HIDE DEF m
    <3>2. Dist(InRing(ReadPage + 0), InRing(ReadPage + m)) = m
      BY <3>1, DistBetween DEF m
    <3> QED
      BY <3>2 DEF PageAt, m
  <2>3. PageAt(0) = ReadPage
    BY PagesSeen
  <2> QED
    BY <1>5, <2>1, <2>2, <2>3 DEF Unread, PageAt
<1> DEFINE new(k) == [id |-> Len(arrived) + 1, part |-> k - u + 1,
                      next |-> InRing(curr + n), pages |-> n]
<1>7. ASSUME NEW k \in 0 .. Width - 1
      PROVE  ring'[PageAt(k)] = IF k \in u .. u + n - 1 THEN new(k) ELSE ring[PageAt(k)]
  <2>1. PageAt(k) \in Pages /\ curr \in Pages /\ curr = PageAt(u)
    <3>1. k \in 0 .. Width
      BY <1>1
    <3> QED
      BY <1>u, <3>1, PagesSeen DEF NetTypeOK
  <2>2. Dist(PageAt(u), PageAt(k)) = IF u <= k THEN k - u ELSE k - u + Width
    BY <1>1, PagesSeen, DistBetween DEF PageAt
  <2>3. (PageAt(k) - curr) % Width = Dist(PageAt(u), PageAt(k))
    BY <2>1, DistIs
  <2>4. ((PageAt(k) - curr) % Width < n) <=> k \in u .. u + n - 1
    BY <1>1, <1>4, <2>2, <2>3
  <2>5. k \in u .. u + n - 1 => (PageAt(k) - curr) % Width = k - u
    BY <1>1, <1>4, <2>2, <2>3
  <2>6. ring'[PageAt(k)] =
            IF (PageAt(k) - curr) % Width < n
            THEN [id |-> Len(arrived) + 1, part |-> ((PageAt(k) - curr) % Width) + 1,
                  next |-> Around(curr, n), pages |-> n]
            ELSE ring[PageAt(k)]
    BY <1>2, <2>1
  <2> QED
    BY <1>5, <2>4, <2>5, <2>6
<1>8. /\ arrived' \in Seq(Wire) /\ Len(arrived') = Len(arrived) + 1 /\ Len(arrived) \in Nat
      /\ \A i \in 1 .. Len(arrived) : arrived'[i] = arrived[i]
      /\ arrived'[Len(arrived) + 1] = f
  BY <1>2, AppendProperties DEF NetTypeOK
<1>9. NetTypeOK'
  <2>1. ring' \in [Pages -> PageParts]
    <3> SUFFICES ASSUME NEW p \in Pages
                 PROVE  ring'[p] \in PageParts
      BY <1>2
    <3>1. (p - curr) % Width \in Nat
      BY DistIs, RingSizes DEF NetTypeOK
    <3>2. Around(curr, n) \in Nat /\ Len(arrived) \in Nat
      BY <1>2, <1>5, <1>8, RingSizes DEF Pages
    <3>3. ((p - curr) % Width) + 1 \in Nat /\ Len(arrived) + 1 \in Nat /\ n \in Nat
      BY <1>1, <3>1, <3>2
    <3>4. ring[p] \in PageParts
      BY DEF NetTypeOK
    <3> DEFINE d == (p - curr) % Width
    <3>5. ring'[p] = IF d < n THEN [id |-> Len(arrived) + 1, part |-> d + 1,
                                    next |-> Around(curr, n), pages |-> n]
                     ELSE ring[p]
      BY <1>2
    <3> HIDE DEF d
    <3> QED
      BY <3>2, <3>3, <3>4, <3>5 DEF PageParts, d
  <2> QED
    BY <1>3, <1>5, <1>8, <2>1 DEF NetTypeOK
<1>10. ASSUME NEW k \in 0 .. u - 1
       PROVE  ring'[PageAt(k)] = ring[PageAt(k)] /\ k \in 0 .. Width - 1
  <2>1. k \in 0 .. Width - 1 /\ k \notin u .. u + n - 1
    BY <1>1
  <2> HIDE DEF new
  <2> QED
    BY <1>7, <2>1
<1>11. ASSUME NEW k \in u .. u + n - 1
       PROVE  ring'[PageAt(k)] = new(k) /\ k \in 0 .. Width - 1
  <2>1. k \in 0 .. Width - 1
    BY <1>1, <1>4
  <2> HIDE DEF new
  <2> QED
    BY <1>7, <2>1
<1>12. RingInOrder'
  <2>1. ASSUME NEW k \in 0 .. u + n - 1
        PROVE  HoldsPart(k, ring[PageAt(k)])'
    <3>0. PageAt(k)' = PageAt(k)
      BY <1>1, <1>4, <1>6
    <3>1. CASE k \in 0 .. u - 1
      <4> DEFINE r == ring[PageAt(k)]
      <4>1. ring'[PageAt(k)] = r
        BY <1>10, <3>1
      <4>2. HoldsPart(k, r)
        BY <1>u, <3>1 DEF RingInOrder
      <4>3. r.id \in 1 .. Len(arrived') /\ arrived'[r.id] = arrived[r.id]
        BY <1>8, <4>2 DEF HoldsPart
      <4> QED
        BY <3>0, <4>1, <4>2, <4>3 DEF HoldsPart
    <3>2. CASE k \in u .. u + n - 1
      <4>1. ring'[PageAt(k)] = new(k)
        BY <1>11, <3>2
      <4>2. /\ new(k).id = Len(arrived) + 1 /\ new(k).part = k - u + 1
            /\ new(k).next = InRing(curr + n) /\ new(k).pages = n
        OBVIOUS
      <4> HIDE DEF new
      <4>3. k - u + 1 \in 1 .. n
        BY <1>1, <3>2
      <4>4. new(k).part = 1 => PageAt(k) = curr
        <5>1. new(k).part = 1 => k = u
          BY <1>1, <4>2
        <5> QED
          BY <1>u, <5>1, PagesSeen
      <4>5. Len(arrived) + 1 \in 1 .. Len(arrived')
        BY <1>8
      <4> DEFINE r == ring'[PageAt(k)']
      <4>7. r = new(k)
        BY <3>0, <4>1
      <4>8. /\ r.id \in 1 .. Len(arrived') /\ r.pages = PagesOf(arrived'[r.id])
            /\ r.part \in 1 .. r.pages
            /\ r.part = 1 => r.next = InRing(PageAt(k)' + r.pages)
        BY <1>1, <1>8, <3>0, <4>2, <4>3, <4>4, <4>5, <4>7
      <4> QED
        BY <4>8 DEF HoldsPart
    <3> QED
      BY <1>1, <3>1, <3>2
  <2>2. ASSUME NEW k \in 0 .. u + n - 1, k < u + n - 1
        PROVE  GoesOn(ring'[PageAt(k)], ring'[PageAt(k + 1)])
    <3>1. CASE k + 1 \in 0 .. u - 1
      <4>1. k \in 0 .. u - 1 /\ k < u - 1
        BY <1>1, <3>1
      <4>2. GoesOn(ring[PageAt(k)], ring[PageAt(k + 1)])
        BY <1>u, <4>1 DEF RingInOrder
      <4> QED
        BY <1>10, <3>1, <4>1, <4>2
    <3>2. CASE k = u - 1
      <4>1. k \in 0 .. u - 1 /\ k + 1 = u /\ u \in u .. u + n - 1
        BY <1>1, <3>2
      <4>2. Last(ring[PageAt(k)])
        BY <1>u, <3>2, <4>1 DEF RingInOrder
      <4>3. new(u).id = Len(arrived) + 1 /\ new(u).part = 1
        BY <1>1
      <4>4. ring'[PageAt(k + 1)] = new(u) /\ ring'[PageAt(k)] = ring[PageAt(k)]
        BY <1>10, <1>11, <4>1
      <4>a. PageAt(k) \in Pages
        BY <1>1, <4>1, PagesSeen
      <4>5. ring[PageAt(k)].pages \in Nat
        BY <4>a DEF NetTypeOK, PageParts
      <4> HIDE DEF new
      <4> QED
        BY <4>2, <4>3, <4>4, <4>5 DEF Last, GoesOn
    <3>3. CASE k \in u .. u + n - 1
      <4>1. k + 1 \in u .. u + n - 1
        BY <1>1, <2>2, <3>3
      <4>2. ring'[PageAt(k)] = new(k) /\ ring'[PageAt(k + 1)] = new(k + 1)
        BY <1>11, <3>3, <4>1
      <4>3. /\ new(k).id = Len(arrived) + 1 /\ new(k).part = k - u + 1 /\ new(k).pages = n
            /\ new(k + 1).id = Len(arrived) + 1 /\ new(k + 1).part = (k + 1) - u + 1
        OBVIOUS
      <4> HIDE DEF new
      <4>4. new(k).part < new(k).pages /\ new(k + 1).part = new(k).part + 1
        BY <1>1, <2>2, <3>3, <4>1, <4>3
      <4> QED
        BY <4>2, <4>3, <4>4 DEF GoesOn
    <3> QED
      BY <1>1, <3>1, <3>2, <3>3
  <2>3. Last(ring[PageAt(u + n - 1)])'
    <3>1. u + n - 1 \in u .. u + n - 1 /\ u + n - 1 \in 0 .. Width
      BY <1>1, <1>4
    <3>2. ring'[PageAt(u + n - 1)] = new(u + n - 1) /\ PageAt(u + n - 1)' = PageAt(u + n - 1)
      BY <1>6, <1>11, <3>1
    <3>3. new(u + n - 1).id = Len(arrived) + 1 /\ new(u + n - 1).part = n /\ new(u + n - 1).pages = n
      BY <1>1
    <3> HIDE DEF new
    <3> QED
      BY <1>8, <3>2, <3>3 DEF Last
  <2>4. ring'[PageAt(0)].id = polled + 1 /\ ring'[PageAt(0)].part = 1
    <3>1. CASE u = 0
      <4>1. 0 \in u .. u + n - 1 /\ polled = Len(arrived)
        BY <1>u, <1>1, <3>1 DEF RingInOrder
      <4>2. ring'[PageAt(0)] = new(0)
        BY <1>11, <4>1
      <4>3. new(0).id = Len(arrived) + 1 /\ new(0).part = 1
        BY <3>1
      <4> HIDE DEF new
      <4> QED
        BY <4>1, <4>2, <4>3
    <3>2. CASE u # 0
      BY <1>u, <1>1, <1>10, <3>2 DEF RingInOrder
    <3> QED
      BY <3>1, <3>2
  <2>5. Unread' = u + n /\ Unread' > 0 /\ PageAt(0)' = PageAt(0)
    BY <1>1, <1>6
  <2>6. \A k \in 0 .. u + n - 1 : k < u + n - 1 =>
            PageAt(k)' = PageAt(k) /\ PageAt(k + 1)' = PageAt(k + 1)
    BY <1>1, <1>4, <1>6
  <2>7. \A k \in 0 .. u + n - 1 : k < u + n - 1 => GoesOn(ring[PageAt(k)], ring[PageAt(k + 1)])'
    BY <2>2, <2>6 DEF GoesOn
  <2>8. \A k \in 0 .. u + n - 1 : k = u + n - 1 => Last(ring[PageAt(k)])'
    BY <2>3
  <2>9. polled' = polled /\ ring'[PageAt(0)'].id = polled + 1 /\ ring'[PageAt(0)'].part = 1
    BY <1>3, <2>4, <2>5
  <2>10. Unread' # 0 /\ Unread' - 1 = u + n - 1
    BY <1>1, <2>5
  <2> QED
    BY <2>1, <2>7, <2>8, <2>9, <2>10 DEF RingInOrder
<1>13. DriverHolds'
  <2>1. nicPc # "poll" => 0 \in 0 .. u - 1 /\ ring'[PageAt(0)] = ring[PageAt(0)]
                         /\ PageAt(0)' = PageAt(0)
    BY <1>u, <1>1, <1>6, <1>10 DEF DriverHolds
  <2>2. ASSUME nicPc \in {"data", "advance"}, NEW i \in 1 .. Len(rx_buf)
        PROVE  /\ rx_buf[i] = ring'[PageAt(i - 1)'] /\ rx_buf[i].part = i
               /\ rx_buf[i].id = polled + 1
    <3>1. Len(rx_buf) \in Nat /\ Len(rx_buf) <= u
      BY <1>u, <2>2 DEF DriverHolds, NetTypeOK
    <3>2. i - 1 \in 0 .. u - 1
      BY <1>1, <3>1
    <3>a. i - 1 \in 0 .. Width
      BY <1>1, <3>2
    <3>3. PageAt(i - 1)' = PageAt(i - 1) /\ ring'[PageAt(i - 1)] = ring[PageAt(i - 1)]
      BY <1>6, <1>10, <3>2, <3>a
    <3> QED
      BY <2>2, <3>3 DEF DriverHolds
  <2>3. Len(rx_buf) \in Nat /\ (nicPc \in {"data", "advance"} => Len(rx_buf) <= Unread')
    BY <1>u, <1>1, <1>6 DEF DriverHolds, NetTypeOK
  <2>4. Unread' > 0
    BY <1>1, <1>6
  <2> QED
    BY <1>3, <2>1, <2>2, <2>3, <2>4 DEF DriverHolds
<1> QED
  BY <1>9, <1>12, <1>13

LEMMA PollRing ==
    ASSUME NetTypeOK, RingInOrder, DriverHolds, Poll \/ ReadHeader
    PROVE  NetTypeOK' /\ RingInOrder' /\ DriverHolds'
<1>1. /\ ring' = ring /\ curr' = curr /\ arrived' = arrived /\ bnry' = bnry /\ polled' = polled
      /\ nicPc = "poll" => nicPc' = "header" /\ hdr' = hdr /\ rx_buf' = rx_buf /\ ReadPage # curr
      /\ nicPc # "poll" => nicPc' = "data" /\ hdr' = ring[ReadPage] /\ rx_buf' = <<>>
      /\ nicPc \in {"poll", "header"}
  BY DEF Poll, ReadHeader, nicVars
<1>2. /\ ReadPage' = ReadPage /\ Unread' = Unread /\ Unread \in 0 .. Width - 1
      /\ PageAt(0) = ReadPage /\ ReadPage \in Pages
      /\ \A k \in Nat : PageAt(k)' = PageAt(k)
  BY <1>1, PagesSeen DEF ReadPage, Unread, PageAt
<1>3. Unread > 0
  BY <1>1, <1>2, PagesSeen DEF DriverHolds
<1>4. hdr' \in PageParts /\ rx_buf' \in Seq(PageParts)
  <2>1. <<>> \in Seq(PageParts) /\ ring[ReadPage] \in PageParts
    BY <1>2 DEF NetTypeOK
  <2> QED
    BY <1>1, <2>1 DEF NetTypeOK
<1>5. NetTypeOK'
  BY <1>1, <1>4 DEF NetTypeOK
<1>6. RingInOrder'
  <2>1. /\ \A k \in 0 .. Unread - 1 : k \in Nat /\ k + 1 \in Nat
        /\ 0 \in Nat
    BY <1>2
  <2>2. \A k \in Nat : HoldsPart(k, ring[PageAt(k)])' <=> HoldsPart(k, ring[PageAt(k)])
    BY <1>1, <1>2 DEF HoldsPart
  <2>3. \A k \in Nat : Last(ring[PageAt(k)])' <=> Last(ring[PageAt(k)])
    BY <1>1, <1>2 DEF Last
  <2>4. \A k \in Nat : k + 1 \in Nat =>
            (GoesOn(ring[PageAt(k)], ring[PageAt(k + 1)])' <=> GoesOn(ring[PageAt(k)], ring[PageAt(k + 1)]))
    BY <1>1, <1>2 DEF GoesOn
  <2>5. ring'[PageAt(0)'] = ring[PageAt(0)]
    BY <1>1, <1>2
  <2> QED
    BY <1>1, <1>2, <2>1, <2>2, <2>3, <2>4, <2>5 DEF RingInOrder
<1>7. DriverHolds'
  <2>1. nicPc' = "data" => hdr' = ring'[PageAt(0)'] /\ Len(rx_buf') = 0 /\ hdr'.pages # 0
    <3>1. HoldsPart(0, ring[PageAt(0)])
      BY <1>2, <1>3 DEF RingInOrder
    <3>2. ring[PageAt(0)].pages # 0
      BY <3>1 DEF HoldsPart
    <3> QED
      BY <1>1, <1>2, <3>2
  <2>2. hdr'.pages \in Nat
    BY <1>4 DEF PageParts
  <2> QED
    BY <1>1, <1>2, <1>3, <2>1, <2>2 DEF DriverHolds
<1> QED
  BY <1>5, <1>6, <1>7

\* What has been copied is the beginning of the first frame, and as long as
\* there is more of it, the next page holds more of it.
LEMMA FrameCopied ==
    ASSUME NetTypeOK, RingInOrder, DriverHolds, nicPc \in {"data", "advance"}
    PROVE  /\ Len(rx_buf) \in 0 .. Unread /\ hdr.pages \in Nat /\ hdr.id = polled + 1
           /\ hdr.pages = PagesOf(arrived[polled + 1])
           /\ hdr.next = InRing(PageAt(0) + hdr.pages)
           /\ Len(rx_buf) > 0 =>
                  /\ ring[PageAt(Len(rx_buf) - 1)].id = polled + 1
                  /\ ring[PageAt(Len(rx_buf) - 1)].part = Len(rx_buf)
                  /\ ring[PageAt(Len(rx_buf) - 1)].pages = hdr.pages
           /\ Len(rx_buf) < hdr.pages =>
                  /\ Len(rx_buf) < Unread
                  /\ ring[PageAt(Len(rx_buf))].id = polled + 1
                  /\ ring[PageAt(Len(rx_buf))].part = Len(rx_buf) + 1
<1>u. PICK u \in 0 .. Width - 1 : u = Unread
  BY PagesSeen
<1>m. PICK m \in Nat : m = Len(rx_buf)
  BY DEF NetTypeOK
<1>1. u > 0 /\ m <= u /\ hdr = ring[PageAt(0)] /\ u \in Nat
  BY <1>u, <1>m, RingSizes DEF DriverHolds
<1>2. /\ HoldsPart(0, ring[PageAt(0)]) /\ ring[PageAt(0)].id = polled + 1
      /\ ring[PageAt(0)].part = 1
  BY <1>u, <1>1 DEF RingInOrder
<1>3. /\ hdr.pages \in Nat /\ hdr.id = polled + 1
      /\ hdr.pages = PagesOf(arrived[polled + 1])
      /\ hdr.next = InRing(PageAt(0) + hdr.pages)
  BY <1>1, <1>2 DEF HoldsPart, NetTypeOK, PageParts
<1>4. ASSUME m > 0
      PROVE  /\ ring[PageAt(m - 1)].id = polled + 1
             /\ ring[PageAt(m - 1)].part = m
             /\ ring[PageAt(m - 1)].pages = hdr.pages
             /\ m - 1 \in 0 .. u - 1
  <2>1. m \in 1 .. Len(rx_buf) /\ m - 1 \in 0 .. u - 1
    BY <1>m, <1>1, <1>4
  <2>2. rx_buf[m] = ring[PageAt(m - 1)] /\ rx_buf[m].part = m /\ rx_buf[m].id = polled + 1
    BY <2>1 DEF DriverHolds
  <2>3. HoldsPart(m - 1, ring[PageAt(m - 1)])
    BY <1>u, <2>1 DEF RingInOrder
  <2> QED
    BY <1>3, <2>1, <2>2, <2>3 DEF HoldsPart
<1>5. ASSUME m < hdr.pages
      PROVE  /\ m < u /\ ring[PageAt(m)].id = polled + 1 /\ ring[PageAt(m)].part = m + 1
  <2>1. CASE m = 0
    BY <1>1, <1>2, <2>1
  <2>2. CASE m > 0
    <3>1. m - 1 \in 0 .. u - 1 /\ (m - 1) + 1 = m
      BY <1>4, <2>2
    <3>2. m - 1 = u - 1 => Last(ring[PageAt(m - 1)])
      BY <1>u, <3>1 DEF RingInOrder
    <3>3. m < u
      BY <1>1, <1>4, <1>5, <2>2, <3>2 DEF Last
    <3>4. m - 1 < u - 1
      BY <1>1, <3>3
    <3>5. GoesOn(ring[PageAt(m - 1)], ring[PageAt((m - 1) + 1)])
      BY <1>u, <3>1, <3>4 DEF RingInOrder
    <3>6. GoesOn(ring[PageAt(m - 1)], ring[PageAt(m)])
      BY <3>1, <3>5
    <3> QED
      BY <1>4, <1>5, <2>2, <3>3, <3>6 DEF GoesOn
  <2> QED
    BY <2>1, <2>2
<1> QED
  BY <1>u, <1>m, <1>1, <1>3, <1>4, <1>5

LEMMA DataRing ==
    ASSUME NetTypeOK, RingInOrder, DriverHolds, ReadData
    PROVE  NetTypeOK' /\ RingInOrder' /\ DriverHolds'
<1>1. /\ ring' = ring /\ curr' = curr /\ arrived' = arrived /\ bnry' = bnry /\ polled' = polled
      /\ hdr' = hdr /\ nicPc = "data"
      /\ rx_buf' = Append(rx_buf, ring[Around(ReadPage, Len(rx_buf))])
      /\ nicPc' = IF Len(rx_buf') = hdr.pages THEN "advance" ELSE "data"
  BY DEF ReadData, nicVars
<1>u. PICK u \in 0 .. Width - 1 : u = Unread
  BY PagesSeen
<1>m. PICK m \in Nat : m = Len(rx_buf)
  BY DEF NetTypeOK
<1>2. /\ ReadPage' = ReadPage /\ Unread' = u /\ ReadPage \in Pages
      /\ \A k \in Nat : PageAt(k)' = PageAt(k)
  BY <1>1, <1>u, PagesSeen DEF ReadPage, Unread, PageAt
<1>3. m < hdr.pages /\ hdr.pages \in Nat
  BY <1>1, <1>m, FrameCopied DEF DriverHolds
<1>4. /\ m < u /\ ring[PageAt(m)].id = polled + 1 /\ ring[PageAt(m)].part = m + 1
  BY <1>1, <1>m, <1>u, <1>3, FrameCopied
<1>5. m \in 0 .. Width
  BY <1>4, RingSizes
<1>6. Around(ReadPage, m) = PageAt(m) /\ ring[PageAt(m)] \in PageParts
  BY <1>2, <1>5, InRingIs DEF PageAt, NetTypeOK
<1>7. /\ rx_buf' \in Seq(PageParts) /\ Len(rx_buf') = m + 1
      /\ \A i \in 1 .. m : rx_buf'[i] = rx_buf[i]
      /\ rx_buf'[m + 1] = ring[PageAt(m)]
  BY <1>1, <1>m, <1>6, AppendProperties DEF NetTypeOK
<1>8. NetTypeOK'
  BY <1>1, <1>7 DEF NetTypeOK
<1>9. RingInOrder'
  <2>1. \A k \in Nat : HoldsPart(k, ring[PageAt(k)])' <=> HoldsPart(k, ring[PageAt(k)])
    BY <1>1, <1>2 DEF HoldsPart
  <2>2. \A k \in Nat : Last(ring[PageAt(k)])' <=> Last(ring[PageAt(k)])
    BY <1>1, <1>2 DEF Last
  <2>3. \A k \in Nat : k + 1 \in Nat =>
            (GoesOn(ring[PageAt(k)], ring[PageAt(k + 1)])' <=> GoesOn(ring[PageAt(k)], ring[PageAt(k + 1)]))
    BY <1>1, <1>2 DEF GoesOn
  <2>4. ring'[PageAt(0)'] = ring[PageAt(0)]
    BY <1>1, <1>2
  <2>5. \A k \in 0 .. u - 1 : k \in Nat /\ k + 1 \in Nat
    OBVIOUS
  <2> QED
    BY <1>1, <1>2, <1>u, <2>1, <2>2, <2>3, <2>4, <2>5 DEF RingInOrder
<1>10. ASSUME NEW i \in 1 .. m + 1
       PROVE  /\ rx_buf'[i] = ring'[PageAt(i - 1)'] /\ rx_buf'[i].part = i
              /\ rx_buf'[i].id = polled + 1
  <2>1. i - 1 \in Nat /\ PageAt(i - 1)' = PageAt(i - 1)
    BY <1>2
  <2>2. CASE i \in 1 .. m
    BY <1>1, <1>m, <1>7, <2>1, <2>2 DEF DriverHolds
  <2>3. CASE i = m + 1
    <3>1. i - 1 = m
      BY <2>3
    <3> QED
      BY <1>1, <1>4, <1>7, <2>1, <2>3, <3>1
  <2> QED
    BY <2>2, <2>3
<1>11. DriverHolds'
  <2>1. hdr' = ring'[PageAt(0)'] /\ Unread' > 0 /\ m + 1 <= Unread' /\ nicPc' # "poll"
        /\ nicPc' # "header"
    BY <1>1, <1>2, <1>4 DEF DriverHolds
  <2>2. m + 1 <= hdr'.pages /\ (nicPc' = "advance" <=> m + 1 = hdr'.pages)
    BY <1>1, <1>3, <1>7
  <2>3. nicPc' \in {"data", "advance"} /\ polled' = polled /\ hdr'.pages \in Nat
    BY <1>1, <1>3
  <2> QED
    BY <1>7, <1>10, <2>1, <2>2, <2>3 DEF DriverHolds
<1> QED
  BY <1>8, <1>9, <1>11

\* The first page after the frame becomes the first page of the next one.
LEMMA DispatchRing ==
    ASSUME NetTypeOK, RingInOrder, DriverHolds, Dispatch
    PROVE  /\ NetTypeOK' /\ RingInOrder' /\ DriverHolds'
           /\ rx_buf[1].id = polled + 1 /\ polled + 1 \in 1 .. Len(arrived)
<1>1. /\ ring' = ring /\ curr' = curr /\ arrived' = arrived /\ polled' = polled + 1
      /\ hdr' = hdr /\ rx_buf' = rx_buf /\ nicPc = "advance" /\ nicPc' = "poll"
      /\ bnry' = NewBnry
  BY DEF Dispatch, nicVars
<1>u. PICK u \in 0 .. Width - 1 : u = Unread
  BY PagesSeen
<1>n. PICK n \in Nat : n = Len(rx_buf)
  BY DEF NetTypeOK
<1>2. /\ n <= u /\ hdr.pages = n /\ hdr.id = polled + 1 /\ hdr.next = InRing(PageAt(0) + n)
      /\ n > 0 => /\ ring[PageAt(n - 1)].id = polled + 1
                  /\ ring[PageAt(n - 1)].part = n /\ ring[PageAt(n - 1)].pages = n
  BY <1>1, <1>u, <1>n, FrameCopied DEF DriverHolds
<1>3. n > 0 /\ n \in 1 .. Width - 1 /\ polled + 1 \in 1 .. Len(arrived)
  <2>0. u > 0 /\ 0 \in 0 .. u - 1
    BY <1>1, <1>u, RingSizes DEF DriverHolds
  <2>1. HoldsPart(0, ring[PageAt(0)]) /\ hdr = ring[PageAt(0)]
    BY <1>1, <1>u, <2>0 DEF RingInOrder, DriverHolds
  <2>2. hdr.pages # 0 /\ polled + 1 \in 1 .. Len(arrived)
    BY <1>2, <2>1 DEF HoldsPart
  <2> QED
    BY <1>2, <2>2, RingSizes
<1>4. rx_buf[1].id = polled + 1
  BY <1>1, <1>n, <1>3 DEF DriverHolds
<1>5. hdr.next = PageAt(n) /\ PageAt(n) \in Pages
  <2>1. 0 + n <= Width /\ 0 + n = n /\ n \in 0 .. Width
    BY <1>3, RingSizes
  <2> QED
    BY <1>2, <2>1, PageAtFrom, PagesSeen
<1>6. ReadPage' = PageAt(n) /\ bnry' \in Pages
  <2> DEFINE x == hdr.next
  <2>1. x \in Pages
    BY <1>5
  <2>2. bnry' = IF x - 1 < RxStart THEN RxStop - 1 ELSE x - 1
    BY <1>1 DEF NewBnry
  <2>3. ReadPage' = IF bnry' + 1 >= RxStop THEN RxStart ELSE bnry' + 1
    BY DEF ReadPage
  <2> HIDE DEF x
  <2>4. ReadPage' = x /\ bnry' \in Pages
    BY <2>1, <2>2, <2>3, RingSizes DEF Pages
  <2> QED
    BY <1>5, <2>4 DEF x
<1>7. Unread' = u - n /\ Unread' \in Nat
  <2>1. ReadPage \in Pages /\ n \in 0 .. Width - 1 /\ PageAt(u) = curr
    BY <1>2, <1>3, <1>u, PagesSeen
  <2>2. Dist(PageAt(n), PageAt(u)) = u - n
    BY <1>2, <2>1, DistBetween DEF PageAt
  <2> QED
    BY <1>1, <1>2, <1>6, <2>1, <2>2 DEF Unread
<1>8. ASSUME NEW k \in Nat, n + k <= Width
      PROVE  PageAt(k)' = PageAt(n + k)
  <2>1. InRing(PageAt(n) + k) = PageAt(n + k)
    BY <1>8, PageAtFrom
  <2> QED
    BY <1>6, <2>1 DEF PageAt
<1>9. NetTypeOK'
  <2>1. polled' \in 0 .. Len(arrived')
    BY <1>1, <1>3 DEF NetTypeOK
  <2> QED
    BY <1>1, <1>6, <2>1 DEF NetTypeOK
<1>10. RingInOrder'
  <2>1. ASSUME NEW k \in 0 .. u - n - 1
        PROVE  /\ HoldsPart(k, ring[PageAt(k)])'
               /\ k < u - n - 1 => GoesOn(ring[PageAt(k)], ring[PageAt(k + 1)])'
               /\ k = u - n - 1 => Last(ring[PageAt(k)])'
    <3>1. /\ k \in Nat /\ n + k <= Width /\ n + k \in 0 .. u - 1
          /\ k < u - n - 1 => k + 1 \in Nat /\ n + (k + 1) <= Width /\ n + k < u - 1
          /\ k = u - n - 1 => n + k = u - 1
          /\ n + (k + 1) = (n + k) + 1
      BY <1>2, <1>3, RingSizes
    <3>2. /\ HoldsPart(n + k, ring[PageAt(n + k)])
          /\ k < u - n - 1 => GoesOn(ring[PageAt(n + k)], ring[PageAt((n + k) + 1)])
          /\ k = u - n - 1 => Last(ring[PageAt(n + k)])
      BY <1>u, <3>1 DEF RingInOrder
    <3>3. PageAt(k)' = PageAt(n + k) /\ (k < u - n - 1 => PageAt(k + 1)' = PageAt((n + k) + 1))
      BY <1>8, <3>1
    <3>4. HoldsPart(k, ring[PageAt(k)])'
      BY <1>1, <3>2, <3>3 DEF HoldsPart
    <3>5. k < u - n - 1 => GoesOn(ring[PageAt(k)], ring[PageAt(k + 1)])'
      BY <1>1, <3>2, <3>3 DEF GoesOn
    <3>6. k = u - n - 1 => Last(ring[PageAt(k)])'
      BY <1>1, <3>2, <3>3 DEF Last
    <3> QED
      BY <3>4, <3>5, <3>6
  <2>2. n - 1 \in 0 .. u - 1 /\ (n - 1) + 1 = n
    BY <1>2, <1>3
  <2>3. CASE u - n = 0
    <3>1. Last(ring[PageAt(n - 1)])
      BY <1>u, <2>2, <2>3 DEF RingInOrder
    <3>2. polled + 1 = Len(arrived)
      BY <1>2, <1>3, <3>1 DEF Last
    <3> QED
      BY <1>1, <1>7, <2>1, <2>3, <3>2 DEF RingInOrder
  <2>4. CASE u - n # 0
    <3>1. n - 1 < u - 1
      BY <1>2, <1>3, <2>4
    <3>2. GoesOn(ring[PageAt(n - 1)], ring[PageAt((n - 1) + 1)])
      BY <1>u, <2>2, <3>1 DEF RingInOrder
    <3>3. ring[PageAt(n)].id = (polled + 1) + 1 /\ ring[PageAt(n)].part = 1
      BY <1>2, <1>3, <2>2, <3>2 DEF GoesOn
    <3>4. PageAt(0)' = PageAt(n)
      <4>1. n + 0 <= Width /\ n + 0 = n
        BY <1>3, RingSizes
      <4> QED
        BY <1>8, <4>1
    <3>5. ring'[PageAt(0)'].id = polled' + 1 /\ ring'[PageAt(0)'].part = 1
      BY <1>1, <3>3, <3>4
    <3> QED
      BY <1>7, <2>1, <2>4, <3>5 DEF RingInOrder
  <2> QED
    BY <2>3, <2>4
<1>11. DriverHolds'
  BY <1>1 DEF DriverHolds
<1> QED
  BY <1>3, <1>4, <1>9, <1>10, <1>11

-----------------------------------------------------------------------------
(***************************************************************************)
(* The sockets.  NewestDelivered, socket by socket.                        *)
(***************************************************************************)
Came(s) == {i \in ForPort(sockets[s].port) : i > boundAt[s]}
First(s) == \A t \in BoundTo(sockets[s].port) : s <= t
Newest(s) ==
    sockets[s].bound =>
      /\ sockets[s].valid =>
           /\ First(s) /\ sockets[s].rx.id \in Came(s)
           /\ \A i \in Came(s) : i <= sockets[s].rx.id
           /\ sockets[s].rx = Datagram(sockets[s].rx.id, arrived[sockets[s].rx.id])
      /\ ~sockets[s].valid /\ First(s) => \A i \in Came(s) : i <= got[s]
AllNewest == \A s \in Sockets : Newest(s)

SocketInv == SocketsOK /\ AllNewest /\ NeverOlder

LEMMA NewestIs == NetTypeOK /\ SocketInv => NewestDelivered
<1> SUFFICES ASSUME NetTypeOK, SocketInv, NEW s \in Sockets,
                    sockets[s].bound, sockets[s].valid,
                    NEW f, f = arrived[sockets[s].rx.id]
             PROVE  LET rx == sockets[s].rx
                    IN /\ rx.own <= rx.len /\ rx.len <= UdpBuf
                       /\ Honest(f) => /\ rx.len = Smaller(f.length - UdpHdr, UdpBuf)
                                       /\ rx.own = rx.len
  BY DEF SocketInv, AllNewest, Newest, NewestDelivered, Came, First
<1>1. /\ sockets[s].rx.id \in 1 .. polled /\ Delivers(f)
      /\ sockets[s].rx = Datagram(sockets[s].rx.id, f)
  BY DEF SocketInv, AllNewest, Newest, Came, ForPort
<1>2. f \in Wire
  BY <1>1 DEF NetTypeOK
<1>3. sockets[s].rx.len = DataLen(f) /\ sockets[s].rx.own = OwnLen(f)
  BY <1>1 DEF Datagram
<1> QED
  BY <1>1, <1>2, <1>3, LengthsAre

LEMMA CameIs ==
    ASSUME NEW s, NEW i
    PROVE  i \in Came(s) <=> /\ i \in 1 .. polled /\ Delivers(arrived[i])
                             /\ arrived[i].port = sockets[s].port /\ i > boundAt[s]
  BY DEF Came, ForPort

LEMMA InitSockets == NetInit => SocketInv
<1> SUFFICES ASSUME NetInit PROVE SocketInv
  OBVIOUS
<1>1. sockets \in [Sockets -> SocketRecords]
  BY DEF NetInit, SocketRecords, Empty
<1>2. \A s \in Sockets : ~sockets[s].bound /\ ~sockets[s].valid
  BY DEF NetInit
<1>3. got \in [Sockets -> 0 .. polled] /\ boundAt \in [Sockets -> 0 .. polled]
  BY DEF NetInit
<1> QED
  BY <1>1, <1>2, <1>3 DEF SocketInv, SocketsOK, AllNewest, Newest, NeverOlder

\* The steps that only move frames.
LEMMA FrameStep ==
    ASSUME NetTypeOK, SocketInv, UNCHANGED sockVars, polled' = polled,
           \A i \in 1 .. polled : arrived'[i] = arrived[i]
    PROVE  SocketInv'
<1>1. sockets' = sockets /\ got' = got /\ boundAt' = boundAt
  BY DEF sockVars
<1>2. SocketsOK' /\ NeverOlder'
  BY <1>1 DEF SocketInv, SocketsOK, NeverOlder
<1>3. ASSUME NEW s \in Sockets
      PROVE  Newest(s)'
  <2>1. Newest(s)
    BY DEF SocketInv, AllNewest
  <2>2. Came(s)' = Came(s)
    BY <1>1 DEF Came, ForPort
  <2>3. First(s)' = First(s)
    BY <1>1 DEF First, BoundTo
  <2>4. \A i \in Came(s) : i \in 1 .. polled
    BY DEF Came, ForPort
  <2> QED
    BY <1>1, <2>1, <2>2, <2>3, <2>4 DEF Newest
<1> QED
  BY <1>2, <1>3 DEF SocketInv, AllNewest

\* A datagram goes to the first socket of its port, which no other socket of
\* the port can have received before.
LEMMA DispatchSockets ==
    ASSUME NetTypeOK, SocketInv, Dispatch,
           rx_buf[1].id = polled + 1, polled + 1 \in 1 .. Len(arrived)
    PROVE  SocketInv'
<1> DEFINE f == arrived[polled + 1]
<1> DEFINE target == {s \in Sockets : /\ Delivers(f) /\ s \in BoundTo(f.port)
                                      /\ \A t \in BoundTo(f.port) : s <= t}
<1>1. /\ polled' = polled + 1 /\ arrived' = arrived /\ got' = got /\ boundAt' = boundAt
      /\ sockets' = IF Delivers(f) THEN UdpInput(polled + 1, f) ELSE sockets
      /\ polled \in Nat /\ sockets \in [Sockets -> SocketRecords]
  BY DEF Dispatch, nicVars, SocketInv, SocketsOK, NetTypeOK
<1>2. f \in Wire
  BY DEF NetTypeOK
<1> DEFINE got1 == Datagram(polled + 1, f)
<1>a. Delivers(f) => got1 \in [id : Nat, len : Nat, own : Nat]
  BY <1>1, <1>2, LengthsAre DEF Datagram
<1>b. got1.id = polled + 1 /\ got1 = Datagram(polled + 1, f)
  BY DEF Datagram
<1> HIDE DEF got1
<1>3. ASSUME NEW s \in Sockets
      PROVE  /\ sockets'[s].bound = sockets[s].bound /\ sockets'[s].port = sockets[s].port
             /\ sockets'[s] \in SocketRecords
             /\ s \in target => sockets'[s].valid /\ sockets'[s].rx = got1
             /\ s \notin target => sockets'[s] = sockets[s]
  <2>1. sockets[s] \in SocketRecords
    BY <1>1
  <2> DEFINE e == [sockets[s] EXCEPT !.valid = TRUE, !.rx = got1]
  <2>2. sockets'[s] = IF s \in target THEN e ELSE sockets[s]
    BY <1>1, <1>b DEF UdpInput
  <2>3. s \in target =>
        /\ e.bound = sockets[s].bound /\ e.port = sockets[s].port /\ e.valid
        /\ e.rx = got1 /\ e \in SocketRecords
    <3> DEFINE y == [id : Nat, len : Nat, own : Nat]
    <3>1. s \in target => got1 \in y
      BY <1>a
    <3>2. sockets[s] \in [bound : BOOLEAN, port : Ports \cup {0}, valid : BOOLEAN, rx : y]
      BY <2>1 DEF SocketRecords
    <3> HIDE DEF y, target
    <3> QED
      BY <3>1, <3>2 DEF SocketRecords, y
  <2> HIDE DEF e, target
  <2> QED
    BY <2>1, <2>2, <2>3
<1>4. ASSUME NEW s \in target
      PROVE  s \in Sockets /\ sockets[s].bound /\ sockets[s].port = f.port /\ First(s)
  BY DEF First, BoundTo
<1>5. ASSUME NEW s \in Sockets
      PROVE  First(s)' <=> First(s)
  <2>1. DOMAIN sockets' = DOMAIN sockets
    BY <1>1 DEF UdpInput
  <2>2. BoundTo(sockets[s].port)' = BoundTo(sockets[s].port)
    <3>1. sockets'[s].port = sockets[s].port
      BY <1>3
    <3>2. \A t \in Sockets : sockets'[t].bound = sockets[t].bound /\ sockets'[t].port = sockets[t].port
      BY <1>3
    <3> HIDE DEF target, f
    <3> QED
      BY <3>1, <3>2 DEF BoundTo
  <2> QED
    BY <2>2 DEF First
<1>6. ASSUME NEW s \in Sockets
      PROVE  /\ \A i : i \in Came(s)' <=>
                   \/ i \in Came(s)
                   \/ /\ i = polled + 1 /\ Delivers(f) /\ f.port = sockets[s].port
             /\ \A i \in Came(s) : i \in 1 .. polled
  <2>1. boundAt[s] \in 0 .. polled
    BY DEF SocketInv, SocketsOK
  <2>2. sockets'[s].port = sockets[s].port
    BY <1>3
  <2> SUFFICES ASSUME NEW i
               PROVE  /\ i \in Came(s)' <=>
                           \/ i \in Came(s)
                           \/ /\ i = polled + 1 /\ Delivers(f) /\ f.port = sockets[s].port
                      /\ i \in Came(s) => i \in 1 .. polled
    OBVIOUS
  <2>3. i \in Came(s)' <=> /\ i \in 1 .. polled + 1 /\ Delivers(arrived[i])
                           /\ arrived[i].port = sockets[s].port /\ i > boundAt[s]
    BY <1>1, <2>2 DEF Came, ForPort
  <2>4. i \in 1 .. polled + 1 <=> i \in 1 .. polled \/ i = polled + 1
    BY <1>1
  <2>5. polled + 1 > boundAt[s]
    BY <1>1, <2>1
  <2> QED
    BY <2>3, <2>4, <2>5, CameIs
<1> HIDE DEF target, f
<1>7. ASSUME NEW s \in Sockets
      PROVE  Newest(s)'
  <2> SUFFICES ASSUME sockets[s].bound
               PROVE  Newest(s)'
    BY <1>3 DEF Newest
  <2>0. Newest(s)
    BY DEF SocketInv, AllNewest
  <2>1. CASE s \in target
    <3>1. /\ First(s)' /\ polled + 1 \in Came(s)'
      BY <1>4, <1>5, <1>6, <2>1 DEF target
    <3>2. \A i \in Came(s)' : i <= polled + 1
      BY <1>1, <1>6
    <3>3. arrived'[polled + 1] = f
      BY <1>1 DEF f
    <3> QED
      BY <1>3, <1>b, <2>1, <3>1, <3>2, <3>3 DEF Newest
  <2>2. CASE s \notin target
    <3>1. sockets'[s] = sockets[s]
      BY <1>3, <2>2
    <3>2. CASE Came(s)' = Came(s)
      <4>1. \A i \in Came(s) : arrived'[i] = arrived[i]
        BY <1>1
      <4> QED
        BY <1>1, <1>5, <2>0, <3>1, <3>2, <4>1 DEF Newest
    <3>3. CASE Came(s)' # Came(s)
      <4>1. Delivers(f) /\ f.port = sockets[s].port
        <5>1. ~(Delivers(f) /\ f.port = sockets[s].port) => \A i : i \in Came(s)' <=> i \in Came(s)
          BY <1>6
        <5>2. ~(Delivers(f) /\ f.port = sockets[s].port) => Came(s)' = Came(s)
          <6> SUFFICES ASSUME ~(Delivers(f) /\ f.port = sockets[s].port) PROVE Came(s)' = Came(s)
            OBVIOUS
          <6>1. \A i : i \in Came(s)' <=> i \in Came(s)
            BY <5>1
          <6> QED
            BY <6>1, Zenon
        <5> QED
          BY <3>3, <5>2
      <4>2. ~First(s)
        BY <2>2, <4>1 DEF First, target, BoundTo
      <4>3. ~sockets[s].valid
        BY <2>0, <4>2 DEF Newest
      <4> QED
        BY <1>5, <3>1, <4>2, <4>3 DEF Newest
    <3> QED
      BY <3>2, <3>3
  <2> QED
    BY <2>1, <2>2
<1>8. ASSUME NEW s \in Sockets
      PROVE  /\ got'[s] \in 0 .. polled' /\ boundAt'[s] \in 0 .. polled'
             /\ sockets'[s].valid => sockets'[s].bound
             /\ sockets'[s].bound => \A t \in 0 .. s - 1 : sockets'[t].bound
             /\ sockets'[s].valid => sockets'[s].rx.id > got'[s]
  <2>1. /\ got[s] \in 0 .. polled /\ boundAt[s] \in 0 .. polled
        /\ sockets[s].valid => sockets[s].bound
        /\ sockets[s].bound => \A t \in 0 .. s - 1 : sockets[t].bound
        /\ sockets[s].valid => sockets[s].rx.id > got[s]
    BY DEF SocketInv, SocketsOK, NeverOlder
  <2>2. \A t \in 0 .. s - 1 : t \in Sockets
    BY NetSizesAssumption DEF Sockets
  <2>3. got'[s] \in 0 .. polled' /\ boundAt'[s] \in 0 .. polled'
    BY <1>1, <2>1
  <2>4. sockets'[s].bound => \A t \in 0 .. s - 1 : sockets'[t].bound
    BY <1>3, <2>1, <2>2
  <2>5. CASE s \in target
    <3>1. sockets[s].bound /\ sockets'[s].bound /\ sockets'[s].rx.id = polled + 1
      BY <1>3, <1>4, <1>b, <2>5
    <3>2. polled + 1 > got'[s]
      BY <1>1, <2>1
    <3> QED
      BY <2>3, <2>4, <3>1, <3>2
  <2>6. CASE s \notin target
    BY <1>1, <1>3, <2>1, <2>3, <2>4, <2>6
  <2> QED
    BY <2>5, <2>6
<1>9. /\ sockets' \in [Sockets -> SocketRecords] /\ got' \in [Sockets -> 0 .. polled']
      /\ boundAt' \in [Sockets -> 0 .. polled']
  <2>1. DOMAIN sockets' = Sockets /\ \A s \in Sockets : sockets'[s] \in SocketRecords
    BY <1>1, <1>3 DEF UdpInput
  <2>2. /\ DOMAIN got' = Sockets /\ got' = [s \in DOMAIN got' |-> got'[s]]
        /\ DOMAIN boundAt' = Sockets /\ boundAt' = [s \in DOMAIN boundAt' |-> boundAt'[s]]
    BY <1>1 DEF SocketInv, SocketsOK
  <2>3. sockets' = [s \in DOMAIN sockets' |-> sockets'[s]]
    BY <1>1 DEF UdpInput
  <2> QED
    BY <1>8, <2>1, <2>2, <2>3
<1> QED
  BY <1>7, <1>8, <1>9 DEF SocketInv, SocketsOK, AllNewest, NeverOlder

\* Sockets are bound from the first on and never freed, so that a socket that
\* gets a port stands behind those that have it.
LEMMA BindSockets ==
    ASSUME NetTypeOK, SocketInv, NEW port \in Ports, UdpBind(port)
    PROVE  SocketInv'
<1>1. PICK s \in Sockets :
        /\ ~sockets[s].bound /\ \A t \in Sockets : t < s => sockets[t].bound
        /\ sockets' = [sockets EXCEPT ![s].bound = TRUE, ![s].port = port,
                                      ![s].valid = FALSE]
        /\ boundAt' = [boundAt EXCEPT ![s] = polled]
  BY DEF UdpBind
<1>2. got' = got /\ polled' = polled /\ arrived' = arrived /\ polled \in Nat
  BY DEF UdpBind, nicVars, recvVars, NetTypeOK
<1>3. /\ sockets \in [Sockets -> SocketRecords] /\ boundAt \in [Sockets -> 0 .. polled]
      /\ got \in [Sockets -> 0 .. polled]
  BY DEF SocketInv, SocketsOK
<1>4. ASSUME NEW t \in Sockets, t # s
      PROVE  sockets'[t] = sockets[t] /\ boundAt'[t] = boundAt[t]
  BY <1>1, <1>3, <1>4
<1>5. /\ sockets'[s] \in SocketRecords /\ sockets'[s].bound /\ sockets'[s].port = port
      /\ ~sockets'[s].valid /\ boundAt'[s] = polled
  <2> DEFINE r == sockets[s]
  <2> DEFINE e == [r EXCEPT !.bound = TRUE, !.port = port, !.valid = FALSE]
  <2>1. r \in SocketRecords /\ sockets'[s] = e
    BY <1>1, <1>3
  <2> HIDE DEF r
  <2>2. e \in SocketRecords /\ e.bound /\ e.port = port /\ ~e.valid
    BY <2>1 DEF SocketRecords
  <2> HIDE DEF e
  <2> QED
    BY <1>1, <1>3, <2>1, <2>2
<1>6. ASSUME NEW t \in Sockets, t # s, sockets[t].bound
      PROVE  t < s
  <2>1. ~(s \in 0 .. t - 1)
    BY <1>1, <1>6 DEF SocketInv, SocketsOK
  <2> QED
    BY <1>6, <2>1 DEF Sockets
<1>7. ASSUME NEW t \in Sockets, t # s, sockets[t].bound
      PROVE  Newest(t)'
  <2>1. Newest(t)
    BY DEF SocketInv, AllNewest
  <2>2. First(t)' <=> First(t)
    <3>1. ASSUME NEW v \in Sockets, v # s
          PROVE  v \in BoundTo(sockets[t].port)' <=> v \in BoundTo(sockets[t].port)
      BY <1>4, <1>7, <3>1 DEF BoundTo
    <3>2. s \notin BoundTo(sockets[t].port) /\ t <= s
      BY <1>1, <1>6, <1>7 DEF BoundTo, Sockets
    <3>3. BoundTo(sockets[t].port)' \subseteq Sockets /\ BoundTo(sockets[t].port) \subseteq Sockets
      BY DEF BoundTo
    <3> QED
      BY <3>1, <3>2, <3>3 DEF First
  <2>3. Came(t)' = Came(t)
    BY <1>2, <1>4, <1>7 DEF Came, ForPort
  <2> QED
    BY <1>2, <1>4, <1>7, <2>1, <2>2, <2>3 DEF Newest
<1>8. Newest(s)'
  <2>1. Came(s)' = {}
    BY <1>2, <1>5 DEF Came, ForPort
  <2> QED
    BY <1>5, <2>1 DEF Newest
<1>9. AllNewest'
  <2>1. \A t \in Sockets : t # s /\ ~sockets[t].bound => Newest(t)'
    BY <1>4 DEF Newest
  <2> QED
    BY <1>7, <1>8, <2>1 DEF AllNewest
<1>10. SocketsOK'
  <2>1. /\ sockets' \in [Sockets -> SocketRecords]
        /\ boundAt' \in [Sockets -> 0 .. polled]
    <3>1. sockets' = [t \in Sockets |-> sockets'[t]] /\ boundAt' = [t \in Sockets |-> boundAt'[t]]
      BY <1>1, <1>3
    <3>2. ASSUME NEW t \in Sockets
          PROVE  sockets'[t] \in SocketRecords /\ boundAt'[t] \in 0 .. polled
      BY <1>2, <1>3, <1>4, <1>5
    <3> QED
      BY <3>1, <3>2
  <2>2. ASSUME NEW t \in Sockets
        PROVE  /\ sockets'[t].valid => sockets'[t].bound
               /\ sockets'[t].bound => \A v \in 0 .. t - 1 : sockets'[v].bound
    <3>1. \A v \in Sockets : sockets[v].bound => sockets'[v].bound
      BY <1>4, <1>5
    <3>2. \A v \in 0 .. t - 1 : v \in Sockets /\ v < t
      BY NetSizesAssumption DEF Sockets
    <3>3. CASE t = s
      BY <1>1, <1>5, <3>1, <3>2, <3>3
    <3>4. CASE t # s
      BY <1>4, <3>1, <3>2, <3>4 DEF SocketInv, SocketsOK
    <3> QED
      BY <3>3, <3>4
  <2> QED
    BY <1>2, <1>3, <2>1, <2>2 DEF SocketsOK
<1>11. NeverOlder'
  BY <1>2, <1>4, <1>5 DEF SocketInv, NeverOlder
<1> QED
  BY <1>9, <1>10, <1>11 DEF SocketInv

LEMMA RecvSockets ==
    ASSUME NetTypeOK, SocketInv, NEW s \in Sockets, UdpRecvfrom(s)
    PROVE  SocketInv'
<1>1. /\ sockets[s].valid /\ got' = [got EXCEPT ![s] = sockets[s].rx.id]
      /\ sockets' = [sockets EXCEPT ![s].valid = FALSE]
      /\ boundAt' = boundAt /\ polled' = polled /\ arrived' = arrived
  BY DEF UdpRecvfrom, AfterRead, nicVars, recvVars
<1>2. /\ sockets \in [Sockets -> SocketRecords] /\ boundAt \in [Sockets -> 0 .. polled]
      /\ got \in [Sockets -> 0 .. polled] /\ polled \in Nat
  BY DEF SocketInv, SocketsOK, NetTypeOK
<1>3. ASSUME NEW t \in Sockets, t # s
      PROVE  sockets'[t] = sockets[t] /\ got'[t] = got[t]
  BY <1>1, <1>2, <1>3
<1>4. /\ sockets'[s] \in SocketRecords /\ sockets'[s].bound = sockets[s].bound
      /\ sockets'[s].port = sockets[s].port /\ ~sockets'[s].valid
      /\ got'[s] = sockets[s].rx.id
  <2> DEFINE r == sockets[s]
  <2> DEFINE e == [r EXCEPT !.valid = FALSE]
  <2>1. r \in SocketRecords /\ sockets'[s] = e
    BY <1>1, <1>2
  <2> HIDE DEF r
  <2>2. e \in SocketRecords /\ e.bound = r.bound /\ e.port = r.port /\ ~e.valid
    BY <2>1 DEF SocketRecords
  <2> HIDE DEF e
  <2> QED
    BY <1>1, <1>2, <2>1, <2>2 DEF r
<1>5. sockets[s].bound /\ Newest(s)
  BY <1>1 DEF SocketInv, SocketsOK, AllNewest
<1>6. sockets[s].rx.id \in 1 .. polled /\ \A i \in Came(s) : i <= sockets[s].rx.id
  BY <1>1, <1>5 DEF Newest, Came, ForPort
<1>7. ASSUME NEW t \in Sockets
      PROVE  /\ sockets'[t].bound = sockets[t].bound /\ sockets'[t].port = sockets[t].port
             /\ sockets'[t] \in SocketRecords
  BY <1>2, <1>3, <1>4
<1>8. ASSUME NEW t \in Sockets
      PROVE  Newest(t)'
  <2>1. First(t)' <=> First(t)
    <3>1. BoundTo(sockets[t].port)' = BoundTo(sockets[t].port)
      BY <1>7 DEF BoundTo
    <3> QED
      BY <3>1 DEF First
  <2>2. Came(t)' = Came(t)
    BY <1>1, <1>7 DEF Came, ForPort
  <2>3. CASE t = s
    BY <1>4, <1>6, <2>2, <2>3 DEF Newest
  <2>4. CASE t # s
    <3>1. Newest(t)
      BY DEF SocketInv, AllNewest
    <3> QED
      BY <1>1, <1>3, <2>1, <2>2, <2>4, <3>1 DEF Newest
  <2> QED
    BY <2>3, <2>4
<1>9. /\ sockets' \in [Sockets -> SocketRecords] /\ got' \in [Sockets -> 0 .. polled]
  <2>1. sockets' = [t \in Sockets |-> sockets'[t]] /\ got' = [t \in Sockets |-> got'[t]]
    BY <1>1, <1>2
  <2>2. ASSUME NEW t \in Sockets
        PROVE  got'[t] \in 0 .. polled
    BY <1>2, <1>3, <1>4, <1>6
  <2> QED
    BY <1>7, <2>1, <2>2
<1>10. SocketsOK'
  <2>1. ASSUME NEW t \in Sockets
        PROVE  /\ sockets'[t].valid => sockets'[t].bound
               /\ sockets'[t].bound => \A v \in 0 .. t - 1 : sockets'[v].bound
    <3>1. \A v \in 0 .. t - 1 : v \in Sockets
      BY NetSizesAssumption DEF Sockets
    <3>2. sockets'[t].valid => sockets[t].valid
      BY <1>3, <1>4
    <3> QED
      BY <1>7, <3>1, <3>2 DEF SocketInv, SocketsOK
  <2> QED
    BY <1>1, <1>2, <1>9, <2>1 DEF SocketsOK
<1>11. NeverOlder'
  BY <1>3, <1>4 DEF SocketInv, NeverOlder
<1> QED
  BY <1>8, <1>10, <1>11 DEF SocketInv, AllNewest

-----------------------------------------------------------------------------
NetInv == NetTypeOK /\ RingInOrder /\ DriverHolds /\ SocketInv

\* The steps of the sockets leave the ring and the driver alone.
LEMMA RingUntouched ==
    ASSUME NetTypeOK, RingInOrder, DriverHolds, UNCHANGED <<nicVars, recvVars>>
    PROVE  NetTypeOK' /\ RingInOrder' /\ DriverHolds'
<1>1. /\ ring' = ring /\ curr' = curr /\ arrived' = arrived /\ bnry' = bnry /\ polled' = polled
      /\ hdr' = hdr /\ nicPc' = nicPc /\ rx_buf' = rx_buf
  BY DEF nicVars, recvVars
<1>2. ReadPage' = ReadPage /\ Unread' = Unread /\ \A k : PageAt(k)' = PageAt(k)
  BY <1>1 DEF ReadPage, Unread, PageAt
<1>3. NetTypeOK'
  BY <1>1 DEF NetTypeOK
<1>4. RingInOrder'
  <2>1. \A k, x : HoldsPart(k, x)' <=> HoldsPart(k, x)
    BY <1>1, <1>2 DEF HoldsPart
  <2> QED
    BY <1>1, <1>2 DEF RingInOrder, HoldsPart, GoesOn, Last
<1>5. DriverHolds'
  BY <1>1, <1>2 DEF DriverHolds
<1> QED
  BY <1>3, <1>4, <1>5

LEMMA StepNet ==
    ASSUME NetInv, [NetNext]_netVars
    PROVE  NetInv'
<1> USE DEF NetInv
<1>1. ASSUME NEW f \in Wire, Arrives(f)
      PROVE  NetInv'
  <2>1. NetTypeOK' /\ RingInOrder' /\ DriverHolds'
    BY <1>1, ArrivesRing
  <2>2. UNCHANGED sockVars /\ polled' = polled /\ arrived' = Append(arrived, f)
    BY <1>1 DEF Arrives, recvVars
  <2>3. \A i \in 1 .. polled : arrived'[i] = arrived[i]
    BY <2>2 DEF NetTypeOK
  <2> QED
    BY <2>1, <2>2, <2>3, FrameStep
<1>2. CASE Poll \/ ReadHeader \/ ReadData
  <2>1. NetTypeOK' /\ RingInOrder' /\ DriverHolds'
    BY <1>2, PollRing, DataRing
  <2>2. UNCHANGED sockVars /\ polled' = polled /\ arrived' = arrived
    BY <1>2 DEF Poll, ReadHeader, ReadData, nicVars
  <2>3. SocketInv'
    BY <2>2, FrameStep
  <2> QED
    BY <2>1, <2>3
<1>3. CASE Dispatch
  BY <1>3, DispatchRing, DispatchSockets
<1>4. ASSUME NEW port \in Ports, UdpBind(port)
      PROVE  NetInv'
  <2>1. UNCHANGED <<nicVars, recvVars>>
    BY <1>4 DEF UdpBind
  <2> QED
    BY <1>4, <2>1, RingUntouched, BindSockets
<1>5. ASSUME NEW s \in Sockets, UdpRecvfrom(s)
      PROVE  NetInv'
  <2>1. UNCHANGED <<nicVars, recvVars>>
    BY <1>5 DEF UdpRecvfrom
  <2> QED
    BY <1>5, <2>1, RingUntouched, RecvSockets
<1>6. CASE UNCHANGED netVars
  <2>1. UNCHANGED <<nicVars, recvVars>> /\ UNCHANGED sockVars
    BY <1>6 DEF netVars
  <2>2. polled' = polled /\ arrived' = arrived
    BY <2>1 DEF nicVars, recvVars
  <2>3. SocketInv'
    BY <2>1, <2>2, FrameStep
  <2> QED
    BY <2>1, <2>3, RingUntouched
<1> QED
  BY <1>1, <1>2, <1>3, <1>4, <1>5, <1>6 DEF NetNext, Driver

\* What the NIC and the driver share, and what each socket holds, are right
\* in every reachable state.
THEOREM NetworkKeepsRing == NetSpec => []NetInv
<1>1. NetInit => NetInv
  BY InitRing, InitSockets DEF NetInv
<1>2. NetInv /\ [NetNext]_netVars => NetInv'
  BY StepNet
<1> QED
  BY <1>1, <1>2, PTL DEF NetSpec

\* Each frame the NIC took in is copied once, whole and in order, for every
\* size of the ring and of the frames, while the NIC writes behind the driver.
THEOREM FramesComeInOrder == NetSpec => []FramesInOrder
<1>1. NetInv => FramesInOrder
  <2> SUFFICES ASSUME NetInv PROVE FramesInOrder
    OBVIOUS
  <2>1. nicPc \in {"data", "advance"} => Whole(rx_buf)
    BY DEF NetInv, DriverHolds, Whole
  <2>2. nicPc = "advance" => Len(rx_buf) = PagesOf(arrived[polled + 1])
    BY FrameCopied DEF NetInv, DriverHolds
  <2>3. ReadPage = curr => polled = Len(arrived)
    BY PagesSeen DEF NetInv, RingInOrder
  <2> QED
    BY <2>1, <2>2, <2>3 DEF FramesInOrder
<1> QED
  BY <1>1, NetworkKeepsRing, PTL

\* The first socket of a port has or has returned the newest datagram that
\* came for it, however many ports, sockets and frames there are.
THEOREM NewestComes == NetSpec => []NewestDelivered
<1>1. NetInv => NewestDelivered
  BY NewestIs DEF NetInv
<1> QED
  BY <1>1, NetworkKeepsRing, PTL

\* No socket returns a datagram again or one that is older than the last.
THEOREM NoneIsOlder == NetSpec => []NeverOlder
<1>1. NetInv => NeverOlder
  BY DEF NetInv, SocketInv
<1> QED
  BY <1>1, NetworkKeepsRing, PTL

-----------------------------------------------------------------------------
(***************************************************************************)
(* The keyboard.                                                           *)
(***************************************************************************)
Places == 0 .. KbSize - 1
Stored == Chars \cup {NoChar}

KeyTypeOK ==
    /\ kb_buf \in [Places -> Stored]
    /\ kb_head \in Places /\ kb_tail \in Places
    /\ shift_held \in BOOLEAN
    /\ line_len \in 0 .. LineMax - 1

\* Once buf_pop has found the ring not empty, nobody else takes from it.
ReaderHolds ==
    /\ kbPc \in {"load", "advance"} => kb_head # kb_tail
    /\ kbPc = "advance" => c = kb_buf[kb_tail]

KeyInv == KeyTypeOK /\ ReaderHolds

USE KbSizeAssumption

-----------------------------------------------------------------------------
\* The ring as a sequence, and its index arithmetic without the remainders.
Count(h, t) == (h - t) % KbSize
At(t, i) == (t + i - 1) % KbSize
RingSeq(buf, h, t) == [i \in 1 .. Count(h, t) |-> buf[At(t, i)]]

LEMMA Wraps ==
    /\ \A i \in 0 .. 2 * KbSize - 1 : i % KbSize = IF i < KbSize THEN i ELSE i - KbSize
    /\ \A i \in -(KbSize - 1) .. -1 : i % KbSize = i + KbSize
  OBVIOUS

LEMMA SuccIs == \A i \in Places : /\ Succ(i) \in Places
                                  /\ Succ(i) = IF i = KbSize - 1 THEN 0 ELSE i + 1
<1> SUFFICES ASSUME NEW i \in Places
             PROVE  Succ(i) \in Places /\ Succ(i) = IF i = KbSize - 1 THEN 0 ELSE i + 1
  OBVIOUS
<1> DEFINE m == i + 1
<1>1. m = i + 1
  OBVIOUS
<1> HIDE DEF m
<1>2. m \in 0 .. 2 * KbSize - 1
  BY <1>1 DEF Places
<1>3. m % KbSize = IF m < KbSize THEN m ELSE m - KbSize
  BY <1>2, Wraps
<1> QED
  BY <1>1, <1>3 DEF Places, Succ

LEMMA CountIs ==
    ASSUME NEW h \in Places, NEW t \in Places
    PROVE  /\ Count(h, t) \in 0 .. KbSize - 1
           /\ Count(h, t) = IF h >= t THEN h - t ELSE h - t + KbSize
<1>1. CASE h >= t
  <2>1. h - t \in 0 .. 2 * KbSize - 1 /\ h - t < KbSize
    BY <1>1 DEF Places
  <2>2. (h - t) % KbSize = h - t
    BY <2>1, Wraps
  <2> QED
    BY <1>1, <2>1, <2>2 DEF Count, Places
<1>2. CASE ~(h >= t)
  <2>1. h - t \in -(KbSize - 1) .. -1
    BY <1>2 DEF Places
  <2>2. (h - t) % KbSize = h - t + KbSize
    BY <2>1, Wraps
  <2> QED
    BY <1>2, <2>1, <2>2 DEF Count, Places
<1> QED
  BY <1>1, <1>2

LEMMA AtIs ==
    ASSUME NEW t \in Places, NEW i \in 1 .. KbSize
    PROVE  /\ At(t, i) \in Places
           /\ At(t, i) = IF t + i - 1 < KbSize THEN t + i - 1 ELSE t + i - 1 - KbSize
<1> DEFINE m == t + i - 1
<1>1. m = t + i - 1
  OBVIOUS
<1> HIDE DEF m
<1>2. m \in 0 .. 2 * KbSize - 1
  BY <1>1 DEF Places
<1>3. m % KbSize = IF m < KbSize THEN m ELSE m - KbSize
  BY <1>2, Wraps
<1>4. At(t, i) = m % KbSize
  BY <1>1 DEF At
<1> QED
  BY <1>1, <1>2, <1>3, <1>4 DEF Places

LEMMA RingIsSeq ==
    ASSUME NEW buf \in [Places -> Stored], NEW h \in Places, NEW t \in Places
    PROVE  /\ RingSeq(buf, h, t) \in Seq(Stored)
           /\ Len(RingSeq(buf, h, t)) = Count(h, t)
           /\ \A i \in 1 .. Count(h, t) : RingSeq(buf, h, t)[i] = buf[At(t, i)]
<1>1. Count(h, t) \in 0 .. KbSize - 1
  BY CountIs
<1>2. \A i \in 1 .. Count(h, t) : buf[At(t, i)] \in Stored
  <2> SUFFICES ASSUME NEW i \in 1 .. Count(h, t) PROVE buf[At(t, i)] \in Stored
    OBVIOUS
  <2>1. i \in 1 .. KbSize
    BY <1>1
  <2>2. At(t, i) \in Places
    BY <2>1, AtIs
  <2> QED
    BY <2>2
<1>3. RingSeq(buf, h, t) \in [1 .. Count(h, t) -> Stored]
  BY <1>2 DEF RingSeq
<1>4. RingSeq(buf, h, t) \in Seq(Stored)
  BY <1>1, <1>3
<1>5. Len(RingSeq(buf, h, t)) = Count(h, t)
  BY <1>1, <1>3, <1>4
<1> QED
  BY <1>4, <1>5 DEF RingSeq

\* A push appends, a pop takes the head.
LEMMA RingPush ==
    ASSUME NEW buf \in [Places -> Stored], NEW h \in Places, NEW t \in Places,
           NEW x \in Stored, Succ(h) # t
    PROVE  /\ Count(h, t) < KbSize - 1
           /\ RingSeq([buf EXCEPT ![h] = x], Succ(h), t) = Append(RingSeq(buf, h, t), x)
<1> DEFINE n == Count(h, t)
<1>1. n = Count(h, t)
  OBVIOUS
<1> HIDE DEF n
<1>2. Succ(h) \in Places /\ Succ(h) = IF h = KbSize - 1 THEN 0 ELSE h + 1
  BY SuccIs
<1>3. n \in 0 .. KbSize - 1 /\ n = IF h >= t THEN h - t ELSE h - t + KbSize
  BY <1>1, CountIs
<1>4. Count(Succ(h), t) = IF Succ(h) >= t THEN Succ(h) - t ELSE Succ(h) - t + KbSize
  BY <1>2, CountIs
<1>5. n < KbSize - 1 /\ Count(Succ(h), t) = n + 1
  BY <1>2, <1>3, <1>4 DEF Places
<1>6. At(t, n + 1) = h
  <2>1. n + 1 \in 1 .. KbSize
    BY <1>3
  <2>2. At(t, n + 1) = IF t + (n + 1) - 1 < KbSize THEN t + (n + 1) - 1
                       ELSE t + (n + 1) - 1 - KbSize
    BY <2>1, AtIs
  <2> QED
    BY <1>3, <2>2 DEF Places
<1>7. \A i \in 1 .. n : At(t, i) \in Places /\ At(t, i) # h
  <2> SUFFICES ASSUME NEW i \in 1 .. n PROVE At(t, i) \in Places /\ At(t, i) # h
    OBVIOUS
  <2>1. i \in 1 .. KbSize
    BY <1>3
  <2>2. /\ At(t, i) \in Places
        /\ At(t, i) = IF t + i - 1 < KbSize THEN t + i - 1 ELSE t + i - 1 - KbSize
    BY <2>1, AtIs
  <2> QED
    BY <1>3, <2>2 DEF Places
<1> DEFINE buf2 == [buf EXCEPT ![h] = x]
<1>8. buf2 = [buf EXCEPT ![h] = x]
  OBVIOUS
<1> HIDE DEF buf2
<1>9. /\ buf2 \in [Places -> Stored] /\ buf2[h] = x
      /\ \A p \in Places : p # h => buf2[p] = buf[p]
  BY <1>8
<1> DEFINE s == RingSeq(buf, h, t)
<1>10. s = RingSeq(buf, h, t)
  OBVIOUS
<1> HIDE DEF s
<1>11. s \in Seq(Stored) /\ Len(s) = n /\ \A i \in 1 .. n : s[i] = buf[At(t, i)]
  BY <1>1, <1>10, RingIsSeq
<1> DEFINE h2 == Succ(h)
<1>a. h2 = Succ(h)
  OBVIOUS
<1> HIDE DEF h2
<1>b. h2 \in Places /\ Count(h2, t) = n + 1
  BY <1>2, <1>5, <1>a
<1> DEFINE r == RingSeq(buf2, h2, t)
<1>12. r = RingSeq(buf2, h2, t)
  OBVIOUS
<1> HIDE DEF r
<1>13. r \in Seq(Stored) /\ Len(r) = n + 1 /\ \A i \in 1 .. n + 1 : r[i] = buf2[At(t, i)]
  <2>1. buf2 \in [Places -> Stored] /\ h2 \in Places
    BY <1>9, <1>b
  <2>2. /\ RingSeq(buf2, h2, t) \in Seq(Stored)
        /\ Len(RingSeq(buf2, h2, t)) = Count(h2, t)
        /\ \A i \in 1 .. Count(h2, t) : RingSeq(buf2, h2, t)[i] = buf2[At(t, i)]
    BY <2>1, RingIsSeq, Zenon
  <2> QED
    BY <1>b, <1>12, <2>2
<1>14. /\ Append(s, x) \in Seq(Stored) /\ Len(Append(s, x)) = n + 1
       /\ \A i \in 1 .. n : Append(s, x)[i] = s[i]
       /\ Append(s, x)[n + 1] = x
  BY <1>11, AppendProperties
<1>15. \A i \in 1 .. n + 1 : r[i] = Append(s, x)[i]
  <2> SUFFICES ASSUME NEW i \in 1 .. n + 1 PROVE r[i] = Append(s, x)[i]
    OBVIOUS
  <2>1. i \in 1 .. n \/ i = n + 1
    BY <1>3
  <2> QED
    BY <1>6, <1>7, <1>9, <1>11, <1>13, <1>14, <2>1
<1>16. r = Append(s, x)
  BY <1>13, <1>14, <1>15, SeqEqual
<1> QED
  BY <1>1, <1>5, <1>8, <1>a, <1>10, <1>12, <1>16

LEMMA RingPop ==
    ASSUME NEW buf \in [Places -> Stored], NEW h \in Places, NEW t \in Places, h # t
    PROVE  /\ RingSeq(buf, h, t) # <<>>
           /\ Head(RingSeq(buf, h, t)) = buf[t]
           /\ RingSeq(buf, h, Succ(t)) = Tail(RingSeq(buf, h, t))
<1> DEFINE n == Count(h, t)
<1>1. n = Count(h, t)
  OBVIOUS
<1> HIDE DEF n
<1>2. Succ(t) \in Places /\ Succ(t) = IF t = KbSize - 1 THEN 0 ELSE t + 1
  BY SuccIs
<1>3. n \in 1 .. KbSize - 1 /\ n = IF h >= t THEN h - t ELSE h - t + KbSize
  <2>1. n \in 0 .. KbSize - 1 /\ n = IF h >= t THEN h - t ELSE h - t + KbSize
    BY <1>1, CountIs
  <2> QED
    BY <2>1 DEF Places
<1>4. Count(h, Succ(t)) = n - 1
  <2>1. Count(h, Succ(t)) = IF h >= Succ(t) THEN h - Succ(t) ELSE h - Succ(t) + KbSize
    BY <1>2, CountIs
  <2> QED
    BY <1>2, <1>3, <2>1 DEF Places
<1>5. At(t, 1) = t
  <2>1. At(t, 1) = IF t + 1 - 1 < KbSize THEN t + 1 - 1 ELSE t + 1 - 1 - KbSize
    BY AtIs
  <2> QED
    BY <2>1 DEF Places
<1>6. \A i \in 1 .. n - 1 : At(Succ(t), i) = At(t, i + 1)
  <2> SUFFICES ASSUME NEW i \in 1 .. n - 1 PROVE At(Succ(t), i) = At(t, i + 1)
    OBVIOUS
  <2>1. i \in 1 .. KbSize /\ i + 1 \in 1 .. KbSize
    BY <1>3
  <2>2. At(Succ(t), i) = IF Succ(t) + i - 1 < KbSize THEN Succ(t) + i - 1
                         ELSE Succ(t) + i - 1 - KbSize
    BY <1>2, <2>1, AtIs
  <2>3. At(t, i + 1) = IF t + (i + 1) - 1 < KbSize THEN t + (i + 1) - 1
                       ELSE t + (i + 1) - 1 - KbSize
    BY <2>1, AtIs
  <2> QED
    BY <1>2, <1>3, <2>2, <2>3 DEF Places
<1> DEFINE s == RingSeq(buf, h, t)
<1>7. s = RingSeq(buf, h, t)
  OBVIOUS
<1> HIDE DEF s
<1>8. s \in Seq(Stored) /\ Len(s) = n /\ \A i \in 1 .. n : s[i] = buf[At(t, i)]
  BY <1>1, <1>7, RingIsSeq
<1>9. s # <<>> /\ 1 \in 1 .. n
  BY <1>3, <1>8
<1>10. Head(s) = buf[t]
  BY <1>5, <1>8, <1>9
<1>11. /\ Tail(s) \in Seq(Stored) /\ Len(Tail(s)) = n - 1
       /\ \A i \in 1 .. n - 1 : Tail(s)[i] = s[i + 1]
  BY <1>8, <1>9, HeadTailProperties
<1> DEFINE r == RingSeq(buf, h, Succ(t))
<1>12. r = RingSeq(buf, h, Succ(t))
  OBVIOUS
<1> HIDE DEF r
<1>13. r \in Seq(Stored) /\ Len(r) = n - 1 /\ \A i \in 1 .. n - 1 : r[i] = buf[At(Succ(t), i)]
  <2>1. Succ(t) \in Places /\ Count(h, Succ(t)) = n - 1
    BY <1>2, <1>4
  <2>2. /\ RingSeq(buf, h, Succ(t)) \in Seq(Stored)
        /\ Len(RingSeq(buf, h, Succ(t))) = Count(h, Succ(t))
        /\ \A i \in 1 .. Count(h, Succ(t)) : RingSeq(buf, h, Succ(t))[i] = buf[At(Succ(t), i)]
    BY <2>1, RingIsSeq, Zenon
  <2> QED
    BY <1>12, <2>1, <2>2
<1>14. \A i \in 1 .. n - 1 : r[i] = Tail(s)[i]
  <2> SUFFICES ASSUME NEW i \in 1 .. n - 1 PROVE r[i] = Tail(s)[i]
    OBVIOUS
  <2>1. i + 1 \in 1 .. n
    BY <1>3
  <2> QED
    BY <1>6, <1>8, <1>11, <1>13, <2>1
<1>15. r = Tail(s)
  BY <1>11, <1>13, <1>14, SeqEqual
<1> QED
  BY <1>7, <1>9, <1>10, <1>12, <1>15

-----------------------------------------------------------------------------
LEMMA KeyInitInv == KeyInit => KeyInv
<1> SUFFICES ASSUME KeyInit PROVE KeyInv
  OBVIOUS
<1>1. 0 \in Places /\ 0 \in 0 .. LineMax - 1
  BY LineMaxAssumption DEF Places
<1>2. kb_buf \in [Places -> Stored]
  BY DEF KeyInit, Places, Stored
<1> QED
  BY <1>1, <1>2 DEF KeyInit, KeyInv, KeyTypeOK, ReaderHolds

LEMMA CharacterStored ==
    ASSUME KeyTypeOK, NEW key \in KeyNames \ Shifts
    PROVE  Character(key) = NoChar \/ Character(key) \in Chars
<1>1. CASE key = "ctrl"
  BY <1>1 DEF Character
<1>2. CASE key \in Letters
  <2>1. PICK b \in BOOLEAN : b = shift_held
    BY DEF KeyTypeOK
  <2>2. (key \in Letters /\ shift_held) = b
    BY <1>2, <2>1
  <2>3. <<key, b>> \in Chars
    BY <1>2, <2>1 DEF Chars
  <2> QED
    BY <2>2, <2>3 DEF Character
<1>3. CASE key \notin Letters /\ key # "ctrl"
  <2>1. (key \in Letters /\ shift_held) = FALSE
    BY <1>3
  <2>2. key \in {"enter", "bksp"}
    BY <1>3 DEF KeyNames, Shifts
  <2>3. <<key, FALSE>> \in Chars
    BY <2>2 DEF Chars
  <2> QED
    BY <1>3, <2>1, <2>3 DEF Character
<1> QED
  BY <1>1, <1>2, <1>3

LEMMA BufPushInv ==
    ASSUME KeyInv, NEW x \in Stored, BufPush(x),
           UNCHANGED <<shift_held, readerVars>>
    PROVE  KeyInv'
<1> USE DEF KeyInv
<1>1. UNCHANGED <<shift_held, kb_tail, kbPc, c, line_len>>
  BY DEF readerVars
<1>2. CASE HasRoom
  <2>1. kb_buf' = [kb_buf EXCEPT ![kb_head] = x] /\ kb_head' = Succ(kb_head)
    BY <1>2 DEF BufPush
  <2>2. KeyTypeOK'
    BY <1>1, <2>1, SuccIs DEF KeyTypeOK
  <2>3. kb_head' # kb_tail'
    BY <1>1, <1>2, <2>1 DEF HasRoom
  <2>4. kb_head # kb_tail => kb_buf'[kb_tail] = kb_buf[kb_tail]
    BY <2>1 DEF KeyTypeOK
  <2> QED
    BY <1>1, <2>2, <2>3, <2>4 DEF ReaderHolds
<1>3. CASE ~HasRoom
  BY <1>1, <1>3 DEF BufPush, ringVars, KeyTypeOK, ReaderHolds
<1> QED
  BY <1>2, <1>3

LEMMA KeyStepInv == KeyInv /\ [KeyNext]_keyVars => KeyInv'
<1> SUFFICES ASSUME KeyInv, [KeyNext]_keyVars PROVE KeyInv'
  OBVIOUS
<1> USE DEF KeyInv
<1>1. CASE \E key \in KeyNames : ShiftMake(key) \/ ShiftBreak(key)
  BY <1>1 DEF ShiftMake, ShiftBreak, KeyTypeOK, ReaderHolds, ringVars, readerVars
<1>2. CASE \E key \in KeyNames : Make(key)
  <2>1. PICK key \in KeyNames \ Shifts : Make(key)
    BY <1>2 DEF Make
  <2>2. CASE Character(key) = NoChar
    BY <2>1, <2>2 DEF Make, KeyTypeOK, ReaderHolds, ringVars, readerVars
  <2>3. CASE Character(key) # NoChar
    <3>1. Character(key) \in Stored
      BY <2>3, CharacterStored DEF Stored
    <3>2. BufPush(Character(key)) /\ UNCHANGED <<shift_held, readerVars>>
      BY <2>1, <2>3 DEF Make
    <3> QED
      BY <3>1, <3>2, BufPushInv
  <2> QED
    BY <2>2, <2>3
<1>3. CASE PopEmpty \/ PopTest
  BY <1>3 DEF PopEmpty, PopTest, KeyTypeOK, ReaderHolds, ringVars
<1>4. CASE PopLoad
  BY <1>4 DEF PopLoad, KeyTypeOK, ReaderHolds, ringVars
<1>5. CASE PopAdvance
  BY <1>5, SuccIs DEF PopAdvance, KeyTypeOK, ReaderHolds, ringVars
<1>6. CASE ShellEdit
  <2>1. LineAfter \in 0 .. LineMax - 1
    BY LineMaxAssumption DEF LineAfter, Fits1, KeyTypeOK
  <2> QED
    BY <1>6, <2>1 DEF ShellEdit, KeyTypeOK, ReaderHolds, ringVars
<1>7. CASE UNCHANGED keyVars
  BY <1>7 DEF keyVars, ringVars, readerVars, KeyTypeOK, ReaderHolds
<1> QED
  BY <1>1, <1>2, <1>3, <1>4, <1>5, <1>6, <1>7 DEF KeyNext, Reader

\* The ring and the line keep their invariant, wherever IRQ1 comes in.
THEOREM KeySafe == KeySpec => []KeyInv
<1>1. KeyInit => KeyInv
  BY KeyInitInv
<1>2. KeyInv /\ [KeyNext]_keyVars => KeyInv'
  BY KeyStepInv
<1> QED
  BY <1>1, <1>2, PTL DEF KeySpec

\* The '\0' of shell_main is written inside line_buf, however long the line
\* that is typed.
THEOREM LineFits == KeySpec => []LineTerminates
<1>1. KeyInv => LineTerminates
  BY DEF KeyInv, KeyTypeOK, LineTerminates
<1> QED
  BY <1>1, KeySafe, PTL

-----------------------------------------------------------------------------
\* Refinement.
LEMMA PendingIsRing == Pending = RingSeq(kb_buf, kb_head, kb_tail)
  BY DEF Pending, KbCount, RingSeq, Count, At

LEMMA MakeRefines ==
    ASSUME KeyInv, NEW key \in KeyNames, Make(key)
    PROVE  (\E x \in Chars : KeyQueue!Put(x)) \/ UNCHANGED <<Pending, taken>>
<1>1. /\ key \in KeyNames \ Shifts /\ taken' = taken /\ kb_tail' = kb_tail
      /\ Character(key) = NoChar => UNCHANGED <<kb_buf, kb_head>>
      /\ Character(key) # NoChar => BufPush(Character(key))
  BY DEF Make, readerVars, ringVars
<1>2. CASE UNCHANGED <<kb_buf, kb_head>>
  BY <1>1, <1>2 DEF Pending, KbCount
<1>3. CASE Character(key) # NoChar /\ HasRoom
  <2>1. PICK x \in Chars : x = Character(key)
    BY <1>1, <1>3, CharacterStored DEF KeyInv
  <2>2. /\ kb_buf' = [kb_buf EXCEPT ![kb_head] = x] /\ kb_head' = Succ(kb_head)
        /\ Succ(kb_head) # kb_tail /\ x \in Stored
    BY <1>1, <1>3, <2>1 DEF BufPush, HasRoom, Stored
  <2>3. /\ kb_buf \in [Places -> Stored] /\ kb_head \in Places /\ kb_tail \in Places
    BY DEF KeyInv, KeyTypeOK
  <2>4. Pending' = RingSeq(kb_buf', kb_head', kb_tail')
    BY DEF Pending, KbCount, RingSeq, Count, At
  <2>5. Pending' = Append(Pending, x)
    <3>1. RingSeq([kb_buf EXCEPT ![kb_head] = x], Succ(kb_head), kb_tail)
              = Append(RingSeq(kb_buf, kb_head, kb_tail), x)
      BY <2>2, <2>3, RingPush
    <3> QED
      BY <1>1, <2>2, <2>4, <3>1, PendingIsRing
  <2>6. Len(Pending) < KbSize - 1
    BY <2>2, <2>3, RingPush, RingIsSeq, PendingIsRing
  <2> QED
    BY <1>1, <2>1, <2>5, <2>6 DEF KeyQueue!Put
<1> QED
  BY <1>1, <1>2, <1>3 DEF BufPush, ringVars

LEMMA PopRefines == ASSUME KeyInv, PopAdvance PROVE KeyQueue!Take
<1>1. /\ kb_buf' = kb_buf /\ kb_head' = kb_head /\ kb_tail' = Succ(kb_tail)
      /\ taken' = kb_buf[kb_tail] /\ kb_head # kb_tail
  BY DEF PopAdvance, ringVars, KeyInv, ReaderHolds
<1>2. /\ kb_buf \in [Places -> Stored] /\ kb_head \in Places /\ kb_tail \in Places
  BY DEF KeyInv, KeyTypeOK
<1>3. Pending' = RingSeq(kb_buf', kb_head', kb_tail')
  BY DEF Pending, KbCount, RingSeq, Count, At
<1> DEFINE s == RingSeq(kb_buf, kb_head, kb_tail)
<1>4. s = RingSeq(kb_buf, kb_head, kb_tail)
  OBVIOUS
<1> HIDE DEF s
<1>5. /\ s # <<>> /\ Head(s) = kb_buf[kb_tail]
      /\ RingSeq(kb_buf, kb_head, Succ(kb_tail)) = Tail(s)
  BY <1>1, <1>2, <1>4, RingPop
<1>6. Pending = s /\ Pending' = Tail(s)
  BY <1>1, <1>3, <1>4, <1>5, PendingIsRing
<1> QED
  BY <1>1, <1>5, <1>6 DEF KeyQueue!Take

LEMMA KeyStepRefines ==
    KeyInv /\ [KeyNext]_keyVars => [KeyQueue!Next]_<<Pending, taken>>
<1> SUFFICES ASSUME KeyInv, [KeyNext]_keyVars
             PROVE  KeyQueue!Next \/ UNCHANGED <<Pending, taken>>
  OBVIOUS
<1>1. CASE \E key \in KeyNames : Make(key)
  BY <1>1, MakeRefines DEF KeyQueue!Next
<1>2. CASE PopAdvance
  BY <1>2, PopRefines DEF KeyQueue!Next
<1>3. CASE \/ \E key \in KeyNames : ShiftMake(key) \/ ShiftBreak(key)
           \/ PopEmpty \/ PopTest \/ PopLoad \/ ShellEdit \/ UNCHANGED keyVars
  BY <1>3 DEF ShiftMake, ShiftBreak, PopEmpty, PopTest, PopLoad, ShellEdit,
              keyVars, ringVars, readerVars, Pending, KbCount
<1> QED
  BY <1>1, <1>2, <1>3 DEF KeyNext, Reader

\* What the shell reads is what was typed, without a loss but for what came
\* when the ring was full, wherever the interrupts hit buf_pop.
THEOREM RingImplements == KeySpec => IsKeyQueue
<1>1. KeyInit => KeyQueue!Init
  <2> SUFFICES ASSUME KeyInit PROVE Pending = <<>> /\ taken = NoChar
    BY DEF KeyQueue!Init
  <2>1. 0 \in Places /\ kb_head = 0 /\ kb_tail = 0
    BY DEF KeyInit, Places
  <2>2. KbCount = 0
    BY <2>1, CountIs DEF KbCount, Count
  <2> QED
    BY <2>2 DEF KeyInit, Pending
<1>2. KeyInv /\ [KeyNext]_keyVars => [KeyQueue!Next]_<<Pending, taken>>
  BY KeyStepRefines
<1> QED
  BY <1>1, <1>2, KeySafe, PTL DEF KeySpec, IsKeyQueue, KeyQueue!Spec
=============================================================================
