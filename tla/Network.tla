------------------------------ MODULE Network -------------------------------
(***************************************************************************)
(* The network stack of src/26_network: the receive ring that ne2000.c     *)
(* shares with the NIC, the pump of net.c, the filters of ip.c and the     *)
(* sockets of udp.c.  The NIC writes frames between any two steps of the   *)
(* driver.  A length counts bytes, or any unit that the instance chooses.  *)
(***************************************************************************)
EXTENDS Integers, Sequences, FiniteSets

CONSTANTS
    RxStart, RxStop,  \* NE_RX_PAGE_START, NE_RX_PAGE_STOP (0x46, 0x80)
    PageSize,         \* a page of the ring (256)
    LinkHdr,          \* what stands in the ring before the IP header
    IpHdr, UdpHdr,    \* sizeof(struct ip_hdr), sizeof(struct udp_hdr) (20, 8)
    MinCarried,       \* what ne2000_send pads a short frame to (46)
    LengthWrap,       \* 2^16: the length field of a UDP header
    NSockets,         \* UDP_MAX_SOCKETS (8)
    UdpBuf,           \* UDP_BUF_SIZE (512)
    Ports,
    Foreign,          \* frames that are not made by udp_send
    MaxFrames         \* bound: how many frames the NIC takes in

ASSUME RingAssumption ==
    RxStart \in Nat \ {0} /\ RxStop \in Nat /\ RxStart + 1 < RxStop
ASSUME NetSizesAssumption ==
    /\ {NSockets, UdpBuf, PageSize, LengthWrap} \subseteq Nat \ {0}
    /\ {LinkHdr, IpHdr, UdpHdr, MinCarried} \subseteq Nat
    /\ UdpHdr + UdpBuf < LengthWrap
ASSUME ForeignAssumption == \A f \in Foreign :
    {f.carried, f.ihl} \subseteq Nat /\ f.length \in 0 .. LengthWrap - 1

Pages == RxStart .. RxStop - 1
Sockets == 0 .. NSockets - 1
Empty == [id |-> 0, len |-> 0, own |-> 0]

\* The frame that reaches us for a udp_send of n bytes: carried is how long it
\* is behind the Ethernet header, ihl the size that the IP header says it has,
\* length what the UDP header says of itself and the data.
UdpFrame(port, n) ==
    LET total == IpHdr + UdpHdr + n
    IN [ethertype |-> "IP", version |-> 4, ihl |-> IpHdr, dst |-> "me",
        proto |-> "UDP", port |-> port, length |-> UdpHdr + n,
        carried |-> IF total < MinCarried THEN MinCarried ELSE total]
Wire == Foreign \cup {UdpFrame(port, n) : port \in Ports, n \in 0 .. UdpBuf}

VARIABLES
    ring,     \* by page: which part of which frame, and the header
    curr,     \* the NIC's CURR: the page where the next frame will start
    bnry,     \* the NIC's BNRY: the last page that the driver has done with
    nicPc,    \* where ne2000_recv is: "poll", "header", "data", "advance"
    hdr,      \* read_page and the header it has read there
    rx_buf,   \* what it has copied of the frame so far
    sockets,
    arrived,  \* history: the frames taken in by the NIC
    polled,   \* history: how many of them net_poll has seen
    got,      \* history, by socket: the last frame that recvfrom has returned
    boundAt   \* history, by socket: polled when it was bound

nicVars == <<ring, curr, arrived>>
recvVars == <<bnry, nicPc, hdr, rx_buf, polled>>
sockVars == <<sockets, got, boundAt>>
netVars == <<nicVars, recvVars, sockVars>>

NoPart == [id |-> 0, part |-> 0, next |-> 0, pages |-> 0]

\* ne2000_init
NetInit ==
    /\ ring = [p \in Pages |-> NoPart]
    /\ bnry = RxStart /\ curr = RxStart + 1
    /\ nicPc = "poll" /\ hdr = NoPart /\ rx_buf = <<>>
    /\ sockets = [s \in Sockets |->
                    [bound |-> FALSE, port |-> 0, valid |-> FALSE, rx |-> Empty]]
    /\ arrived = <<>> /\ polled = 0
    /\ got = [s \in Sockets |-> 0] /\ boundAt = got

-----------------------------------------------------------------------------
\* The NIC: a frame goes into the pages from CURR on, unless it would come to
\* the page BNRY (the NIC compares, nothing more); then it is lost.
PagesOf(f) == 1 + (LinkHdr + f.carried) \div PageSize
Around(p, n) == RxStart + ((p - RxStart + n) % (RxStop - RxStart))
HasPages(n) == \A k \in 0 .. n - 1 : Around(curr, k) # bnry

Arrives(f) ==
    /\ Len(arrived) < MaxFrames
    /\ HasPages(PagesOf(f))
    /\ LET n == PagesOf(f)
           At(p) == (p - curr) % (RxStop - RxStart)
       IN /\ ring' = [p \in Pages |->
               IF At(p) < n
               THEN [id |-> Len(arrived) + 1, part |-> At(p) + 1,
                     next |-> Around(curr, n), pages |-> n]
               ELSE ring[p]]
          /\ curr' = Around(curr, n)
    /\ arrived' = Append(arrived, f)
    /\ UNCHANGED <<recvVars, sockVars>>

\* ne2000_recv: CURR and BNRY tell whether there is a frame.
ReadPage == IF bnry + 1 >= RxStop THEN RxStart ELSE bnry + 1

Poll == /\ nicPc = "poll"
        /\ ReadPage # curr
        /\ nicPc' = "header"
        /\ UNCHANGED <<nicVars, bnry, hdr, rx_buf, polled, sockVars>>

ReadHeader == /\ nicPc = "header"
              /\ hdr' = ring[ReadPage] /\ rx_buf' = <<>> /\ nicPc' = "data"
              /\ UNCHANGED <<nicVars, bnry, polled, sockVars>>

\* ne_remote_read; the NIC's remote DMA goes on at RxStart by itself.
ReadData == /\ nicPc = "data"
            /\ rx_buf' = Append(rx_buf, ring[Around(ReadPage, Len(rx_buf))])
            /\ nicPc' = IF Len(rx_buf') = hdr.pages THEN "advance" ELSE "data"
            /\ UNCHANGED <<nicVars, bnry, hdr, polled, sockVars>>

NewBnryPlain == hdr.next - 1   \* mutant: no wrap
NewBnry == IF hdr.next - 1 < RxStart THEN RxStop - 1 ELSE hdr.next - 1

-----------------------------------------------------------------------------
\* ip_input: a whole header, IPv4 with or without options, for us or for
\* everybody, UDP.
IpAccepts(f) == /\ f.ethertype = "IP"
                /\ f.carried >= IpHdr /\ f.version = 4
                /\ f.ihl >= IpHdr /\ f.carried >= f.ihl
                /\ f.dst \in {"me", "broadcast"}
                /\ f.proto = "UDP"

\* udp_input: a whole header.  It believes the length there, less the header
\* in 16 bits, and not what the frame carries: the bytes behind the frame are
\* those that earlier frames left in the buffer.
Delivers(f) == IpAccepts(f) /\ f.carried - f.ihl >= UdpHdr
Smaller(m, n) == IF m < n THEN m ELSE n
DataLen(f) == Smaller((f.length - UdpHdr) % LengthWrap, UdpBuf)
OwnLen(f) == Smaller(DataLen(f), f.carried - f.ihl - UdpHdr)
Datagram(id, f) == [id |-> id, len |-> DataLen(f), own |-> OwnLen(f)]

\* The first socket that is bound to the port gets it.
BoundTo(port) == {s \in Sockets : sockets[s].bound /\ sockets[s].port = port}
UdpInputKeeps(id, f) ==   \* mutant: what is not yet read is kept
    [s \in Sockets |->
        IF /\ s \in BoundTo(f.port) /\ \A t \in BoundTo(f.port) : s <= t
           /\ ~sockets[s].valid
        THEN [sockets[s] EXCEPT !.valid = TRUE, !.rx = Datagram(id, f)]
        ELSE sockets[s]]
UdpInput(id, f) ==
    [s \in Sockets |->
        IF s \in BoundTo(f.port) /\ \A t \in BoundTo(f.port) : s <= t
        THEN [sockets[s] EXCEPT !.valid = TRUE, !.rx = Datagram(id, f)]
        ELSE sockets[s]]

\* The end of ne2000_recv, and net_poll's dispatch of what it returned.
Dispatch == /\ nicPc = "advance"
            /\ bnry' = NewBnry /\ nicPc' = "poll"
            /\ polled' = polled + 1
            /\ LET f == arrived[rx_buf[1].id]
               IN sockets' = IF Delivers(f) THEN UdpInput(rx_buf[1].id, f)
                             ELSE sockets
            /\ UNCHANGED <<nicVars, hdr, rx_buf, got, boundAt>>

\* udp_bind: the first socket that is free; the port may be taken already.
UdpBind(port) == \E s \in Sockets :
    /\ ~sockets[s].bound /\ \A t \in Sockets : t < s => sockets[t].bound
    /\ sockets' = [sockets EXCEPT ![s].bound = TRUE, ![s].port = port,
                                  ![s].valid = FALSE]
    /\ boundAt' = [boundAt EXCEPT ![s] = polled]
    /\ UNCHANGED <<nicVars, recvVars, got>>

\* udp_recvfrom on a socket that holds a datagram; otherwise it returns 0.
AfterReadKept(s) == sockets   \* mutant: valid is not cleared
AfterRead(s) == [sockets EXCEPT ![s].valid = FALSE]

UdpRecvfrom(s) == /\ sockets[s].valid
                  /\ got' = [got EXCEPT ![s] = sockets[s].rx.id]
                  /\ sockets' = AfterRead(s)
                  /\ UNCHANGED <<nicVars, recvVars, boundAt>>

Driver == Poll \/ ReadHeader \/ ReadData \/ Dispatch
NetNext == \/ Driver
           \/ \E f \in Wire : Arrives(f)
           \/ \E port \in Ports : UdpBind(port)
           \/ \E s \in Sockets : UdpRecvfrom(s)

NetSpec == NetInit /\ [][NetNext]_netVars

-----------------------------------------------------------------------------
\* net_poll sees every frame that the NIC took in, once, in order and whole,
\* while the NIC writes the next ones into the same ring and either of them
\* wraps.
Whole(copied) == \A i \in 1 .. Len(copied) :
                     copied[i].part = i /\ copied[i].id = polled + 1
FramesInOrder ==
    /\ nicPc \in {"data", "advance"} => Whole(rx_buf)
    /\ nicPc = "advance" => Len(rx_buf) = PagesOf(arrived[polled + 1])
    /\ nicPc = "poll" /\ ReadPage = curr => polled = Len(arrived)

\* The first socket bound to a port has the newest datagram that net_poll has
\* seen for the port since it was bound, or has already returned it; other
\* sockets of the port have none.  If its header does not claim more than came,
\* nor less than itself, it is as long as it was sent or as the buffer allows,
\* and nothing of it is left from an earlier frame.
ForPort(port) == {i \in 1 .. polled : Delivers(arrived[i]) /\ arrived[i].port = port}
Honest(f) == UdpHdr <= f.length /\ f.ihl + f.length <= f.carried
NewestDelivered ==
    \A s \in Sockets :
        LET came == {i \in ForPort(sockets[s].port) : i > boundAt[s]}
            first == \A t \in BoundTo(sockets[s].port) : s <= t
            rx == sockets[s].rx
        IN sockets[s].bound =>
             /\ sockets[s].valid =>
                  /\ first /\ rx.id \in came
                  /\ \A i \in came : i <= rx.id
                  /\ rx.own <= rx.len /\ rx.len <= UdpBuf
                  /\ Honest(arrived[rx.id]) =>
                       /\ rx.len = Smaller(arrived[rx.id].length - UdpHdr, UdpBuf)
                       /\ rx.own = rx.len
             /\ ~sockets[s].valid /\ first => \A i \in came : i <= got[s]

\* recvfrom never returns a datagram twice, nor one older than it returned
\* before.
NeverOlder == \A s \in Sockets : sockets[s].valid => sockets[s].rx.id > got[s]
=============================================================================
