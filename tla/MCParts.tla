------------------------------ MODULE MCParts -------------------------------
(***************************************************************************)
(* The components that share no state with one another, for TLC: part      *)
(* says which of them a behaviour is about, and the others stay as they    *)
(* are at the start.                                                       *)
(***************************************************************************)
EXTENDS Heap, Pipe, MCFiles, Keyboard, PriorityScheduler, SharedMemory,
        Network, Collector

VARIABLE part

\* What may be on the wire beside the frames of the peer: some that net_poll,
\* ip_input and udp_input turn away, for their type or for a header that is
\* not whole, and some that they let through although the UDP header claims
\* too little or too much or the IP header has options.
Peer == UdpFrame(1, 1)
MCForeign == {[Peer EXCEPT !.ethertype = "ARP"],
              [Peer EXCEPT !.proto = "ICMP", !.carried = 5],
              [Peer EXCEPT !.ihl = 5], [Peer EXCEPT !.ihl = 4],
              [Peer EXCEPT !.length = 0], [Peer EXCEPT !.length = 3],
              [Peer EXCEPT !.dst = "broadcast", !.ihl = 3,
                           !.length = 4, !.carried = 7]}

Init == /\ part \in {"heap", "pipe", "files", "keyboard", "sched", "shm", "net", "gc"}
        /\ HeapInit /\ PipeInit /\ FilesInit /\ KeyInit /\ SchedInit /\ ShmInit
        /\ NetInit /\ GcInit

HeapStep == /\ part = "heap" /\ HeapNext
            /\ UNCHANGED <<part, pipeVars, fileVars, keyVars, schedVars,
                            shmVars, netVars, gcVars>>
PipeStep == /\ part = "pipe" /\ PipeNext
            /\ UNCHANGED <<part, blocks, fileVars, keyVars, schedVars, shmVars,
                            netVars, gcVars>>
FilesStep == /\ part = "files" /\ FilesNext
             /\ UNCHANGED <<part, blocks, pipeVars, keyVars, schedVars,
                             shmVars, netVars, gcVars>>
KeyStep == /\ part = "keyboard" /\ KeyNext
           /\ UNCHANGED <<part, blocks, pipeVars, fileVars, schedVars, shmVars,
                           netVars, gcVars>>
SchedOnly == /\ part = "sched"
             /\ UNCHANGED <<part, blocks, pipeVars, fileVars, keyVars,
                             shmVars, netVars, gcVars>>
ShmStep == /\ part = "shm" /\ ShmNext
           /\ UNCHANGED <<part, blocks, pipeVars, fileVars, keyVars, schedVars,
                           netVars, gcVars>>
NetStep == /\ part = "net" /\ NetNext
           /\ UNCHANGED <<part, blocks, pipeVars, fileVars, keyVars, schedVars,
                           shmVars, gcVars>>
GcStep == /\ part = "gc" /\ GcNext
          /\ UNCHANGED <<part, blocks, pipeVars, fileVars, keyVars, schedVars,
                          shmVars, netVars>>

Next == \/ HeapStep \/ PipeStep \/ FilesStep \/ KeyStep \/ ShmStep \/ NetStep \/ GcStep
        \/ (SchedNext /\ SchedOnly)

allVars == <<part, blocks, pipeVars, fileVars, keyVars, schedVars, shmVars,
             netVars, gcVars>>

\* The timer interrupt comes again and again.
Spec == Init /\ [][Next]_allVars /\ WF_allVars(SchedTick /\ SchedOnly)
=============================================================================
