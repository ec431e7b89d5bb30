----------------------------- MODULE MCProcess -----------------------------
(* Process for TLC, with a bound on what one behaviour combines.           *)
EXTENDS Process

\* No further than the first state with both a slot of a thread and a process
\* whose dispositions are not those it was booted with.
ThreadsOrHandlers == \/ \A s \in Slots : kind[s] # "thread"
                     \/ \A s \in Slots : handler[s] = handler[0]
=============================================================================
