------------------------------ MODULE FileStore -----------------------------
(***************************************************************************)
(* What BobFS (src/28_posix/fs.c) promises of the files on the disk: a     *)
(* file appears with all its data or not at all, is never changed, and     *)
(* disappears whole.  A loss of power changes nothing.                     *)
(***************************************************************************)
CONSTANTS Names, Contents, NoFile   \* Contents: what a file can hold

VARIABLE files   \* what a system that boots now would find

Init == files = [n \in Names |-> NoFile]

Create(n, c) == files[n] = NoFile /\ files' = [files EXCEPT ![n] = c]

Delete(n) == files' = [files EXCEPT ![n] = NoFile]

Next == \E n \in Names : Delete(n) \/ \E c \in Contents : Create(n, c)

Spec == Init /\ [][Next]_files
=============================================================================
