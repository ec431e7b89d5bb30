------------------------------ MODULE MCMemory ------------------------------
(* Memory for TLC: the processes are interchangeable.                      *)
EXTENDS Memory, TLC
ProcSymmetry == Permutations(Procs)
=============================================================================
