------------------------------ MODULE MCFiles -------------------------------
(* Files for TLC: one file is shorter than the other.                      *)
EXTENDS Files
MCFileSize == [path \in Paths |-> IF path = "f" THEN 2 ELSE 1]
=============================================================================
