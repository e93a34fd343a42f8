------------------------------ MODULE MCSelfUpdate ------------------------------
(* Instances of SelfUpdate: version 1 is installed, 2 and 3 can be released. *)
EXTENDS SelfUpdate, TLC

CONSTANTS d1, d2

ProcSymmetry == Permutations(Procs)
OneDep  == [v \in Versions |-> d1]
TwoDeps == [v \in Versions |-> IF v = 1 THEN d1 ELSE d2]
=================================================================================
