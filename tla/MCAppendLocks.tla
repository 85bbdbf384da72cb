--------------------------- MODULE MCAppendLocks ---------------------------
(* Instances of AppendLocks for TLC: more paths than the threshold, so     *)
(* that lookups sweep, and as few addresses as the tasks and the table     *)
(* can keep allocated, so that they are used again.                        *)
EXTENDS AppendLocks, TLC

Symmetry == Permutations(Tasks) \cup Permutations(Paths)
=============================================================================
