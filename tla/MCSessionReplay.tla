-------------------------- MODULE MCSessionReplay --------------------------
(* Instances of SessionReplay for TLC: two contents the runtime produces,  *)
(* one or two operations, counters that wrap at two.                     *)
EXTENDS SessionReplay

CONSTANTS op1, op2, m1, m2, summary

(* Contents are interchangeable, and so are operations.                    *)
Symmetry == Permutations({op1, op2}) \cup Permutations({m1, m2})

MCOperations == {op1, op2}
MCMessages   == {op1, op2, m1, m2, summary}
=============================================================================
