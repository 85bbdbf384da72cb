----------------------------- MODULE MCMcpStdio -----------------------------
(* Instances of McpStdio for TLC: two tasks and a child that serves two    *)
(* requests at a time, or one, so that answers may come in another order.  *)
EXTENDS McpStdio, TLC

Symmetry == Permutations(Tasks)
=============================================================================
