--------------------------- MODULE MCSessionStore ---------------------------
(* Instances of SessionStore for TLC.  Tasks, inodes and operations are    *)
(* interchangeable; each configuration says which of them it has.          *)
EXTENDS SessionStore

MCMessages == Operations \cup ((1 .. MaxCalls) \X (1 .. MaxBatch))
OneKey     == [t \in Tasks |-> CHOOSE k \in Keys : TRUE]
TwoKeys    == CHOOSE f \in [Tasks -> Keys] : \A t, u \in Tasks : t # u => f[t] # f[u]
WholeLogs  == {<<Meta, Message(<<1, 1>>)>>, <<Meta, Note, Message(<<1, 1>>)>>}
Symmetry   == Permutations(Tasks) \cup Permutations(Inodes) \cup Permutations(Operations)
InodeSymmetry == Permutations(Inodes)
=============================================================================
