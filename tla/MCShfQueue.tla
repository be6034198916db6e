----------------------------- MODULE MCShfQueue -----------------------------
EXTENDS ShfQueue, TLC

TwoEach == [p \in Procs |-> 2]

Symm == Permutations(Procs)
=============================================================================
