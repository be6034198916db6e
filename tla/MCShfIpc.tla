------------------------------ MODULE MCShfIpc ------------------------------
EXTENDS ShfIpc

\* The limit of A's second set, and the one of its first set, which B reads.
ThreeAndTwo == [p \in Procs |-> IF p = A THEN 3 ELSE 2]
=============================================================================
