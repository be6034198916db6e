----------------------------- MODULE MCShfTable -----------------------------
EXTENDS ShfIterate

Symm == Permutations(Procs)

\* k1 and k2 share a row and a redirect, k3 has the next one, k4 one that only
\* the second split takes away from theirs.
MCHashTab2(k) == CASE k = "k3" -> 1 [] k = "k4" -> 2 [] OTHER -> 0
MCHashRow(k) == 0

\* Long records under the first redirect, short ones under the others.
LongAndShort == {[key |-> k, len |-> IF MCHashTab2(k) = 0 THEN 6 ELSE 1, n |-> 0] : k \in Keys}
TwoLens == LongAndShort \cup {[key |-> "k1", len |-> 1, n |-> 0]}
MCUids == [uid : Uids]
MCKeys == [key : Keys]
=============================================================================
