----------------------------- MODULE MCShfCalls -----------------------------
EXTENDS ShfCalls

CONSTANTS Reader1, Reader2, Writer

C(op, k, n) == [op |-> op, key |-> k, n |-> n]

\* One process reads and counts, the other one makes garbage.
OneReader(p) ==
  IF p = Writer THEN {C("put", "k2", 0), C("put", "k2", 1), C("del", "k2", 0)}
  ELSE {C("get", k, 0) : k \in Keys} \cup {C("atom", "k2", 1)}
         \cup {C("add", "k1", 1), C("add", "k1", LongMod - 1)}

\* Two processes read, the other one makes garbage.
TwoReaders(p) ==
  IF p = Writer THEN {C("put", k, 0) : k \in Keys} \cup {C("del", "k2", 0)}
  ELSE {C("get", "k1", 0)}

\* Two processes count references to the same key.
TwoCounters(p) == {C("add", "k1", 1), C("add", "k1", LongMod - 1)}
=============================================================================
