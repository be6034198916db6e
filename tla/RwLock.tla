------------------------------- MODULE RwLock -------------------------------
(***************************************************************************)
(* What the fair read write lock promises its callers (shf.h, "How does    *)
(* the fair read write locking work?"): requests are served in the order   *)
(* they were made, any number of adjacent readers share the lock, and a    *)
(* writer is alone.  Nothing here is about tickets.                        *)
(***************************************************************************)
CONSTANT Procs

VARIABLES
  state,    \* state[p]: what p is doing with the lock
  before    \* <<q, p>> \in before: both wait and q asked first

vars == <<state, before>>

Waits(p) == state[p] \in {"wantRead", "wantWrite"}

First(p) == ~ \E q \in Procs : <<q, p>> \in before

Init ==
  /\ state = [p \in Procs |-> "out"]
  /\ before = {}

Request(p, want) ==
  /\ state[p] = "out"
  /\ state' = [state EXCEPT ![p] = want]
  /\ before' = before \cup {<<q, p>> : q \in {r \in Procs : Waits(r)}}

Leave(p) == before' = {e \in before : e[1] # p /\ e[2] # p}

GrantReader(p) ==
  /\ state[p] = "wantRead"
  /\ First(p)
  /\ \A q \in Procs : state[q] # "writing"
  /\ state' = [state EXCEPT ![p] = "reading"]
  /\ Leave(p)

GrantWriter(p) ==
  /\ state[p] = "wantWrite"
  /\ First(p)
  /\ \A q \in Procs : state[q] \notin {"reading", "writing"}
  /\ state' = [state EXCEPT ![p] = "writing"]
  /\ Leave(p)

Release(p) ==
  /\ state[p] \in {"reading", "writing"}
  /\ state' = [state EXCEPT ![p] = "out"]
  /\ UNCHANGED before

Next ==
  \E p \in Procs :
    \/ Request(p, "wantRead")
    \/ Request(p, "wantWrite")
    \/ GrantReader(p)
    \/ GrantWriter(p)
    \/ Release(p)

Spec == Init /\ [][Next]_vars
=============================================================================
