----------------------------- MODULE BatchQueue -----------------------------
(***************************************************************************)
(* What the zero-copy queues promise (shf.h, "Zero-Copy IPC Queues"): a    *)
(* fixed set of items moves between the processes that own them and a set  *)
(* of queues.  A process pushes into a batch of its own, which reaches the *)
(* queue as a whole, and pulls from a batch it took off the queue's tail.  *)
(* Batches are lost with their process.                                    *)
(***************************************************************************)
EXTENDS Naturals, Sequences

CONSTANTS Procs, Qids, Items, BatchMax

VARIABLES own, out, queue, in    \* a sequence starts at its tail

vars == <<own, out, queue, in>>

Init ==
  /\ own = [p \in Procs |-> {}]
  /\ out = [p \in Procs |-> [q \in Qids |-> <<>>]]
  /\ in = [p \in Procs |-> [q \in Qids |-> <<>>]]
  /\ \E s \in [1 .. Len(queue[0]) -> Items] :
       /\ queue = [q \in Qids |-> IF q = 0 THEN s ELSE <<>>]
       /\ \A i \in Items : \E n \in DOMAIN s : s[n] = i
       /\ \A n, k \in DOMAIN s : n # k => s[n] # s[k]

Push(p, q, i) ==
  /\ i \in own[p]
  /\ own' = [own EXCEPT ![p] = @ \ {i}]
  /\ out' = [out EXCEPT ![p][q] = Append(@, i)]
  /\ UNCHANGED <<queue, in>>

(* A batch reaches the queue in one piece. *)
Flush(p, q) ==
  /\ queue' = [queue EXCEPT ![q] = @ \o out[p][q]]
  /\ out' = [out EXCEPT ![p][q] = <<>>]
  /\ UNCHANGED <<own, in>>

Fill(p, q, n) ==
  /\ n <= Len(queue[q]) /\ n + Len(in[p][q]) <= BatchMax[p]
  /\ in' = [in EXCEPT ![p][q] = @ \o SubSeq(queue[q], 1, n)]
  /\ queue' = [queue EXCEPT ![q] = SubSeq(@, n + 1, Len(@))]
  /\ UNCHANGED <<own, out>>

Pull(p, q) ==
  /\ in[p][q] # <<>>
  /\ own' = [own EXCEPT ![p] = @ \cup {Head(in[p][q])}]
  /\ in' = [in EXCEPT ![p][q] = Tail(@)]
  /\ UNCHANGED <<out, queue>>

Leave(p) ==
  /\ own' = [own EXCEPT ![p] = {}]
  /\ out' = [out EXCEPT ![p] = [q \in Qids |-> <<>>]]
  /\ in' = [in EXCEPT ![p] = [q \in Qids |-> <<>>]]
  /\ UNCHANGED queue

Next ==
  \E p \in Procs :
    \/ Leave(p)
    \/ \E q \in Qids : \/ Flush(p, q)
                       \/ Pull(p, q)
                       \/ \E i \in Items : Push(p, q, i)
                       \/ \E n \in 1 .. BatchMax[p] : Fill(p, q, n)

Spec == Init /\ [][Next]_vars
=============================================================================
