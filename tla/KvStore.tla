------------------------------ MODULE KvStore ------------------------------
(***************************************************************************)
(* What a window of the key value store promises: a record put under a key *)
(* gets a UID and stays reachable under that UID, unchanged, until it is   *)
(* deleted, whatever tables are split or shrunk meanwhile.                 *)
(***************************************************************************)
EXTENDS Naturals

CONSTANTS Uids, Keys, Lens, Nums, NoRec, UidsOf(_)   \* UidsOf(k): the UIDs k may get

VARIABLE recs     \* recs[u]: the record with UID u, or NoRec

Init == recs = [u \in Uids |-> NoRec]

Put ==
  \E k \in Keys, len \in Lens, n \in Nums, u \in Uids :
    /\ u \in UidsOf(k)
    /\ recs[u] = NoRec
    /\ recs' = [recs EXCEPT ![u] = [key |-> k, len |-> len, n |-> n]]

Del ==
  \E u \in Uids :
    /\ recs[u] # NoRec
    /\ recs' = [recs EXCEPT ![u] = NoRec]

(* shf_upd_*() and shf_add_*(): a value changes in place, its length never. *)
Change ==
  \E u \in Uids, n \in Nums :
    /\ recs[u] # NoRec
    /\ recs' = [recs EXCEPT ![u].n = n]

Next == Put \/ Del \/ Change

Spec == Init /\ [][Next]_recs
=============================================================================
