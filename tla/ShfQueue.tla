------------------------------ MODULE ShfQueue ------------------------------
(***************************************************************************)
(* The zero-copy queues of shf.c, shf_q_new to shf_q_push_head_pull_tail.  *)
(* A list is [head, tail, size] and the links of its items: qids are the   *)
(* shared queues, under the queue lock; push[p] and pull[p] are p's        *)
(* qids_nolock_push and qids_nolock_pull, not shared and not locked, but   *)
(* their links are in the same shared array qiids.  Each of the steps of   *)
(* shf_q_flush is one of its own, so that others push and pull meanwhile.  *)
(***************************************************************************)
EXTENDS Integers, FiniteSets, Sequences, FiniteSetsExt

CONSTANTS
  Procs, qs, q_items,
  qids_nolock_max, \* of every process, as its shf_q_new or shf_q_get set it
  Named           \* the queues shf_q_new_name gave a name, so that calls use them

ASSUME QueueAssumption ==
  /\ qs \in Nat /\ qs > 2
  /\ q_items \in Nat /\ q_items > 1
  /\ qids_nolock_max \in [Procs -> 1 .. q_items - 1]
  /\ Named \subseteq 0 .. qs - 1

VARIABLES
  qids, qiids, push, pull,
  own,       \* own[p]: the items p has pulled and not pushed
  pc,        \* where p is: "idle", "lock", "flush" or "pull"
  pull_qid,  \* the queue p's call pulls from, or QidNone
  lock       \* who holds the queue lock, a set of at most one process

vars == <<qids, qiids, push, pull, own, pc, pull_qid, lock>>

None == -1                       \* SHF_QIID_NONE and SHF_QID_NONE
Qids == 0 .. qs - 1
Items == 0 .. q_items - 1
Empty == [head |-> None, tail |-> None, size |-> 0]

-----------------------------------------------------------------------------
(* Lists.  An operation takes and returns [l, links], a list and the links. *)

(* Appends the chain from item t to item h, of n items, at the head of l.   *)
Splice(x, t, h, n) ==
  LET linked == [x.links EXCEPT ![t].last = x.l.head]
      ended == [linked EXCEPT ![h].next = None]
  IN  [l |-> [head |-> h,
              tail |-> IF x.l.head = None THEN t ELSE x.l.tail,
              size |-> x.l.size + n],
       links |-> IF x.l.head = None THEN ended ELSE [ended EXCEPT ![x.l.head].next = t]]

(* Mutant of DropTail: head outlives the last item. *)
DropTailKeepHead(x) ==
  LET next == x.links[x.l.tail].next
  IN  [l |-> [head |-> x.l.head, tail |-> next, size |-> x.l.size - 1],
       links |-> IF next = None THEN x.links ELSE [x.links EXCEPT ![next].last = None]]

(* Takes the item at the tail of l off it.                                  *)
DropTail(x) ==
  LET next == x.links[x.l.tail].next
  IN  [l |-> [head |-> IF next = None THEN None ELSE x.l.head, tail |-> next,
              size |-> x.l.size - 1],
       links |-> IF next = None THEN x.links ELSE [x.links EXCEPT ![next].last = None]]

(* The items of l in the order in which the links lead from its tail.       *)
Walk(l) ==
  LET item[n \in 1 .. l.size] == IF n = 1 THEN l.tail ELSE qiids[item[n - 1]].next
  IN  [n \in 1 .. l.size |-> item[n]]

-----------------------------------------------------------------------------
(* What shf_q_new leaves: all the items on queue 0, in order, and no more.  *)
NewQids == [q \in Qids |-> IF q = 0 THEN [head |-> q_items - 1, tail |-> 0, size |-> q_items]
                           ELSE Empty]
NewQiids == [i \in Items |-> [last |-> i - 1, next |-> IF i = q_items - 1 THEN None ELSE i + 1]]
NewLists == [q \in Qids |-> Empty]

Init ==
  /\ qids = NewQids
  /\ qiids = NewQiids
  /\ push = [p \in Procs |-> NewLists]
  /\ pull = [p \in Procs |-> NewLists]
  /\ own = [p \in Procs |-> {}]
  /\ pc = [p \in Procs |-> "idle"]
  /\ pull_qid = [p \in Procs |-> None]
  /\ lock = {}

(* The first half of a push, up to the test whether to flush.               *)
PushLocal(p, q, i) ==
  LET x == Splice([l |-> push[p][q], links |-> qiids], i, i, 1)
  IN  /\ i \in own[p]
      /\ push' = [push EXCEPT ![p][q] = x.l]
      /\ qiids' = x.links
      /\ own' = [own EXCEPT ![p] = @ \ {i}]

Goto(p, l, r) ==
  /\ pc' = [pc EXCEPT ![p] = l]
  /\ pull_qid' = [pull_qid EXCEPT ![p] = r]

PushHead(p, q, i) ==
  /\ pc[p] = "idle"
  /\ PushLocal(p, q, i)
  /\ Goto(p, IF push'[p][q].size >= qids_nolock_max[p] THEN "lock" ELSE "idle", None)
  /\ UNCHANGED <<qids, pull, lock>>

PullTail(p, r) ==
  /\ pc[p] = "idle"
  /\ Goto(p, IF pull[p][r].size = 0 THEN "lock" ELSE "pull", r)
  /\ UNCHANGED <<qids, qiids, push, pull, own, lock>>

(* Mutant of FlushOrPull: an empty pull list is not a reason to flush. *)
FlushOrPullFull(p, q, r) ==
  Goto(p, IF push'[p][q].size >= qids_nolock_max[p] \/ (push'[p][q].size = 0 /\ pull[p][r].size = 0)
          THEN "lock" ELSE "pull", r)

(* shf_q_push_head_pull_tail, with an item to push or with none.            *)
FlushOrPull(p, q, r) ==
  Goto(p, IF push'[p][q].size >= qids_nolock_max[p] \/ pull[p][r].size = 0 THEN "lock" ELSE "pull", r)

PushHeadPullTail(p, q, i, r) ==
  /\ pc[p] = "idle"
  /\ PushLocal(p, q, i)
  /\ FlushOrPull(p, q, r)
  /\ UNCHANGED <<qids, pull, lock>>

PushNonePullTail(p, q, r) ==
  /\ pc[p] = "idle"
  /\ UNCHANGED push
  /\ FlushOrPull(p, q, r)
  /\ UNCHANGED <<qids, qiids, pull, own, lock>>

-----------------------------------------------------------------------------
(* shf_q_flush. *)

Lock(p) ==
  /\ pc[p] = "lock"
  /\ lock = {}
  /\ lock' = {p}
  /\ pc' = [pc EXCEPT ![p] = "flush"]
  /\ UNCHANGED <<qids, qiids, push, pull, own, pull_qid>>

Unflushed(p) == {q \in Qids : push[p][q].size > 0}

(* Mutant of FlushPush: the batch is not emptied. *)
FlushPushKeepBatch(p) ==
  LET q == Min(Unflushed(p))
      b == push[p][q]
      x == Splice([l |-> qids[q], links |-> qiids], b.tail, b.head, b.size)
  IN  /\ pc[p] = "flush"
      /\ Unflushed(p) # {}
      /\ qids' = [qids EXCEPT ![q] = x.l]
      /\ qiids' = x.links
      /\ UNCHANGED <<push, pull, own, pc, pull_qid, lock>>

FlushPush(p) ==
  LET q == Min(Unflushed(p))
      b == push[p][q]
      x == Splice([l |-> qids[q], links |-> qiids], b.tail, b.head, b.size)
  IN  /\ pc[p] = "flush"
      /\ Unflushed(p) # {}
      /\ qids' = [qids EXCEPT ![q] = x.l]
      /\ qiids' = x.links
      /\ push' = [push EXCEPT ![p][q] = Empty]
      /\ UNCHANGED <<pull, own, pc, pull_qid, lock>>

(* Mutant of ToPull: it forgets what is on the pull list already. *)
ToPullMax(p, r) == IF qids[r].size < qids_nolock_max[p] THEN qids[r].size ELSE qids_nolock_max[p]

(* How many items to move to the pull list. *)
ToPull(p, r) ==
  LET max == qids_nolock_max[p]
      room == IF pull[p][r].size < max THEN max - pull[p][r].size ELSE 0
  IN  IF qids[r].size < room THEN qids[r].size ELSE room

FillPull(p) ==
  LET r == pull_qid[p]
      n == ToPull(p, r)
      t == qids[r].tail
      h == Walk(qids[r])[n]
      rest == qiids[h].next
      x == Splice([l |-> pull[p][r], links |-> qiids], t, h, n)
      left == qids[r].size - n
  IN  /\ pc[p] = "flush" /\ Unflushed(p) = {}
      /\ r # None
      /\ IF n = 0 THEN UNCHANGED <<qids, qiids, pull>>
         ELSE /\ pull' = [pull EXCEPT ![p][r] = x.l]
              /\ qiids' = x.links
              /\ qids' = [qids EXCEPT ![r] = IF left = 0 THEN Empty
                                             ELSE [@ EXCEPT !.size = left, !.tail = rest]]
      /\ lock' = {}
      /\ pc' = [pc EXCEPT ![p] = "pull"]
      /\ UNCHANGED <<push, own, pull_qid>>

FlushDone(p) ==
  /\ pc[p] = "flush" /\ Unflushed(p) = {}
  /\ pull_qid[p] = None
  /\ lock' = {}
  /\ pc' = [pc EXCEPT ![p] = "idle"]
  /\ UNCHANGED <<qids, qiids, push, pull, own, pull_qid>>

-----------------------------------------------------------------------------
(* The last part of a pull. *)
PullLocal(p) ==
  LET r == pull_qid[p]
      x == DropTail([l |-> pull[p][r], links |-> qiids])
  IN  /\ pc[p] = "pull"
      /\ IF pull[p][r].size = 0 THEN UNCHANGED <<qiids, pull, own>>
         ELSE /\ pull' = [pull EXCEPT ![p][r] = x.l]
              /\ qiids' = x.links
              /\ own' = [own EXCEPT ![p] = @ \cup {pull[p][r].tail}]
      /\ Goto(p, "idle", None)
      /\ UNCHANGED <<qids, push, lock>>

(* The process exits, and shf_q_get of the next one starts with new lists.  *)
Leave(p) ==
  /\ pc[p] = "idle"
  /\ push' = [push EXCEPT ![p] = NewLists]
  /\ pull' = [pull EXCEPT ![p] = NewLists]
  /\ own' = [own EXCEPT ![p] = {}]
  /\ UNCHANGED <<qids, qiids, pc, pull_qid, lock>>

Next ==
  \E p \in Procs :
    \/ \E q \in Named, i \in Items : PushHead(p, q, i)
    \/ \E r \in Named : PullTail(p, r)
    \/ \E q, r \in Named, i \in Items : PushHeadPullTail(p, q, i, r)
    \/ \E q, r \in Named : PushNonePullTail(p, q, r)
    \/ Lock(p) \/ FlushPush(p) \/ FillPull(p) \/ FlushDone(p) \/ PullLocal(p)
    \/ Leave(p)

Spec == Init /\ [][Next]_vars

-----------------------------------------------------------------------------
(* Properties. *)

Lists == {qids[q] : q \in Qids}
           \cup {push[p][q] : p \in Procs, q \in Qids} \cup {pull[p][q] : p \in Procs, q \in Qids}

TypeOK ==
  /\ \A l \in Lists : l \in [head : Items \cup {None}, tail : Items \cup {None}, size : 0 .. q_items]
  /\ qiids \in [Items -> [last : Items \cup {None}, next : Items \cup {None}]]
  /\ own \in [Procs -> SUBSET Items]
  /\ pc \in [Procs -> {"idle", "lock", "flush", "pull"}]
  /\ pull_qid \in [Procs -> Qids \cup {None}]
  /\ lock \in {{}} \cup {{p} : p \in Procs}

(* The assertions of shf_q_flush and shf_q_pull_tail: size counts exactly  *)
(* the items the next links lead through, from tail to head, with nothing  *)
(* after head.                                                             *)
ListsSound ==
  \A l \in Lists :
    IF l.size = 0 THEN l = Empty
    ELSE Walk(l)[l.size] = l.head /\ qiids[l.head].next = None

(* No item is in two places: not on two lists, not twice on one, not on a  *)
(* list and in a process's hands, whoever flushes, pushes and pulls when.  *)
Places ==
  {<<"queue", q>> : q \in Qids} \cup {<<"push", p, q>> : p \in Procs, q \in Qids}
    \cup {<<"pull", p, q>> : p \in Procs, q \in Qids}

ListAt(x) == CASE x[1] = "queue" -> qids[x[2]]
               [] x[1] = "push" -> push[x[2]][x[3]]
               [] OTHER -> pull[x[2]][x[3]]

ItemsAt(x) == LET w == Walk(ListAt(x)) IN {w[n] : n \in DOMAIN w}

NoItemTwice ==
  /\ \A x \in Places : Cardinality(ItemsAt(x)) = ListAt(x).size
  /\ \A x, y \in Places : x # y => ItemsAt(x) \cap ItemsAt(y) = {}
  /\ \A x \in Places, p \in Procs : ItemsAt(x) \cap own[p] = {}
  /\ \A p, r \in Procs : p # r => own[p] \cap own[r] = {}

(* The lists read along their links.                                       *)
QueueItems == [q \in Qids |-> Walk(qids[q])]
OutItems == [p \in Procs |-> [q \in Qids |-> Walk(push[p][q])]]
InItems == [p \in Procs |-> [q \in Qids |-> Walk(pull[p][q])]]

Abstract == INSTANCE BatchQueue WITH
              BatchMax <- qids_nolock_max, queue <- QueueItems, out <- OutItems, in <- InItems

(* Refinement: read along their links, the lists are the sequences of      *)
(* BatchQueue, so that items of one batch keep their order and their       *)
(* neighbours all the way through a queue.                                 *)
ImplementsBatchQueue == Abstract!Spec
=============================================================================
