------------------------------- MODULE ShfIpc -------------------------------
(***************************************************************************)
(* Two processes at work with a queue set, as the programs of test.q.shf.c *)
(* are: A creates the set and the names, moves all items to the queue a2b, *)
(* starts B, and they play ping-pong between two races.  Before that A     *)
(* does what the program of test.9.shf.c does: it makes a set, deletes it, *)
(* makes another and moves its items through all the queues.               *)
(* The calls on the queues are those of ShfQueue, step by step; what this  *)
(* module adds is shf_q_new, shf_q_get, shf_q_del, shf_q_new_name,         *)
(* shf_q_get_name, shf_race_init and shf_race_start.                       *)
(***************************************************************************)
EXTENDS ShfQueue

CONSTANTS
  A, B,
  TestPullItems    \* TEST_PULL_ITEMS

ASSUME IpcAssumption ==
  /\ Procs = {A, B} /\ A # B /\ TestPullItems \in Nat \ {0}
  /\ qs = 3 /\ Named = Qids

VARIABLES
  line,    \* where p's program is; "failed" after an assertion, "timeout" after six seconds
  kv,      \* kv[k]: the values put under key k and not deleted, in the order a get finds them
           \* (no two of these keys are in one row, so that it is the order of the puts)
  hq,      \* hq[p]: the rest of p's SHF_Q
  count,   \* count[p]: test_pull_items, no further than TestPullItems or q_items + 1
  round,   \* how often A has begun to move all the items
  stamp    \* stamp[i]: the number A stored in item i

test == <<round, stamp>>
ivars == <<vars, line, kv, hq, count, test>>

Settings == {"__qs", "__q_items", "__q_item_size", "__qids_nolock_max", "__qids", "__qiids",
             "__q_lock", "__q_items_addr"}
Names == <<"qid-free", "qid-a2b", "qid-b2a">>
Races == {"test-q-race-line", "test-lock-race-line"}
Keys == Settings \cup {Names[n] : n \in DOMAIN Names} \cup Races

horses == 2

(* set: which of the sets made each of its settings is of; qid: the queue   *)
(* each name stands for; lists: qids_nolock_push and qids_nolock_pull.      *)
NoQ == [q_is_ready |-> FALSE, lists |-> "null", q_next |-> 0,
        set |-> [k \in Settings |-> 0], qid |-> <<>>]

At(p, l) == line[p] = l /\ pc[p] = "idle"
Move(p, l) == line' = [line EXCEPT ![p] = l]

(* An assertion: go on to l if it holds. *)
Assert(p, holds, l) == Move(p, IF holds THEN l ELSE "failed")

-----------------------------------------------------------------------------
(* shf_race_init puts one byte of zero.                                     *)
RaceInit(p) ==
  /\ At(p, "init")
  /\ kv' = [k \in Keys |-> IF k \in Races THEN Append(kv[k], 0) ELSE kv[k]]
  /\ Move(p, "new")
  /\ UNCHANGED <<vars, hq, count, test>>

(* shf_q_new makes set number s. *)
QNew(p, s) ==
  /\ At(p, IF s = 1 THEN "new" ELSE "newer")
  /\ kv' = [k \in Keys |-> IF k \in Settings THEN Append(kv[k], s) ELSE kv[k]]
  /\ hq' = [hq EXCEPT ![p].q_is_ready = TRUE, ![p].lists = "live",
                      ![p].set = [k \in Settings |-> s]]
  /\ qids' = NewQids /\ qiids' = NewQiids
  /\ push' = [push EXCEPT ![p] = NewLists] /\ pull' = [pull EXCEPT ![p] = NewLists]
  /\ Assert(p, ~hq[p].q_is_ready, IF s = 1 THEN "name" ELSE "fill")
  /\ UNCHANGED <<own, pc, pull_qid, lock, count, test>>

(* Mutant of QNewName: one queue is kept back. *)
QNewNameButLast(p) ==
  LET n == hq[p].q_next
      name == Names[n + 1]
      unique == kv[name] = <<>>
  IN  /\ At(p, "name")
      /\ hq' = [hq EXCEPT ![p].q_next = n + 1, ![p].qid = Append(@, n)]
      /\ kv' = [kv EXCEPT ![name] = Append(@, n)]
      /\ Assert(p, n + 1 < qs /\ unique /\ hq[p].q_is_ready,
                IF n + 1 = Len(Names) THEN "del" ELSE "name")
      /\ UNCHANGED <<vars, count, test>>

QNewName(p) ==
  LET n == hq[p].q_next
      name == Names[n + 1]
      unique == kv[name] = <<>>
  IN  /\ At(p, "name")
      /\ hq' = [hq EXCEPT ![p].q_next = n + 1, ![p].qid = Append(@, n)]
      /\ kv' = [kv EXCEPT ![name] = Append(@, n)]
      /\ Assert(p, n + 1 <= qs /\ unique /\ hq[p].q_is_ready,
                IF n + 1 = Len(Names) THEN "del" ELSE "name")
      /\ UNCHANGED <<vars, count, test>>

(* Mutant of QDelKeys: the lock stays. *)
QDelKeysButLock == Settings \ {"__qids_nolock_max", "__q_lock"}

QDelKeys == Settings \ {"__qids_nolock_max"}

(* The lists are freed and the pointers to them stay. *)
QDel(p) ==
  /\ At(p, "del")
  /\ Assert(p, hq[p].q_is_ready /\ \A k \in QDelKeys : kv[k] # <<>>, "newer")
  /\ kv' = [k \in Keys |-> IF k \in QDelKeys /\ kv[k] # <<>> THEN Tail(kv[k]) ELSE kv[k]]
  /\ hq' = [hq EXCEPT ![p].q_is_ready = FALSE, ![p].lists = "freed"]
  /\ UNCHANGED <<vars, count, test>>

-----------------------------------------------------------------------------
(* A's while (SHF_QIID_NONE != shf_q_pull_tail()) shf_q_push_head(): a call *)
(* that has returned leaves its item, if it has one, in own[p].  The rounds *)
(* go from free to a2b, on to b2a, back to free, and to a2b again.  In the  *)
(* first one A stores in each item how many it had before, and in the next  *)
(* two it asserts that they come in this order.  (test.9.shf.c makes the    *)
(* rounds twice, and stores and asserts in those with its first set.)       *)
Qid(p, n) == hq[p].qid[n]        \* 1 is free, 2 is a2b, 3 is b2a

Source == IF round = 4 THEN 1 ELSE round
Target == IF round = 3 THEN 1 ELSE Source + 1

InOrder(p, i) == round \in {2, 3} => stamp[i] = count[p]
Counted(p) == count' = [count EXCEPT ![p] = IF @ > q_items THEN @ ELSE @ + 1]

FillFrom(p) ==
  /\ At(p, "fill")
  /\ PullTail(p, Qid(p, Source))
  /\ Move(p, "filling")
  /\ UNCHANGED <<kv, hq, count, test>>

FillTo(p) ==
  /\ At(p, "filling")
  /\ \E i \in own[p] :
       /\ PushHead(p, Qid(p, Target), i)
       /\ stamp' = IF round = 1 THEN [stamp EXCEPT ![i] = count[p]] ELSE stamp
       /\ Assert(p, InOrder(p, i), "fill")
  /\ Counted(p)
  /\ UNCHANGED <<kv, hq, round>>

(* The third round is while (SHF_QIID_NONE != shf_q_push_head_pull_tail()). *)
SwapFirst(p) ==
  /\ At(p, "swap")
  /\ PushNonePullTail(p, Qid(p, Target), Qid(p, Source))
  /\ Move(p, "swapping")
  /\ UNCHANGED <<kv, hq, count, test>>

Swap(p) ==
  /\ At(p, "swapping")
  /\ \E i \in own[p] :
       /\ PushHeadPullTail(p, Qid(p, Target), i, Qid(p, Source))
       /\ Assert(p, InOrder(p, i), "swapping")
  /\ Counted(p)
  /\ UNCHANGED <<kv, hq, test>>

(* All the items must have come in each round. *)
NextRound(p) ==
  /\ At(p, IF round = 3 THEN "swapping" ELSE "filling") /\ own[p] = {} /\ round < 4
  /\ Assert(p, count[p] = q_items, IF round = 2 THEN "swap" ELSE "fill")
  /\ round' = round + 1
  /\ count' = [count EXCEPT ![p] = 0]
  /\ UNCHANGED <<vars, kv, hq, stamp>>

(* After the last one comes shf_exec_child. *)
ExecChild(p) ==
  /\ At(p, "filling") /\ own[p] = {} /\ round = 4
  /\ line' = [line EXCEPT ![p] = IF count[p] = q_items THEN "race" ELSE "failed", ![B] = "get"]
  /\ count' = [count EXCEPT ![p] = 0]
  /\ UNCHANGED <<vars, kv, hq, test>>

-----------------------------------------------------------------------------
(* Mutant of QGet: a get finds the newest record of a key. *)
QGetNewest(p) ==
  /\ At(p, "get")
  /\ Assert(p, \A k \in Settings : kv[k] # <<>>, "getname")
  /\ hq' = [hq EXCEPT ![p].q_is_ready = TRUE, ![p].lists = "live",
                      ![p].set = [k \in Settings |-> IF kv[k] = <<>> THEN 0 ELSE kv[k][Len(kv[k])]]]
  /\ push' = [push EXCEPT ![p] = NewLists] /\ pull' = [pull EXCEPT ![p] = NewLists]
  /\ UNCHANGED <<qids, qiids, own, pc, pull_qid, lock, kv, count, test>>

(* B's shf_q_get and shf_q_get_name. *)
QGet(p) ==
  /\ At(p, "get")
  /\ Assert(p, \A k \in Settings : kv[k] # <<>>, "getname")
  /\ hq' = [hq EXCEPT ![p].q_is_ready = TRUE, ![p].lists = "live",
                      ![p].set = [k \in Settings |-> IF kv[k] = <<>> THEN 0 ELSE Head(kv[k])]]
  /\ push' = [push EXCEPT ![p] = NewLists] /\ pull' = [pull EXCEPT ![p] = NewLists]
  /\ UNCHANGED <<qids, qiids, own, pc, pull_qid, lock, kv, count, test>>

QGetName(p) ==
  LET n == Len(hq[p].qid) + 1
      found == kv[Names[n]] # <<>>
      qid == Head(kv[Names[n]])
  IN  /\ At(p, "getname")
      /\ Assert(p, hq[p].q_is_ready /\ found /\ qid < qs,
                IF n = Len(Names) THEN "race" ELSE "getname")
      /\ hq' = [hq EXCEPT ![p].qid = IF found THEN Append(@, qid) ELSE @]
      /\ UNCHANGED <<vars, kv, count, test>>

-----------------------------------------------------------------------------
(* shf_race_start: the race line is one byte, and the wait for it ends with *)
(* an assertion after six seconds, whether or not the others have come by   *)
(* now.  The first race is for the queues, the second one for the lock.     *)
Race(l) == IF l \in {"race", "wait"} THEN "test-q-race-line" ELSE "test-lock-race-line"

RaceStart(p) ==
  /\ At(p, "race") \/ At(p, "race2")
  /\ Assert(p, kv[Race(line[p])] # <<>>, IF line[p] = "race" THEN "wait" ELSE "wait2")
  /\ kv' = [kv EXCEPT ![Race(line[p])] = IF @ = <<>> THEN @ ELSE <<(@[1] + 1) % 256>>]
  /\ UNCHANGED <<vars, hq, count, test>>

(* Mutant of RaceGo: the first horse to come starts the race. *)
RaceGoFirst(p) ==
  /\ At(p, "wait") \/ At(p, "wait2")
  /\ kv[Race(line[p])][1] > 0
  /\ Move(p, IF line[p] = "wait" THEN "pump" ELSE "lock")
  /\ UNCHANGED <<vars, kv, hq, count, test>>

RaceGo(p) ==
  /\ At(p, "wait") \/ At(p, "wait2")
  /\ kv[Race(line[p])][1] = horses
  /\ Move(p, IF line[p] = "wait" THEN "pump" ELSE "lock")
  /\ UNCHANGED <<vars, kv, hq, count, test>>

RaceTimeout(p) ==
  /\ At(p, "wait") \/ At(p, "wait2")
  /\ Move(p, "timeout")
  /\ UNCHANGED <<vars, kv, hq, count, test>>

-----------------------------------------------------------------------------
(* The ping-pong.  One step is what a program does between two calls of     *)
(* shf_q_push_head_pull_tail: A pushes to a2b and pulls from b2a, B the     *)
(* other way around, and shf_qiid is what the call before has pulled.       *)
To(p) == Qid(p, IF p = A THEN 2 ELSE 3)
From(p) == Qid(p, IF p = A THEN 3 ELSE 2)

PushPull(p) ==
  \/ \E i \in own[p] : PushHeadPullTail(p, To(p), i, From(p))
  \/ own[p] = {} /\ PushNonePullTail(p, To(p), From(p))

Pulled(p) == IF own[p] = {} \/ count[p] = TestPullItems THEN count[p] ELSE count[p] + 1

(* A calls once more when it has pulled the last item, B stops when there   *)
(* is nothing to pull and it has pulled enough.                             *)
Enough(p) == Pulled(p) = TestPullItems /\ (own[p] = {} <=> p = B)

Pump(p) ==
  /\ At(p, "pump")
  /\ ~Enough(p)
  /\ PushPull(p)
  /\ count' = [count EXCEPT ![p] = Pulled(p)]
  /\ UNCHANGED <<line, kv, hq, test>>

FinishA ==
  /\ At(A, "pump") /\ Enough(A)
  /\ PushPull(A)
  /\ Move(A, "race2")
  /\ UNCHANGED <<kv, hq, count, test>>

FinishB ==
  /\ At(B, "pump") /\ Enough(B)
  /\ Move(B, "race2")
  /\ UNCHANGED <<vars, kv, hq, count, test>>

(* The lock in the value of a key is taken and released (ShfRwLock).        *)
LockUnlock(p) ==
  /\ At(p, "lock")
  /\ Move(p, "detach")
  /\ UNCHANGED <<vars, kv, hq, count, test>>

(* B detaches, A waits for B to end and deletes; freeing a list twice fails.*)
DetachQ(p) ==
  /\ At(p, "detach")
  /\ p = A => line[B] \in {"done", "failed", "timeout"}
  /\ Assert(p, hq[p].lists # "freed", "done")
  /\ hq' = [hq EXCEPT ![p] = NoQ]
  /\ UNCHANGED <<vars, kv, count, test>>

-----------------------------------------------------------------------------
(* Before shf_q_new and shf_q_get there are no lists, as if all were empty, *)
(* and the memory of the links is zero.                                     *)
IpcInit ==
  /\ qids = NewLists /\ qiids = [i \in Items |-> [last |-> 0, next |-> 0]]
  /\ push = [p \in Procs |-> NewLists] /\ pull = [p \in Procs |-> NewLists]
  /\ own = [p \in Procs |-> {}]
  /\ pc = [p \in Procs |-> "idle"] /\ pull_qid = [p \in Procs |-> None] /\ lock = {}
  /\ line = [p \in Procs |-> IF p = A THEN "init" ELSE "unborn"]
  /\ kv = [k \in Keys |-> <<>>]
  /\ hq = [p \in Procs |-> NoQ]
  /\ count = [p \in Procs |-> 0]
  /\ round = 1 /\ stamp = [i \in Items |-> 0]

InCall(p) ==
  /\ FlushPush(p) \/ FillPull(p) \/ FlushDone(p) \/ PullLocal(p)
  /\ UNCHANGED <<line, kv, hq, count, test>>

GetLock(p) == Lock(p) /\ UNCHANGED <<line, kv, hq, count, test>>

(* The two programs: test.q.shf.c without an argument, and with "4c".       *)
ProgramA ==
  \/ RaceInit(A) \/ (\E s \in {1, 2} : QNew(A, s)) \/ QNewName(A) \/ QDel(A)
  \/ FillFrom(A) \/ FillTo(A) \/ SwapFirst(A) \/ Swap(A) \/ NextRound(A) \/ ExecChild(A)
  \/ RaceStart(A) \/ RaceGo(A) \/ Pump(A) \/ FinishA
  \/ LockUnlock(A) \/ DetachQ(A)

ProgramB ==
  \/ QGet(B) \/ QGetName(B)
  \/ RaceStart(B) \/ RaceGo(B) \/ Pump(B) \/ FinishB
  \/ LockUnlock(B) \/ DetachQ(B)

Ended == \A p \in Procs : line[p] \in {"done", "failed", "timeout"}

IpcNext ==
  \/ ProgramA \/ ProgramB
  \/ \E p \in Procs : RaceTimeout(p) \/ InCall(p) \/ GetLock(p)
  \/ Ended /\ UNCHANGED ivars

(* A process that can go on does, and the queue lock is a ticket lock: who  *)
(* waits for it gets it.  Nothing is assumed of the time-out.               *)
IpcSpec ==
  /\ IpcInit /\ [][IpcNext]_ivars
  /\ WF_ivars(ProgramA) /\ WF_ivars(ProgramB)
  /\ \A p \in Procs : WF_ivars(InCall(p)) /\ SF_ivars(GetLock(p))

-----------------------------------------------------------------------------
(* Properties. *)

(* The limit of a process is that of the set its own setting is of: the    *)
(* first set has B's, the second one A's.                                  *)
IpcTypeOK ==
  /\ TypeOK
  /\ line \in [Procs -> {"unborn", "init", "new", "name", "del", "newer", "fill", "filling",
                         "swap", "swapping", "get", "getname", "race", "wait", "pump", "race2", "wait2", "lock", "detach",
                         "done", "failed", "timeout"}]
  /\ \A k \in Keys : Len(kv[k]) <= 2
  /\ round \in 1 .. 4 /\ stamp \in [Items -> 0 .. q_items]
  /\ \A p \in Procs :
       /\ hq[p].set \in [Settings -> 0 .. 2]
       /\ hq[p].q_next \in 0 .. qs /\ hq[p].qid \in Seq(Qids)
       /\ count[p] \in 0 .. q_items + TestPullItems
       /\ line[p] \in {"race", "wait", "pump", "race2", "wait2", "lock"} =>
            hq[p].set["__qids_nolock_max"] = IF p = A THEN 2 ELSE 1

(* Two processes that are ready for each other use the same memory for the *)
(* queues, the links, the items and the lock, and the same queue for a     *)
(* name, although an earlier set has been there: shf_q_del leaves nothing  *)
(* of it but its limit.                                                    *)
SameQueues ==
  (\A p \in Procs : line[p] \in {"race", "wait", "pump"}) =>
    /\ \A k \in Settings \ {"__qids_nolock_max"} : hq[A].set[k] = hq[B].set[k]
    /\ hq[A].qid = hq[B].qid

(* "shf_race_start() only fires the gun once all horses have called        *)
(* shf_race_start()", in the first and in the second race.                 *)
BeforeFirst == {"unborn", "init", "new", "name", "del", "newer", "fill", "filling",
                "swap", "swapping", "get", "getname", "race"}
BeforeSecond == BeforeFirst \cup {"wait", "pump", "race2"}

GunAfterAll ==
  \A p, o \in Procs :
    /\ line[p] \in {"pump", "race2"} => line[o] \notin BeforeFirst
    /\ line[p] \in {"lock", "detach", "done"} => line[o] \notin BeforeSecond

(* No assertion fails in either program but for the six seconds: not those *)
(* of the calls, although a set has been there before, and not those of    *)
(* the programs, that all the items come and that they come in the order   *)
(* in which they went, through queues and batches.                         *)
NobodyFails == \A p \in Procs : line[p] # "failed"

(* The ping-pong gets to its end: with whatever is left in the batches of  *)
(* one process, and although the two have different limits, the other one  *)
(* gets what it needs, and both programs end, unless a wait timed out.     *)
BothEnd == <>(\A p \in Procs : line[p] = "done") \/ <>(\E p \in Procs : line[p] = "timeout")
=============================================================================
