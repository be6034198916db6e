---------------------------- MODULE ShfIpcProofs ----------------------------
(***************************************************************************)
(* Proofs about ShfIpc, for any number of items, any limits of the batches *)
(* and any length of the ping-pong: the gun of a race is fired after all   *)
(* horses have called (GunAfterAll), both processes use the same queues    *)
(* (SameQueues), which stay sound under the two programs (IpcQueues), and  *)
(* no assertion of either program fails (NobodyFails).                     *)
(***************************************************************************)
EXTENDS ShfIpc, ShfQueueProofs

(* The lines of A before it starts B, those of them with the second set,   *)
(* and the lines that both have.                                           *)
Filling == {"fill", "filling", "swap", "swapping"}
Setup == {"init", "new", "name", "del", "newer"} \cup Filling
Raced == {"race", "wait", "pump", "race2", "wait2", "lock", "detach", "done", "failed", "timeout"}
Ready == {"race", "wait", "pump", "race2", "wait2", "lock"}

(* B is there only when A is at its first race, and each has its program.  *)
Lines ==
  /\ line \in [Procs -> Setup \cup {"unborn", "get", "getname"} \cup Raced]
  /\ line[A] \in Setup \cup Raced
  /\ line[B] \in {"unborn", "get", "getname"} \cup Raced
  /\ line[A] \in Setup => line[B] = "unborn"

HqType ==
  /\ DOMAIN hq = Procs
  /\ \A p \in Procs : /\ DOMAIN hq[p] = {"q_is_ready", "lists", "q_next", "set", "qid"}
                      /\ hq[p].q_next \in 0 .. qs
                      /\ hq[p].set \in [Settings -> 0 .. 2] /\ hq[p].qid \in Seq(Qids)

(* A list of queues as the names are given: the first is queue 0.          *)
InTurn(s) == \A i \in 1 .. Len(s) : s[i] = i - 1

NamesGiven(n) == \A i \in 1 .. 3 : kv[Names[i]] = IF i <= n THEN <<i - 1>> ELSE <<>>

(* What is stored once A has made its second set: the limit of the first   *)
(* set is still there, in front of that of the second one.                 *)
Stored ==
  /\ \A k \in QDelKeys : kv[k] = <<2>>
  /\ kv["__qids_nolock_max"] = <<1, 2>>
  /\ NamesGiven(3)

(* What is stored, and what A knows of it, at each line of A.              *)
SetsOfA ==
  /\ line[A] \in {"init", "new"} =>
       (\A k \in Settings : kv[k] = <<>>) /\ NamesGiven(0) /\ hq[A] = NoQ
  /\ line[A] = "name" =>
       /\ \A k \in Settings : kv[k] = <<1>>
       /\ hq[A].q_next \in 0 .. 2 /\ NamesGiven(hq[A].q_next) /\ Len(hq[A].qid) = hq[A].q_next
       /\ InTurn(hq[A].qid)
  /\ line[A] \in {"del", "newer"} =>
       /\ NamesGiven(3) /\ Len(hq[A].qid) = 3 /\ InTurn(hq[A].qid)
  /\ line[A] = "del" => \A k \in Settings : kv[k] = <<1>>
  /\ line[A] = "newer" =>
       (\A k \in QDelKeys : kv[k] = <<>>) /\ kv["__qids_nolock_max"] = <<1>>
  /\ line[A] \in Filling \cup Ready =>
       /\ Len(hq[A].qid) = 3 /\ InTurn(hq[A].qid)
       /\ \A k \in Settings : hq[A].set[k] = 2

SetsOfB ==
  /\ line[A] \in Filling \/ line[B] # "unborn" => Stored
  /\ line[B] \in {"unborn", "get"} => hq[B] = NoQ
  /\ line[B] = "getname" => Len(hq[B].qid) < 3
  /\ line[B] \in Ready => Len(hq[B].qid) = 3
  /\ line[B] \in {"getname"} \cup Ready =>
       /\ InTurn(hq[B].qid)
       /\ \A k \in QDelKeys : hq[B].set[k] = 2
       /\ hq[B].set["__qids_nolock_max"] = 1

SetInv == Lines /\ HqType /\ DOMAIN kv = Keys /\ SetsOfA /\ SetsOfB

-----------------------------------------------------------------------------
LEMMA TwoProcs == A \in Procs /\ B \in Procs /\ A # B /\ \A p \in Procs : p = A \/ p = B
BY IpcAssumption

LEMMA NamesAre ==
  /\ Len(Names) = 3 /\ Names[1] = "qid-free" /\ Names[2] = "qid-a2b" /\ Names[3] = "qid-b2a"
  /\ \A i \in 1 .. 3 : Names[i] \in Keys /\ Names[i] \notin Settings /\ Names[i] \notin Races
  /\ \A i, j \in 1 .. 3 : Names[i] = Names[j] => i = j
  /\ Settings \subseteq Keys /\ QDelKeys \subseteq Settings
  /\ Settings = QDelKeys \cup {"__qids_nolock_max"} /\ "__qids_nolock_max" \notin QDelKeys
  /\ Races \subseteq Keys /\ Races \cap Settings = {}
<1>1. /\ Len(Names) = 3 /\ Names[1] = "qid-free" /\ Names[2] = "qid-a2b" /\ Names[3] = "qid-b2a"
      /\ DOMAIN Names = 1 .. 3
  BY DEF Names
<1>2. \A i \in 1 .. 3 : i = 1 \/ i = 2 \/ i = 3
  OBVIOUS
<1>3. \A i \in 1 .. 3 : Names[i] \in Keys /\ Names[i] \notin Settings /\ Names[i] \notin Races
  BY <1>1, <1>2 DEF Keys, Settings, Races
<1>4. \A i, j \in 1 .. 3 : Names[i] = Names[j] => i = j
  BY <1>1, <1>2
<1>5. /\ Settings \subseteq Keys /\ QDelKeys \subseteq Settings
      /\ Settings = QDelKeys \cup {"__qids_nolock_max"} /\ "__qids_nolock_max" \notin QDelKeys
      /\ Races \subseteq Keys /\ Races \cap Settings = {}
  BY DEF Keys, Settings, QDelKeys, Races
<1>6. QED BY <1>1, <1>3, <1>4, <1>5

LEMMA NoQType ==
  /\ DOMAIN NoQ = {"q_is_ready", "lists", "q_next", "set", "qid"}
  /\ NoQ.q_next \in 0 .. qs /\ NoQ.set \in [Settings -> 0 .. 2]
  /\ NoQ.qid = <<>> /\ NoQ.qid \in Seq(Qids)
BY QueueAssumption DEF NoQ

LEMMA SetInit == IpcInit => SetInv
<1> SUFFICES ASSUME IpcInit PROVE SetInv OBVIOUS
<1> USE TwoProcs
<1>2. Lines /\ line[A] = "init" /\ line[B] = "unborn"
  BY DEF IpcInit, Lines, Setup, Raced, Filling
<1>3. HqType /\ hq[A] = NoQ /\ hq[B] = NoQ
  <2>1. DOMAIN hq = Procs /\ \A p \in Procs : hq[p] = NoQ
    BY DEF IpcInit
  <2>2. QED BY <2>1, NoQType, Zenon DEF HqType
<1>4. DOMAIN kv = Keys /\ \A k \in Keys : kv[k] = <<>>
  BY DEF IpcInit
<1>5. SetsOfA
  BY <1>2, <1>3, <1>4, NamesAre DEF SetsOfA, NamesGiven, Filling, Ready
<1>6. SetsOfB
  BY <1>2, <1>3 DEF SetsOfB, Filling, Ready
<1>7. QED BY <1>2, <1>3, <1>4, <1>5, <1>6 DEF SetInv

(* The moves that leave what is stored and known of the sets alone: no     *)
(* line with more to say of it is entered.                                 *)
Onward ==
  /\ line'[A] \in Setup \cup Ready =>
       \/ line'[A] = line[A] \/ (line[A] = "init" /\ line'[A] = "new")
       \/ line[A] \in Filling \cup Ready /\ line'[A] \in Filling \cup Ready
  /\ line'[A] \in Filling => line[A] \in Filling
  /\ line'[B] # "unborn" => line[B] # "unborn" \/ line[A] \in Filling
  /\ line'[B] \in {"unborn", "get"} => line[B] \in {"unborn", "get"}
  /\ line'[B] = "getname" => line[B] = "getname"
  /\ line'[B] \in Ready => line[B] \in Ready

SameStore ==
  /\ DOMAIN kv' = Keys
  /\ \A k \in Settings : kv'[k] = kv[k]
  /\ \A i \in 1 .. 3 : kv'[Names[i]] = kv[Names[i]]

LEMMA SetKept ==
  ASSUME SetInv, Lines', Onward, SameStore, hq' = hq
  PROVE  SetInv'
<1> USE NamesAre DEF SameStore
<1>1. \A n : NamesGiven(n) <=> NamesGiven(n)'
  BY DEF NamesGiven
<1>2. Stored <=> Stored'
  BY <1>1 DEF Stored
<1>3. SetsOfA'
  BY <1>1 DEF SetInv, SetsOfA, Setup, Filling, Ready, InTurn, Onward
<1>4. SetsOfB'
  BY <1>2 DEF SetInv, SetsOfB, Setup, Filling, Ready, InTurn, Onward
<1>5. QED BY <1>3, <1>4 DEF SetInv, HqType

LEMMA RaceInitSet ==
  ASSUME SetInv, RaceInit(A)
  PROVE  SetInv'
<1> USE TwoProcs
<1>1. line[A] = "init" /\ line' = [line EXCEPT ![A] = "new"] /\ hq' = hq
  BY DEF RaceInit, At, Move
<1>2. Lines' /\ Onward
  BY <1>1 DEF SetInv, Lines, Onward, Setup, Filling, Raced, Ready
<1>3. SameStore
  BY NamesAre DEF RaceInit, SameStore
<1>4. QED BY <1>1, <1>2, <1>3, SetKept

LEMMA FillSet ==
  ASSUME SetInv, FillFrom(A) \/ FillTo(A) \/ SwapFirst(A) \/ Swap(A) \/ NextRound(A)
  PROVE  SetInv'
<1> USE TwoProcs
<1>1. line[A] \in Filling /\ kv' = kv /\ hq' = hq
  BY DEF FillFrom, FillTo, SwapFirst, Swap, NextRound, At, Filling
<1>2. PICK l \in Filling \cup {"failed"} : line' = [line EXCEPT ![A] = l]
  BY DEF FillFrom, FillTo, SwapFirst, Swap, NextRound, Assert, Move, Filling
<1>3. Lines' /\ Onward
  BY <1>1, <1>2 DEF SetInv, Lines, Onward, Setup, Filling, Raced, Ready
<1>4. SameStore
  BY <1>1 DEF SetInv, SameStore
<1>5. QED BY <1>1, <1>3, <1>4, SetKept

LEMMA ExecChildSet ==
  ASSUME SetInv, ExecChild(A)
  PROVE  SetInv'
<1> USE TwoProcs
<1>1. line[A] \in Filling /\ kv' = kv /\ hq' = hq
  BY DEF ExecChild, At, Filling
<1>2. PICK l \in {"race", "failed"} : line' = [line EXCEPT ![A] = l, ![B] = "get"]
  BY DEF ExecChild
<1>3. line[B] = "unborn"
  BY <1>1 DEF SetInv, Lines, Setup
<1>4. Lines' /\ Onward
  BY <1>1, <1>2, <1>3 DEF SetInv, Lines, Onward, Setup, Filling, Raced, Ready
<1>5. SameStore
  BY <1>1 DEF SetInv, SameStore
<1>6. QED BY <1>1, <1>4, <1>5, SetKept

(* The steps of a process from its first race on, but for the last.        *)
LEMMA RacedSet ==
  ASSUME SetInv, NEW p \in Procs,
         \/ RaceStart(p) \/ RaceGo(p) \/ RaceTimeout(p) \/ Pump(p) \/ LockUnlock(p)
         \/ (p = A /\ FinishA) \/ (p = B /\ FinishB)
  PROVE  SetInv'
<1> USE TwoProcs
<1>1. line[p] \in Raced /\ hq' = hq
  BY DEF RaceStart, RaceGo, RaceTimeout, Pump, FinishA, FinishB, LockUnlock, At, Raced
<1>2. PICK l \in Raced : /\ line' = [line EXCEPT ![p] = l]
                         /\ l \in Ready => line[p] \in Ready
  <2>0. /\ {"wait", "failed", "wait2", "pump", "lock", "timeout", "race2", "detach"} \subseteq Raced
        /\ {"race", "wait", "pump", "race2", "wait2", "lock"} \subseteq Ready
        /\ {"failed", "timeout", "detach"} \cap Ready = {}
    BY DEF Raced, Ready
  <2>1a. CASE RaceStart(p)
    BY <2>0, <2>1a DEF RaceStart, At, Assert, Move
  <2>1b. CASE RaceGo(p)
    BY <2>0, <2>1b DEF RaceGo, At, Move
  <2>1c. CASE RaceTimeout(p) \/ LockUnlock(p) \/ (p = A /\ FinishA) \/ (p = B /\ FinishB)
    BY <2>0, <2>1c DEF RaceTimeout, FinishA, FinishB, LockUnlock, At, Move
  <2>2. CASE Pump(p)
    <3>1. line' = line /\ line[p] = "pump"
      BY <2>2 DEF Pump, At
    <3>2. line' = [line EXCEPT ![p] = "pump"]
      BY <3>1 DEF SetInv, Lines
    <3>3. QED BY <3>1, <3>2 DEF Raced, Ready
  <2>3. QED BY <2>1a, <2>1b, <2>1c, <2>2
<1>3. Lines' /\ Onward
  BY <1>1, <1>2 DEF SetInv, Lines, Onward, Setup, Filling, Raced, Ready
<1>4. SameStore
  <2>1. CASE RaceStart(p)
    <3>1. Race(line[p]) \in Races
      BY DEF Race, Races
    <3>2. PICK v : kv' = [kv EXCEPT ![Race(line[p])] = v]
      BY <2>1 DEF RaceStart
    <3>3. QED BY <3>1, <3>2, NamesAre DEF SetInv, SameStore
  <2>2. CASE kv' = kv
    BY <2>2 DEF SetInv, SameStore
  <2>3. QED BY <2>1, <2>2 DEF RaceGo, RaceTimeout, Pump, FinishA, FinishB, LockUnlock
<1>5. QED BY <1>1, <1>3, <1>4, SetKept

LEMMA DetachQSet ==
  ASSUME SetInv, NEW p \in Procs, DetachQ(p)
  PROVE  SetInv'
<1> USE TwoProcs
<1>1. /\ line[p] = "detach" /\ kv' = kv /\ hq' = [hq EXCEPT ![p] = NoQ]
  BY DEF DetachQ, At
<1>2. PICK l \in {"done", "failed"} : line' = [line EXCEPT ![p] = l]
  BY DEF DetachQ, Assert, Move
<1>3. Lines'
  BY <1>1, <1>2 DEF SetInv, Lines, Setup, Filling, Raced
<1>4. HqType'
  <2>1. DOMAIN hq' = Procs /\ \A o \in Procs : hq'[o] = IF o = p THEN NoQ ELSE hq[o]
    BY <1>1 DEF SetInv, HqType
  <2>2. ASSUME NEW o \in Procs
        PROVE  /\ DOMAIN hq'[o] = {"q_is_ready", "lists", "q_next", "set", "qid"}
               /\ hq'[o].q_next \in 0 .. qs
               /\ hq'[o].set \in [Settings -> 0 .. 2] /\ hq'[o].qid \in Seq(Qids)
    <3>1. CASE o = p
      BY <2>1, <3>1, NoQType, Zenon
    <3>2. CASE o # p
      BY <2>1, <3>2, Zenon DEF SetInv, HqType
    <3>3. QED BY <3>1, <3>2
  <2>3. QED BY <2>1, <2>2 DEF HqType
<1>5. line[A] \in Setup => line[B] = "unborn"
  BY DEF SetInv, Lines
<1>6. SetsOfA'
  <2>1. CASE p = A
    BY <1>1, <1>2, <2>1 DEF SetInv, Lines, SetsOfA, Setup, Filling, Ready
  <2>2. CASE p = B
    <3>1. line'[A] = line[A] /\ hq'[A] = hq[A]
      BY <1>1, <1>2, <2>2 DEF SetInv, Lines, HqType
    <3>2. QED BY <1>1, <3>1 DEF SetInv, SetsOfA, NamesGiven, InTurn
  <2>3. QED BY <2>1, <2>2
<1>7. SetsOfB'
  <2>1. CASE p = B
    BY <1>1, <1>2, <1>5, <2>1 DEF SetInv, Lines, SetsOfB, Stored, NamesGiven, Filling, Ready
  <2>2. CASE p = A
    <3>1. line'[B] = line[B] /\ hq'[B] = hq[B] /\ line'[A] \notin Filling
      BY <1>1, <1>2, <2>2 DEF SetInv, Lines, HqType, Filling
    <3>2. QED BY <1>1, <3>1 DEF SetInv, SetsOfB, Stored, NamesGiven, InTurn
  <2>3. QED BY <2>1, <2>2
<1>8. QED BY <1>1, <1>3, <1>4, <1>6, <1>7 DEF SetInv

-----------------------------------------------------------------------------
(* The steps of A that make and delete sets and names. *)

LEMMA QNewSet ==
  ASSUME SetInv, NEW s \in {1, 2}, QNew(A, s)
  PROVE  SetInv'
<1> USE TwoProcs
<1>1. /\ line[A] = (IF s = 1 THEN "new" ELSE "newer") /\ s \in 0 .. 2
      /\ kv' = [k \in Keys |-> IF k \in Settings THEN Append(kv[k], s) ELSE kv[k]]
      /\ hq' = [hq EXCEPT ![A].q_is_ready = TRUE, ![A].lists = "live",
                          ![A].set = [k \in Settings |-> s]]
  BY DEF QNew, At
<1>2. line' = [line EXCEPT ![A] = IF s = 1 THEN "name" ELSE "fill"]
      \/ line' = [line EXCEPT ![A] = "failed"]
  BY DEF QNew, Assert, Move
<1>3. /\ hq'[A].q_next = hq[A].q_next /\ hq'[A].qid = hq[A].qid /\ hq'[B] = hq[B]
      /\ \A k \in Settings : hq'[A].set[k] = s
      /\ HqType'
  BY <1>1 DEF SetInv, HqType
<1>4. Lines' /\ line[B] = "unborn" /\ line'[B] = "unborn"
  BY <1>1, <1>2 DEF SetInv, Lines, Setup, Filling, Raced
<1>5. /\ DOMAIN kv' = Keys
      /\ \A k \in Settings : kv'[k] = Append(kv[k], s)
      /\ \A n : NamesGiven(n) <=> NamesGiven(n)'
  BY <1>1, NamesAre DEF NamesGiven
<1>6. Append(<<>>, 1) = <<1>> /\ Append(<<>>, 2) = <<2>>
      /\ Append(<<1>>, 2) = <<1, 2>>
  <2>1. PICK u, v : u = Append(<<1>>, 2) /\ v = <<1, 2>>
    OBVIOUS
  <2>2. Len(u) = 2 /\ u[1] = 1 /\ u[2] = 2 /\ u \in Seq(Nat) /\ v \in Seq(Nat) /\ Len(v) = 2
    BY <2>1
  <2>3. \A i \in 1 .. Len(u) : u[i] = v[i]
    <3>1. \A i \in 1 .. 2 : i = 1 \/ i = 2
      OBVIOUS
    <3>2. QED BY <2>1, <2>2, <3>1
  <2>4. u = v
    BY <2>2, <2>3, SeqEqual
  <2>5. Append(<<>>, 1) = <<1>> /\ Append(<<>>, 2) = <<2>>
    OBVIOUS
  <2>6. Append(<<1>>, 2) = <<1, 2>>
    BY <2>1, <2>4, Zenon
  <2>7. QED BY <2>5, <2>6, Zenon
<1>7. CASE s = 1
  <2>1. \A k \in Settings : kv'[k] = <<1>>
    BY <1>1, <1>5, <1>6, <1>7 DEF SetInv, SetsOfA
  <2>2. NamesGiven(0)' /\ hq[A] = NoQ
    BY <1>1, <1>5, <1>6, <1>7 DEF SetInv, SetsOfA
  <2>3. hq'[A].q_next = 0 /\ hq'[A].qid = <<>>
    BY <1>3, <2>2 DEF NoQ
  <2>4. line'[A] \in {"name", "failed"}
    BY <1>2, <1>6, <1>7 DEF SetInv, Lines
  <2>5. SetsOfA'
    BY <2>1, <2>2, <2>3, <2>4 DEF SetsOfA, Setup, Filling, Ready, InTurn
  <2>6. SetsOfB'
    BY <1>3, <1>4, <2>4 DEF SetInv, SetsOfB, Filling, Ready
  <2>7. QED BY <1>3, <1>4, <1>5, <2>5, <2>6 DEF SetInv
<1>8. CASE s = 2
  <2>1. \A k \in QDelKeys : kv'[k] = <<2>>
    BY <1>1, <1>5, <1>6, <1>8, NamesAre DEF SetInv, SetsOfA
  <2>2. kv'["__qids_nolock_max"] = <<1, 2>>
    <3>1. kv["__qids_nolock_max"] = <<1>>
      BY <1>1, <1>6, <1>8 DEF SetInv, SetsOfA
    <3>2. "__qids_nolock_max" \in Settings
      BY DEF Settings
    <3>3. kv'["__qids_nolock_max"] = Append(<<1>>, 2)
      BY <1>5, <1>8, <3>1, <3>2, Zenon
    <3>4. QED BY <1>6, <3>3, Zenon
  <2>3. NamesGiven(3)' /\ Len(hq'[A].qid) = 3 /\ InTurn(hq'[A].qid)
    BY <1>1, <1>3, <1>5, <1>6, <1>8 DEF SetInv, SetsOfA
  <2>4. line'[A] \in {"fill", "failed"}
    BY <1>2, <1>6, <1>8 DEF SetInv, Lines
  <2>5. SetsOfA'
    BY <1>3, <1>6, <1>8, <2>3, <2>4 DEF SetsOfA, Setup, Filling, Ready, InTurn
  <2>6. SetsOfB'
    BY <1>3, <1>4, <2>1, <2>2, <2>3 DEF SetInv, SetsOfB, Stored, Filling, Ready
  <2>7. QED BY <1>3, <1>4, <1>5, <2>5, <2>6 DEF SetInv
<1>9. QED BY <1>7, <1>8

LEMMA QNewNameSet ==
  ASSUME SetInv, QNewName(A)
  PROVE  SetInv'
<1> USE TwoProcs
<1>0. PICK n : n = hq[A].q_next
  OBVIOUS
<1>1. /\ line[A] = "name"
      /\ hq' = [hq EXCEPT ![A].q_next = n + 1, ![A].qid = Append(@, n)]
      /\ kv' = [kv EXCEPT ![Names[n + 1]] = Append(@, n)]
  BY <1>0 DEF QNewName, At
<1>2. line' = [line EXCEPT ![A] = IF n + 1 = 3 THEN "del" ELSE "name"]
      \/ line' = [line EXCEPT ![A] = "failed"]
  BY <1>0, NamesAre DEF QNewName, Assert, Move
<1>3. /\ n \in 0 .. 2 /\ NamesGiven(n) /\ Len(hq[A].qid) = n /\ InTurn(hq[A].qid)
      /\ \A k \in Settings : kv[k] = <<1>>
  BY <1>0, <1>1 DEF SetInv, SetsOfA
<1>4. /\ hq'[A].q_next = n + 1 /\ hq'[A].qid = Append(hq[A].qid, n) /\ hq'[B] = hq[B]
      /\ hq[A].qid \in Seq(Qids)
      /\ HqType'
  <2>1. hq[A].qid \in Seq(Qids) /\ n + 1 \in 0 .. qs /\ n \in Qids
    BY <1>3, IpcAssumption DEF SetInv, HqType, Qids
  <2>2. Append(hq[A].qid, n) \in Seq(Qids)
    BY <2>1
  <2>3. QED BY <1>1, <2>1, <2>2 DEF SetInv, HqType
<1>5. Lines' /\ line[B] = "unborn" /\ line'[B] = "unborn"
  BY <1>1, <1>2 DEF SetInv, Lines, Setup, Filling, Raced
<1>6. Len(hq'[A].qid) = n + 1 /\ InTurn(hq'[A].qid)
  BY <1>3, <1>4 DEF InTurn
<1>7. n + 1 \in 1 .. 3 /\ DOMAIN kv = Keys
  BY <1>3 DEF SetInv
<1>8. NamesGiven(n + 1)' /\ DOMAIN kv' = Keys /\ \A k \in Settings : kv'[k] = <<1>>
  <2>1. DOMAIN kv' = Keys /\ \A k \in Settings : kv'[k] = <<1>>
    BY <1>1, <1>3, <1>7, NamesAre
  <2>2. kv[Names[n + 1]] = <<>>
    BY <1>3, <1>7 DEF NamesGiven
  <2>3. kv'[Names[n + 1]] = <<n>>
    BY <1>1, <1>7, <2>2, NamesAre
  <2>4. \A i \in 1 .. 3 : i # n + 1 => kv'[Names[i]] = kv[Names[i]]
    BY <1>1, <1>7, NamesAre
  <2>5. NamesGiven(n + 1)'
    <3> SUFFICES ASSUME NEW i \in 1 .. 3
                 PROVE  kv'[Names[i]] = IF i <= n + 1 THEN <<i - 1>> ELSE <<>>
      BY DEF NamesGiven
    <3>1. CASE i = n + 1
      BY <1>3, <2>3, <3>1
    <3>2. CASE i # n + 1
      BY <1>3, <2>4, <3>2 DEF NamesGiven
    <3>3. QED BY <3>1, <3>2
  <2>6. QED BY <2>1, <2>5
<1>9. SetsOfA'
  <2>1. line'[A] = "failed" \/ (line'[A] = "del" /\ n + 1 = 3) \/ (line'[A] = "name" /\ n + 1 \in 0 .. 2)
    BY <1>2, <1>3 DEF SetInv, Lines
  <2>2. CASE line'[A] = "failed"
    BY <2>2 DEF SetsOfA, Filling, Ready
  <2>3. CASE line'[A] = "del" /\ n + 1 = 3
    BY <1>6, <1>8, <2>3 DEF SetsOfA, Filling, Ready
  <2>4. CASE line'[A] = "name" /\ n + 1 \in 0 .. 2
    BY <1>4, <1>6, <1>8, <2>4 DEF SetsOfA, Filling, Ready
  <2>5. QED BY <2>1, <2>2, <2>3, <2>4
<1>10. SetsOfB'
  <2>1. line'[A] \notin Filling
    BY <1>2 DEF SetInv, Lines, Filling
  <2>2. QED BY <1>4, <1>5, <2>1 DEF SetInv, SetsOfB, Filling, Ready
<1>11. QED BY <1>4, <1>5, <1>8, <1>9, <1>10 DEF SetInv

LEMMA QDelSet ==
  ASSUME SetInv, QDel(A)
  PROVE  SetInv'
<1> USE TwoProcs
<1>1. /\ line[A] = "del"
      /\ kv' = [k \in Keys |-> IF k \in QDelKeys /\ kv[k] # <<>> THEN Tail(kv[k]) ELSE kv[k]]
      /\ hq' = [hq EXCEPT ![A].q_is_ready = FALSE, ![A].lists = "freed"]
  BY DEF QDel, At
<1>2. line' = [line EXCEPT ![A] = "newer"] \/ line' = [line EXCEPT ![A] = "failed"]
  BY DEF QDel, Assert, Move
<1>3. hq'[A].qid = hq[A].qid /\ hq'[B] = hq[B] /\ HqType'
  BY <1>1 DEF SetInv, HqType
<1>4. /\ Lines' /\ line[B] = "unborn" /\ line'[B] = "unborn" /\ line'[A] \in {"newer", "failed"}
  BY <1>1, <1>2 DEF SetInv, Lines, Setup, Filling, Raced
<1>5. /\ NamesGiven(3) /\ Len(hq[A].qid) = 3 /\ InTurn(hq[A].qid)
      /\ \A k \in Settings : kv[k] = <<1>>
  BY <1>1 DEF SetInv, SetsOfA
<1>6. DOMAIN kv' = Keys /\ (\A k \in QDelKeys : kv'[k] = <<>>) /\ kv'["__qids_nolock_max"] = <<1>>
  <2>1. Tail(<<1>>) = <<>> /\ <<1>> # <<>>
    OBVIOUS
  <2>2. QED BY <1>1, <1>5, <2>1, NamesAre
<1>7. NamesGiven(3)'
  BY <1>1, <1>5, NamesAre DEF NamesGiven
<1>8. SetsOfA'
  BY <1>3, <1>4, <1>5, <1>6, <1>7 DEF SetsOfA, Filling, Ready
<1>9. SetsOfB'
  BY <1>3, <1>4 DEF SetInv, SetsOfB, Filling, Ready
<1>10. QED BY <1>3, <1>4, <1>6, <1>8, <1>9 DEF SetInv

-----------------------------------------------------------------------------
(* B's shf_q_get and shf_q_get_name. *)

LEMMA QGetSet ==
  ASSUME SetInv, QGet(B)
  PROVE  SetInv'
<1> USE TwoProcs
<1> DEFINE s == [k \in Settings |-> IF kv[k] = <<>> THEN 0 ELSE Head(kv[k])]
<1>1. /\ line[B] = "get" /\ kv' = kv
      /\ hq' = [hq EXCEPT ![B].q_is_ready = TRUE, ![B].lists = "live", ![B].set = s]
  BY DEF QGet, At
<1>2. line' = [line EXCEPT ![B] = "getname"] \/ line' = [line EXCEPT ![B] = "failed"]
  BY DEF QGet, Assert, Move
<1>3. Stored /\ hq[B] = NoQ
  BY <1>1 DEF SetInv, SetsOfB
<1>4. /\ s \in [Settings -> 0 .. 2] /\ \A k \in QDelKeys : s[k] = 2
      /\ s["__qids_nolock_max"] = 1
  <2>1. Head(<<2>>) = 2 /\ <<2>> # <<>> /\ Head(<<1, 2>>) = 1 /\ <<1, 2>> # <<>>
    OBVIOUS
  <2>2. s["__qids_nolock_max"] = 1
    BY <1>3, <2>1, NamesAre DEF Stored
  <2>3. \A k \in QDelKeys : s[k] = 2
    BY <1>3, <2>1, NamesAre DEF Stored
  <2>4. \A k \in Settings : s[k] \in 0 .. 2
    BY <2>2, <2>3, NamesAre
  <2>5. QED BY <2>2, <2>3, <2>4
<1> HIDE DEF s
<1>5. hq'[A] = hq[A] /\ HqType' /\ hq'[B].set = s /\ hq'[B].qid = hq[B].qid
  BY <1>1, <1>4 DEF SetInv, HqType
<1>6. hq'[B].qid = <<>>
  BY <1>3, <1>5 DEF NoQ
<1>7. Lines' /\ line'[A] = line[A] /\ line'[B] \in {"getname", "failed"}
  BY <1>1, <1>2 DEF SetInv, Lines, Setup, Filling, Raced
<1>8. SetsOfA'
  BY <1>1, <1>5, <1>7 DEF SetInv, SetsOfA, NamesGiven, InTurn
<1>9. SetsOfB'
  <2>1. Stored' /\ Len(hq'[B].qid) = 0 /\ hq'[B].set["__qids_nolock_max"] = 1
        /\ \A k \in QDelKeys : hq'[B].set[k] = 2
    BY <1>1, <1>3, <1>4, <1>5, <1>6 DEF Stored, NamesGiven
  <2>2. InTurn(hq'[B].qid)
    BY <2>1 DEF InTurn
  <2>3. QED BY <1>7, <2>1, <2>2 DEF SetsOfB, Ready
<1>10. QED BY <1>1, <1>5, <1>7, <1>8, <1>9 DEF SetInv

LEMMA QGetNameSet ==
  ASSUME SetInv, QGetName(B)
  PROVE  SetInv'
<1> USE TwoProcs
<1> DEFINE n == Len(hq[B].qid) + 1
           found == kv[Names[n]] # <<>>
           qid == Head(kv[Names[n]])
<1>1. /\ line[B] = "getname" /\ kv' = kv
      /\ hq' = [hq EXCEPT ![B].qid = IF found THEN Append(@, qid) ELSE @]
  BY DEF QGetName, At
<1>2. line' = [line EXCEPT ![B] = IF n = 3 THEN "race" ELSE "getname"]
      \/ line' = [line EXCEPT ![B] = "failed"]
  BY NamesAre DEF QGetName, Assert, Move
<1>3. /\ Stored /\ Len(hq[B].qid) < 3 /\ InTurn(hq[B].qid) /\ hq[B].qid \in Seq(Qids)
      /\ hq[B].set["__qids_nolock_max"] = 1 /\ \A k \in QDelKeys : hq[B].set[k] = 2
  BY <1>1 DEF SetInv, SetsOfB, HqType
<1>4. n \in 1 .. 3
  BY <1>3
<1>5. found /\ qid = n - 1 /\ n - 1 \in Qids
  <2>1. kv[Names[n]] = <<n - 1>>
    BY <1>3, <1>4 DEF Stored, NamesGiven
  <2>2. \A m \in 1 .. 3 : m - 1 \in Qids
    <3>1. qs = 3
      BY IpcAssumption
    <3>2. QED BY <3>1 DEF Qids
  <2>3. <<n - 1>> # <<>> /\ Head(<<n - 1>>) = n - 1
    OBVIOUS
  <2>4. QED BY <1>4, <2>1, <2>2, <2>3
<1>6. /\ hq'[A] = hq[A] /\ HqType' /\ hq'[B].set = hq[B].set
      /\ hq'[B].qid = Append(hq[B].qid, n - 1)
  <2>1. Append(hq[B].qid, n - 1) \in Seq(Qids)
    BY <1>3, <1>5
  <2>2. hq' = [hq EXCEPT ![B].qid = Append(hq[B].qid, n - 1)]
    BY <1>1, <1>5
  <2>3. QED BY <2>1, <2>2 DEF SetInv, HqType
<1>7. Len(hq'[B].qid) = n /\ InTurn(hq'[B].qid)
  BY <1>3, <1>4, <1>6 DEF InTurn
<1> HIDE DEF n, found, qid
<1>8. /\ Lines' /\ line'[A] = line[A]
      /\ (line'[B] = "getname" /\ n < 3) \/ (line'[B] = "race" /\ n = 3) \/ line'[B] = "failed"
  BY <1>1, <1>2, <1>4 DEF SetInv, Lines, Setup, Filling, Raced
<1>9. SetsOfA'
  BY <1>1, <1>6, <1>8 DEF SetInv, SetsOfA, NamesGiven, InTurn
<1>10. SetsOfB'
  BY <1>1, <1>3, <1>6, <1>7, <1>8 DEF SetsOfB, Stored, NamesGiven, Ready
<1>11. QED BY <1>1, <1>6, <1>8, <1>9, <1>10 DEF SetInv

(* A step inside a call on a queue, or none at all. *)
LEMMA StillSet ==
  ASSUME SetInv, line' = line, kv' = kv, hq' = hq
  PROVE  SetInv'
BY DEF SetInv, Lines, HqType, SetsOfA, SetsOfB, Stored, NamesGiven, InTurn

LEMMA SetStep == SetInv /\ [IpcNext]_ivars => SetInv'
<1> SUFFICES ASSUME SetInv, [IpcNext]_ivars PROVE SetInv'
  OBVIOUS
<1>1. CASE ProgramA
  BY <1>1, TwoProcs, RaceInitSet, QNewSet, QNewNameSet, QDelSet, FillSet, ExecChildSet, RacedSet,
     DetachQSet DEF ProgramA
<1>2. CASE ProgramB
  BY <1>2, TwoProcs, QGetSet, QGetNameSet, RacedSet, DetachQSet DEF ProgramB
<1>3. ASSUME NEW p \in Procs, RaceTimeout(p) \/ InCall(p) \/ GetLock(p) PROVE SetInv'
  <2>1. CASE RaceTimeout(p)
    BY <2>1, RacedSet
  <2>2. CASE InCall(p) \/ GetLock(p)
    BY <2>2, StillSet DEF InCall, GetLock
  <2>3. QED BY <1>3, <2>1, <2>2
<1>4. CASE UNCHANGED ivars
  BY <1>4, StillSet DEF ivars
<1>5. QED BY <1>1, <1>2, <1>3, <1>4 DEF IpcNext

(* What is stored of the queue sets, and what each process knows of it.    *)
THEOREM IpcSets == IpcSpec => []SetInv
BY SetInit, SetStep, PTL DEF IpcSpec

(* shf_q_get of a process that comes after shf_q_new, shf_q_del and a      *)
(* second shf_q_new finds the second set, in all but its limit, and        *)
(* shf_q_get_name the queue shf_q_new_name gave each name to.              *)
THEOREM IpcSameQueues == IpcSpec => []SameQueues
<1>1. SetInv => SameQueues
  <2> SUFFICES ASSUME SetInv, \A p \in Procs : line[p] \in Ready
               PROVE  /\ \A k \in QDelKeys : hq[A].set[k] = hq[B].set[k]
                      /\ hq[A].qid = hq[B].qid
    BY DEF SameQueues, Ready, QDelKeys
  <2>1. line[A] \in Ready /\ line[B] \in Ready
    BY TwoProcs
  <2>2. \A k \in Settings : hq[A].set[k] = 2
    BY <2>1 DEF SetInv, SetsOfA
  <2>3. \A k \in QDelKeys : hq[B].set[k] = 2
    BY <2>1 DEF SetInv, SetsOfB
  <2>4. /\ hq[A].qid \in Seq(Qids) /\ Len(hq[A].qid) = 3 /\ InTurn(hq[A].qid)
        /\ hq[B].qid \in Seq(Qids) /\ Len(hq[B].qid) = 3 /\ InTurn(hq[B].qid)
    BY <2>1, TwoProcs DEF SetInv, SetsOfA, SetsOfB, HqType
  <2>5. hq[A].qid = hq[B].qid
    <3>1. \A i \in 1 .. Len(hq[A].qid) : hq[A].qid[i] = hq[B].qid[i]
      BY <2>4 DEF InTurn
    <3>2. QED BY <2>4, <3>1, SeqEqual
  <2>6. QED BY <2>2, <2>3, <2>5, NamesAre
<1>2. QED BY <1>1, IpcSets, PTL

-----------------------------------------------------------------------------
(* The races. *)

(* How many of the two have come past a stage of their program.            *)
Past(S) == (IF line[A] \in S THEN 0 ELSE 1) + (IF line[B] \in S THEN 0 ELSE 1)

(* What is written on a race line is at most the number of horses that     *)
(* have called.                                                            *)
LineCounts(k, S) == kv[k] = <<>> \/ \E n \in 0 .. 2 : kv[k] = <<n>> /\ n <= Past(S)

RaceLines ==
  /\ line[A] = "init" => \A k \in Races : kv[k] = <<>>
  /\ LineCounts("test-q-race-line", BeforeFirst)
  /\ LineCounts("test-lock-race-line", BeforeSecond)
  /\ \A p \in Procs : line[p] \in {"wait", "wait2"} => kv[Race(line[p])] # <<>>

RaceInv == SetInv /\ RaceLines /\ GunAfterAll

(* Nobody comes back before a stage it has passed. *)
NoWayBack ==
  \A p \in Procs : /\ line'[p] \in BeforeFirst => line[p] \in BeforeFirst
                   /\ line'[p] \in BeforeSecond => line[p] \in BeforeSecond

NoGun ==
  \A p \in Procs :
    /\ line'[p] \in {"pump", "race2"} => line[p] \in {"pump", "race2"}
    /\ line'[p] \in {"lock", "detach", "done"} => line[p] \in {"lock", "detach", "done"}

(* What all steps but those of a race do to it. *)
Quiet ==
  /\ NoWayBack /\ NoGun
  /\ line'[A] = "init" => line[A] = "init"
  /\ \A p \in Procs : line'[p] \in {"wait", "wait2"} => line'[p] = line[p]
  /\ \A k \in Races : kv'[k] = kv[k]

LEMMA PastGrows ==
  ASSUME NoWayBack
  PROVE  /\ Past(BeforeFirst) <= Past(BeforeFirst)' /\ Past(BeforeFirst)' \in 0 .. 2
         /\ Past(BeforeSecond) <= Past(BeforeSecond)' /\ Past(BeforeSecond)' \in 0 .. 2
BY TwoProcs DEF NoWayBack, Past

LEMMA PastAll ==
  ASSUME NEW S, 2 <= Past(S)
  PROVE  \A p \in Procs : line[p] \notin S
BY TwoProcs DEF Past

LEMMA PastType == \A S : Past(S) \in 0 .. 2
BY DEF Past

LEMMA RaceOne == \A l : Race(l) \in Races
BY DEF Race, Races

LEMMA QuietRace ==
  ASSUME RaceInv, SetInv', Quiet
  PROVE  RaceInv'
<1>1. RaceLines'
  <2>1. {"test-q-race-line", "test-lock-race-line"} = Races
    BY DEF Races
  <2>2. LineCounts("test-q-race-line", BeforeFirst)'
    BY <2>1, PastGrows, PastType DEF RaceInv, RaceLines, LineCounts, Quiet
  <2>3. LineCounts("test-lock-race-line", BeforeSecond)'
    BY <2>1, PastGrows, PastType DEF RaceInv, RaceLines, LineCounts, Quiet
  <2>4. \A p \in Procs : line'[p] \in {"wait", "wait2"} => kv'[Race(line'[p])] # <<>>
    BY RaceOne DEF RaceInv, RaceLines, Quiet
  <2>5. QED BY <2>2, <2>3, <2>4 DEF RaceInv, RaceLines, Quiet
<1>2. GunAfterAll'
  BY DEF RaceInv, GunAfterAll, Quiet, NoWayBack, NoGun
<1>3. QED BY <1>1, <1>2 DEF RaceInv

LEMMA InitRace == IpcInit => RaceInv
<1> SUFFICES ASSUME IpcInit PROVE RaceInv
  OBVIOUS
<1>1. \A k \in Races : kv[k] = <<>>
  BY NamesAre DEF IpcInit
<1>2. line[A] = "init" /\ line[B] = "unborn"
  BY TwoProcs DEF IpcInit
<1>3. RaceLines
  BY <1>1, <1>2, TwoProcs DEF RaceLines, LineCounts, Races
<1>4. GunAfterAll
  BY <1>2, TwoProcs DEF GunAfterAll
<1>5. QED BY <1>3, <1>4, SetInit DEF RaceInv

LEMMA RaceInitRace ==
  ASSUME RaceInv, SetInv', RaceInit(A)
  PROVE  RaceInv'
<1> USE TwoProcs
<1>1. line[A] = "init" /\ line' = [line EXCEPT ![A] = "new"] /\ DOMAIN line = Procs
  BY DEF RaceInit, At, Move, RaceInv, SetInv, Lines, Setup, Filling, Raced
<1>2. NoWayBack /\ NoGun /\ line'[A] # "init"
  BY <1>1 DEF NoWayBack, NoGun, BeforeFirst, BeforeSecond
<1>3. \A k \in Races : kv'[k] = <<0>>
  <2>1. \A k \in Races : kv'[k] = Append(kv[k], 0)
    BY NamesAre DEF RaceInit
  <2>2. Append(<<>>, 0) = <<0>>
    OBVIOUS
  <2>3. QED BY <1>1, <2>1, <2>2 DEF RaceInv, RaceLines
<1>4. RaceLines'
  <2>1. 0 <= Past(BeforeFirst)' /\ 0 <= Past(BeforeSecond)'
    BY <1>2, PastGrows
  <2>2. <<0>> # <<>>
    OBVIOUS
  <2>3. QED BY <1>2, <1>3, <2>1, <2>2, RaceOne DEF RaceLines, LineCounts, Races
<1>5. GunAfterAll'
  BY <1>2 DEF RaceInv, GunAfterAll, NoWayBack, NoGun
<1>6. QED BY <1>4, <1>5 DEF RaceInv

(* A horse that calls adds one to the line and is past the stage.          *)
LEMMA RaceStartRace ==
  ASSUME RaceInv, SetInv', NEW p \in Procs, RaceStart(p)
  PROVE  RaceInv'
<1> USE TwoProcs
<1> DEFINE k == Race(line[p])
<1>1. /\ line[p] \in {"race", "race2"} /\ DOMAIN kv = Keys /\ DOMAIN line = Procs
      /\ kv' = [kv EXCEPT ![k] = IF @ = <<>> THEN @ ELSE <<(@[1] + 1) % 256>>]
  BY DEF RaceStart, At, RaceInv, SetInv, Lines, Setup, Filling, Raced
<1>2. PICK l \in {IF line[p] = "race" THEN "wait" ELSE "wait2", "failed"} :
        line' = [line EXCEPT ![p] = l] /\ (l = "failed" \/ kv[k] # <<>>)
  BY DEF RaceStart, Assert, Move
<1>3. NoWayBack /\ NoGun /\ line'[A] # "init"
  <2>1. line'[p] = l /\ \A o \in Procs : o # p => line'[o] = line[o]
    BY <1>1, <1>2
  <2>2. NoWayBack
    BY <1>1, <1>2, <2>1 DEF NoWayBack, BeforeFirst, BeforeSecond
  <2>3. line[A] # "init"
    <3>1. line[A] \in Setup => line[B] = "unborn"
      BY DEF RaceInv, SetInv, Lines
    <3>2. QED BY <1>1, <3>1 DEF Setup
  <2>4. QED BY <1>2, <2>1, <2>2, <2>3 DEF NoGun
<1>4. GunAfterAll'
  BY <1>3 DEF RaceInv, GunAfterAll, NoWayBack, NoGun
<1>5. ASSUME NEW r, NEW S, r \in Races, LineCounts(r, S), Past(S) + 1 <= Past(S)' \/ k # r,
             Past(S) <= Past(S)', Past(S)' \in 0 .. 2
      PROVE  LineCounts(r, S)'
  <2>1. CASE kv[r] = <<>>
    BY <1>1, <1>5, <2>1, NamesAre DEF LineCounts
  <2>2. CASE kv[r] # <<>>
    <3>1. PICK n \in 0 .. 2 : kv[r] = <<n>> /\ n <= Past(S)
      BY <1>5, <2>2 DEF LineCounts
    <3>2. CASE k = r
      <4>1. kv'[r] = <<(n + 1) % 256>>
        BY <1>1, <1>5, <2>2, <3>1, <3>2, NamesAre
      <4>2. n + 1 <= Past(S)' /\ n + 1 \in 0 .. 2 /\ (n + 1) % 256 = n + 1
        BY <1>5, <3>1, <3>2, PastType
      <4>3. QED BY <4>1, <4>2 DEF LineCounts
    <3>3. CASE k # r
      <4>1. kv'[r] = <<n>>
        BY <1>1, <1>5, <3>1, <3>3, NamesAre
      <4>2. n <= Past(S)'
        BY <1>5, <3>1, PastType
      <4>3. QED BY <4>1, <4>2 DEF LineCounts
    <3>4. QED BY <3>2, <3>3
  <2>3. QED BY <2>1, <2>2
<1>6. LineCounts("test-q-race-line", BeforeFirst)'
  <2>1. Past(BeforeFirst) + 1 <= Past(BeforeFirst)' \/ k # "test-q-race-line"
    BY <1>1, <1>2 DEF Past, Race, BeforeFirst
  <2>2. QED BY <1>3, <1>5, <2>1, PastGrows DEF RaceInv, RaceLines, Races
<1>7. LineCounts("test-lock-race-line", BeforeSecond)'
  <2>1. Past(BeforeSecond) + 1 <= Past(BeforeSecond)' \/ k # "test-lock-race-line"
    BY <1>1, <1>2 DEF Past, Race, BeforeSecond, BeforeFirst
  <2>2. QED BY <1>3, <1>5, <2>1, PastGrows DEF RaceInv, RaceLines, Races
<1>8. RaceLines'
  <2>1. \A r \in Races : kv[r] # <<>> => kv'[r] # <<>>
    <3>1. \A n : <<n>> # <<>>
      OBVIOUS
    <3>2. QED BY <1>1, <3>1, NamesAre
  <2>2. \A o \in Procs : line'[o] \in {"wait", "wait2"} => kv'[Race(line'[o])] # <<>>
    <3> SUFFICES ASSUME NEW o \in Procs, line'[o] \in {"wait", "wait2"}
                 PROVE  kv'[Race(line'[o])] # <<>>
      OBVIOUS
    <3>1. CASE o # p
      BY <1>1, <1>2, <2>1, <3>1, RaceOne DEF RaceInv, RaceLines
    <3>2. CASE o = p
      <4>1. line'[o] = l /\ kv[k] # <<>> /\ l \in {"wait", "wait2"}
        BY <1>1, <1>2, <3>2
      <4>2. Race(l) = k
        BY <1>1, <1>2, <4>1 DEF Race
      <4>3. QED BY <2>1, <4>1, <4>2, RaceOne
    <3>3. QED BY <3>1, <3>2
  <2>3. QED BY <1>3, <1>6, <1>7, <2>2 DEF RaceLines
<1>9. QED BY <1>4, <1>8 DEF RaceInv

(* The gun: two on the line, so both have called.                          *)
LEMMA RaceGoRace ==
  ASSUME RaceInv, SetInv', NEW p \in Procs, RaceGo(p)
  PROVE  RaceInv'
<1> USE TwoProcs
<1>1. /\ line[p] \in {"wait", "wait2"} /\ kv' = kv /\ DOMAIN line = Procs
      /\ line' = [line EXCEPT ![p] = IF line[p] = "wait" THEN "pump" ELSE "lock"]
      /\ kv[Race(line[p])][1] = 2
  BY DEF RaceGo, At, Move, horses, RaceInv, SetInv, Lines, Setup, Filling, Raced
<1>2. NoWayBack /\ (line'[A] = "init" => line[A] = "init")
  BY <1>1 DEF NoWayBack, BeforeFirst, BeforeSecond
<1>3. RaceLines'
  <2>1. LineCounts("test-q-race-line", BeforeFirst)'
    BY <1>1, <1>2, PastGrows, PastType DEF RaceInv, RaceLines, LineCounts
  <2>2. LineCounts("test-lock-race-line", BeforeSecond)'
    BY <1>1, <1>2, PastGrows, PastType DEF RaceInv, RaceLines, LineCounts
  <2>3. \A o \in Procs : line'[o] \in {"wait", "wait2"} => line'[o] = line[o]
    BY <1>1
  <2>4. QED BY <1>1, <1>2, <2>1, <2>2, <2>3 DEF RaceInv, RaceLines
<1>4. ASSUME NEW r, NEW S, LineCounts(r, S), kv[r] # <<>>, kv[r][1] = 2
      PROVE  \A o \in Procs : line[o] \notin S
  <2>1. PICK n \in 0 .. 2 : kv[r] = <<n>> /\ n <= Past(S)
    BY <1>4 DEF LineCounts
  <2>2. 2 <= Past(S)
    BY <1>4, <2>1
  <2>3. QED BY <2>2, PastAll
<1>5. kv[Race(line[p])] # <<>>
  BY <1>1 DEF RaceInv, RaceLines
<1>6. GunAfterAll'
  <2>1. CASE line[p] = "wait"
    <3>1. \A o \in Procs : line[o] \notin BeforeFirst
      BY <1>1, <1>4, <1>5, <2>1 DEF Race, RaceInv, RaceLines
    <3>2. \A o \in Procs : line'[o] \notin BeforeFirst
      BY <1>2, <3>1 DEF NoWayBack
    <3>3. QED BY <1>1, <1>2, <2>1, <3>2 DEF RaceInv, GunAfterAll, NoWayBack
  <2>2. CASE line[p] = "wait2"
    <3>1. \A o \in Procs : line[o] \notin BeforeSecond
      BY <1>1, <1>4, <1>5, <2>2 DEF Race, RaceInv, RaceLines
    <3>2. \A o \in Procs : line'[o] \notin BeforeSecond
      BY <1>2, <3>1 DEF NoWayBack
    <3>3. \A o \in Procs : line'[o] \notin BeforeFirst
      BY <3>2 DEF BeforeSecond
    <3>4. QED BY <3>2, <3>3 DEF GunAfterAll
  <2>3. QED BY <1>1, <2>1, <2>2
<1>7. QED BY <1>3, <1>6 DEF RaceInv

-----------------------------------------------------------------------------
(* All the other steps are quiet. *)

LEMMA QuietA ==
  ASSUME RaceInv, NEW l, line' = [line EXCEPT ![A] = l], \A k \in Races : kv'[k] = kv[k],
         line[A] \in Setup, l \in (Setup \ {"init"}) \cup {"failed"}
  PROVE  Quiet
<1> USE TwoProcs
<1>1. DOMAIN line = Procs /\ line'[A] = l /\ line'[B] = line[B]
  BY DEF RaceInv, SetInv, Lines, Setup, Filling, Raced
<1>2. NoWayBack /\ NoGun
  BY <1>1 DEF NoWayBack, NoGun, Setup, Filling, BeforeFirst, BeforeSecond
<1>3. QED BY <1>1, <1>2 DEF Quiet, Setup, Filling

LEMMA SetupQuiet ==
  ASSUME RaceInv,
         \/ \E s \in {1, 2} : QNew(A, s)
         \/ QNewName(A) \/ QDel(A)
         \/ FillFrom(A) \/ FillTo(A) \/ SwapFirst(A) \/ Swap(A) \/ NextRound(A)
  PROVE  Quiet
<1>1. line[A] \in Setup
  BY DEF QNew, QNewName, QDel, FillFrom, FillTo, SwapFirst, Swap, NextRound, At, Setup, Filling
<1>2. PICK l \in (Setup \ {"init"}) \cup {"failed"} : line' = [line EXCEPT ![A] = l]
  BY DEF QNew, QNewName, QDel, FillFrom, FillTo, SwapFirst, Swap, NextRound, Assert, Move, Setup,
         Filling
<1>3. \A k \in Races : kv'[k] = kv[k]
  <2>1. DOMAIN kv = Keys
    BY DEF RaceInv, SetInv
  <2>2. CASE kv' = kv
    BY <2>2
  <2>3. CASE \E s \in {1, 2} : QNew(A, s)
    BY <2>3, NamesAre DEF QNew
  <2>4. CASE QNewName(A)
    <3>1. PICK n : n = hq[A].q_next
      OBVIOUS
    <3>2. kv' = [kv EXCEPT ![Names[n + 1]] = Append(@, n)] /\ line[A] = "name"
      BY <2>4, <3>1 DEF QNewName, At
    <3>3. n + 1 \in 1 .. 3
      BY <3>1, <3>2 DEF RaceInv, SetInv, SetsOfA
    <3>4. QED BY <2>1, <3>2, <3>3, NamesAre
  <2>5. CASE QDel(A)
    BY <2>5, NamesAre DEF QDel
  <2>6. QED BY <2>2, <2>3, <2>4, <2>5 DEF FillFrom, FillTo, SwapFirst, Swap, NextRound
<1>4. QED BY <1>1, <1>2, <1>3, QuietA

LEMMA ExecChildQuiet ==
  ASSUME RaceInv, ExecChild(A)
  PROVE  Quiet
<1> USE TwoProcs
<1>1. line[A] = "filling" /\ kv' = kv
  BY DEF ExecChild, At
<1>2. line[B] = "unborn" /\ DOMAIN line = Procs
  BY <1>1 DEF RaceInv, SetInv, Lines, Setup, Filling, Raced
<1>3. PICK l \in {"race", "failed"} : line' = [line EXCEPT ![A] = l, ![B] = "get"]
  BY DEF ExecChild
<1>4. line'[A] = l /\ line'[B] = "get"
  BY <1>2, <1>3
<1>5. NoWayBack /\ NoGun
  BY <1>1, <1>2, <1>4 DEF NoWayBack, NoGun, BeforeFirst, BeforeSecond
<1>6. QED BY <1>1, <1>4, <1>5 DEF Quiet

(* The steps of both programs between and after the races. *)
LEMMA RestQuiet ==
  ASSUME RaceInv, NEW p \in Procs,
         \/ RaceTimeout(p) \/ Pump(p) \/ LockUnlock(p) \/ DetachQ(p) \/ QGet(p) \/ QGetName(p)
         \/ (p = A /\ FinishA) \/ (p = B /\ FinishB)
  PROVE  Quiet
<1> USE TwoProcs
<1>1. kv' = kv /\ DOMAIN line = Procs
  BY DEF RaceTimeout, Pump, LockUnlock, DetachQ, QGet, QGetName, FinishA, FinishB,
         RaceInv, SetInv, Lines, Setup, Filling, Raced
<1>2. PICK l : line' = [line EXCEPT ![p] = l] /\ <<line[p], l>> \in
        {<<"wait", "timeout">>, <<"wait2", "timeout">>, <<"pump", "pump">>, <<"lock", "detach">>,
         <<"detach", "done">>, <<"detach", "failed">>, <<"get", "getname">>, <<"get", "failed">>,
         <<"getname", "getname">>, <<"getname", "race">>, <<"getname", "failed">>,
         <<"pump", "race2">>}
  <2>1. CASE Pump(p)
    <3>1. line' = line /\ line[p] = "pump"
      BY <2>1 DEF Pump, At
    <3>2. line' = [line EXCEPT ![p] = "pump"]
      BY <3>1 DEF RaceInv, SetInv, Lines
    <3>3. QED BY <3>1, <3>2
  <2>2. CASE RaceTimeout(p) \/ LockUnlock(p) \/ (p = A /\ FinishA) \/ (p = B /\ FinishB)
    BY <2>2 DEF RaceTimeout, LockUnlock, FinishA, FinishB, At, Move
  <2>3. CASE DetachQ(p) \/ QGet(p) \/ QGetName(p)
    BY <2>3 DEF DetachQ, QGet, QGetName, At, Assert, Move
  <2>4. QED BY <2>1, <2>2, <2>3
<1>3. line'[p] = l /\ \A o \in Procs : o # p => line'[o] = line[o]
  BY <1>1, <1>2
<1>4. NoWayBack
  BY <1>2, <1>3 DEF NoWayBack, BeforeFirst, BeforeSecond
<1>5. NoGun /\ (line'[A] = "init" => line[A] = "init")
  BY <1>2, <1>3 DEF NoGun
<1>6. \A o \in Procs : line'[o] \in {"wait", "wait2"} => line'[o] = line[o]
  BY <1>2, <1>3
<1>7. QED BY <1>1, <1>4, <1>5, <1>6 DEF Quiet

LEMMA StillQuiet ==
  ASSUME line' = line, kv' = kv
  PROVE  Quiet
BY DEF Quiet, NoWayBack, NoGun

LEMMA RaceStep == RaceInv /\ [IpcNext]_ivars => RaceInv'
<1> SUFFICES ASSUME RaceInv, [IpcNext]_ivars PROVE RaceInv'
  OBVIOUS
<1>1. SetInv'
  BY SetStep DEF RaceInv
<1>2. CASE RaceInit(A)
  BY <1>1, <1>2, RaceInitRace
<1>3. CASE \E p \in Procs : RaceStart(p)
  BY <1>1, <1>3, RaceStartRace
<1>4. CASE \E p \in Procs : RaceGo(p)
  BY <1>1, <1>4, RaceGoRace
<1>5. CASE Quiet
  BY <1>1, <1>5, QuietRace
<1>6. CASE ProgramA
  BY <1>2, <1>3, <1>4, <1>5, <1>6, TwoProcs, SetupQuiet, ExecChildQuiet, RestQuiet DEF ProgramA
<1>7. CASE ProgramB
  BY <1>3, <1>4, <1>5, <1>7, TwoProcs, RestQuiet DEF ProgramB
<1>8. ASSUME NEW p \in Procs, RaceTimeout(p) \/ InCall(p) \/ GetLock(p) PROVE RaceInv'
  BY <1>5, <1>8, RestQuiet, StillQuiet DEF InCall, GetLock
<1>9. CASE UNCHANGED ivars
  BY <1>5, <1>9, StillQuiet DEF ivars
<1>10. QED BY <1>6, <1>7, <1>8, <1>9 DEF IpcNext

(* "shf_race_start() only fires the gun once all horses have called", in   *)
(* the first and in the second race: whatever a process does between the   *)
(* two, and whichever of the two is late or gives up.                      *)
THEOREM IpcGunAfterAll == IpcSpec => []GunAfterAll
<1>1. RaceInv => GunAfterAll
  BY DEF RaceInv
<1>2. QED BY <1>1, InitRace, RaceStep, PTL DEF IpcSpec

-----------------------------------------------------------------------------
(* The queues under the two programs: every step of a program is one of    *)
(* ShfQueue, but for shf_q_new, which brings its first state about.        *)

(* B before it first pushes or pulls. *)
Early == {"unborn", "get", "getname", "race", "wait"}
Idle(p) == own[p] = {} /\ pc[p] = "idle" /\ push[p] = NewLists /\ pull[p] = NewLists

(* What there is before the first shf_q_new. *)
Blank ==
  /\ qids = NewLists /\ qiids = [i \in Items |-> [last |-> 0, next |-> 0]]
  /\ push = [p \in Procs |-> NewLists] /\ pull = [p \in Procs |-> NewLists]
  /\ own = [p \in Procs |-> {}]
  /\ pc = [p \in Procs |-> "idle"] /\ pull_qid = [p \in Procs |-> None] /\ lock = {}

Made ==
  /\ line[A] \in {"init", "new"} => Blank
  /\ line[A] \in {"name", "del", "newer"} => Init

PlayInv ==
  /\ SetInv /\ QueueInv /\ Made
  /\ round \in 1 .. 4 /\ (line[B] \in Early => Idle(B))

(* What process p does to the queues. *)
QueueStep(p) ==
  \/ UNCHANGED vars
  \/ \E q \in Qids, i \in Items : PushHead(p, q, i)
  \/ \E r \in Qids : PullTail(p, r)
  \/ \E q, r \in Qids, i \in Items : PushHeadPullTail(p, q, i, r)
  \/ \E q, r \in Qids : PushNonePullTail(p, q, r)
  \/ Lock(p) \/ FlushPush(p) \/ FillPull(p) \/ FlushDone(p) \/ PullLocal(p)
  \/ Leave(p)

LEMMA QueueStepNext ==
  ASSUME NEW p \in Procs, QueueStep(p)
  PROVE  [Next]_vars
<1>1. Named = Qids
  BY IpcAssumption
<1>2. QED BY <1>1, Zenon DEF QueueStep, Next

Apart(o) == push'[o] = push[o] /\ pull'[o] = pull[o] /\ own'[o] = own[o] /\ pc'[o] = pc[o]

LEMMA QueueStepApart ==
  ASSUME QueueType, NEW p \in Procs, QueueStep(p), NEW o \in Procs, o # p
  PROVE  Apart(o)
<1>1. CASE UNCHANGED vars
  BY <1>1 DEF vars, Apart
<1>2. ASSUME NEW q \in Qids, NEW i \in Items, PushHead(p, q, i) PROVE Apart(o)
  BY <1>2 DEF QueueType, PushHead, PushLocal, Goto, Apart
<1>3. ASSUME NEW r \in Qids, PullTail(p, r) PROVE Apart(o)
  BY <1>3 DEF QueueType, PullTail, Goto, Apart
<1>4. ASSUME NEW q \in Qids, NEW r \in Qids, NEW i \in Items, PushHeadPullTail(p, q, i, r)
      PROVE  Apart(o)
  BY <1>4 DEF QueueType, PushHeadPullTail, PushLocal, FlushOrPull, Goto, Apart
<1>5. ASSUME NEW q \in Qids, NEW r \in Qids, PushNonePullTail(p, q, r) PROVE Apart(o)
  BY <1>5 DEF QueueType, PushNonePullTail, FlushOrPull, Goto, Apart
<1>6. CASE Lock(p) \/ FlushDone(p) \/ Leave(p)
  BY <1>6 DEF QueueType, Lock, FlushDone, Leave, Apart
<1>7. CASE FlushPush(p)
  BY <1>7 DEF QueueType, FlushPush, Apart
<1>8. CASE FillPull(p)
  <2>1. pull' = pull \/ \E l : pull' = [pull EXCEPT ![p][pull_qid[p]] = l]
    BY <1>8 DEF FillPull
  <2>2. QED BY <1>8, <2>1 DEF QueueType, FillPull, Apart
<1>9. CASE PullLocal(p)
  <2>1. pull' = pull \/ \E l : pull' = [pull EXCEPT ![p][pull_qid[p]] = l]
    BY <1>9 DEF PullLocal
  <2>2. own' = own \/ \E m : own' = [own EXCEPT ![p] = m]
    BY <1>9 DEF PullLocal
  <2>3. QED BY <1>9, <2>1, <2>2 DEF QueueType, PullLocal, Goto, Apart
<1>10. QED BY <1>1, <1>2, <1>3, <1>4, <1>5, <1>6, <1>7, <1>8, <1>9 DEF QueueStep

(* There is nothing on any list before there are queues. *)
LEMMA BlankInv == Blank => QueueInv
<1> SUFFICES ASSUME Blank PROVE QueueInv
  OBVIOUS
<1>1. Empty \in ListRec
  BY EmptyHolds DEF Holds
<1>2. QueueType
  <2>1. 0 \in Items
    BY QueueAssumption DEF Items
  <2>2. qiids \in Links
    BY <2>1 DEF Blank, Links
  <2>3. QED BY <1>1, <2>2 DEF Blank, QueueType, NewLists
<1>3. Pulling
  BY DEF Blank, Pulling
<1>4. PICK W : W = [x \in Places |-> <<>>]
  OBVIOUS
<1>5. W \in [Places -> Seq(Items)]
  BY <1>4, EmptySeq
<1>6. ASSUME NEW x \in Places PROVE Holds(qiids, AtPlaces[x], W[x])
  <2>1. AtPlaces[x] = Empty
    <3>1. ASSUME NEW q \in Qids, x = <<"queue", q>> PROVE AtPlaces[x] = Empty
      BY <3>1, AtIs DEF Blank, NewLists
    <3>2. ASSUME NEW p \in Procs, NEW q \in Qids, x = <<"push", p, q>> PROVE AtPlaces[x] = Empty
      BY <3>2, AtIs DEF Blank, NewLists
    <3>3. ASSUME NEW p \in Procs, NEW q \in Qids, x = <<"pull", p, q>> PROVE AtPlaces[x] = Empty
      BY <3>3, AtIs DEF Blank, NewLists
    <3>4. QED BY <3>1, <3>2, <3>3 DEF Places
  <2>2. QED BY <1>4, <2>1, EmptyHolds
<1>7. \A x \in Places \cup Hands : In(W, own, x) = {}
  <2> SUFFICES ASSUME NEW x \in Places \cup Hands PROVE In(W, own, x) = {}
    OBVIOUS
  <2>1. CASE x \in Places
    BY <1>4, <2>1, EmptyItems, PlacesAre DEF In
  <2>2. CASE x \in Hands
    <3>1. PICK p \in Procs : x = <<"own", p>>
      BY <2>2 DEF Hands
    <3>2. QED BY <3>1, PlacesAre DEF In, Blank
  <2>3. QED BY <2>1, <2>2
<1>8. Good(AtPlaces, qiids, own, W)
  BY <1>5, <1>6, <1>7 DEF Good
<1>9. QED BY <1>2, <1>3, <1>8 DEF QueueInv

LEMMA InitNext == Init' => QueueInv'
BY QueueInit, PTL

LEMMA QueueNext ==
  ASSUME QueueInv, NEW p \in Procs, QueueStep(p)
  PROVE  QueueInv' /\ \A o \in Procs : o # p => Apart(o)
<1>1. QueueInv'
  BY QueueStepNext, StepSound DEF QueueInv
<1>2. QED BY <1>1, QueueStepApart DEF QueueInv

(* The queues the programs name are queues. *)
LEMMA QidOfA ==
  ASSUME SetInv, line[A] \in Filling \cup Ready, NEW n \in 1 .. 3
  PROVE  Qid(A, n) = n - 1 /\ n - 1 \in Qids
<1>1. Len(hq[A].qid) = 3 /\ InTurn(hq[A].qid)
  BY DEF SetInv, SetsOfA
<1>2. qs = 3
  BY IpcAssumption
<1>3. QED BY <1>1, <1>2 DEF InTurn, Qid, Qids

LEMMA QidOfB ==
  ASSUME SetInv, line[B] \in Ready, NEW n \in 1 .. 3
  PROVE  Qid(B, n) = n - 1 /\ n - 1 \in Qids
<1>1. Len(hq[B].qid) = 3 /\ InTurn(hq[B].qid)
  BY DEF SetInv, SetsOfB
<1>2. qs = 3
  BY IpcAssumption
<1>3. QED BY <1>1, <1>2 DEF InTurn, Qid, Qids

LEMMA PumpQueues ==
  ASSUME SetInv, NEW p \in Procs, line[p] = "pump"
  PROVE  To(p) \in Qids /\ From(p) \in Qids
<1>1. "pump" \in Ready
  BY DEF Ready
<1>2. CASE p = A
  BY <1>1, <1>2, QidOfA DEF To, From
<1>3. CASE p = B
  BY <1>1, <1>3, QidOfB, TwoProcs DEF To, From
<1>4. QED BY <1>2, <1>3, TwoProcs

LEMMA FillQueues ==
  ASSUME SetInv, round \in 1 .. 4, line[A] \in Filling
  PROVE  /\ Source \in 1 .. 3 /\ Target \in 1 .. 3 /\ Source # Target
         /\ Qid(A, Source) = Source - 1 /\ Qid(A, Target) = Target - 1
         /\ Source - 1 \in Qids /\ Target - 1 \in Qids
<1>1. Source \in 1 .. 3 /\ Target \in 1 .. 3 /\ Source # Target
  BY DEF Source, Target
<1>2. QED BY <1>1, QidOfA

LEMMA OwnItems ==
  ASSUME QueueInv, NEW p \in Procs, NEW i \in own[p]
  PROVE  i \in Items
BY DEF QueueInv, QueueType

LEMMA FillIsStep ==
  ASSUME PlayInv, FillFrom(A) \/ FillTo(A) \/ SwapFirst(A) \/ Swap(A) \/ NextRound(A) \/ ExecChild(A)
  PROVE  QueueStep(A)
<1> USE TwoProcs
<1>1. line[A] \in Filling
  BY DEF FillFrom, FillTo, SwapFirst, Swap, NextRound, ExecChild, At, Filling
<1>2. Qid(A, Source) \in Qids /\ Qid(A, Target) \in Qids
  BY <1>1, FillQueues DEF PlayInv
<1>3. CASE FillFrom(A)
  BY <1>2, <1>3 DEF FillFrom, QueueStep
<1>4. CASE FillTo(A)
  <2>1. PICK i \in own[A] : PushHead(A, Qid(A, Target), i)
    BY <1>4 DEF FillTo
  <2>2. i \in Items
    BY OwnItems DEF PlayInv
  <2>3. QED BY <1>2, <2>1, <2>2 DEF QueueStep
<1>5. CASE SwapFirst(A)
  BY <1>2, <1>5 DEF SwapFirst, QueueStep
<1>6. CASE Swap(A)
  <2>1. PICK i \in own[A] : PushHeadPullTail(A, Qid(A, Target), i, Qid(A, Source))
    BY <1>6 DEF Swap
  <2>2. i \in Items
    BY OwnItems DEF PlayInv
  <2>3. QED BY <1>2, <2>1, <2>2 DEF QueueStep
<1>7. CASE NextRound(A) \/ ExecChild(A)
  BY <1>7 DEF NextRound, ExecChild, QueueStep
<1>8. QED BY <1>3, <1>4, <1>5, <1>6, <1>7

LEMMA PumpIsStep ==
  ASSUME PlayInv, NEW p \in Procs, line[p] = "pump", PushPull(p)
  PROVE  QueueStep(p)
<1>1. To(p) \in Qids /\ From(p) \in Qids
  BY PumpQueues DEF PlayInv
<1>2. CASE own[p] = {} /\ PushNonePullTail(p, To(p), From(p))
  BY <1>1, <1>2 DEF QueueStep
<1>3. ASSUME NEW i \in own[p], PushHeadPullTail(p, To(p), i, From(p)) PROVE QueueStep(p)
  <2>1. i \in Items
    BY OwnItems DEF PlayInv
  <2>2. QED BY <1>1, <1>3, <2>1 DEF QueueStep
<1>4. QED BY <1>2, <1>3 DEF PushPull

(* B starts with new lists as a process that has left them would.          *)
LEMMA QGetIsStep ==
  ASSUME PlayInv, QGet(B)
  PROVE  /\ QueueStep(B) /\ own'[B] = {} /\ pc'[B] = "idle"
         /\ push'[B] = NewLists /\ pull'[B] = NewLists
<1> USE TwoProcs
<1>1. Idle(B)
  BY DEF PlayInv, QGet, At, Early
<1>2. /\ push' = [push EXCEPT ![B] = NewLists] /\ pull' = [pull EXCEPT ![B] = NewLists]
      /\ UNCHANGED <<qids, qiids, own, pc, pull_qid, lock>>
  BY DEF QGet
<1>3. /\ DOMAIN push = Procs /\ DOMAIN pull = Procs /\ own \in [Procs -> SUBSET Items]
  BY DEF PlayInv, QueueInv, QueueType
<1>4. own' = [own EXCEPT ![B] = {}]
  BY <1>1, <1>2, <1>3 DEF Idle
<1>5. Leave(B)
  BY <1>1, <1>2, <1>4 DEF Idle, Leave
<1>6. QED BY <1>1, <1>2, <1>3, <1>5 DEF Idle, QueueStep

(* The steps of B, and of A from its second set on. *)
LEMMA LateA ==
  ASSUME PlayInv, SetInv', QueueStep(A), line'[A] \in Filling \cup Raced, round' \in 1 .. 4,
         line'[B] \in Early => line[B] \in Early
  PROVE  PlayInv'
<1>1. QueueInv' /\ Apart(B)
  BY QueueNext, TwoProcs DEF PlayInv
<1>2. Made'
  BY DEF Made, Filling, Raced
<1>3. line'[B] \in Early => Idle(B)'
  BY <1>1 DEF PlayInv, Idle, Apart
<1>4. QED BY <1>1, <1>2, <1>3 DEF PlayInv

LEMMA StepOfB ==
  ASSUME PlayInv, SetInv', QueueStep(B), line[B] # "unborn", line'[A] = line[A], round' = round,
         line'[B] \in Early => Idle(B)'
  PROVE  PlayInv'
<1>1. QueueInv'
  BY QueueNext, TwoProcs DEF PlayInv
<1>2. Made'
  BY DEF PlayInv, SetInv, Lines, Made, Setup
<1>3. QED BY <1>1, <1>2 DEF PlayInv

LEMMA QNewPlay ==
  ASSUME PlayInv, SetInv', NEW s \in {1, 2}, QNew(A, s)
  PROVE  PlayInv'
<1> USE TwoProcs
<1>1. line[A] \in {"new", "newer"} /\ line[B] = "unborn" /\ DOMAIN line = Procs
  BY DEF QNew, At, PlayInv, SetInv, Lines, Setup
<1>2. line'[B] = line[B] /\ line'[A] \in {"name", "fill", "failed"}
  BY <1>1 DEF QNew, Assert, Move
<1>3. /\ push = [p \in Procs |-> NewLists] /\ pull = [p \in Procs |-> NewLists]
      /\ own = [p \in Procs |-> {}] /\ pc = [p \in Procs |-> "idle"]
      /\ pull_qid = [p \in Procs |-> None] /\ lock = {}
  BY <1>1 DEF PlayInv, Made, Blank, Init
<1>4. Init'
  BY <1>3 DEF QNew, Init
<1>5. Idle(B)'
  BY <1>4 DEF Init, Idle
<1>6. Made' /\ QueueInv'
  BY <1>2, <1>4, InitNext DEF Made
<1>7. QED BY <1>5, <1>6 DEF PlayInv, QNew, test

LEMMA SetupPlay ==
  ASSUME PlayInv, SetInv', RaceInit(A) \/ QNewName(A) \/ QDel(A)
  PROVE  PlayInv'
<1> USE TwoProcs
<1>1. line[A] \in {"init", "name", "del"} /\ line[B] = "unborn" /\ DOMAIN line = Procs
  BY DEF RaceInit, QNewName, QDel, At, PlayInv, SetInv, Lines, Setup
<1>2. /\ line'[B] = line[B] /\ vars' = vars /\ round' = round
      /\ line[A] = "init" => line'[A] = "new"
      /\ line[A] \in {"name", "del"} => line'[A] \in {"name", "del", "newer", "failed"}
  BY <1>1 DEF RaceInit, QNewName, QDel, At, Assert, Move, test
<1>3. (Blank => Blank') /\ (Init => Init')
  BY <1>2 DEF Blank, Init, vars
<1>4. Made'
  BY <1>1, <1>2, <1>3 DEF PlayInv, Made
<1>5. QueueStep(A) /\ Idle(B)'
  BY <1>1, <1>2 DEF PlayInv, QueueStep, Early, Idle, vars
<1>6. QueueInv'
  BY <1>5, QueueNext DEF PlayInv
<1>7. QED BY <1>2, <1>4, <1>5, <1>6 DEF PlayInv

LEMMA LatePlay ==
  ASSUME PlayInv, SetInv',
         FillFrom(A) \/ FillTo(A) \/ SwapFirst(A) \/ Swap(A) \/ NextRound(A) \/ ExecChild(A)
  PROVE  PlayInv'
<1> USE TwoProcs
<1>1. line[A] \in Filling /\ DOMAIN line = Procs /\ line[B] \in Early
  BY DEF FillFrom, FillTo, SwapFirst, Swap, NextRound, ExecChild, At, Filling, PlayInv, SetInv,
         Lines, Setup, Early
<1>2. line'[A] \in Filling \cup Raced
  BY <1>1 DEF FillFrom, FillTo, SwapFirst, Swap, NextRound, ExecChild, Assert, Move, Filling, Raced
<1>3. round' \in 1 .. 4
  BY DEF PlayInv, FillFrom, FillTo, SwapFirst, Swap, NextRound, ExecChild, test
<1>4. QueueStep(A)
  BY FillIsStep
<1>5. QED BY <1>1, <1>2, <1>3, <1>4, LateA

(* The steps from the races on, of either program.                         *)
LEMMA RacedStep ==
  ASSUME PlayInv, NEW p \in Procs,
         \/ RaceStart(p) \/ RaceGo(p) \/ RaceTimeout(p) \/ Pump(p) \/ LockUnlock(p) \/ DetachQ(p)
         \/ (p = A /\ FinishA) \/ (p = B /\ FinishB)
  PROVE  /\ QueueStep(p) /\ line[p] \in Raced /\ line'[p] \in Raced /\ round' = round
         /\ \A o \in Procs : o # p => line'[o] = line[o]
         /\ line'[p] \in Early => line[p] \in Early /\ UNCHANGED vars
<1> USE TwoProcs
<1>1. DOMAIN line = Procs
  BY DEF PlayInv, SetInv, Lines
<1>2. CASE RaceStart(p)
  BY <1>1, <1>2 DEF RaceStart, At, Assert, Move, Raced, Early, QueueStep, test
<1>3. CASE RaceGo(p)
  BY <1>1, <1>3 DEF RaceGo, At, Move, Raced, Early, QueueStep, test
<1>4. CASE RaceTimeout(p) \/ LockUnlock(p) \/ (p = B /\ FinishB)
  BY <1>1, <1>4 DEF RaceTimeout, LockUnlock, FinishB, At, Move, Raced, Early, QueueStep, test
<1>5. CASE DetachQ(p)
  BY <1>1, <1>5 DEF DetachQ, At, Assert, Move, Raced, Early, QueueStep, test
<1>6. CASE Pump(p)
  BY <1>1, <1>6, PumpIsStep DEF Pump, At, Raced, Early, test
<1>7. CASE p = A /\ FinishA
  BY <1>1, <1>7, PumpIsStep DEF FinishA, At, Move, Raced, Early, test
<1>8. QED BY <1>2, <1>3, <1>4, <1>5, <1>6, <1>7

LEMMA RacedPlay ==
  ASSUME PlayInv, SetInv', NEW p \in Procs,
         \/ RaceStart(p) \/ RaceGo(p) \/ RaceTimeout(p) \/ Pump(p) \/ LockUnlock(p) \/ DetachQ(p)
         \/ (p = A /\ FinishA) \/ (p = B /\ FinishB)
  PROVE  PlayInv'
<1>1. /\ QueueStep(p) /\ line[p] \in Raced /\ line'[p] \in Raced /\ round' = round
      /\ \A o \in Procs : o # p => line'[o] = line[o]
      /\ line'[p] \in Early => line[p] \in Early /\ UNCHANGED vars
  BY RacedStep
<1>2. CASE p = A
  BY <1>1, <1>2, TwoProcs, LateA DEF PlayInv
<1>3. CASE p = B
  <2>1. line'[B] \in Early => Idle(B)'
    BY <1>1, <1>3 DEF PlayInv, Idle, vars
  <2>2. QED BY <1>1, <1>3, <2>1, TwoProcs, StepOfB DEF Raced
<1>4. QED BY <1>2, <1>3, TwoProcs

LEMMA GetPlay ==
  ASSUME PlayInv, SetInv', QGet(B) \/ QGetName(B)
  PROVE  PlayInv'
<1> USE TwoProcs
<1>1. line[B] \in {"get", "getname"} /\ line'[A] = line[A] /\ round' = round
  BY DEF QGet, QGetName, At, Assert, Move, PlayInv, SetInv, Lines, test
<1>2. CASE QGet(B)
  <2>1. QueueStep(B) /\ Idle(B)'
    BY <1>2, QGetIsStep DEF Idle
  <2>2. QED BY <1>1, <2>1, StepOfB
<1>3. CASE QGetName(B)
  <2>1. QueueStep(B) /\ Idle(B)'
    BY <1>1, <1>3 DEF QGetName, QueueStep, PlayInv, Early, Idle, vars
  <2>2. QED BY <1>1, <2>1, StepOfB
<1>4. QED BY <1>2, <1>3

(* Nobody is in a call on a queue before there are queues.                 *)
LEMMA CallPlay ==
  ASSUME PlayInv, SetInv', NEW p \in Procs, InCall(p) \/ GetLock(p)
  PROVE  PlayInv' /\ QueueStep(p) /\ (p = A => line[A] \in Filling \cup Raced)
<1> USE TwoProcs
<1>1. QueueStep(p) /\ pc[p] # "idle" /\ line' = line /\ round' = round
  BY DEF InCall, GetLock, Lock, FlushPush, FillPull, FlushDone, PullLocal, QueueStep, test
<1>2. CASE p = A
  <2>1. line[A] \notin {"init", "new", "name", "del", "newer"}
    BY <1>1, <1>2 DEF PlayInv, Made, Blank, Init
  <2>2. line[A] \in Filling \cup Raced
    BY <2>1 DEF PlayInv, SetInv, Lines, Setup
  <2>3. QED BY <1>1, <1>2, <2>2, LateA DEF PlayInv
<1>3. CASE p = B
  <2>1. line[B] \notin Early
    BY <1>1, <1>3 DEF PlayInv, Idle
  <2>2. QED BY <1>1, <1>3, <2>1, StepOfB DEF Early
<1>4. QED BY <1>2, <1>3

LEMMA PlayInit == IpcInit => PlayInv
<1> SUFFICES ASSUME IpcInit PROVE PlayInv
  OBVIOUS
<1>1. Blank /\ round = 1 /\ line[A] = "init"
  BY TwoProcs DEF IpcInit, Blank
<1>2. Made /\ Idle(B)
  BY <1>1, TwoProcs DEF Made, Blank, Idle
<1>3. QED BY <1>1, <1>2, SetInit, BlankInv DEF PlayInv

LEMMA PlayStep == PlayInv /\ [IpcNext]_ivars => PlayInv'
<1> SUFFICES ASSUME PlayInv, [IpcNext]_ivars PROVE PlayInv'
  OBVIOUS
<1> USE TwoProcs
<1>1. SetInv'
  BY SetStep DEF PlayInv
<1>2. CASE ProgramA
  BY <1>1, <1>2, SetupPlay, QNewPlay, LatePlay, RacedPlay DEF ProgramA
<1>3. CASE ProgramB
  BY <1>1, <1>3, GetPlay, RacedPlay DEF ProgramB
<1>4. ASSUME NEW p \in Procs, RaceTimeout(p) \/ InCall(p) \/ GetLock(p) PROVE PlayInv'
  BY <1>1, <1>4, RacedPlay, CallPlay
<1>5. CASE UNCHANGED ivars
  <2>1. UNCHANGED vars /\ line' = line /\ round' = round
    BY <1>5 DEF ivars, test
  <2>2. QueueStep(A)
    BY <2>1 DEF QueueStep
  <2>3. QueueInv'
    BY <2>2, QueueNext DEF PlayInv
  <2>4. (Blank => Blank') /\ (Init => Init') /\ (Idle(B) => Idle(B)')
    BY <2>1 DEF Blank, Init, Idle, vars
  <2>5. QED BY <1>1, <2>1, <2>3, <2>4 DEF PlayInv, Made
<1>6. QED BY <1>2, <1>3, <1>4, <1>5 DEF IpcNext

(* The queues stay sound under the two programs, through the making, the   *)
(* deleting and the making again of the set, and with B coming to them.    *)
THEOREM IpcQueues == IpcSpec => [](TypeOK /\ ListsSound /\ NoItemTwice)
<1>1. PlayInv => TypeOK /\ ListsSound /\ NoItemTwice
  BY TypesFollow, ListsFollow, TwiceFollows DEF PlayInv
<1>2. QED BY <1>1, PlayInit, PlayStep, PTL DEF IpcSpec

-----------------------------------------------------------------------------
(* A's rounds: the items come out of a queue in the order they went in.    *)

(* All that A will get from queue q, and what it has put there, in order.  *)
Whole(W, q) == W[<<"pull", A, q>>] \o (W[<<"queue", q>>] \o W[<<"push", A, q>>])

LEMMA WholeIs ==
  ASSUME NEW W \in [Places -> Seq(Items)], NEW q \in Qids
  PROVE  /\ W[<<"pull", A, q>>] \in Seq(Items) /\ W[<<"queue", q>>] \in Seq(Items)
         /\ W[<<"push", A, q>>] \in Seq(Items) /\ Whole(W, q) \in Seq(Items)
         /\ Whole(W, q) = <<>> <=> /\ W[<<"pull", A, q>>] = <<>> /\ W[<<"queue", q>>] = <<>>
                                   /\ W[<<"push", A, q>>] = <<>>
<1>1. /\ W[<<"pull", A, q>>] \in Seq(Items) /\ W[<<"queue", q>>] \in Seq(Items)
      /\ W[<<"push", A, q>>] \in Seq(Items)
  BY PlacesAre, TwoProcs
<1>2. W[<<"queue", q>>] \o W[<<"push", A, q>>] \in Seq(Items)
  BY <1>1, ConcatProperties
<1>3. Whole(W, q) \in Seq(Items)
  BY <1>1, <1>2, ConcatProperties DEF Whole
<1>4. QED BY <1>1, <1>2, <1>3, ConcatEqualIffEmpty DEF Whole

(* f with v at x. *)
Put(f, x, v) == [f EXCEPT ![x] = v]

(* The places of one queue are not those of another.                       *)
LEMMA PlacesDiffer ==
  ASSUME NEW q \in Qids, NEW r \in Qids
  PROVE  /\ <<"push", A, q>> # <<"pull", A, r>> /\ <<"push", A, q>> # <<"queue", r>>
         /\ <<"pull", A, q>> # <<"queue", r>>
         /\ q # r => /\ <<"push", A, q>> # <<"push", A, r>> /\ <<"pull", A, q>> # <<"pull", A, r>>
                     /\ <<"queue", q>> # <<"queue", r>>
OBVIOUS

LEMMA PushKeeps ==
  ASSUME NEW W \in [Places -> Seq(Items)], NEW q \in Qids, NEW r \in Qids, r # q,
         NEW v, NEW W2, W2 = Put(W, <<"push", A, q>>, v)
  PROVE  Whole(W2, r) = Whole(W, r)
<1>1. /\ W2[<<"pull", A, r>>] = W[<<"pull", A, r>>] /\ W2[<<"queue", r>>] = W[<<"queue", r>>]
      /\ W2[<<"push", A, r>>] = W[<<"push", A, r>>]
  BY PlacesAre, PlacesDiffer, TwoProcs DEF Put
<1>2. QED BY <1>1 DEF Whole

LEMMA WholePush ==
  ASSUME NEW W \in [Places -> Seq(Items)], NEW q \in Qids, NEW i \in Items,
         NEW W2, W2 = Put(W, <<"push", A, q>>, W[<<"push", A, q>>] \o <<i>>)
  PROVE  Whole(W2, q) = Whole(W, q) \o <<i>>
<1>1. PICK u, m, v \in Seq(Items) :
         u = W[<<"pull", A, q>>] /\ m = W[<<"queue", q>>] /\ v = W[<<"push", A, q>>]
  BY WholeIs
<1>2. /\ W2[<<"pull", A, q>>] = u /\ W2[<<"queue", q>>] = m /\ W2[<<"push", A, q>>] = v \o <<i>>
  <2>1. PICK a, b, c \in Places : a = <<"push", A, q>> /\ b = <<"pull", A, q>> /\ c = <<"queue", q>>
    BY PlacesAre, TwoProcs
  <2>2. PICK t : t = v \o <<i>>
    OBVIOUS
  <2>3. W2 = [W EXCEPT ![a] = t]
    BY <1>1, <2>1, <2>2 DEF Put
  <2>4. b # a /\ c # a
    BY <2>1, PlacesDiffer
  <2>5. W2[a] = t /\ W2[b] = W[b] /\ W2[c] = W[c]
    BY <2>3, <2>4
  <2>6. QED BY <1>1, <2>1, <2>2, <2>5
<1>3. <<i>> \in Seq(Items) /\ m \o v \in Seq(Items)
  BY OneItem, ConcatProperties
<1>4. m \o (v \o <<i>>) = (m \o v) \o <<i>>
  BY <1>3, ConcatAssociative
<1>5. u \o ((m \o v) \o <<i>>) = (u \o (m \o v)) \o <<i>>
  BY <1>3, ConcatAssociative
<1>6. Whole(W2, q) = Whole(W, q) \o <<i>>
  BY <1>1, <1>2, <1>4, <1>5 DEF Whole
<1>7. QED BY <1>6

LEMMA WholeFlush ==
  ASSUME NEW W \in [Places -> Seq(Items)], NEW q \in Qids,
         NEW W2, W2 = With(W, <<"push", A, q>>, <<>>, <<"queue", q>>,
                           W[<<"queue", q>>] \o W[<<"push", A, q>>])
  PROVE  \A r \in Qids : Whole(W2, r) = Whole(W, r)
<1>1. PICK u, m, v \in Seq(Items) :
         u = W[<<"pull", A, q>>] /\ m = W[<<"queue", q>>] /\ v = W[<<"push", A, q>>]
  BY WholeIs
<1>2. PICK a \in Places : a = <<"push", A, q>>
  BY PlacesAre, TwoProcs
<1>3. PICK b \in Places : b = <<"queue", q>>
  BY PlacesAre
<1>4. W2[a] = <<>> /\ W2[b] = m \o v /\ \A y \in Places : y # a /\ y # b => W2[y] = W[y]
  <2>1. a # b
    BY <1>2, <1>3, PlacesDiffer
  <2>2. PICK t : t = m \o v
    OBVIOUS
  <2>3. W2 = With(W, a, <<>>, b, t)
    BY <1>1, <1>2, <1>3, <2>2
  <2>4. QED BY <2>1, <2>2, <2>3 DEF With
<1>5. Whole(W2, q) = Whole(W, q)
  <2>1. W2[<<"pull", A, q>>] = u
    <3>1. PICK c \in Places : c = <<"pull", A, q>>
      BY PlacesAre, TwoProcs
    <3>2. c # a /\ c # b
      BY <1>2, <1>3, <3>1, PlacesDiffer
    <3>3. QED BY <1>1, <1>4, <3>1, <3>2
  <2>2. m \o v \in Seq(Items)
    BY ConcatProperties
  <2>3. (m \o v) \o <<>> = m \o v
    BY <2>2, ConcatEmptySeq
  <2>4. QED BY <1>1, <1>2, <1>3, <1>4, <2>1, <2>3 DEF Whole
<1>6. ASSUME NEW r \in Qids, r # q PROVE Whole(W2, r) = Whole(W, r)
  <2>0. PICK c, d, e \in Places : c = <<"pull", A, r>> /\ d = <<"queue", r>> /\ e = <<"push", A, r>>
    BY PlacesAre, TwoProcs
  <2>1. c # a /\ c # b /\ d # a /\ d # b /\ e # a /\ e # b
    BY <1>2, <1>3, <1>6, <2>0
  <2>2. QED BY <1>4, <2>0, <2>1 DEF Whole
<1>7. QED BY <1>5, <1>6

(* Concatenation, as an operator that the provers can leave alone.         *)
Cat(s, t) == s \o t

LEMMA CatProperties ==
  /\ \A s, t \in Seq(Items) : Cat(s, t) \in Seq(Items)
  /\ \A s, t, w \in Seq(Items) : Cat(Cat(s, t), w) = Cat(s, Cat(t, w))
<1>1. \A s, t \in Seq(Items) : s \o t \in Seq(Items)
  OBVIOUS
<1>2. \A s, t, w \in Seq(Items) : (s \o t) \o w = s \o (t \o w)
  OBVIOUS
<1>3. QED BY <1>1, <1>2 DEF Cat

LEMMA Regroup ==
  ASSUME NEW u \in Seq(Items), NEW s \in Seq(Items), NEW t \in Seq(Items), NEW v \in Seq(Items)
  PROVE  Cat(Cat(u, s), Cat(t, v)) = Cat(u, Cat(Cat(s, t), v))
<1>1. PICK w \in Seq(Items) : w = Cat(t, v)
  BY CatProperties
<1>2. Cat(Cat(u, s), w) = Cat(u, Cat(s, w)) /\ Cat(Cat(s, t), v) = Cat(s, w)
  BY <1>1, CatProperties
<1>3. QED BY <1>1, <1>2

LEMMA FillParts ==
  ASSUME NEW u \in Seq(Items), NEW m \in Seq(Items), NEW v \in Seq(Items), NEW n \in Nat, n <= Len(m)
  PROVE  (u \o SubSeq(m, 1, n)) \o (SubSeq(m, n + 1, Len(m)) \o v) = u \o (m \o v)
<1> DEFINE x == SubSeq(m, 1, n)
           y == SubSeq(m, n + 1, Len(m))
<1>1. x \in Seq(Items) /\ y \in Seq(Items) /\ x \o y = m
  <2>1. Len(m) \in Nat /\ n <= Len(m)
    BY LenProperties
  <2>2. 1 \in 1 .. Len(m) + 1 /\ n \in 1 - 1 .. Len(m) /\ Len(m) \in n .. Len(m)
    BY <2>1
  <2>3. x \o y = SubSeq(m, 1, Len(m))
    BY <2>2, ConcatAdjacentSubSeq
  <2>4. SubSeq(m, 1, Len(m)) = m
    BY SubSeqFull
  <2>5. x \in Seq(Items) /\ y \in Seq(Items)
    <3>1. \A i \in 1 .. n : m[i] \in Items
      BY <2>1, ElementOfSeq
    <3>2. \A i \in n + 1 .. Len(m) : m[i] \in Items
      BY <2>1, ElementOfSeq
    <3>3. x \in Seq(Items)
      BY <2>1, <3>1, SubSeqProperties
    <3>4. y \in Seq(Items)
      BY <2>1, <3>2, SubSeqProperties
    <3>5. QED BY <3>3, <3>4
  <2>6. QED BY <2>3, <2>4, <2>5
<1> HIDE DEF x, y
<1>2. (u \o x) \o (y \o v) = u \o ((x \o y) \o v)
  <2>1. Cat(Cat(u, x), Cat(y, v)) = Cat(u, Cat(Cat(x, y), v))
    BY <1>1, Regroup
  <2>2. QED BY <2>1 DEF Cat
<1>3. (u \o x) \o (y \o v) = u \o (m \o v)
  BY <1>1, <1>2
<1>4. QED BY <1>3 DEF x, y

(* W when A has moved n items of queue q to its pull list. *)
Filled(W, q, n) ==
  With(W, <<"queue", q>>, SubSeq(W[<<"queue", q>>], n + 1, Len(W[<<"queue", q>>])),
       <<"pull", A, q>>, W[<<"pull", A, q>>] \o SubSeq(W[<<"queue", q>>], 1, n))

LEMMA WholeFill ==
  ASSUME NEW W \in [Places -> Seq(Items)], NEW q \in Qids, NEW n \in Nat, n <= Len(W[<<"queue", q>>]),
         NEW W2, W2 = Filled(W, q, n)
  PROVE  \A r \in Qids : Whole(W2, r) = Whole(W, r)
<1>1. PICK u, m, v \in Seq(Items) :
         u = W[<<"pull", A, q>>] /\ m = W[<<"queue", q>>] /\ v = W[<<"push", A, q>>]
  BY WholeIs
<1>2. PICK a \in Places : a = <<"queue", q>>
  BY PlacesAre
<1>3. PICK b \in Places : b = <<"pull", A, q>>
  BY PlacesAre, TwoProcs
<1>4. PICK x, y : x = SubSeq(m, 1, n) /\ y = SubSeq(m, n + 1, Len(m))
  OBVIOUS
<1>5. W2[a] = y /\ W2[b] = u \o x /\ \A z \in Places : z # a /\ z # b => W2[z] = W[z]
  <2>1. a # b
    BY <1>2, <1>3, PlacesDiffer
  <2>2. PICK t : t = u \o x
    OBVIOUS
  <2>3. W2 = With(W, a, y, b, t)
    BY <1>1, <1>2, <1>3, <1>4, <2>2 DEF Filled
  <2>4. QED BY <2>1, <2>2, <2>3 DEF With
<1>7. Whole(W2, q) = Whole(W, q)
  <2>1. W2[<<"push", A, q>>] = v
    <3>1. PICK c \in Places : c = <<"push", A, q>>
      BY PlacesAre, TwoProcs
    <3>2. c # a /\ c # b
      BY <1>2, <1>3, <3>1, PlacesDiffer
    <3>3. QED BY <1>1, <1>5, <3>1, <3>2
  <2>2. n <= Len(m)
    BY <1>1
  <2>3. (u \o x) \o (y \o v) = u \o (m \o v)
    BY <1>4, <2>2, FillParts
  <2>4. QED BY <1>1, <1>2, <1>3, <1>5, <2>1, <2>3 DEF Whole
<1>8. ASSUME NEW r \in Qids, r # q PROVE Whole(W2, r) = Whole(W, r)
  <2>0. PICK c, d, e \in Places : c = <<"pull", A, r>> /\ d = <<"queue", r>> /\ e = <<"push", A, r>>
    BY PlacesAre, TwoProcs
  <2>1. c # a /\ c # b /\ d # a /\ d # b /\ e # a /\ e # b
    BY <1>2, <1>3, <1>8, <2>0
  <2>2. QED BY <1>5, <2>0, <2>1 DEF Whole
<1>9. QED BY <1>7, <1>8

LEMMA PullKeeps ==
  ASSUME NEW W \in [Places -> Seq(Items)], NEW q \in Qids, NEW r \in Qids, r # q,
         NEW v, NEW W2, W2 = Put(W, <<"pull", A, q>>, v)
  PROVE  Whole(W2, r) = Whole(W, r)
<1>1. /\ W2[<<"pull", A, r>>] = W[<<"pull", A, r>>] /\ W2[<<"queue", r>>] = W[<<"queue", r>>]
      /\ W2[<<"push", A, r>>] = W[<<"push", A, r>>]
  BY PlacesAre, PlacesDiffer, TwoProcs DEF Put
<1>2. QED BY <1>1 DEF Whole

LEMMA WholePull ==
  ASSUME NEW W \in [Places -> Seq(Items)], NEW q \in Qids, W[<<"pull", A, q>>] # <<>>,
         NEW W2, W2 = Put(W, <<"pull", A, q>>, Tail(W[<<"pull", A, q>>]))
  PROVE  /\ Whole(W, q) # <<>> /\ Head(Whole(W, q)) = Head(W[<<"pull", A, q>>])
         /\ Whole(W2, q) = Tail(Whole(W, q))
<1>1. PICK u, m, v \in Seq(Items) :
         u = W[<<"pull", A, q>>] /\ m = W[<<"queue", q>>] /\ v = W[<<"push", A, q>>]
  BY WholeIs
<1>2. /\ W2[<<"pull", A, q>>] = Tail(u) /\ W2[<<"queue", q>>] = m /\ W2[<<"push", A, q>>] = v
  BY <1>1, PlacesAre, PlacesDiffer, TwoProcs DEF Put
<1>3. ASSUME NEW w \in Seq(Items)
      PROVE  u \o w # <<>> /\ Head(u \o w) = Head(u) /\ Tail(u \o w) = Tail(u) \o w
  <2>1. u # <<>>
    BY <1>1
  <2>2. u \o w # <<>> /\ Head(u \o w) = Head(u)
    BY <2>1
  <2>3. Tail(u \o w) = Tail(u) \o w
    BY <2>1
  <2>4. QED BY <2>2, <2>3
<1>4. m \o v \in Seq(Items)
  BY ConcatProperties
<1>5. /\ Whole(W, q) # <<>> /\ Head(Whole(W, q)) = Head(W[<<"pull", A, q>>])
      /\ Whole(W2, q) = Tail(Whole(W, q))
  BY <1>1, <1>2, <1>3, <1>4 DEF Whole
<1>6. QED BY <1>5

(* What A's source s, target d and the third queue o hold, with A's hands  *)
(* h: in the first three rounds the items arrive numbered from 0, and in   *)
(* the second and third one they are already numbered when they set out.   *)
InHand(h) == IF h = {} THEN 0 ELSE 1

(* The numbers st when item i has gone to the target as the next one.      *)
Numbered(st, i, c, r) == IF r = 1 THEN Put(st, i, c) ELSE st

Fifo(s, d, o, h, c, st, r) ==
  /\ s \in Seq(Items) /\ d \in Seq(Items) /\ o = <<>>
  /\ h \subseteq Items /\ \A i, j \in h : i = j
  /\ c \in Nat /\ Len(d) = c /\ Len(s) + InHand(h) + c = q_items
  /\ st \in [Items -> 0 .. q_items]
  /\ r <= 3 => \A n \in 1 .. Len(d) : st[d[n]] = n - 1
  /\ r \in {2, 3} => /\ \A n \in 1 .. Len(s) : st[s[n]] = c + InHand(h) + n - 1
                     /\ \A i \in h : st[i] = c

LEMMA FifoPush ==
  ASSUME NEW s, NEW d, NEW o, NEW c, NEW st, NEW r \in 1 .. 4, NEW i \in Items,
         Fifo(s, d, o, {i}, c, st, r), i \notin ItemsOf(d),
         NEW st2, st2 = Numbered(st, i, c, r)
  PROVE  /\ Fifo(s, d \o <<i>>, o, {}, c + 1, st2, r) /\ c < q_items
         /\ r \in {2, 3} => st[i] = c
<1>1. /\ s \in Seq(Items) /\ d \in Seq(Items) /\ c \in Nat /\ Len(d) = c /\ o = <<>>
      /\ Len(s) + 1 + c = q_items /\ Len(s) \in Nat /\ st \in [Items -> 0 .. q_items]
  BY DEF Fifo, InHand
<1>2. q_items \in Nat /\ c < q_items
  BY <1>1, QueueAssumption
<1>3. PICK d2 : d2 = d \o <<i>>
  OBVIOUS
<1>4. /\ d2 \in Seq(Items) /\ Len(d2) = c + 1 /\ d2[c + 1] = i
      /\ \A n \in 1 .. c : d2[n] = d[n]
  BY <1>1, <1>3
<1>0. st2 = IF r = 1 THEN [st EXCEPT ![i] = c] ELSE st
  BY DEF Numbered, Put
<1>5. st2 \in [Items -> 0 .. q_items]
  BY <1>0, <1>1, <1>2
<1>6. r <= 3 => \A n \in 1 .. Len(d2) : st2[d2[n]] = n - 1
  <2> SUFFICES ASSUME r <= 3, NEW n \in 1 .. c + 1 PROVE st2[d2[n]] = n - 1
    BY <1>4
  <2>1. CASE n = c + 1
    <3>1. r = 1 \/ st[i] = c
      BY DEF Fifo
    <3>2. QED BY <1>0, <1>1, <1>4, <2>1, <3>1
  <2>2. CASE n \in 1 .. c
    <3>1. d2[n] = d[n] /\ st[d[n]] = n - 1
      BY <1>1, <1>4, <2>2 DEF Fifo
    <3>2. d[n] # i /\ d[n] \in Items
      BY <1>1, <2>2, ElementOfSeq DEF ItemsOf
    <3>3. QED BY <1>0, <1>1, <3>1, <3>2
  <2>3. QED BY <1>1, <2>1, <2>2
<1>7. r \in {2, 3} => /\ st2 = st /\ st[i] = c
                      /\ \A n \in 1 .. Len(s) : st[s[n]] = c + 1 + n - 1
  BY <1>0 DEF Fifo, InHand
<1>8. Fifo(s, d2, o, {}, c + 1, st2, r)
  BY <1>1, <1>4, <1>5, <1>6, <1>7 DEF Fifo, InHand
<1>9. QED BY <1>2, <1>3, <1>7, <1>8

LEMMA FifoPull ==
  ASSUME NEW s, NEW d, NEW o, NEW c, NEW st, NEW r \in 1 .. 4, Fifo(s, d, o, {}, c, st, r), s # <<>>
  PROVE  Fifo(Tail(s), d, o, {Head(s)}, c, st, r)
<1>1. s \in Seq(Items) /\ Len(s) + c = q_items /\ c \in Nat
  BY DEF Fifo, InHand
<1>2. PICK t, i : t = Tail(s) /\ i = Head(s)
  OBVIOUS
<1>3. /\ t \in Seq(Items) /\ i \in Items /\ i = s[1] /\ Len(t) = Len(s) - 1 /\ Len(s) \in Nat /\ Len(s) >= 1
      /\ \A n \in 1 .. Len(t) : t[n] = s[n + 1]
  BY <1>1, <1>2
<1>4. InHand({}) = 0 /\ InHand({i}) = 1
  BY DEF InHand
<1>5. r \in {2, 3} => \A n \in 1 .. Len(s) : st[s[n]] = c + n - 1
  BY <1>1, <1>4 DEF Fifo
<1>6. r \in {2, 3} => /\ \A n \in 1 .. Len(t) : st[t[n]] = c + 1 + n - 1
                      /\ st[i] = c
  <2> SUFFICES ASSUME r \in {2, 3}
               PROVE  (\A n \in 1 .. Len(t) : st[t[n]] = c + 1 + n - 1) /\ st[i] = c
    OBVIOUS
  <2>1. st[s[1]] = c + 1 - 1
    BY <1>3, <1>5
  <2>2. ASSUME NEW n \in 1 .. Len(t) PROVE st[t[n]] = c + 1 + n - 1
    <3>1. n + 1 \in 1 .. Len(s) /\ t[n] = s[n + 1]
      BY <1>3
    <3>2. st[s[n + 1]] = c + (n + 1) - 1
      BY <1>5, <3>1
    <3>3. QED BY <1>1, <3>1, <3>2
  <2>3. QED BY <1>1, <1>3, <2>1, <2>2
<1>7. Len(t) + 1 + c = q_items
  BY <1>1, <1>3
<1>8. Fifo(t, d, o, {i}, c, st, r)
  BY <1>3, <1>4, <1>6, <1>7 DEF Fifo
<1>9. QED BY <1>2, <1>8

LEMMA FifoTurn ==
  ASSUME NEW d, NEW o, NEW c, NEW st, NEW r \in 1 .. 3, Fifo(<<>>, d, o, {}, c, st, r)
  PROVE  c = q_items /\ Fifo(d, o, <<>>, {}, 0, st, r + 1)
<1>1. Len(<<>>) = 0 /\ <<>> \in Seq(Items)
  BY EmptySeq
<1>2. /\ d \in Seq(Items) /\ c \in Nat /\ Len(d) = c /\ o = <<>> /\ c = q_items
      /\ st \in [Items -> 0 .. q_items] /\ \A n \in 1 .. Len(d) : st[d[n]] = n - 1
  BY <1>1 DEF Fifo, InHand
<1>3. \A n \in 1 .. Len(d) : st[d[n]] = 0 + 0 + n - 1
  BY <1>2
<1>4. QED BY <1>1, <1>2, <1>3 DEF Fifo, InHand

(* The queues A moves the items from and to in a round, and the third one. *)
Src == Source - 1
Dst == Target - 1
Rest == 3 - Src - Dst

FillAt(W) == Fifo(Whole(W, Src), Whole(W, Dst), Whole(W, Rest), own[A], count[A], stamp, round)

(* A call that returns nothing has found the source empty to the last item,*)
(* whatever was in batches.                                                *)
FillCtl(W) ==
  /\ line[A] = "fill" => own[A] = {} /\ pull_qid[A] = None /\ pc[A] # "pull"
  /\ line[A] = "swap" => own[A] = {} /\ pc[A] = "idle"
  /\ line[A] \in {"swap", "swapping"} <=> round = 3
  /\ line[A] \in {"filling", "swapping"} =>
       /\ pc[A] # "idle" => own[A] = {} /\ pull_qid[A] = Src
       /\ pc[A] = "idle" => pull_qid[A] = None
       /\ pc[A] = "idle" /\ own[A] = {} => Whole(W, Src) = <<>>
       /\ pc[A] = "pull" /\ W[<<"pull", A, Src>>] = <<>> => Whole(W, Src) = <<>>

(* Before the first round nothing is numbered. *)
Unnumbered == round = 1 /\ count[A] = 0 /\ stamp = [i \in Items |-> 0]

FillHolds == \E W : Good(AtPlaces, qiids, own, W) /\ FillAt(W) /\ FillCtl(W)

FillInv ==
  /\ line[A] \in {"init", "new", "name", "del", "newer"} => Unnumbered
  /\ line[A] \in Filling => FillHolds

LEMMA FillQids ==
  ASSUME round \in 1 .. 4
  PROVE  /\ Src \in Qids /\ Dst \in Qids /\ Rest \in Qids
         /\ Src # Dst /\ Src # Rest /\ Dst # Rest
<1>1. qs = 3
  BY IpcAssumption
<1>2. Source \in 1 .. 3 /\ Target \in 1 .. 3 /\ Source # Target
  BY DEF Source, Target
<1>3. QED BY <1>1, <1>2 DEF Src, Dst, Rest, Qids

(* The next round takes the items from where this one has put them.        *)
LEMMA NextQids ==
  ASSUME round \in 1 .. 3, round' = round + 1
  PROVE  Src' = Dst /\ Dst' = Rest /\ Rest' = Src
<1>1. CASE round = 1
  BY <1>1 DEF Src, Dst, Rest, Source, Target
<1>2. CASE round = 2
  BY <1>2 DEF Src, Dst, Rest, Source, Target
<1>3. CASE round = 3
  BY <1>3 DEF Src, Dst, Rest, Source, Target
<1>4. QED BY <1>1, <1>2, <1>3

LEMMA SameQids ==
  ASSUME round' = round
  PROVE  Src' = Src /\ Dst' = Dst /\ Rest' = Rest
BY DEF Src, Dst, Rest, Source, Target

LEMMA SizesAre ==
  ASSUME NEW W, Good(AtPlaces, qiids, own, W), NEW q \in Qids
  PROVE  /\ pull[A][q].size = 0 <=> W[<<"pull", A, q>>] = <<>>
         /\ push[A][q].size = 0 <=> W[<<"push", A, q>>] = <<>>
         /\ qids[q].size = 0 <=> W[<<"queue", q>>] = <<>>
<1>1. ASSUME NEW x \in Places PROVE AtPlaces[x].size = 0 <=> W[x] = <<>>
  <2>1. W[x] \in Seq(Items) /\ Len(W[x]) = AtPlaces[x].size
    BY DEF Good, Holds
  <2>2. QED BY <2>1, EmptySeq
<1>2. PICK x, y, z \in Places : x = <<"pull", A, q>> /\ y = <<"push", A, q>> /\ z = <<"queue", q>>
  BY PlacesAre, TwoProcs
<1>3. AtPlaces[x] = pull[A][q] /\ AtPlaces[y] = push[A][q] /\ AtPlaces[z] = qids[q]
  BY <1>2, AtIs, TwoProcs
<1>4. QED BY <1>1, <1>2, <1>3

(* What A's hands hold is on no list. *)
LEMMA HandApart ==
  ASSUME NEW W, Good(AtPlaces, qiids, own, W), NEW q \in Qids, NEW i \in own[A]
  PROVE  i \notin ItemsOf(Whole(W, q))
<1>1. PICK h \in Hands : h = <<"own", A>>
  BY PlacesAre, TwoProcs
<1>2. i \in In(W, own, h)
  BY <1>1, PlacesAre, TwoProcs DEF In
<1>3. \A x \in Places : i \notin ItemsOf(W[x])
  <2> SUFFICES ASSUME NEW x \in Places PROVE i \notin ItemsOf(W[x])
    OBVIOUS
  <2>1. In(W, own, x) = ItemsOf(W[x]) /\ x # h
    BY <1>1, PlacesAre, TwoProcs DEF In
  <2>2. In(W, own, x) \cap In(W, own, h) = {}
    BY <2>1 DEF Good
  <2>3. QED BY <1>2, <2>1, <2>2
<1>4. W \in [Places -> Seq(Items)]
  BY DEF Good
<1>5. PICK u, m, v \in Seq(Items) :
         u = W[<<"pull", A, q>>] /\ m = W[<<"queue", q>>] /\ v = W[<<"push", A, q>>]
  BY <1>4, WholeIs
<1>6. i \notin ItemsOf(u) /\ i \notin ItemsOf(m) /\ i \notin ItemsOf(v)
  BY <1>3, <1>5, PlacesAre, TwoProcs
<1>7. m \o v \in Seq(Items) /\ ItemsOf(m \o v) = ItemsOf(m) \cup ItemsOf(v)
  BY ItemsConcat, ConcatProperties
<1>8. ItemsOf(u \o (m \o v)) = ItemsOf(u) \cup ItemsOf(m \o v)
  BY <1>7, ItemsConcat
<1>9. QED BY <1>5, <1>6, <1>7, <1>8 DEF Whole

(* A step of A's rounds that moves no item. *)
LEMMA FillStay ==
  ASSUME PlayInv, NEW W, Good(AtPlaces, qiids, own, W), FillAt(W),
         UNCHANGED <<qids, qiids, push, pull, own, count, test>>
  PROVE  Good(AtPlaces', qiids', own', W) /\ FillAt(W)'
<1>1. Good(AtPlaces', qiids', own', W)
  BY StaySound, TypeParts DEF PlayInv, QueueInv
<1>2. FillAt(W)'
  BY SameQids DEF FillAt, test
<1>3. QED BY <1>1, <1>2

(* One that moves items from list to list. *)
LEMMA FillShift ==
  ASSUME PlayInv, NEW W, FillAt(W), UNCHANGED <<own, count, test>>,
         NEW W2, \A q \in Qids : Whole(W2, q) = Whole(W, q)
  PROVE  FillAt(W2)' /\ Whole(W2, Src) = Whole(W, Src)
<1>1. Whole(W2, Src) = Whole(W, Src) /\ Whole(W2, Dst) = Whole(W, Dst) /\ Whole(W2, Rest) = Whole(W, Rest)
  BY FillQids DEF PlayInv
<1>2. QED BY <1>1, SameQids DEF FillAt, test

LEMMA FillFromFill ==
  ASSUME PlayInv, NEW W, Good(AtPlaces, qiids, own, W), FillAt(W), FillCtl(W), FillFrom(A)
  PROVE  Good(AtPlaces', qiids', own', W) /\ FillAt(W)' /\ FillCtl(W)' /\ line'[A] = "filling"
<1> USE TwoProcs
<1>1. line[A] = "fill" /\ line'[A] = "filling" /\ round' = round
  BY DEF FillFrom, At, Move, PlayInv, SetInv, Lines, test
<1>2. PullTail(A, Src)
  BY <1>1, FillQueues DEF PlayInv, FillFrom, Filling, Src
<1>3. UNCHANGED <<qids, qiids, push, pull, own, count, test>>
  BY <1>2 DEF PullTail, FillFrom
<1>4. pc'[A] = (IF pull[A][Src].size = 0 THEN "lock" ELSE "pull") /\ pull_qid'[A] = Src
  BY <1>2 DEF PullTail, Goto, PlayInv, QueueInv, QueueType
<1>5. FillCtl(W)'
  <2>1. own'[A] = {} /\ (line[A] \in {"swap", "swapping"} <=> round = 3)
    BY <1>1, <1>3 DEF FillCtl
  <2>2. pc'[A] = "pull" => W[<<"pull", A, Src>>] # <<>>
    BY <1>4, SizesAre, FillQids DEF PlayInv
  <2>3. QED BY <1>1, <1>4, <2>1, <2>2, SameQids DEF FillCtl
<1>6. QED BY <1>1, <1>3, <1>5, FillStay

LEMMA SwapFirstFill ==
  ASSUME PlayInv, NEW W, Good(AtPlaces, qiids, own, W), FillAt(W), FillCtl(W), SwapFirst(A)
  PROVE  Good(AtPlaces', qiids', own', W) /\ FillAt(W)' /\ FillCtl(W)' /\ line'[A] = "swapping"
<1> USE TwoProcs
<1>1. line[A] = "swap" /\ line'[A] = "swapping" /\ round' = round
  BY DEF SwapFirst, At, Move, PlayInv, SetInv, Lines, test
<1>2. PushNonePullTail(A, Dst, Src)
  BY <1>1, FillQueues DEF PlayInv, SwapFirst, Filling, Src, Dst
<1>3. UNCHANGED <<qids, qiids, push, pull, own, count, test>>
  BY <1>2 DEF PushNonePullTail, SwapFirst
<1>4. /\ pc'[A] \in {"lock", "pull"} /\ pull_qid'[A] = Src
      /\ pc'[A] = "pull" => pull[A][Src].size # 0
  BY <1>2 DEF PushNonePullTail, FlushOrPull, Goto, PlayInv, QueueInv, QueueType
<1>5. FillCtl(W)'
  <2>1. own'[A] = {} /\ (line[A] \in {"swap", "swapping"} <=> round = 3)
    BY <1>1, <1>3 DEF FillCtl
  <2>2. pc'[A] = "pull" => W[<<"pull", A, Src>>] # <<>>
    BY <1>4, SizesAre, FillQids DEF PlayInv
  <2>3. QED BY <1>1, <1>4, <2>1, <2>2, SameQids DEF FillCtl
<1>6. QED BY <1>1, <1>3, <1>5, FillStay

(* An item goes to the target, and its number was the next.                *)
LEMMA PushFill ==
  ASSUME PlayInv, line[A] \in Filling, DOMAIN count = Procs,
         NEW W, Good(AtPlaces, qiids, own, W), FillAt(W), NEW i \in own[A],
         PushLocal(A, Dst, i), UNCHANGED <<qids, pull, round>>, Counted(A),
         stamp' = Numbered(stamp, i, count[A], round),
         NEW W2, W2 = Put(W, <<"push", A, Dst>>, W[<<"push", A, Dst>>] \o <<i>>)
  PROVE  /\ Good(AtPlaces', qiids', own', W2) /\ FillAt(W2)' /\ InOrder(A, i) /\ own'[A] = {}
         /\ W2[<<"pull", A, Src>>] = W[<<"pull", A, Src>>] /\ Whole(W2, Src) = Whole(W, Src)
<1>1. /\ Src \in Qids /\ Dst \in Qids /\ Rest \in Qids /\ Src # Dst /\ Src # Rest /\ Dst # Rest
  BY FillQids DEF PlayInv
<1>0. i \in Items
  BY OwnItems, TwoProcs DEF PlayInv
<1>2. W \in [Places -> Seq(Items)]
  BY DEF Good
<1>3. own[A] = {i}
  BY DEF FillAt, Fifo
<1>4. Good(AtPlaces', qiids', own', W2)
  BY <1>0, <1>1, <1>2, PushSound, TwoProcs DEF PlayInv, QueueInv, Put
<1>5. /\ Whole(W2, Dst) = Whole(W, Dst) \o <<i>> /\ Whole(W2, Src) = Whole(W, Src)
      /\ Whole(W2, Rest) = Whole(W, Rest)
  <2>1. PICK q \in Qids : q = Dst
    BY <1>1
  <2>2. W2 = Put(W, <<"push", A, q>>, W[<<"push", A, q>>] \o <<i>>)
    BY <2>1
  <2>3. Whole(W2, q) = Whole(W, q) \o <<i>>
    BY <1>0, <1>2, <2>2, WholePush, Zenon
  <2>4. ASSUME NEW r \in Qids, r # q PROVE Whole(W2, r) = Whole(W, r)
    <3>1. PICK v : v = W[<<"push", A, q>>] \o <<i>>
      OBVIOUS
    <3>2. W2 = Put(W, <<"push", A, q>>, v)
      BY <2>2, <3>1
    <3>3. QED BY <1>2, <2>4, <3>2, PushKeeps
  <2>5. QED BY <1>1, <2>1, <2>3, <2>4
<1>6. own'[A] = {}
  <2>1. own' = [own EXCEPT ![A] = own[A] \ {i}] /\ own \in [Procs -> SUBSET Items]
    BY DEF PushLocal, PlayInv, QueueInv, QueueType
  <2>2. QED BY <1>3, <2>1, TwoProcs
<1>7. i \notin ItemsOf(Whole(W, Dst))
  BY <1>1, HandApart
<1>8. PICK s, d, o : s = Whole(W, Src) /\ d = Whole(W, Dst) /\ o = Whole(W, Rest)
  OBVIOUS
<1>9. Fifo(s, d, o, {i}, count[A], stamp, round)
  BY <1>3, <1>8 DEF FillAt
<1>10. /\ Fifo(s, d \o <<i>>, o, {}, count[A] + 1, stamp', round) /\ count[A] < q_items
       /\ round \in {2, 3} => stamp[i] = count[A]
  <2>1. PICK c, st, st2 : c = count[A] /\ st = stamp /\ st2 = stamp'
    OBVIOUS
  <2>2. PICK r \in 1 .. 4 : r = round
    BY DEF PlayInv
  <2>3. Fifo(s, d, o, {i}, c, st, r) /\ i \notin ItemsOf(d)
    BY <1>7, <1>8, <1>9, <2>1, <2>2
  <2>4. st2 = Numbered(st, i, c, r)
    BY <2>1, <2>2
  <2>5. Fifo(s, d \o <<i>>, o, {}, c + 1, st2, r)
    BY <1>0, <2>3, <2>4, FifoPush, Zenon
  <2>6. c < q_items
    BY <1>0, <2>3, <2>4, FifoPush, Zenon
  <2>7. ASSUME r \in {2, 3} PROVE st[i] = c
    BY <2>3, <2>7 DEF Fifo
  <2>8. QED BY <2>1, <2>2, <2>5, <2>6, <2>7
<1>11. count'[A] = count[A] + 1
  <2>1. count[A] \in Nat /\ q_items \in Nat
    BY <1>9, QueueAssumption DEF Fifo
  <2>2. QED BY <1>10, <2>1, TwoProcs DEF Counted
<1>12. FillAt(W2)'
  BY <1>5, <1>6, <1>8, <1>10, <1>11, SameQids DEF FillAt
<1>13. W2[<<"pull", A, Src>>] = W[<<"pull", A, Src>>]
  BY <1>1, <1>2, PlacesAre, PlacesDiffer, TwoProcs DEF Put
<1>14. QED BY <1>4, <1>5, <1>6, <1>10, <1>12, <1>13 DEF InOrder

LEMMA FillToFill ==
  ASSUME PlayInv, DOMAIN count = Procs, NEW W, Good(AtPlaces, qiids, own, W),
         FillAt(W), FillCtl(W), FillTo(A)
  PROVE  line'[A] = "fill" /\ \E W2 : Good(AtPlaces', qiids', own', W2) /\ FillAt(W2)' /\ FillCtl(W2)'
<1> USE TwoProcs
<1>1. line[A] = "filling" /\ round' = round /\ pc[A] = "idle"
  BY DEF FillTo, At
<1>2. PICK i \in own[A] :
        /\ PushHead(A, Dst, i)
        /\ stamp' = Numbered(stamp, i, count[A], round)
        /\ Assert(A, InOrder(A, i), "fill")
  BY <1>1, FillQueues DEF PlayInv, FillTo, Filling, Dst, Numbered, Put
<1>3. PICK W2 : W2 = Put(W, <<"push", A, Dst>>, W[<<"push", A, Dst>>] \o <<i>>)
  OBVIOUS
<1>4. /\ PushLocal(A, Dst, i) /\ UNCHANGED <<qids, pull, round>> /\ Counted(A)
      /\ pc'[A] \in {"lock", "idle"} /\ pull_qid'[A] = None
  BY <1>1, <1>2 DEF PushHead, FillTo, Goto, PlayInv, QueueInv, QueueType
<1>5. Good(AtPlaces', qiids', own', W2) /\ FillAt(W2)' /\ InOrder(A, i) /\ own'[A] = {}
  BY <1>1, <1>2, <1>3, <1>4, PushFill DEF Filling
<1>6. line'[A] = "fill"
  BY <1>2, <1>5 DEF Assert, Move, PlayInv, SetInv, Lines
<1>7. FillCtl(W2)'
  <2>1. round # 3
    BY <1>1 DEF FillCtl
  <2>2. QED BY <1>1, <1>4, <1>5, <1>6, <2>1 DEF FillCtl
<1>8. QED BY <1>5, <1>6, <1>7

LEMMA SwapFill ==
  ASSUME PlayInv, DOMAIN count = Procs, NEW W, Good(AtPlaces, qiids, own, W),
         FillAt(W), FillCtl(W), Swap(A)
  PROVE  line'[A] = "swapping"
         /\ \E W2 : Good(AtPlaces', qiids', own', W2) /\ FillAt(W2)' /\ FillCtl(W2)'
<1> USE TwoProcs
<1>1. line[A] = "swapping" /\ round' = round /\ stamp' = stamp /\ pc[A] = "idle" /\ round = 3
  BY DEF Swap, At, test, FillCtl
<1>2. PICK i \in own[A] : PushHeadPullTail(A, Dst, i, Src) /\ Assert(A, InOrder(A, i), "swapping")
  BY <1>1, FillQueues DEF PlayInv, Swap, Filling, Dst, Src
<1>3. PICK W2 : W2 = Put(W, <<"push", A, Dst>>, W[<<"push", A, Dst>>] \o <<i>>)
  OBVIOUS
<1>4. /\ PushLocal(A, Dst, i) /\ UNCHANGED <<qids, pull, round>> /\ Counted(A)
      /\ pc'[A] \in {"lock", "pull"} /\ pull_qid'[A] = Src
      /\ pc'[A] = "pull" => pull[A][Src].size # 0
  BY <1>1, <1>2 DEF PushHeadPullTail, FlushOrPull, Swap, Goto, PlayInv, QueueInv, QueueType
<1>5. stamp' = Numbered(stamp, i, count[A], round)
  BY <1>1 DEF Numbered
<1>6. /\ Good(AtPlaces', qiids', own', W2) /\ FillAt(W2)' /\ InOrder(A, i) /\ own'[A] = {}
      /\ W2[<<"pull", A, Src>>] = W[<<"pull", A, Src>>]
  BY <1>1, <1>3, <1>4, <1>5, PushFill DEF Filling
<1>7. line'[A] = "swapping"
  BY <1>2, <1>6 DEF Assert, Move, PlayInv, SetInv, Lines
<1>8. FillCtl(W2)'
  <2>1. pc'[A] = "pull" => W2[<<"pull", A, Src>>] # <<>>
    <3>1. pull[A][Src].size = 0 <=> W[<<"pull", A, Src>>] = <<>>
      BY SizesAre, FillQids DEF PlayInv
    <3>2. QED BY <1>4, <1>6, <3>1
  <2>2. QED BY <1>1, <1>4, <1>6, <1>7, <2>1, SameQids DEF FillCtl
<1>9. QED BY <1>6, <1>7, <1>8

(* How far the counts go. *)
CountInv ==
  /\ DOMAIN count = Procs
  /\ \A p \in Procs : /\ count[p] \in 0 .. q_items + TestPullItems
                      /\ line[p] \notin Filling \cup {"failed"} => count[p] \in 0 .. TestPullItems

LEMMA CountLimits == q_items \in Nat /\ q_items > 1 /\ TestPullItems \in Nat /\ TestPullItems > 0
BY QueueAssumption, IpcAssumption

LEMMA CountKept ==
  ASSUME CountInv, count' = count,
         \A p \in Procs : line[p] \in Filling \cup {"failed"} => line'[p] \in Filling \cup {"failed"}
  PROVE  CountInv'
BY DEF CountInv

LEMMA SettingsCount ==
  ASSUME SetInv, CountInv,
         \/ RaceInit(A) \/ QNew(A, 1) \/ QNew(A, 2) \/ QNewName(A) \/ QDel(A)
         \/ FillFrom(A) \/ SwapFirst(A) \/ QGet(B) \/ QGetName(B)
  PROVE  CountInv'
<1> USE TwoProcs
<1>1. DOMAIN line = Procs
  BY DEF SetInv, Lines
<1>2. count' = count
  BY DEF RaceInit, QNew, QNewName, QDel, FillFrom, SwapFirst, QGet, QGetName
<1>3. \A p \in Procs : line[p] \in Filling \cup {"failed"} => line'[p] \in Filling \cup {"failed"}
  BY <1>1 DEF RaceInit, QNew, QNewName, QDel, FillFrom, SwapFirst, QGet, QGetName,
              At, Assert, Move, Filling
<1>4. QED BY <1>2, <1>3, CountKept

LEMMA RacesCount ==
  ASSUME SetInv, CountInv, NEW o \in Procs,
         \/ RaceStart(o) \/ RaceGo(o) \/ RaceTimeout(o) \/ LockUnlock(o) \/ DetachQ(o)
         \/ (o = A /\ FinishA) \/ (o = B /\ FinishB)
  PROVE  CountInv'
<1>1. DOMAIN line = Procs
  BY DEF SetInv, Lines
<1>2. count' = count
  BY DEF RaceStart, RaceGo, RaceTimeout, LockUnlock, DetachQ, FinishA, FinishB
<1>3. \A p \in Procs : line[p] \in Filling \cup {"failed"} => line'[p] \in Filling \cup {"failed"}
  BY <1>1 DEF RaceStart, RaceGo, RaceTimeout, LockUnlock, DetachQ, FinishA, FinishB,
              At, Assert, Move, Filling
<1>4. QED BY <1>2, <1>3, CountKept

LEMMA RoundsCount ==
  ASSUME SetInv, CountInv, FillTo(A) \/ Swap(A) \/ NextRound(A) \/ ExecChild(A)
  PROVE  CountInv'
<1> USE TwoProcs, CountLimits
<1>1. DOMAIN line = Procs /\ line[A] \in Filling
  BY DEF FillTo, Swap, NextRound, ExecChild, SetInv, Lines, At, Filling
<1>2. CASE FillTo(A) \/ Swap(A)
  <2>1. line'[A] \in Filling \cup {"failed"} /\ line'[B] = line[B]
    BY <1>1, <1>2 DEF FillTo, Swap, Assert, Move, Filling
  <2>2. DOMAIN count' = Procs /\ count'[B] = count[B] /\ count'[A] \in 0 .. q_items + TestPullItems
    BY <1>2 DEF FillTo, Swap, Counted, CountInv
  <2>3. QED BY <2>1, <2>2 DEF CountInv
<1>3. CASE NextRound(A) \/ ExecChild(A)
  <2>1. DOMAIN count' = Procs /\ count'[B] = count[B] /\ count'[A] = 0
    BY <1>3 DEF NextRound, ExecChild, CountInv
  <2>2. line'[B] \in {line[B], "get"} /\ line[B] = "unborn"
    BY <1>1, <1>3 DEF NextRound, ExecChild, Assert, Move, SetInv, Lines, Setup
  <2>3. QED BY <2>1, <2>2 DEF CountInv, Filling
<1>4. QED BY <1>2, <1>3

LEMMA PumpCount ==
  ASSUME SetInv, CountInv, NEW o \in Procs, Pump(o)
  PROVE  CountInv'
<1> USE CountLimits
<1>1. line' = line /\ line[o] = "pump" /\ count' = [count EXCEPT ![o] = Pulled(o)]
  BY DEF Pump, At
<1>2. count[o] \in 0 .. TestPullItems
  BY <1>1 DEF CountInv, Filling
<1>3. Pulled(o) \in 0 .. TestPullItems
  BY <1>2 DEF Pulled
<1>4. QED BY <1>1, <1>3 DEF CountInv

LEMMA CountInit == IpcInit => CountInv
BY CountLimits DEF IpcInit, CountInv

LEMMA CountStep == SetInv /\ CountInv /\ [IpcNext]_ivars => CountInv'
<1> SUFFICES ASSUME SetInv, CountInv, [IpcNext]_ivars PROVE CountInv'
  OBVIOUS
<1> USE TwoProcs
<1>1. CASE ProgramA
  BY <1>1, SettingsCount, RacesCount, RoundsCount, PumpCount DEF ProgramA
<1>2. CASE ProgramB
  BY <1>2, SettingsCount, RacesCount, PumpCount DEF ProgramB
<1>3. ASSUME NEW p \in Procs, RaceTimeout(p) \/ InCall(p) \/ GetLock(p) PROVE CountInv'
  <2>1. CASE RaceTimeout(p)
    BY <2>1, RacesCount
  <2>2. CASE InCall(p) \/ GetLock(p)
    BY <2>2, CountKept DEF InCall, GetLock
  <2>3. QED BY <1>3, <2>1, <2>2
<1>4. CASE UNCHANGED ivars
  BY <1>4, CountKept DEF ivars
<1>5. QED BY <1>1, <1>2, <1>3, <1>4 DEF IpcNext

(* All the items have come when a call returns nothing. *)
LEMMA AllCame ==
  ASSUME PlayInv, NEW W, FillAt(W), FillCtl(W),
         At(A, IF round = 3 THEN "swapping" ELSE "filling"), own[A] = {}
  PROVE  /\ Whole(W, Src) = <<>> /\ count[A] = q_items
         /\ round # 4 => Fifo(Whole(W, Dst), Whole(W, Rest), <<>>, {}, 0, stamp, round + 1)
<1>1. line[A] \in {"filling", "swapping"} /\ pc[A] = "idle"
  BY DEF At
<1>2. Whole(W, Src) = <<>>
  BY <1>1 DEF FillCtl
<1>3. PICK s, d, o : s = <<>> /\ d = Whole(W, Dst) /\ o = Whole(W, Rest)
  OBVIOUS
<1>4. PICK c, st : c = count[A] /\ st = stamp
  OBVIOUS
<1>5. Fifo(s, d, o, {}, c, st, round)
  BY <1>2, <1>3, <1>4 DEF FillAt
<1>6. c = q_items
  <2>1. Len(<<>>) = 0
    OBVIOUS
  <2>2. c \in Nat /\ 0 + 0 + c = q_items
    BY <1>3, <1>5, <2>1 DEF Fifo, InHand
  <2>3. QED BY <2>2
<1>7. ASSUME round # 4 PROVE Fifo(d, o, <<>>, {}, 0, st, round + 1)
  <2>1. PICK r \in 1 .. 3 : r = round
    BY <1>7 DEF PlayInv
  <2>2. Fifo(<<>>, d, o, {}, c, st, r)
    BY <1>3, <1>5, <2>1
  <2>3. Fifo(d, o, <<>>, {}, 0, st, r + 1)
    BY <2>2, FifoTurn
  <2>4. QED BY <2>1, <2>3
<1>8. QED BY <1>2, <1>3, <1>4, <1>6, <1>7

LEMMA NextRoundFill ==
  ASSUME PlayInv, DOMAIN count = Procs, NEW W, Good(AtPlaces, qiids, own, W), FillAt(W), FillCtl(W),
         NextRound(A)
  PROVE  Good(AtPlaces', qiids', own', W) /\ FillAt(W)' /\ FillCtl(W)' /\ line'[A] \in {"fill", "swap"}
<1> USE TwoProcs
<1>1. /\ At(A, IF round = 3 THEN "swapping" ELSE "filling") /\ own[A] = {} /\ round \in 1 .. 3
      /\ round' = round + 1 /\ count'[A] = 0 /\ UNCHANGED <<vars, stamp>>
  BY DEF NextRound, PlayInv
<1>2. /\ Whole(W, Src) = <<>> /\ count[A] = q_items
      /\ Fifo(Whole(W, Dst), Whole(W, Rest), <<>>, {}, 0, stamp, round + 1)
  BY <1>1, AllCame
<1>3. line'[A] = IF round = 2 THEN "swap" ELSE "fill"
  BY <1>1, <1>2 DEF NextRound, Assert, Move, PlayInv, SetInv, Lines
<1>4. Good(AtPlaces', qiids', own', W)
  BY <1>1, StaySound, TypeParts DEF PlayInv, QueueInv, vars
<1>5. Src' = Dst /\ Dst' = Rest /\ Rest' = Src
  BY <1>1, NextQids
<1>6. FillAt(W)'
  BY <1>1, <1>2, <1>5 DEF FillAt, vars
<1>7. FillCtl(W)'
  <2>1. pc'[A] = "idle" /\ own'[A] = {} /\ pull_qid'[A] = None
    BY <1>1 DEF At, FillCtl, vars
  <2>2. round' = 3 <=> round = 2
    BY <1>1
  <2>3. QED BY <1>3, <2>1, <2>2 DEF FillCtl
<1>8. QED BY <1>3, <1>4, <1>6, <1>7

LEMMA ExecChildFill ==
  ASSUME PlayInv, NEW W, FillAt(W), FillCtl(W), ExecChild(A)
  PROVE  line'[A] = "race" /\ line'[B] = "get"
<1>1. At(A, IF round = 3 THEN "swapping" ELSE "filling") /\ own[A] = {}
  BY DEF ExecChild
<1>2. count[A] = q_items
  BY <1>1, AllCame
<1>3. QED BY <1>2, TwoProcs DEF ExecChild, PlayInv, SetInv, Lines

(* The steps of the calls of the rounds. *)
LEMMA FlushPushFill ==
  ASSUME PlayInv, NEW W, Good(AtPlaces, qiids, own, W), FillAt(W), FillCtl(W),
         FlushPush(A), UNCHANGED <<line, count, test>>
  PROVE  FillHolds'
<1> USE TwoProcs
<1>1. UNCHANGED <<own, pc, pull_qid>> /\ pc[A] = "flush" /\ round' = round
  BY DEF FlushPush, test
<1>2. PICK q \in Qids :
        Good(AtPlaces', qiids', own', With(W, <<"push", A, q>>, <<>>, <<"queue", q>>,
                                        W[<<"queue", q>>] \o W[<<"push", A, q>>]))
  BY FlushSound DEF PlayInv, QueueInv
<1>3. PICK W2 : W2 = With(W, <<"push", A, q>>, <<>>, <<"queue", q>>,
                          W[<<"queue", q>>] \o W[<<"push", A, q>>])
  OBVIOUS
<1>4. Good(AtPlaces', qiids', own', W2)
  BY <1>2, <1>3
<1>5. W \in [Places -> Seq(Items)]
  BY DEF Good
<1>6. \A r \in Qids : Whole(W2, r) = Whole(W, r)
  BY <1>3, <1>5, WholeFlush
<1>7. FillAt(W2)' /\ Whole(W2, Src) = Whole(W, Src)
  BY <1>1, <1>6, FillShift
<1>8. FillCtl(W2)'
  BY <1>1, <1>7, SameQids DEF FillCtl
<1>9. QED BY <1>4, <1>7, <1>8 DEF FillHolds

(* Nothing is left when nothing can be pulled. *)
LEMMA NothingLeft ==
  ASSUME PlayInv, NEW W, Good(AtPlaces, qiids, own, W), NEW r \in Qids,
         Unflushed(A) = {}, ToPull(A, r) = 0, W[<<"pull", A, r>>] = <<>>
  PROVE  Whole(W, r) = <<>>
<1> USE TwoProcs
<1>1. pull[A][r].size = 0
  BY SizesAre
<1>2. qids_nolock_max[A] \in Nat \ {0} /\ qids[r].size \in Nat
  BY QueueAssumption DEF PlayInv, QueueInv, QueueType, ListRec
<1>3. qids[r].size = 0
  BY <1>1, <1>2 DEF ToPull
<1>4. push[A][r].size = 0
  <2>1. push[A][r].size \in Nat
    BY QueueAssumption DEF PlayInv, QueueInv, QueueType, ListRec
  <2>2. QED BY <2>1 DEF Unflushed
<1>5. W[<<"push", A, r>>] = <<>> /\ W[<<"queue", r>>] = <<>> /\ W \in [Places -> Seq(Items)]
  BY <1>3, <1>4, SizesAre DEF Good
<1>6. QED BY <1>5, WholeIs

LEMMA FillPullFill ==
  ASSUME PlayInv, NEW W, Good(AtPlaces, qiids, own, W), FillAt(W), FillCtl(W), line[A] \in Filling,
         FillPull(A), UNCHANGED <<line, count, test>>
  PROVE  FillHolds'
<1> USE TwoProcs
<1>1. /\ UNCHANGED <<own, pull_qid>> /\ pc[A] = "flush" /\ pc'[A] = "pull" /\ round' = round
      /\ pull_qid[A] # None /\ Unflushed(A) = {}
  BY DEF FillPull, test, PlayInv, QueueInv, QueueType
<1>2. line[A] \in {"filling", "swapping"} /\ own[A] = {} /\ pull_qid[A] = Src
  BY <1>1 DEF FillCtl, Filling
<1>3. PICK r \in Qids : r = Src
  BY FillQids DEF PlayInv
<1>4. PICK n : n = ToPull(A, r)
  OBVIOUS
<1>5. ASSUME NEW W2, Good(AtPlaces', qiids', own', W2), FillAt(W2)', Whole(W2, Src) = Whole(W, Src),
             W2[<<"pull", A, r>>] = <<>> => Whole(W, r) = <<>>
      PROVE  FillHolds'
  <2>1. FillCtl(W2)'
    BY <1>1, <1>2, <1>3, <1>5, SameQids DEF FillCtl
  <2>2. QED BY <1>5, <2>1 DEF FillHolds
<1>6. CASE n = 0
  <2>1. UNCHANGED <<qids, qiids, push, pull>>
    BY <1>2, <1>3, <1>4, <1>6 DEF FillPull
  <2>2. Good(AtPlaces', qiids', own', W) /\ FillAt(W)'
    BY <1>1, <2>1, FillStay
  <2>3. W[<<"pull", A, r>>] = <<>> => Whole(W, r) = <<>>
    BY <1>1, <1>4, <1>6, NothingLeft
  <2>4. QED BY <1>5, <2>2, <2>3
<1>7. CASE n # 0
  <2>1. W \in [Places -> Seq(Items)]
    BY DEF Good
  <2>2. PICK w \in Seq(Items) : w = W[<<"queue", r>>]
    BY <2>1, WholeIs
  <2>3. PICK W2 : W2 = With(W, <<"queue", r>>, SubSeq(w, n + 1, Len(w)),
                            <<"pull", A, r>>, W[<<"pull", A, r>>] \o SubSeq(w, 1, n))
    OBVIOUS
  <2>4. Good(AtPlaces', qiids', own', W2) /\ n <= Len(w)
    BY <1>2, <1>3, <1>4, <1>7, <2>2, <2>3, FillSound DEF PlayInv, QueueInv
  <2>5. n \in Nat
    <3>1. qids_nolock_max[A] \in Nat /\ qids[r].size \in Nat /\ pull[A][r].size \in Nat
      BY QueueAssumption DEF PlayInv, QueueInv, QueueType, ListRec
    <3>2. QED BY <1>4, <3>1 DEF ToPull
  <2>6. /\ \A q \in Qids : Whole(W2, q) = Whole(W, q)
        /\ W2[<<"pull", A, r>>] = W[<<"pull", A, r>>] \o SubSeq(w, 1, n)
    <3>1. n <= Len(W[<<"queue", r>>])
      BY <2>2, <2>4
    <3>2. W2 = Filled(W, r, n)
      BY <2>2, <2>3 DEF Filled
    <3>3. \A q \in Qids : Whole(W2, q) = Whole(W, q)
      BY <2>1, <2>5, <3>1, <3>2, WholeFill
    <3>4. PICK a, b \in Places : a = <<"queue", r>> /\ b = <<"pull", A, r>>
      BY PlacesAre
    <3>5. PICK x, y : x = SubSeq(w, n + 1, Len(w)) /\ y = W[<<"pull", A, r>>] \o SubSeq(w, 1, n)
      OBVIOUS
    <3>6. a # b /\ W2 = With(W, a, x, b, y)
      BY <2>3, <3>4, <3>5, PlacesDiffer
    <3>7. W2[b] = y
      BY <3>6 DEF With
    <3>8. QED BY <3>3, <3>4, <3>5, <3>7
  <2>7. FillAt(W2)' /\ Whole(W2, Src) = Whole(W, Src)
    BY <1>1, <2>6, FillShift
  <2>8. W2[<<"pull", A, r>>] # <<>>
    <3>1. PICK u \in Seq(Items) : u = W[<<"pull", A, r>>]
      BY <2>1, WholeIs
    <3>2. PICK x : x = SubSeq(w, 1, n)
      OBVIOUS
    <3>3. x \in Seq(Items) /\ Len(x) = n
      BY <2>4, <2>5, <3>2
    <3>4. Len(u \o x) = Len(u) + n /\ Len(u) \in Nat
      BY <3>3
    <3>5. u \o x # <<>>
      BY <1>7, <2>5, <3>4
    <3>6. QED BY <2>6, <3>1, <3>2, <3>5
  <2>9. QED BY <1>5, <2>4, <2>7, <2>8
<1>8. QED BY <1>6, <1>7

LEMMA PullLocalFill ==
  ASSUME PlayInv, NEW W, Good(AtPlaces, qiids, own, W), FillAt(W), FillCtl(W), line[A] \in Filling,
         PullLocal(A), UNCHANGED <<line, count, test>>
  PROVE  FillHolds'
<1> USE TwoProcs
<1>1. /\ UNCHANGED <<qids, push>> /\ pc[A] = "pull" /\ pc'[A] = "idle" /\ round' = round
      /\ pull_qid'[A] = None
  BY DEF PullLocal, Goto, test, PlayInv, QueueInv, QueueType
<1>2. line[A] \in {"filling", "swapping"} /\ own[A] = {} /\ pull_qid[A] = Src
  BY <1>1 DEF FillCtl, Filling
<1>3. PICK r \in Qids : r = Src
  BY FillQids DEF PlayInv
<1>4. CASE pull[A][r].size = 0
  <2>1. UNCHANGED <<qids, qiids, push, pull, own>>
    BY <1>1, <1>2, <1>3, <1>4 DEF PullLocal
  <2>2. Good(AtPlaces', qiids', own', W) /\ FillAt(W)'
    BY <1>1, <2>1, FillStay
  <2>3. W[<<"pull", A, Src>>] = <<>>
    BY <1>3, <1>4, SizesAre
  <2>4. Whole(W, Src) = <<>>
    BY <1>1, <1>2, <2>3 DEF FillCtl
  <2>5. FillCtl(W)'
    BY <1>1, <1>2, <2>1, <2>4, SameQids DEF FillCtl
  <2>6. QED BY <2>2, <2>5 DEF FillHolds
<1>5. CASE pull[A][r].size # 0
  <2>1. W \in [Places -> Seq(Items)]
    BY DEF Good
  <2>2. PICK u \in Seq(Items) : u = W[<<"pull", A, r>>]
    BY <2>1, WholeIs
  <2>3. PICK W2 : W2 = Put(W, <<"pull", A, r>>, Tail(W[<<"pull", A, r>>]))
    OBVIOUS
  <2>4. Good(AtPlaces', qiids', own', W2) /\ own'[A] = {Head(u)} /\ u # <<>>
    <3>1. /\ Good(AtPlaces', qiids', own', [W EXCEPT ![<<"pull", A, r>>] = Tail(W[<<"pull", A, r>>])])
          /\ own' = [own EXCEPT ![A] = own[A] \cup {Head(W[<<"pull", A, r>>])}]
          /\ W[<<"pull", A, r>>] # <<>>
      BY <1>2, <1>3, <1>5, PullSound DEF PlayInv, QueueInv
    <3>2. own \in [Procs -> SUBSET Items]
      BY DEF PlayInv, QueueInv, QueueType
    <3>3. QED BY <1>2, <2>2, <2>3, <3>1, <3>2 DEF Put
  <2>5. W[<<"pull", A, r>>] # <<>>
    BY <2>2, <2>4
  <2>6. Whole(W, r) # <<>> /\ Head(Whole(W, r)) = Head(u)
    BY <2>1, <2>2, <2>5, WholePull
  <2>7. Whole(W2, r) = Tail(Whole(W, r))
    BY <2>1, <2>3, <2>5, WholePull
  <2>8. PICK v : v = Tail(W[<<"pull", A, r>>])
    OBVIOUS
  <2>9. ASSUME NEW q \in Qids, q # r PROVE Whole(W2, q) = Whole(W, q)
    <3>1. W2 = Put(W, <<"pull", A, r>>, v)
      BY <2>3, <2>8
    <3>2. QED BY <2>1, <2>9, <3>1, PullKeeps
  <2>10. FillAt(W2)'
    <3>1. PICK s, d, o : s = Whole(W, r) /\ d = Whole(W, Dst) /\ o = Whole(W, Rest)
      OBVIOUS
    <3>2. PICK c, st : c = count[A] /\ st = stamp
      OBVIOUS
    <3>3. PICK n \in 1 .. 4 : n = round
      BY DEF PlayInv
    <3>4. Fifo(s, d, o, {}, c, st, n) /\ s # <<>>
      BY <1>2, <1>3, <2>6, <3>1, <3>2, <3>3 DEF FillAt
    <3>5. Fifo(Tail(s), d, o, {Head(s)}, c, st, n)
      BY <3>4, FifoPull
    <3>6. Src # Dst /\ Src # Rest /\ Dst \in Qids /\ Rest \in Qids
      BY FillQids DEF PlayInv
    <3>7. Whole(W2, Src) = Tail(s) /\ Whole(W2, Dst) = d /\ Whole(W2, Rest) = o /\ own'[A] = {Head(s)}
      BY <1>3, <2>4, <2>6, <2>7, <2>9, <3>1, <3>6
    <3>8. count'[A] = c /\ stamp' = st /\ round' = n
      BY <3>2, <3>3 DEF test
    <3>9. QED BY <1>1, <3>5, <3>7, <3>8, SameQids DEF FillAt
  <2>11. FillCtl(W2)'
    <3>1. own'[A] # {}
      BY <2>4
    <3>2. QED BY <1>1, <1>2, <3>1, SameQids DEF FillCtl
  <2>12. QED BY <2>4, <2>10, <2>11 DEF FillHolds
<1>6. QED BY <1>4, <1>5

LEMMA TurnFill ==
  ASSUME PlayInv, NEW W, Good(AtPlaces, qiids, own, W), FillAt(W), FillCtl(W), line[A] \in Filling,
         FlushDone(A) \/ Lock(A), UNCHANGED <<line, count, test>>
  PROVE  FillHolds'
<1> USE TwoProcs
<1>1. UNCHANGED <<qids, qiids, push, pull, own, pull_qid>> /\ round' = round
  BY DEF FlushDone, Lock, test
<1>2. Good(AtPlaces', qiids', own', W) /\ FillAt(W)'
  BY <1>1, FillStay
<1>3. FillCtl(W)'
  <2>1. CASE FlushDone(A)
    <3>1. pc[A] = "flush" /\ pc'[A] = "idle" /\ pull_qid[A] = None
      BY <2>1 DEF FlushDone, PlayInv, QueueInv, QueueType
    <3>2. Src # None
      BY FillQids DEF PlayInv, Qids, None
    <3>3. line[A] = "fill"
      BY <3>1, <3>2 DEF FillCtl, Filling
    <3>4. QED BY <1>1, <3>1, <3>3 DEF FillCtl
  <2>2. CASE Lock(A)
    <3>1. pc[A] = "lock" /\ pc'[A] = "flush"
      BY <2>2 DEF Lock, PlayInv, QueueInv, QueueType
    <3>2. QED BY <1>1, <3>1, SameQids DEF FillCtl
  <2>3. QED BY <2>1, <2>2
<1>4. QED BY <1>2, <1>3 DEF FillHolds

(* The first round begins with all the items on queue 0, in order. *)
LEMMA FirstFifo ==
  Fifo(Whole(FirstItems, 0), Whole(FirstItems, 1), Whole(FirstItems, 2), {}, 0, [i \in Items |-> 0], 1)
<1>1. 0 \in Qids /\ 1 \in Qids /\ 2 \in Qids /\ q_items \in Nat
  BY QueueAssumption DEF Qids
<1>2. PICK w : w = [n \in 1 .. q_items |-> n - 1]
  OBVIOUS
<1>3. w \in Seq(Items)
  <2>1. \A n \in 1 .. q_items : n - 1 \in Items
    BY <1>1 DEF Items
  <2>2. QED BY <1>1, <1>2, <2>1
<1>4. Len(w) = q_items
  BY <1>1, <1>2, <1>3
<1>5. PICK a \in Places : a = <<"queue", 0>>
  BY <1>1, PlacesAre
<1>6. FirstItems[a] = w /\ \A y \in Places : y # a => FirstItems[y] = <<>>
  BY <1>2, <1>5 DEF FirstItems
<1>7. ASSUME NEW q \in Qids
      PROVE  /\ FirstItems[<<"pull", A, q>>] = <<>> /\ FirstItems[<<"push", A, q>>] = <<>>
             /\ q # 0 => FirstItems[<<"queue", q>>] = <<>>
  <2>1. PICK c, d, e \in Places : c = <<"pull", A, q>> /\ d = <<"queue", q>> /\ e = <<"push", A, q>>
    BY PlacesAre, TwoProcs
  <2>2. c # a /\ e # a /\ (q # 0 => d # a)
    BY <1>1, <1>5, <2>1, PlacesDiffer
  <2>3. QED BY <1>6, <2>1, <2>2
<1>8. Whole(FirstItems, 0) = w
  <2>1. w \o <<>> = w /\ <<>> \o w = w
    BY <1>3, ConcatEmptySeq
  <2>2. FirstItems[<<"queue", 0>>] = w
    BY <1>5, <1>6
  <2>3. QED BY <1>1, <1>7, <2>1, <2>2 DEF Whole
<1>9. Whole(FirstItems, 1) = <<>> /\ Whole(FirstItems, 2) = <<>>
  <2>1. FirstItems \in [Places -> Seq(Items)]
    BY <1>3, EmptySeq, <1>2 DEF FirstItems
  <2>2. ASSUME NEW q \in Qids, q # 0 PROVE Whole(FirstItems, q) = <<>>
    BY <1>7, <2>1, <2>2, WholeIs
  <2>3. QED BY <1>1, <2>2
<1>10. Len(<<>>) = 0 /\ <<>> \in Seq(Items)
  BY EmptySeq
<1>11. PICK st, e : st = [i \in Items |-> 0] /\ e = <<>>
  OBVIOUS
<1>12. st \in [Items -> 0 .. q_items]
  BY <1>1, <1>11
<1>13. Fifo(w, e, e, {}, 0, st, 1)
  BY <1>1, <1>3, <1>4, <1>10, <1>11, <1>12 DEF Fifo, InHand
<1>14. QED BY <1>8, <1>9, <1>11, <1>13

LEMMA FirstNext == Init' => Good(AtPlaces', qiids', own', FirstItems)
<1>1. Init => Good(AtPlaces, qiids, own, FirstItems)
  BY QueueFirst
<1>2. Init' => Good(AtPlaces, qiids, own, FirstItems)'
  BY <1>1, PTL
<1>3. QED BY <1>2

LEMMA QNewFill ==
  ASSUME PlayInv, FillInv, QNew(A, 2), line'[A] = "fill"
  PROVE  FillHolds'
<1> USE TwoProcs
<1>1. line[A] = "newer" /\ UNCHANGED <<own, pc, pull_qid, lock, count, test>>
  BY DEF QNew, At
<1>2. Init
  BY <1>1 DEF PlayInv, Made
<1>3. Init'
  BY <1>1, <1>2 DEF QNew, Init
<1>4. PICK W : W = FirstItems
  OBVIOUS
<1>5. Good(AtPlaces', qiids', own', W)
  BY <1>3, <1>4, FirstNext
<1>6. count'[A] = 0 /\ stamp' = [i \in Items |-> 0] /\ round' = 1
  BY <1>1 DEF FillInv, Unnumbered, test
<1>7. own'[A] = {} /\ pc'[A] = "idle" /\ pull_qid'[A] = None
  BY <1>3 DEF Init
<1>8. Src' = 0 /\ Dst' = 1 /\ Rest' = 2
  BY <1>6 DEF Src, Dst, Rest, Source, Target
<1>9. FillAt(W)'
  BY <1>4, <1>6, <1>7, <1>8, FirstFifo DEF FillAt
<1>10. FillCtl(W)'
  BY <1>6, <1>7 DEF FillCtl
<1>11. QED BY <1>5, <1>9, <1>10 DEF FillHolds

(* Whenever A is in its rounds. *)
PhaseInv == PlayInv /\ CountInv /\ FillInv

LEMMA PhaseInit == IpcInit => PhaseInv
<1> SUFFICES ASSUME IpcInit PROVE PhaseInv
  OBVIOUS
<1>1. line[A] = "init" /\ Unnumbered
  BY TwoProcs DEF IpcInit, Unnumbered
<1>2. FillInv
  BY <1>1 DEF FillInv, Filling
<1>3. QED BY <1>2, PlayInit, CountInit DEF PhaseInv

LEMMA SetupFill ==
  ASSUME PhaseInv, RaceInit(A) \/ (\E s \in {1, 2} : QNew(A, s)) \/ QNewName(A) \/ QDel(A)
  PROVE  FillInv'
<1> USE TwoProcs
<1>1. /\ line[A] \in {"init", "new", "name", "del", "newer"} /\ UNCHANGED <<count, test>>
      /\ DOMAIN line = Procs
  BY DEF RaceInit, QNew, QNewName, QDel, At, PhaseInv, PlayInv, SetInv, Lines
<1>2. Unnumbered'
  BY <1>1 DEF PhaseInv, FillInv, Unnumbered, test
<1>3. line'[A] \in Filling => line'[A] = "fill" /\ QNew(A, 2)
  BY <1>1 DEF RaceInit, QNew, QNewName, QDel, At, Assert, Move, Filling
<1>4. QED BY <1>2, <1>3, QNewFill DEF PhaseInv, FillInv

LEMMA RoundsFill ==
  ASSUME PhaseInv,
         FillFrom(A) \/ FillTo(A) \/ SwapFirst(A) \/ Swap(A) \/ NextRound(A) \/ ExecChild(A)
  PROVE  \/ FillHolds' /\ line'[A] \in Filling
         \/ line'[A] = "race" /\ line'[B] = "get" /\ stamp' = stamp
<1>1. line[A] \in Filling /\ DOMAIN count = Procs /\ PlayInv
  BY DEF FillFrom, FillTo, SwapFirst, Swap, NextRound, ExecChild, At, Filling, PhaseInv, CountInv
<1>2. PICK W : Good(AtPlaces, qiids, own, W) /\ FillAt(W) /\ FillCtl(W)
  BY <1>1 DEF PhaseInv, FillInv, FillHolds
<1>3. CASE FillFrom(A)
  BY <1>1, <1>2, <1>3, FillFromFill DEF FillHolds, Filling
<1>4. CASE FillTo(A)
  BY <1>1, <1>2, <1>4, FillToFill DEF FillHolds, Filling
<1>5. CASE SwapFirst(A)
  BY <1>1, <1>2, <1>5, SwapFirstFill DEF FillHolds, Filling
<1>6. CASE Swap(A)
  BY <1>1, <1>2, <1>6, SwapFill DEF FillHolds, Filling
<1>7. CASE NextRound(A)
  BY <1>1, <1>2, <1>7, NextRoundFill DEF FillHolds, Filling
<1>8. CASE ExecChild(A)
  BY <1>1, <1>2, <1>8, ExecChildFill DEF ExecChild, test
<1>9. QED BY <1>3, <1>4, <1>5, <1>6, <1>7, <1>8

LEMMA CallsFill ==
  ASSUME PhaseInv, line[A] \in Filling, InCall(A) \/ GetLock(A)
  PROVE  FillHolds'
<1>1. PICK W : Good(AtPlaces, qiids, own, W) /\ FillAt(W) /\ FillCtl(W)
  BY DEF PhaseInv, FillInv, FillHolds
<1>2. UNCHANGED <<line, count, test>> /\ PlayInv
  BY DEF InCall, GetLock, PhaseInv
<1>3. CASE FlushPush(A)
  BY <1>1, <1>2, <1>3, FlushPushFill
<1>4. CASE FillPull(A)
  BY <1>1, <1>2, <1>4, FillPullFill
<1>5. CASE PullLocal(A)
  BY <1>1, <1>2, <1>5, PullLocalFill
<1>6. CASE FlushDone(A) \/ Lock(A)
  BY <1>1, <1>2, <1>6, TurnFill
<1>7. QED BY <1>3, <1>4, <1>5, <1>6 DEF InCall, GetLock

LEMMA PhaseStep == PhaseInv /\ [IpcNext]_ivars => PhaseInv'
<1> SUFFICES ASSUME PhaseInv, [IpcNext]_ivars PROVE PhaseInv'
  OBVIOUS
<1> USE TwoProcs
<1>1. PlayInv' /\ CountInv' /\ PlayInv
  BY PlayStep, CountStep DEF PhaseInv, PlayInv
<1>2. ASSUME line'[A] \in Raced PROVE FillInv'
  BY <1>2 DEF FillInv, Raced, Filling
<1>3. CASE ProgramA
  <2>1. CASE RaceInit(A) \/ (\E s \in {1, 2} : QNew(A, s)) \/ QNewName(A) \/ QDel(A)
    BY <2>1, <1>1, SetupFill DEF PhaseInv
  <2>2. CASE FillFrom(A) \/ FillTo(A) \/ SwapFirst(A) \/ Swap(A) \/ NextRound(A) \/ ExecChild(A)
    <3>1. (FillHolds' /\ line'[A] \in Filling) \/ line'[A] = "race"
      BY <2>2, RoundsFill
    <3>2. QED BY <1>1, <3>1 DEF PhaseInv, FillInv, Filling
  <2>3. CASE RaceStart(A) \/ RaceGo(A) \/ Pump(A) \/ FinishA \/ LockUnlock(A) \/ DetachQ(A)
    BY <1>1, <1>2, <2>3, RacedStep DEF PhaseInv
  <2>4. QED BY <1>3, <2>1, <2>2, <2>3 DEF ProgramA
<1>4. CASE ProgramB
  <2>1. line[B] # "unborn" /\ line'[A] = line[A]
    <3>1. CASE QGet(B) \/ QGetName(B)
      BY <1>1, <3>1 DEF QGet, QGetName, At, Assert, Move, PlayInv, SetInv, Lines
    <3>2. CASE RaceStart(B) \/ RaceGo(B) \/ Pump(B) \/ FinishB \/ LockUnlock(B) \/ DetachQ(B)
      BY <1>1, <3>2, RacedStep DEF Raced
    <3>3. QED BY <1>4, <3>1, <3>2 DEF ProgramB
  <2>2. line[A] \in Raced
    BY <1>1, <2>1 DEF PlayInv, SetInv, Lines
  <2>3. QED BY <1>1, <1>2, <2>1, <2>2 DEF PhaseInv
<1>5. ASSUME NEW p \in Procs, RaceTimeout(p) PROVE PhaseInv'
  <2>1. line[p] \in Raced /\ line'[p] \in Raced /\ \A o \in Procs : o # p => line'[o] = line[o]
    BY <1>1, <1>5, RacedStep
  <2>2. line[A] \in Raced
    BY <1>1, <2>1 DEF PlayInv, SetInv, Lines, Raced
  <2>3. line'[A] \in Raced
    BY <2>1, <2>2
  <2>4. QED BY <1>1, <1>2, <2>3 DEF PhaseInv
<1>6. ASSUME NEW p \in Procs, InCall(p) \/ GetLock(p) PROVE PhaseInv'
  <2>1. line' = line /\ pc[p] # "idle"
    BY <1>6 DEF InCall, GetLock, Lock, FlushPush, FillPull, FlushDone, PullLocal
  <2>2. CASE line[A] \in Filling
    <3>1. p = A
      BY <1>1, <2>1, <2>2 DEF PlayInv, SetInv, Lines, Setup, Early, Idle
    <3>2. QED BY <1>1, <1>6, <2>1, <2>2, <3>1, CallsFill DEF PhaseInv, FillInv, Filling
  <2>3. CASE line[A] \in Raced
    BY <1>1, <1>2, <2>1, <2>3 DEF PhaseInv
  <2>4. CASE line[A] \notin Filling \cup Raced
    <3>1. p # A
      BY <1>1, <1>6, <2>4, CallPlay, SetStep DEF PlayInv
    <3>2. QED BY <1>1, <2>1, <2>4, <3>1 DEF PlayInv, SetInv, Lines, Setup, Early, Idle
  <2>5. QED BY <2>2, <2>3, <2>4
<1>7. CASE UNCHANGED ivars
  <2>1. Unnumbered => Unnumbered'
    BY <1>7 DEF ivars, test, Unnumbered
  <2>2. FillHolds => FillHolds'
    <3>1. ASSUME NEW W, Good(AtPlaces, qiids, own, W), FillAt(W), FillCtl(W) PROVE FillHolds'
      <4>1. UNCHANGED <<qids, qiids, push, pull, own, pc, pull_qid, line, count, test>> /\ round' = round
        BY <1>7 DEF ivars, vars, test
      <4>2. Good(AtPlaces', qiids', own', W) /\ FillAt(W)'
        BY <1>1, <3>1, <4>1, FillStay
      <4>3. FillCtl(W)'
        BY <3>1, <4>1, SameQids DEF FillCtl
      <4>4. QED BY <4>2, <4>3 DEF FillHolds
    <3>2. QED BY <3>1 DEF FillHolds
  <2>3. line' = line
    BY <1>7 DEF ivars
  <2>4. QED BY <1>1, <2>1, <2>2, <2>3 DEF PhaseInv, FillInv
<1>8. QED BY <1>3, <1>4, <1>5, <1>6, <1>7 DEF IpcNext

-----------------------------------------------------------------------------
(* No assertion fails. *)

(* What the calls of the programs ask of what came before them. *)
Prepared ==
  /\ line[A] # "init" => \A k \in Races : kv[k] # <<>>
  /\ line[A] \in {"name", "del"} => hq[A].q_is_ready = TRUE
  /\ line[A] = "newer" => hq[A].q_is_ready = FALSE
  /\ line[A] \in Filling \cup Raced => hq[A].lists # "freed"
  /\ line[B] = "getname" => hq[B].q_is_ready = TRUE
  /\ hq[B].lists # "freed"
  /\ line[A] \in Raced => line[B] # "unborn"
  /\ stamp \in [Items -> 0 .. q_items]

SoundInv == RaceInv /\ PhaseInv /\ Prepared /\ NobodyFails

Sound == Prepared /\ NobodyFails

LEMMA SoundParts ==
  ASSUME SoundInv
  PROVE  /\ SetInv /\ PlayInv /\ RaceLines /\ DOMAIN line = Procs /\ DOMAIN hq = Procs
         /\ \A p \in Procs : {"q_is_ready", "lists", "q_next", "set", "qid"} = DOMAIN hq[p]
         /\ line[A] # "failed" /\ line[B] # "failed"
BY TwoProcs DEF SoundInv, RaceInv, PhaseInv, SetInv, HqType, Lines, NobodyFails

LEMMA RaceInitSound ==
  ASSUME SoundInv, RaceInit(A)
  PROVE  Sound'
<1> USE TwoProcs, SoundParts
<1>1. line[A] = "init" /\ line'[A] = "new" /\ line'[B] = line[B] /\ hq' = hq /\ line[B] # "getname"
  BY DEF RaceInit, At, Move, SetInv, Lines, Setup
<1>0. stamp' = stamp
  BY DEF RaceInit, test
<1>2. \A k \in Races : kv'[k] # <<>>
  <2>1. \A k \in Races : kv'[k] = Append(kv[k], 0)
    BY NamesAre DEF RaceInit
  <2>2. Append(<<>>, 0) # <<>>
    OBVIOUS
  <2>3. QED BY <1>1, <2>1, <2>2 DEF RaceLines
<1>3. Prepared'
  BY <1>0, <1>1, <1>2 DEF SoundInv, Prepared, Filling, Raced
<1>4. NobodyFails'
  BY <1>1 DEF NobodyFails
<1>5. QED BY <1>3, <1>4 DEF Sound

LEMMA QNewSound ==
  ASSUME SoundInv, NEW s \in {1, 2}, QNew(A, s)
  PROVE  Sound'
<1> USE TwoProcs, SoundParts
<1>1. /\ line[A] = (IF s = 1 THEN "new" ELSE "newer") /\ line'[B] = line[B] /\ line[B] # "getname"
      /\ hq'[A].q_is_ready = TRUE /\ hq'[A].lists = "live" /\ hq'[B] = hq[B]
  BY DEF QNew, At, Assert, Move, SetInv, Lines, Setup
<1>2. hq[A].q_is_ready = FALSE
  <2>1. CASE line[A] = "new"
    <3>1. hq[A] = NoQ
      BY <2>1 DEF SetInv, SetsOfA
    <3>2. QED BY <3>1 DEF NoQ
  <2>2. CASE line[A] = "newer"
    BY <2>2 DEF SoundInv, Prepared
  <2>3. QED BY <1>1, <2>1, <2>2
<1>3. line'[A] = IF s = 1 THEN "name" ELSE "fill"
  BY <1>2 DEF QNew, Assert, Move
<1>4. \A k \in Races : kv'[k] = kv[k]
  BY NamesAre DEF QNew
<1>0. stamp' = stamp
  BY DEF QNew, test
<1>5. Prepared'
  BY <1>0, <1>1, <1>3, <1>4 DEF SoundInv, Prepared, Filling, Raced
<1>6. NobodyFails'
  BY <1>1, <1>3 DEF NobodyFails
<1>7. QED BY <1>5, <1>6 DEF Sound

LEMMA QNewNameSound ==
  ASSUME SoundInv, QNewName(A)
  PROVE  Sound'
<1> USE TwoProcs, SoundParts
<1>1. PICK n : n = hq[A].q_next
  OBVIOUS
<1>2. line[A] = "name" /\ line'[B] = line[B] /\ line[B] # "getname"
  BY DEF QNewName, At, Assert, Move, SetInv, Lines, Setup
<1>3. n \in 0 .. 2 /\ NamesGiven(n) /\ hq[A].q_is_ready = TRUE /\ qs = 3
  BY <1>1, <1>2, IpcAssumption DEF SoundInv, Prepared, SetInv, SetsOfA
<1>4. n + 1 \in 1 .. 3 /\ kv[Names[n + 1]] = <<>>
  BY <1>3 DEF NamesGiven
<1>5. line'[A] = IF n + 1 = 3 THEN "del" ELSE "name"
  BY <1>1, <1>3, <1>4, NamesAre DEF QNewName, Assert, Move
<1>6. /\ hq'[A].q_is_ready = hq[A].q_is_ready /\ hq'[A].lists = hq[A].lists /\ hq'[B] = hq[B]
  BY DEF QNewName
<1>7. \A k \in Races : kv'[k] = kv[k]
  BY <1>1, <1>4, NamesAre DEF QNewName, SetInv
<1>0. stamp' = stamp
  BY DEF QNewName, test
<1>8. Prepared'
  BY <1>0, <1>2, <1>3, <1>5, <1>6, <1>7 DEF SoundInv, Prepared, Filling, Raced
<1>9. NobodyFails'
  BY <1>2, <1>5 DEF NobodyFails
<1>10. QED BY <1>8, <1>9 DEF Sound

LEMMA QDelSound ==
  ASSUME SoundInv, QDel(A)
  PROVE  Sound'
<1> USE TwoProcs, SoundParts
<1>1. line[A] = "del" /\ line'[B] = line[B] /\ line[B] # "getname"
  BY DEF QDel, At, Assert, Move, SetInv, Lines, Setup
<1>2. hq[A].q_is_ready = TRUE /\ \A k \in QDelKeys : kv[k] # <<>>
  <2>1. <<1>> # <<>>
    OBVIOUS
  <2>2. hq[A].q_is_ready = TRUE
    BY <1>1 DEF SoundInv, Prepared
  <2>3. \A k \in QDelKeys : kv[k] = <<1>>
    BY <1>1, NamesAre DEF SetInv, SetsOfA
  <2>4. QED BY <2>1, <2>2, <2>3
<1>3. line'[A] = "newer"
  BY <1>2 DEF QDel, Assert, Move
<1>4. hq'[A].q_is_ready = FALSE /\ hq'[B] = hq[B]
  BY DEF QDel
<1>5. \A k \in Races : kv'[k] = kv[k]
  BY NamesAre DEF QDel
<1>0. stamp' = stamp
  BY DEF QDel, test
<1>6. Prepared'
  BY <1>0, <1>1, <1>3, <1>4, <1>5 DEF SoundInv, Prepared, Filling, Raced
<1>7. NobodyFails'
  BY <1>1, <1>3 DEF NobodyFails
<1>8. QED BY <1>6, <1>7 DEF Sound

LEMMA RoundsSound ==
  ASSUME SoundInv,
         FillFrom(A) \/ FillTo(A) \/ SwapFirst(A) \/ Swap(A) \/ NextRound(A) \/ ExecChild(A)
  PROVE  Sound'
<1> USE TwoProcs, SoundParts
<1>1. line'[A] \in Filling \/ (line'[A] = "race" /\ line'[B] = "get")
  BY RoundsFill DEF SoundInv
<1>2. stamp' \in [Items -> 0 .. q_items]
  <2>1. FillHolds' => stamp' \in [Items -> 0 .. q_items]
    BY DEF FillHolds, FillAt, Fifo
  <2>2. QED BY <2>1, RoundsFill DEF SoundInv, Prepared
<1>3. kv' = kv /\ hq' = hq /\ line'[B] \in {line[B], "get"} /\ line[A] \in Filling
  BY DEF FillFrom, FillTo, SwapFirst, Swap, NextRound, ExecChild, At, Assert, Move, Filling
<1>4. Prepared'
  BY <1>1, <1>2, <1>3 DEF SoundInv, Prepared, Filling, Raced
<1>5. NobodyFails'
  BY <1>1, <1>3 DEF NobodyFails, Filling
<1>6. QED BY <1>4, <1>5 DEF Sound

LEMMA QGetSound ==
  ASSUME SoundInv, QGet(B)
  PROVE  Sound'
<1> USE TwoProcs, SoundParts
<1>1. line[B] = "get" /\ line'[A] = line[A] /\ kv' = kv
  BY DEF QGet, At, Assert, Move
<1>2. hq'[B].q_is_ready = TRUE /\ hq'[B].lists = "live" /\ hq'[A] = hq[A]
  BY DEF QGet
<1>3. \A k \in Settings : kv[k] # <<>>
  <2>1. <<2>> # <<>>
    OBVIOUS
  <2>2. QED BY <1>1, <2>1, NamesAre DEF SetInv, SetsOfB, Stored
<1>4. line'[B] = "getname"
  BY <1>3 DEF QGet, Assert, Move
<1>0. stamp' = stamp
  BY DEF QGet, test
<1>5. Prepared'
  BY <1>0, <1>1, <1>2, <1>4 DEF SoundInv, Prepared
<1>6. NobodyFails'
  BY <1>1, <1>4 DEF NobodyFails
<1>7. QED BY <1>5, <1>6 DEF Sound

LEMMA QGetNameSound ==
  ASSUME SoundInv, QGetName(B)
  PROVE  Sound'
<1> USE TwoProcs, SoundParts
<1>1. line[B] = "getname" /\ line'[A] = line[A] /\ kv' = kv
  BY DEF QGetName, At, Assert, Move
<1>2. hq'[B].q_is_ready = hq[B].q_is_ready /\ hq'[B].lists = hq[B].lists /\ hq'[A] = hq[A]
  BY DEF QGetName
<1>3. PICK n : n = Len(hq[B].qid) + 1
  OBVIOUS
<1>4. n \in 1 .. 3 /\ NamesGiven(3) /\ hq[B].q_is_ready = TRUE
  <2>1. hq[B].q_is_ready = TRUE
    BY <1>1 DEF SoundInv, Prepared
  <2>2. Len(hq[B].qid) < 3 /\ hq[B].qid \in Seq(Qids) /\ NamesGiven(3)
    BY <1>1 DEF SetInv, SetsOfB, Stored, HqType
  <2>3. Len(hq[B].qid) \in Nat
    BY <2>2, LenProperties
  <2>4. n \in 1 .. 3
    BY <1>3, <2>2, <2>3
  <2>5. QED BY <2>1, <2>2, <2>4
<1>5. kv[Names[n]] # <<>> /\ Head(kv[Names[n]]) < qs
  <2>1. kv[Names[n]] = <<n - 1>>
    BY <1>4 DEF NamesGiven
  <2>2. <<n - 1>> # <<>> /\ Head(<<n - 1>>) = n - 1
    OBVIOUS
  <2>3. n - 1 < qs
    BY <1>4, IpcAssumption
  <2>4. QED BY <2>1, <2>2, <2>3
<1>6. line'[B] \in {"race", "getname"}
  BY <1>3, <1>4, <1>5 DEF QGetName, Assert, Move
<1>0. stamp' = stamp
  BY DEF QGetName, test
<1>7. Prepared'
  BY <1>0, <1>1, <1>2, <1>4, <1>6 DEF SoundInv, Prepared
<1>8. NobodyFails'
  BY <1>1, <1>6 DEF NobodyFails
<1>9. QED BY <1>7, <1>8 DEF Sound

(* The races, the ping-pong and the end, of either program. *)
LEMMA RacedSound ==
  ASSUME SoundInv, NEW p \in Procs,
         \/ RaceStart(p) \/ RaceGo(p) \/ RaceTimeout(p) \/ Pump(p) \/ LockUnlock(p) \/ DetachQ(p)
         \/ (p = A /\ FinishA) \/ (p = B /\ FinishB)
  PROVE  Sound'
<1> USE TwoProcs, SoundParts
<1>1. /\ line[p] \in Raced /\ line'[p] \in Raced /\ \A o \in Procs : o # p => line'[o] = line[o]
  BY RacedStep
<1>2. line[A] \in Raced /\ line[A] # "init" /\ line'[A] \in Raced /\ line'[A] # "init"
  BY <1>1 DEF SetInv, Lines, Raced, Setup
<1>3. line'[B] = "getname" => line[B] = "getname"
  BY <1>1 DEF Raced
<1>4. \A k \in Races : kv[k] # <<>>
  BY <1>2 DEF SoundInv, Prepared
<1>5. \A k \in Races : kv'[k] # <<>>
  <2>1. CASE RaceStart(p)
    <3>1. \A n : <<n>> # <<>>
      OBVIOUS
    <3>2. QED BY <1>4, <2>1, <3>1, NamesAre DEF RaceStart, SetInv
  <2>2. CASE kv' = kv
    BY <1>4, <2>2
  <2>3. QED BY <2>1, <2>2 DEF RaceGo, RaceTimeout, Pump, LockUnlock, DetachQ, FinishA, FinishB
<1>6. /\ hq'[A].lists # "freed" /\ hq'[B].lists # "freed"
      /\ line'[B] = "getname" => hq'[B].q_is_ready = TRUE
  <2>1. CASE hq' = hq
    BY <1>2, <1>3, <2>1 DEF SoundInv, Prepared
  <2>2. CASE DetachQ(p)
    <3>1. hq' = [hq EXCEPT ![p] = NoQ] /\ NoQ.lists # "freed" /\ line[p] = "detach"
      BY <2>2 DEF DetachQ, NoQ, At
    <3>2. QED BY <1>1, <1>2, <1>3, <3>1 DEF SoundInv, Prepared, Raced
  <2>3. QED BY <2>1, <2>2 DEF RaceStart, RaceGo, RaceTimeout, Pump, LockUnlock, FinishA, FinishB
<1>0. stamp' = stamp /\ line'[B] # "unborn"
  <2>1. stamp' = stamp
    BY DEF RaceStart, RaceGo, RaceTimeout, Pump, LockUnlock, DetachQ, FinishA, FinishB, test
  <2>2. line[B] # "unborn"
    BY <1>2 DEF SoundInv, Prepared
  <2>3. QED BY <1>1, <2>1, <2>2 DEF Raced
<1>7. Prepared'
  BY <1>0, <1>2, <1>5, <1>6 DEF SoundInv, Prepared, Filling, Raced
<1>8. line'[p] # "failed"
  <2>1. CASE RaceStart(p)
    <3>1. kv[Race(line[p])] # <<>>
      BY <1>4, RaceOne
    <3>2. QED BY <2>1, <3>1 DEF RaceStart, Assert, Move
  <2>2. CASE DetachQ(p)
    <3>1. hq[p].lists # "freed"
      BY <1>2 DEF SoundInv, Prepared
    <3>2. QED BY <2>2, <3>1 DEF DetachQ, Assert, Move
  <2>3. CASE RaceGo(p) \/ RaceTimeout(p) \/ LockUnlock(p) \/ (p = A /\ FinishA) \/ (p = B /\ FinishB)
    BY <2>3 DEF RaceGo, RaceTimeout, LockUnlock, FinishA, FinishB, Move
  <2>4. CASE Pump(p)
    BY <2>4 DEF Pump
  <2>5. QED BY <2>1, <2>2, <2>3, <2>4
<1>9. NobodyFails'
  BY <1>1, <1>8 DEF NobodyFails
<1>10. QED BY <1>7, <1>9 DEF Sound

LEMMA StillSound ==
  ASSUME SoundInv, line' = line, kv' = kv, hq' = hq, test' = test
  PROVE  Sound'
BY DEF SoundInv, Sound, Prepared, NobodyFails, test

LEMMA SoundInit == IpcInit => SoundInv
<1> SUFFICES ASSUME IpcInit PROVE SoundInv
  OBVIOUS
<1>1. line[A] = "init" /\ line[B] = "unborn" /\ hq[B] = NoQ
  BY TwoProcs DEF IpcInit
<1>2. NobodyFails
  BY DEF IpcInit, NobodyFails
<1>3. stamp \in [Items -> 0 .. q_items]
  BY CountLimits DEF IpcInit
<1>5. Prepared
  BY <1>1, <1>3 DEF Prepared, Filling, Raced, NoQ
<1>4. QED BY <1>2, <1>5, InitRace, PhaseInit DEF SoundInv

LEMMA SoundStep == SoundInv /\ [IpcNext]_ivars => SoundInv'
<1> SUFFICES ASSUME SoundInv, [IpcNext]_ivars PROVE SoundInv'
  OBVIOUS
<1> USE TwoProcs
<1>1. RaceInv' /\ PhaseInv'
  BY RaceStep, PhaseStep DEF SoundInv
<1>2. CASE ProgramA
  <2>1. Sound'
    BY <1>2, RaceInitSound, QNewSound, QNewNameSound, QDelSound, RoundsSound, RacedSound DEF ProgramA
  <2>2. QED BY <1>1, <2>1 DEF SoundInv, Sound
<1>3. CASE ProgramB
  <2>1. Sound'
    BY <1>3, QGetSound, QGetNameSound, RacedSound DEF ProgramB
  <2>2. QED BY <1>1, <2>1 DEF SoundInv, Sound
<1>4. ASSUME NEW p \in Procs, RaceTimeout(p) \/ InCall(p) \/ GetLock(p) PROVE SoundInv'
  <2>1. CASE RaceTimeout(p)
    BY <1>1, <2>1, RacedSound DEF SoundInv, Sound
  <2>2. CASE InCall(p) \/ GetLock(p)
    <3>1. Sound'
      BY <2>2, StillSound DEF InCall, GetLock
    <3>2. QED BY <1>1, <3>1 DEF SoundInv, Sound
  <2>3. QED BY <1>4, <2>1, <2>2
<1>5. CASE UNCHANGED ivars
  <2>1. Sound'
    BY <1>5, StillSound DEF ivars
  <2>2. QED BY <1>1, <2>1 DEF SoundInv, Sound
<1>6. QED BY <1>2, <1>3, <1>4, <1>5 DEF IpcNext

(* No assertion fails, in either program: the calls find a set that is     *)
(* ready and names that are free or given, and in each round all the items *)
(* come, in the order in which they went in, through queues and batches.   *)
THEOREM IpcNobodyFails == IpcSpec => []NobodyFails
<1>1. SoundInv => NobodyFails
  BY DEF SoundInv
<1>2. QED BY <1>1, SoundInit, SoundStep, PTL DEF IpcSpec

-----------------------------------------------------------------------------
(* The types. *)
LEMMA KeysHoldFew ==
  ASSUME SoundInv
  PROVE  \A k \in Keys : Len(kv[k]) <= 2
<1> USE TwoProcs, SoundParts
<1>1. \A x, y : Len(<<>>) <= 2 /\ Len(<<x>>) <= 2 /\ Len(<<x, y>>) <= 2
  OBVIOUS
<1>2. ASSUME NEW k \in Settings PROVE Len(kv[k]) <= 2
  <2>1. CASE line[A] \in {"init", "new", "name", "del"}
    BY <1>1, <1>2, <2>1 DEF SetInv, SetsOfA
  <2>2. CASE line[A] = "newer"
    BY <1>1, <1>2, <2>2, NamesAre DEF SetInv, SetsOfA
  <2>3. CASE line[A] \in Filling \cup Raced
    <3>1. Stored
      BY <2>3 DEF SoundInv, Prepared, SetInv, SetsOfB
    <3>2. QED BY <1>1, <1>2, <3>1, NamesAre DEF Stored
  <2>4. QED BY <2>1, <2>2, <2>3 DEF SetInv, Lines, Setup
<1>3. ASSUME NEW n \in 0 .. 3, NamesGiven(n), NEW i \in 1 .. 3 PROVE Len(kv[Names[i]]) <= 2
  BY <1>1, <1>3 DEF NamesGiven
<1>4. \E n \in 0 .. 3 : NamesGiven(n)
  <2>1. CASE line[A] \in {"init", "new", "name", "del", "newer"}
    BY <2>1 DEF SetInv, SetsOfA
  <2>2. CASE line[A] \in Filling \cup Raced
    <3>1. Stored
      BY <2>2 DEF SoundInv, Prepared, SetInv, SetsOfB
    <3>2. 3 \in 0 .. 3 /\ NamesGiven(3)
      BY <3>1 DEF Stored
    <3>3. QED BY <3>2
  <2>3. QED BY <2>1, <2>2 DEF SetInv, Lines, Setup
<1>5. ASSUME NEW k \in Races PROVE Len(kv[k]) <= 2
  BY <1>1, <1>5 DEF RaceLines, LineCounts, Races
<1>6. \A k \in Keys : k \in Settings \/ k \in Races \/ \E i \in 1 .. 3 : k = Names[i]
  BY NamesAre DEF Keys, Names
<1>7. QED BY <1>2, <1>3, <1>4, <1>5, <1>6

LEMMA LimitsKnown ==
  ASSUME SoundInv, NEW p \in Procs, line[p] \in Ready
  PROVE  hq[p].set["__qids_nolock_max"] = IF p = A THEN 2 ELSE 1
<1> USE TwoProcs, SoundParts, NamesAre
<1>1. CASE p = A
  BY <1>1 DEF SetInv, SetsOfA
<1>2. CASE p = B
  BY <1>2 DEF SetInv, SetsOfB
<1>3. QED BY <1>1, <1>2

(* The types, for any number of items and any length of the ping-pong: no  *)
(* key has more than two values, no count and no number in an item runs    *)
(* away, and each program has the limit it should have.                    *)
THEOREM IpcTypes == IpcSpec => []IpcTypeOK
<1>1. SoundInv => IpcTypeOK
  <2> SUFFICES ASSUME SoundInv PROVE IpcTypeOK
    OBVIOUS
  <2>1. TypeOK
    BY SoundParts, TypesFollow DEF PlayInv
  <2>2. line \in [Procs -> {"unborn", "init", "new", "name", "del", "newer", "fill", "filling",
                            "swap", "swapping", "get", "getname", "race", "wait", "pump", "race2",
                            "wait2", "lock", "detach", "done", "failed", "timeout"}]
    BY SoundParts DEF SetInv, Lines, Setup, Filling, Raced
  <2>3. \A k \in Keys : Len(kv[k]) <= 2
    BY KeysHoldFew
  <2>4. round \in 1 .. 4 /\ stamp \in [Items -> 0 .. q_items]
    BY SoundParts DEF SoundInv, PlayInv, Prepared
  <2>5. ASSUME NEW p \in Procs
        PROVE  /\ hq[p].set \in [Settings -> 0 .. 2]
               /\ hq[p].q_next \in 0 .. qs /\ hq[p].qid \in Seq(Qids)
    BY SoundParts DEF SetInv, HqType
  <2>6. ASSUME NEW p \in Procs PROVE count[p] \in 0 .. q_items + TestPullItems
    BY DEF SoundInv, PhaseInv, CountInv
  <2>7. ASSUME NEW p \in Procs, line[p] \in {"race", "wait", "pump", "race2", "wait2", "lock"}
        PROVE  hq[p].set["__qids_nolock_max"] = IF p = A THEN 2 ELSE 1
    BY <2>7, LimitsKnown DEF Ready
  <2>8. QED BY <2>1, <2>2, <2>3, <2>4, <2>5, <2>6, <2>7 DEF IpcTypeOK
<1>2. QED BY <1>1, SoundInit, SoundStep, PTL DEF IpcSpec
=============================================================================
