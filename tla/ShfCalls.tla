------------------------------ MODULE ShfCalls ------------------------------
(***************************************************************************)
(* The calls that hold a window's lock as reader only, step by step:       *)
(* shf_get_key_val_copy, which may shrink the table on its way out, and    *)
(* shf_add_key_val_atom; and shf_add_key_val, which is an atomic add and   *)
(* then, under a second lock, a delete or a put.  Puts and deletes hold    *)
(* the lock as writer and are one step, as in ShfTable.                    *)
(*                                                                         *)
(* There is one table and one row.  A record is [key, n, on]: on is FALSE  *)
(* once the ref is gone and only its bytes are left.  All records have the *)
(* same length, so tab_data_free and tab_data_used count records.          *)
(***************************************************************************)
EXTENDS Integers, FiniteSets, FiniteSetsExt

CONSTANTS
  Procs, Keys, RefsPerRow,
  LongMod,                 \* 2^64: the values of a long
  Calls(_)                 \* Calls(p): the calls that p makes, [op, key, n]

ASSUME CallsAssumption ==
  /\ IsFiniteSet(Procs) /\ RefsPerRow \in Nat \ {0} /\ LongMod \in Nat \ {0}
  /\ \A p \in Procs :
       Calls(p) \subseteq [op : {"get", "atom", "add", "put", "del"}, key : Keys,
                           n : 0 .. LongMod - 1]

VARIABLES
  readers,    \* who holds the lock as reader; nobody keeps it as writer
  name,       \* the inode the file name leads to, 0 while there is none
  file,       \* file[i]: row, tab_data_free, and whether tab_size is 1
  map,        \* map[p]: the inode p has mapped, 0 for none
  pc, call,   \* where p is in the call it makes
  slot, old,  \* the ref p found, 0 for none; the inode p shrinks
  val,        \* shf_val_long of p
  live, sum   \* history: what the calls so far amount to, for each key

vars == <<readers, name, file, map, pc, call, slot, old, val, live, sum>>

Refs == 1 .. RefsPerRow
Inodes == 1 .. 2 * Cardinality(Procs) + 1
Longs == 0 .. LongMod - 1
Idle == [op |-> "none", key |-> "none", n |-> 0]
NoRec == [key |-> "none", n |-> 0, on |-> FALSE]
NewFile == [row |-> [s \in Refs |-> NoRec], free |-> 0, reload |-> FALSE]

On(f) == {s \in Refs : f.row[s].on}
Matches(f, k) == {s \in On(f) : f.row[s].key = k}

(* Mutant of FirstMatch: the search stops before the last ref. *)
FirstMatchButLast(f, k) ==
  IF Matches(f, k) \ {RefsPerRow} = {} THEN 0 ELSE Min(Matches(f, k) \ {RefsPerRow})

FirstMatch(f, k) == IF Matches(f, k) = {} THEN 0 ELSE Min(Matches(f, k))

InUse == {name} \cup {map[p] : p \in Procs} \cup {old[p] : p \in Procs}
Fresh == Min(Inodes \ InUse)

(* Files nobody can reach are as if they had never been. *)
Kept(f, used) == [i \in Inodes |-> IF i \in used THEN f[i] ELSE NewFile]

-----------------------------------------------------------------------------
(* Mutant of GetTab: it does not look for a tab_size of 1. *)
GetTabStale(p) == IF map[p] = 0 THEN name ELSE map[p]

(* SHF_GET_TAB_MMAP: the inode p works on from here, or 0 if stat() finds   *)
(* no file and the assertion ends the process.                              *)
GetTab(p) == IF map[p] = 0 \/ file[map[p]].reload THEN name ELSE map[p]

MarkDeleted(f, s) == [f EXCEPT !.row[s].on = FALSE, !.free = @ + 1]

(* Goes on at label l, or ends there with the lock still taken. *)
GoOrDie(p, ok, l) == pc' = [pc EXCEPT ![p] = IF ok THEN l ELSE "dead"]

-----------------------------------------------------------------------------
(* shf_find_key_internal for the calls that lock as reader. *)

LockReader(p, c) ==
  /\ pc[p] = "idle" /\ c.op \in {"get", "atom", "add"}
  /\ readers' = readers \cup {p}
  /\ pc' = [pc EXCEPT ![p] = "map"]
  /\ call' = [call EXCEPT ![p] = c]
  /\ UNCHANGED <<name, file, map, slot, old, val, live, sum>>

Map(p) ==
  /\ pc[p] = "map"
  /\ map' = [map EXCEPT ![p] = GetTab(p)]
  /\ GoOrDie(p, GetTab(p) # 0, "look")
  /\ UNCHANGED <<readers, name, file, call, slot, old, val, live, sum>>

Look(p) ==
  LET s == FirstMatch(file[map[p]], call[p].key)
  IN  /\ pc[p] = "look"
      /\ slot' = [slot EXCEPT ![p] = s]
      /\ pc' = [pc EXCEPT ![p] = IF s = 0 THEN "unlock" ELSE "act"]
      /\ UNCHANGED <<readers, name, file, map, call, old, val, live, sum>>

(* The value is copied; a quarter as much garbage as data means a shrink.   *)
CopyVal(p) ==
  LET f == file[map[p]]
  IN  /\ pc[p] = "act" /\ call[p].op = "get"
      /\ val' = [val EXCEPT ![p] = f.row[slot[p]].n]
      /\ pc' = [pc EXCEPT ![p] = IF 4 * f.free > Cardinality(On(f)) THEN "unlink" ELSE "unlock"]
      /\ UNCHANGED <<readers, name, file, map, call, slot, old, live, sum>>

AtomAdd(p) ==
  LET n == (file[map[p]].row[slot[p]].n + call[p].n) % LongMod
  IN  /\ pc[p] = "act" /\ call[p].op \in {"atom", "add"}
      /\ file' = [file EXCEPT ![map[p]].row[slot[p]].n = n]
      /\ val' = [val EXCEPT ![p] = n]
      /\ sum' = [sum EXCEPT ![call[p].key] = (@ + call[p].n) % LongMod]
      /\ pc' = [pc EXCEPT ![p] = "unlock"]
      /\ UNCHANGED <<readers, name, map, call, slot, old, live>>

(* Mutant of UnlockReader: shf_add_key_val deletes what is not zero. *)
UnlockReaderNotZero(p) ==
  LET next == CASE call[p].op = "add" /\ slot[p] = 0 -> "refput"
                [] call[p].op = "add" /\ slot[p] # 0 /\ val[p] # 0 -> "refdel"
                [] OTHER -> "idle"
  IN  /\ pc[p] = "unlock"
      /\ readers' = readers \ {p}
      /\ pc' = [pc EXCEPT ![p] = next]
      /\ call' = [call EXCEPT ![p] = IF next = "idle" THEN Idle ELSE @]
      /\ slot' = [slot EXCEPT ![p] = 0]
      /\ val' = [val EXCEPT ![p] = 0]
      /\ UNCHANGED <<name, file, map, old, live, sum>>

(* Out of the lock; shf_add_key_val may have more to do.                    *)
UnlockReader(p) ==
  LET next == CASE call[p].op = "add" /\ slot[p] = 0 -> "refput"
                [] call[p].op = "add" /\ slot[p] # 0 /\ val[p] = 0 -> "refdel"
                [] OTHER -> "idle"
  IN  /\ pc[p] = "unlock"
      /\ readers' = readers \ {p}
      /\ pc' = [pc EXCEPT ![p] = next]
      /\ call' = [call EXCEPT ![p] = IF next = "idle" THEN Idle ELSE @]
      /\ slot' = [slot EXCEPT ![p] = 0]
      /\ val' = [val EXCEPT ![p] = 0]
      /\ UNCHANGED <<name, file, map, old, live, sum>>

-----------------------------------------------------------------------------
(* shf_tab_shrink, under the same reader's lock. *)

Unlink(p) ==
  /\ pc[p] = "unlink"
  /\ GoOrDie(p, GetTab(p) # 0 /\ name # 0, "create")
  /\ old' = [old EXCEPT ![p] = GetTab(p)]
  /\ map' = [map EXCEPT ![p] = 0]
  /\ name' = 0
  /\ UNCHANGED <<readers, file, call, slot, val, live, sum>>

(* Mutant of Create: the new file is not made. *)
CreateMissing(p) ==
  /\ pc[p] = "create"
  /\ pc' = [pc EXCEPT ![p] = "remap"]
  /\ UNCHANGED <<readers, name, file, map, call, slot, old, val, live, sum>>

(* shf_tab_create opens with O_CREAT: it takes a file that is there.        *)
Create(p) ==
  LET i == IF name = 0 THEN Fresh ELSE name
  IN  /\ pc[p] = "create"
      /\ name' = i
      /\ file' = [file EXCEPT ![i] = IF name = 0 THEN NewFile ELSE @]
      /\ pc' = [pc EXCEPT ![p] = "remap"]
      /\ UNCHANGED <<readers, map, call, slot, old, val, live, sum>>

Remap(p) ==
  /\ pc[p] = "remap"
  /\ map' = [map EXCEPT ![p] = GetTab(p)]
  /\ GoOrDie(p, GetTab(p) # 0, "move")
  /\ UNCHANGED <<readers, name, file, call, slot, old, val, live, sum>>

(* SHF_TAB_REF_COPY of the next ref that is still there.                    *)
Move(p) ==
  LET s == Min(On(file[old[p]]))
  IN  /\ pc[p] = "move"
      /\ On(file[old[p]]) # {}
      /\ file' = [file EXCEPT ![map[p]].row[s] = file[old[p]].row[s],
                              ![old[p]] = MarkDeleted(@, s)]
      /\ UNCHANGED <<readers, name, map, pc, call, slot, old, val, live, sum>>

(* tab_size = 1 in the old file, and munmap().                              *)
EndShrink(p) ==
  /\ pc[p] = "move"
  /\ On(file[old[p]]) = {}
  /\ old' = [old EXCEPT ![p] = 0]
  /\ file' = Kept([file EXCEPT ![old[p]].reload = TRUE],
                  {name} \cup {map[q] : q \in Procs} \cup {old[q] : q \in Procs \ {p}})
  /\ pc' = [pc EXCEPT ![p] = "unlock"]
  /\ UNCHANGED <<readers, name, map, call, slot, val, live, sum>>

-----------------------------------------------------------------------------
(* shf_put_key_val and shf_del_key_val, alone in the window, so that nobody *)
(* has the address of the bytes a delete leaves behind.                     *)

(* The table after a put's shrink: what is on, in a new file.               *)
Shrunk(f) == [NewFile EXCEPT !.row = [s \in Refs |-> IF f.row[s].on THEN f.row[s] ELSE NoRec]]

(* A put into a full row splits the table, which is left to ShfTable. *)
PutRec(p, k, n) ==
  LET i == GetTab(p)
      s == Min(Refs \ On(file[i]))
      f == [file[i] EXCEPT !.row[s] = [key |-> k, n |-> n, on |-> TRUE]]
      shrink == 5 * f.free > Cardinality(On(f))
      j == IF shrink THEN Fresh ELSE i
  IN  /\ readers = {}
      /\ On(file[i]) # Refs
      /\ name' = IF shrink THEN j ELSE name
      /\ map' = [map EXCEPT ![p] = j]
      /\ file' = Kept([file EXCEPT ![i] = [f EXCEPT !.reload = shrink \/ @], ![j] = IF shrink THEN Shrunk(f) ELSE f],
                      {name', j} \cup {map[q] : q \in Procs \ {p}})
      /\ live' = [live EXCEPT ![k] = @ + 1]
      /\ sum' = [sum EXCEPT ![k] = (@ + n) % LongMod]

DelRec(p, k) ==
  LET i == GetTab(p)
      s == FirstMatch(file[i], k)
  IN  /\ readers = {}
      /\ map' = [map EXCEPT ![p] = i]
      /\ IF s = 0 THEN UNCHANGED <<file, live, sum>>
         ELSE /\ file' = Kept([file EXCEPT ![i] = [MarkDeleted(@, s) EXCEPT !.row[s] = NoRec]],
                              {name} \cup {map'[q] : q \in Procs})
              /\ live' = [live EXCEPT ![k] = @ - 1]
              /\ sum' = [sum EXCEPT ![k] = (@ - file[i].row[s].n) % LongMod]
      /\ UNCHANGED name

Put(p, c) ==
  /\ pc[p] = "idle" /\ c.op = "put"
  /\ PutRec(p, c.key, c.n)
  /\ UNCHANGED <<readers, pc, call, slot, old, val>>

Del(p, c) ==
  /\ pc[p] = "idle" /\ c.op = "del"
  /\ DelRec(p, c.key)
  /\ UNCHANGED <<readers, pc, call, slot, old, val>>

(* shf_add_key_val: no such key, so put it; or the count is zero, so delete *)
(* it.                                                                      *)
Done(p) ==
  /\ pc' = [pc EXCEPT ![p] = "idle"]
  /\ call' = [call EXCEPT ![p] = Idle]
  /\ UNCHANGED <<readers, slot, old, val>>

RefPut(p) == pc[p] = "refput" /\ PutRec(p, call[p].key, call[p].n) /\ Done(p)

RefDel(p) == pc[p] = "refdel" /\ DelRec(p, call[p].key) /\ Done(p)

-----------------------------------------------------------------------------
Init ==
  /\ readers = {} /\ name = 1
  /\ file = [i \in Inodes |-> NewFile]
  /\ map = [p \in Procs |-> 0] /\ old = [p \in Procs |-> 0] /\ slot = [p \in Procs |-> 0]
  /\ pc = [p \in Procs |-> "idle"] /\ call = [p \in Procs |-> Idle]
  /\ val = [p \in Procs |-> 0]
  /\ live = [k \in Keys |-> 0] /\ sum = [k \in Keys |-> 0]

Next ==
  \E p \in Procs :
    \/ \E c \in Calls(p) : LockReader(p, c) \/ Put(p, c) \/ Del(p, c)
    \/ Map(p) \/ Look(p) \/ CopyVal(p) \/ AtomAdd(p) \/ UnlockReader(p)
    \/ Unlink(p) \/ Create(p) \/ Remap(p) \/ Move(p) \/ EndShrink(p)
    \/ RefPut(p) \/ RefDel(p)

Spec == Init /\ [][Next]_vars

-----------------------------------------------------------------------------
(* Properties. *)

TypeOK ==
  /\ readers \subseteq Procs /\ name \in Inodes \cup {0}
  /\ file \in [Inodes -> [row : [Refs -> [key : Keys \cup {"none"}, n : Longs, on : BOOLEAN]],
                          free : Nat, reload : BOOLEAN]]
  /\ map \in [Procs -> Inodes \cup {0}] /\ old \in [Procs -> Inodes \cup {0}]
  /\ slot \in [Procs -> Refs \cup {0}] /\ val \in [Procs -> Longs]
  /\ pc \in [Procs -> {"idle", "map", "look", "act", "unlock", "unlink", "create", "remap",
                       "move", "refput", "refdel", "dead"}]
  /\ call \in [Procs -> {Idle} \cup UNION {Calls(p) : p \in Procs}]
  /\ live \in [Keys -> Nat] /\ sum \in [Keys -> Longs]

(* A get says the key is there if and only if it is: no writer is in the   *)
(* window, so nothing the caller can know of changes under its lock.       *)
GetsFindStored ==
  \A p \in Procs :
    pc[p] = "unlock" => (slot[p] = 0 <=> live[call[p].key] = 0)

(* Nothing is lost: when no shrink is under way the table holds, for every *)
(* key, as many records as were put and not deleted, and all that was      *)
(* added to them.                                                          *)
NothingLost ==
  (\A p \in Procs : pc[p] \notin {"create", "remap", "move", "dead"}) =>
    \A k \in Keys :
      LET f == file[name]
          at == Matches(f, k)
      IN  /\ Cardinality(at) = live[k]
          /\ MapThenSumSet(LAMBDA s : f.row[s].n, at) % LongMod = sum[k]

(* No call ends in a failed assertion, which would keep the lock for ever. *)
NobodyDies == \A p \in Procs : pc[p] # "dead"

(* The comment in shf_add_key_val: "come here if new reference count is    *)
(* zero, so delete key".  The record it deletes has a count of zero.       *)
DeletesAtZero ==
  [][\A p \in Procs :
       pc[p] = "refdel" /\ pc'[p] = "idle" /\ live' # live
         => sum' = sum]_vars
=============================================================================
