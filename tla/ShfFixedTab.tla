---------------------------- MODULE ShfFixedTab ----------------------------
(***************************************************************************)
(* The data part of one table in fixed length mode (shf_set_is_fixed_len), *)
(* byte by byte: there SHF_TAB_APPEND takes the room of deleted records    *)
(* from a linked list whose links are kept in the deleted records.  A      *)
(* record is 1 + fixed_len bytes: its type and then key and value.  Every  *)
(* call holds the window's lock as writer, or is the only reader (see      *)
(* ShfCalls).  A full table is split, which is left to ShfTable.           *)
(***************************************************************************)
EXTENDS Integers, FiniteSets, FiniteSetsExt

CONSTANTS
  Keys,          \* what can be in a record
  Refs,          \* how many refs the table has
  fixed_len,     \* fixed_key_len + fixed_val_len
  U32            \* sizeof(uint32_t): of key_len, and of a link

ASSUME FixedAssumption ==
  Refs \in Nat \ {0} /\ fixed_len \in Nat \ {0} /\ U32 \in Nat \ {0}

VARIABLES
  mem,                        \* the bytes of the data part
  ref,                        \* ref[r].pos, 0 if unused; and the key put there
  tab_data_free_pos, tab_used, tab_data_free, tab_data_used

vars == <<mem, ref, tab_data_free_pos, tab_used, tab_data_free, tab_data_used>>

Size == 1 + fixed_len
Hdr == 1
MaxRecs == Refs + Refs \div 5    \* a put leaves no more than a fifth of the live ones deleted
Bytes == Hdr .. Hdr + Size * MaxRecs + 2 * U32
RefIds == 1 .. Refs
Garbage == -1                 \* a link that is none

Byte(what, v) == [what |-> what, v |-> v]
Zero == Byte("zero", 0)
NoRef == [pos |-> 0, key |-> "none"]

Fill(x, from, n, b) == [a \in Bytes |-> IF a \in from .. from + n - 1 THEN b ELSE x[a]]

(* Mutant of LinkAt: after both lengths instead of after the first. *)
LinkPastEnd(pos) == pos + 1 + 2 * U32

(* A link of a deleted record at pos, written and read where the code does. *)
LinkAt(pos) == pos + 1 + U32
WriteLink(x, pos, to) == Fill(x, LinkAt(pos), U32, Byte("link", to))

ReadLink(x, pos) ==
  LET b == x[LinkAt(pos)]
  IN  IF b.what = "link" /\ \A i \in 0 .. U32 - 1 : x[LinkAt(pos) + i] = b THEN b.v ELSE Garbage

HoldsLink(len) == len >= U32     \* "enough space to store single linked list chain link"

WriteRec(x, pos, k) == Fill(x, pos, Size, Byte(k, 0))

Live == {r \in RefIds : ref[r].pos # 0}

-----------------------------------------------------------------------------
(* shf_tab_shrink: the live records, in the order of their refs, and        *)
(* nothing else in a new file.                                              *)
NewPos(refs, r) == Hdr + Size * Cardinality({i \in RefIds : i < r /\ refs[i].pos # 0})

Shrink(x, refs) ==
  LET live == {r \in RefIds : refs[r].pos # 0}
      byteAt(a) ==
        LET owner == {r \in live : a \in NewPos(refs, r) .. NewPos(refs, r) + Size - 1}
        IN  IF owner = {} THEN Zero
            ELSE LET r == CHOOSE r \in owner : TRUE IN x[refs[r].pos + a - NewPos(refs, r)]
  IN  /\ mem' = [a \in Bytes |-> byteAt(a)]
      /\ ref' = [r \in RefIds |-> IF r \in live THEN [refs[r] EXCEPT !.pos = NewPos(refs, r)] ELSE NoRef]
      /\ tab_used' = Hdr + Size * Cardinality(live)
      /\ tab_data_used' = Size * Cardinality(live)
      /\ tab_data_free' = 0
      /\ tab_data_free_pos' = 0

(* The end of a put: it shrinks when there is too much garbage.             *)
PutEnd(x, refs, used, data_used, data_free, free_pos) ==
  IF data_free > (data_used * 20) \div 100 THEN Shrink(x, refs)
  ELSE /\ mem' = x /\ ref' = refs
       /\ tab_used' = used /\ tab_data_used' = data_used
       /\ tab_data_free' = data_free /\ tab_data_free_pos' = free_pos

(* Mutant of PutReuse: the rest of the list is dropped. *)
PutReuseDropsRest(k) ==
  LET pos == tab_data_free_pos
      r == Min(RefIds \ Live)
  IN  /\ Live # RefIds
      /\ tab_data_free_pos \notin {0, Garbage}
      /\ PutEnd(WriteRec(mem, pos, k), [ref EXCEPT ![r] = [pos |-> pos, key |-> k]],
                tab_used, tab_data_used + Size, tab_data_free - Size, 0)

(* A put where there is a deleted record to reuse ...                       *)
PutReuse(k) ==
  LET pos == tab_data_free_pos
      r == Min(RefIds \ Live)
  IN  /\ Live # RefIds
      /\ tab_data_free_pos \notin {0, Garbage}
      /\ PutEnd(WriteRec(mem, pos, k), [ref EXCEPT ![r] = [pos |-> pos, key |-> k]],
                tab_used, tab_data_used + Size, tab_data_free - Size, ReadLink(mem, pos))

(* ... and where there is none.                                             *)
PutAppend(k) ==
  LET r == Min(RefIds \ Live)
  IN  /\ Live # RefIds
      /\ tab_data_free_pos = 0
      /\ PutEnd(WriteRec(mem, tab_used, k), [ref EXCEPT ![r] = [pos |-> tab_used, key |-> k]],
                tab_used + Size, tab_data_used + Size, tab_data_free, 0)

(* SHF_TAB_REF_MARK_AS_DELETED.                                             *)
Del(r) ==
  LET pos == ref[r].pos
      marked == [mem EXCEPT ![pos] = Byte("deleted", 0)]
  IN  /\ r \in Live
      /\ mem' = IF HoldsLink(fixed_len) THEN WriteLink(marked, pos, tab_data_free_pos) ELSE marked
      /\ tab_data_free_pos' = IF HoldsLink(fixed_len) THEN pos ELSE tab_data_free_pos
      /\ tab_data_used' = tab_data_used - Size
      /\ tab_data_free' = tab_data_free + Size
      /\ ref' = [ref EXCEPT ![r] = NoRef]
      /\ UNCHANGED tab_used

(* shf_get_*_copy of a record, when it shrinks the table.                   *)
GetShrinks(r) ==
  /\ r \in Live
  /\ tab_data_free > tab_data_used \div 4
  /\ Shrink(mem, ref)

Init ==
  /\ mem = [a \in Bytes |-> Zero] /\ ref = [r \in RefIds |-> NoRef]
  /\ tab_data_free_pos = 0 /\ tab_used = Hdr /\ tab_data_free = 0 /\ tab_data_used = 0

Next ==
  \/ \E k \in Keys : PutReuse(k) \/ PutAppend(k)
  \/ \E r \in RefIds : Del(r) \/ GetShrinks(r)

Spec == Init /\ [][Next]_vars

-----------------------------------------------------------------------------
(* Properties. *)

TypeOK ==
  /\ DOMAIN mem = Bytes /\ \A a \in Bytes : mem[a].v \in Bytes \cup {0}
  /\ ref \in [RefIds -> [pos : Bytes \cup {0}, key : Keys \cup {"none"}]]
  /\ tab_data_free_pos \in Bytes \cup {0} /\ tab_used \in Bytes
  /\ tab_data_free \in Nat /\ tab_data_used \in Nat

(* A record reads back as it was put: no delete, reuse or shrink of other  *)
(* records writes into its bytes.                                          *)
RecordsIntact ==
  \A r \in Live : \A a \in ref[r].pos .. ref[r].pos + fixed_len : mem[a] = Byte(ref[r].key, 0)

(* The free list runs through all the deleted records and no live one, and *)
(* the two byte counters say how much of the data part is which.           *)
DeletedPos == {pos \in {Hdr + Size * i : i \in 0 .. MaxRecs} :
                 pos < tab_used /\ \A r \in Live : ref[r].pos # pos}

FreeListSound ==
  LET at[n \in 0 .. Refs] ==
        IF n = 0 THEN tab_data_free_pos
        ELSE IF at[n - 1] \in {0, Garbage} THEN at[n - 1] ELSE ReadLink(mem, at[n - 1])
      reached == {at[n] : n \in 0 .. Refs} \ {0}
  IN  /\ reached = IF HoldsLink(fixed_len) THEN DeletedPos ELSE {}
      /\ tab_data_free = Size * Cardinality(DeletedPos)
      /\ tab_data_used = Size * Cardinality(Live)
=============================================================================
