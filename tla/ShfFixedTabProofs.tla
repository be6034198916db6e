------------------------- MODULE ShfFixedTabProofs -------------------------
(***************************************************************************)
(* Proofs about ShfFixedTab, for tables of any size and records of any     *)
(* length that can hold the link of the free list or is too short for it   *)
(* to be written (LinkFits): no call writes into the bytes of a live       *)
(* record, and the free list reaches all the deleted ones.                 *)
(***************************************************************************)
EXTENDS ShfFixedTab, FiniteSetTheorems, NaturalsInduction, TLAPS

(* The link is written U32 bytes after the type of a deleted record, where *)
(* a record that is not of fixed length has its key: so there must be room *)
(* for two lengths, or too little even for one.                            *)
LinkFits == fixed_len < U32 \/ fixed_len >= 2 * U32

Slot(i) == Hdr + Size * i

-----------------------------------------------------------------------------
(* The parts of the invariant, of any contents of a table: of the bytes x, *)
(* the refs and the numbers in its header.                                 *)
LiveIn(refs) == {r \in RefIds : refs[r].pos # 0}

DeletedIn(refs, used) ==
  {pos \in {Hdr + Size * i : i \in 0 .. MaxRecs} :
     pos < used /\ \A r \in LiveIn(refs) : refs[r].pos # pos}

(* There are n records, one after the other, each of at most one ref.      *)
Placed(refs, used, n) ==
  /\ refs \in [RefIds -> [pos : Nat, key : Keys \cup {"none"}]]
  /\ n \in 0 .. MaxRecs + 1 /\ used = Slot(n)
  /\ \A r \in LiveIn(refs) : \E i \in 0 .. n - 1 : refs[r].pos = Slot(i)
  /\ \A r, q \in LiveIn(refs) : refs[r].pos = refs[q].pos => r = q

Intact(x, refs) ==
  /\ DOMAIN x = Bytes
  /\ \A r \in LiveIn(refs) :
       \A a \in refs[r].pos .. refs[r].pos + fixed_len : x[a] = Byte(refs[r].key, 0)

Counted(refs, used, n, data_used, data_free) ==
  /\ n = Cardinality(LiveIn(refs)) + Cardinality(DeletedIn(refs, used))
  /\ data_used = Size * Cardinality(LiveIn(refs))
  /\ data_free = Size * Cardinality(DeletedIn(refs, used))

(* The links lead from free_pos through s[1] .. s[m], which are all of D.  *)
Chain(x, D, free_pos, m, s) ==
  /\ s[1] = free_pos /\ s[m + 1] = 0
  /\ \A i \in 1 .. m : s[i] \in D
  /\ \A pos \in D : \E i \in 1 .. m : s[i] = pos
  /\ \A i, j \in 1 .. m : s[i] = s[j] => i = j
  /\ \A i \in 1 .. m : \A a \in LinkAt(s[i]) .. LinkAt(s[i]) + U32 - 1 :
       x[a] = Byte("link", s[i + 1])

Chained(x, D, free_pos) ==
  IF HoldsLink(fixed_len)
  THEN \E m \in Nat : \E s \in [1 .. m + 1 -> Nat] : Chain(x, D, free_pos, m, s)
  ELSE free_pos = 0

Sound(x, refs, used, data_used, data_free, free_pos, n) ==
  /\ Placed(refs, used, n) /\ Intact(x, refs)
  /\ Counted(refs, used, n, data_used, data_free)
  /\ Chained(x, DeletedIn(refs, used), free_pos)

(* Between two calls there is room for what is there: the list is used up  *)
(* before a record is appended.                                            *)
InRoom(n) == n <= MaxRecs /\ (HoldsLink(fixed_len) => n <= Refs)

FixedInv ==
  \E n \in Nat :
    /\ Sound(mem, ref, tab_used, tab_data_used, tab_data_free, tab_data_free_pos, n)
    /\ InRoom(n)

-----------------------------------------------------------------------------
(* Arithmetic. *)

LEMMA Consts ==
  /\ Refs \in Nat /\ Refs > 0 /\ fixed_len \in Nat /\ fixed_len > 0 /\ U32 \in Nat /\ U32 > 0
  /\ Size \in Nat /\ Size > 1 /\ Size = 1 + fixed_len /\ Hdr = 1
  /\ MaxRecs \in Nat /\ Refs <= MaxRecs
BY FixedAssumption DEF Size, Hdr, MaxRecs

LEMMA Distributes ==
  \A a, b \in Nat : Size * (a + b) = Size * a + Size * b /\ Size * a \in Nat
BY Consts

LEMMA TimesNext == \A a \in Nat : Size * (a + 1) = Size * a + Size /\ Size * a \in Nat
<1>1. Size * 1 = Size
  BY Consts
<1>2. QED BY <1>1, Distributes

LEMMA TimesGrows ==
  ASSUME NEW a \in Nat, NEW b \in Nat, a < b
  PROVE  Size * a + Size <= Size * b
<1>1. PICK d \in Nat : b = (a + 1) + d
  <2>1. b - a - 1 \in Nat /\ b = (a + 1) + (b - a - 1)
    OBVIOUS
  <2>2. QED BY <2>1
<1>2. Size * b = Size * (a + 1) + Size * d /\ Size * d \in Nat
  BY <1>1, Distributes
<1>3. Size * (a + 1) = Size * a + Size * 1 /\ Size * 1 = Size
  BY Distributes, Consts
<1>4. Size * a \in Nat
  BY Distributes
<1>5. QED BY <1>2, <1>3, <1>4, Consts

LEMMA TimesOrder ==
  ASSUME NEW a \in Nat, NEW b \in Nat, Size * a <= Size * b
  PROVE  a <= b
<1> SUFFICES ASSUME b < a PROVE FALSE
  OBVIOUS
<1>1. Size * b + Size <= Size * a
  BY TimesGrows
<1>2. Size * a \in Nat /\ Size * b \in Nat
  BY Distributes
<1>3. QED BY <1>1, <1>2, Consts

LEMMA SlotType == \A i \in Nat : Slot(i) \in Nat /\ Slot(i) >= 1
BY Distributes, Consts DEF Slot

LEMMA SlotNext == \A i \in Nat : Slot(i + 1) = Slot(i) + Size
<1> TAKE i \in Nat
<1>1. Size * (i + 1) = Size * i + Size * 1 /\ Size * 1 = Size /\ Size * i \in Nat
  BY Distributes, Consts
<1>2. QED BY <1>1, Consts DEF Slot

LEMMA SlotApart ==
  ASSUME NEW i \in Nat, NEW j \in Nat, i < j
  PROVE  Slot(i) + Size <= Slot(j)
<1>1. Size * i + Size <= Size * j
  BY TimesGrows
<1>2. Size * i \in Nat /\ Size * j \in Nat
  BY Distributes
<1>3. QED BY <1>1, <1>2, Consts DEF Slot

LEMMA SlotSame ==
  ASSUME NEW i \in Nat, NEW j \in Nat, Slot(i) = Slot(j)
  PROVE  i = j
<1>1. ~(i < j) /\ ~(j < i)
  BY SlotApart, SlotType, Consts
<1>2. QED BY <1>1

LEMMA SlotOrder ==
  ASSUME NEW i \in Nat, NEW j \in Nat
  PROVE  Slot(i) < Slot(j) <=> i < j
<1>1. i < j => Slot(i) < Slot(j)
  BY SlotApart, SlotType, Consts
<1>2. j < i => Slot(j) < Slot(i)
  BY SlotApart, SlotType, Consts
<1>3. i < j \/ i = j \/ j < i
  OBVIOUS
<1>4. QED BY <1>1, <1>2, <1>3, SlotType

(* The bytes of one record are not those of another one.                   *)
LEMMA RoomsApart ==
  ASSUME NEW i \in Nat, NEW j \in Nat, NEW a,
         a \in Slot(i) .. Slot(i) + fixed_len, a \in Slot(j) .. Slot(j) + fixed_len
  PROVE  i = j
<1>1. Slot(i) \in Nat /\ Slot(j) \in Nat
  BY SlotType
<1>2. ~(i < j)
  BY <1>1, SlotApart, Consts
<1>3. ~(j < i)
  BY <1>1, SlotApart, Consts
<1>4. QED BY <1>2, <1>3

LEMMA RoomInBytes ==
  ASSUME NEW i \in Nat, i < MaxRecs \/ (i = MaxRecs /\ fixed_len < U32)
  PROVE  Slot(i) .. Slot(i) + fixed_len \subseteq Bytes
<1>1. Slot(i) \in Nat /\ Slot(i) >= 1 /\ Slot(MaxRecs) \in Nat
  BY SlotType, Consts
<1>2. Bytes = 1 .. Slot(MaxRecs) + 2 * U32
  BY Consts DEF Bytes, Slot
<1>3. CASE i < MaxRecs
  BY <1>1, <1>2, <1>3, SlotApart, Consts
<1>4. CASE i = MaxRecs /\ fixed_len < U32
  BY <1>1, <1>2, <1>4, Consts
<1>5. QED BY <1>3, <1>4

-----------------------------------------------------------------------------
(* What a table holds. *)

LEMMA DeletedIs ==
  ASSUME NEW refs, NEW used, NEW n, Placed(refs, used, n), NEW pos
  PROVE  pos \in DeletedIn(refs, used) <=>
           \E i \in 0 .. n - 1 : pos = Slot(i) /\ \A r \in LiveIn(refs) : refs[r].pos # pos
<1>1. n \in 0 .. MaxRecs + 1 /\ used = Slot(n) /\ MaxRecs \in Nat
  BY Consts DEF Placed
<1>2. ASSUME pos \in DeletedIn(refs, used)
      PROVE  \E i \in 0 .. n - 1 : pos = Slot(i) /\ \A r \in LiveIn(refs) : refs[r].pos # pos
  <2>1. PICK i \in 0 .. MaxRecs : pos = Slot(i)
    BY <1>2 DEF DeletedIn, Slot
  <2>2. Slot(i) < Slot(n)
    BY <1>1, <1>2, <2>1 DEF DeletedIn
  <2>3. i < n
    BY <1>1, <2>2, SlotOrder
  <2>4. QED BY <1>1, <1>2, <2>1, <2>3 DEF DeletedIn
<1>3. ASSUME NEW i \in 0 .. n - 1, pos = Slot(i), \A r \in LiveIn(refs) : refs[r].pos # pos
      PROVE  pos \in DeletedIn(refs, used)
  <2>1. i \in 0 .. MaxRecs /\ i < n
    BY <1>1
  <2>2. pos < used
    BY <1>1, <1>3, <2>1, SlotOrder
  <2>3. QED BY <1>3, <2>1, <2>2 DEF DeletedIn, Slot
<1>4. QED BY <1>2, <1>3

LEMMA LiveFinite ==
  ASSUME NEW refs
  PROVE  /\ IsFiniteSet(LiveIn(refs)) /\ Cardinality(LiveIn(refs)) \in Nat
         /\ Cardinality(LiveIn(refs)) <= Refs
         /\ LiveIn(refs) # RefIds => Cardinality(LiveIn(refs)) < Refs
<1>1. IsFiniteSet(RefIds) /\ Cardinality(RefIds) = Refs
  BY FS_Interval, Consts DEF RefIds
<1>2. LiveIn(refs) \subseteq RefIds
  BY DEF LiveIn
<1>3. QED BY <1>1, <1>2, FS_Subset, FS_CardinalityType, Consts

LEMMA DeletedFinite ==
  ASSUME NEW refs, NEW used, NEW n, Placed(refs, used, n)
  PROVE  IsFiniteSet(DeletedIn(refs, used)) /\ Cardinality(DeletedIn(refs, used)) \in Nat
<1>1. used \in Nat
  BY SlotType DEF Placed
<1>2. DeletedIn(refs, used) \subseteq 0 .. used
  <2> SUFFICES ASSUME NEW pos \in DeletedIn(refs, used) PROVE pos \in 0 .. used
    OBVIOUS
  <2>1. PICK i \in 0 .. MaxRecs : pos = Slot(i)
    BY DEF DeletedIn, Slot
  <2>2. QED BY <1>1, <2>1, SlotType DEF DeletedIn
<1>3. IsFiniteSet(0 .. used)
  BY <1>1, FS_Interval
<1>4. QED BY <1>2, <1>3, FS_Subset, FS_CardinalityType

(* The records that are not at its end lie within the table.               *)
LEMMA LiveInBytes ==
  ASSUME LinkFits, NEW refs, NEW used, NEW n, Placed(refs, used, n), InRoom(n),
         NEW r \in LiveIn(refs)
  PROVE  refs[r].pos .. refs[r].pos + fixed_len \subseteq Bytes
<1>1. PICK i \in 0 .. n - 1 : refs[r].pos = Slot(i)
  BY DEF Placed
<1>2. i \in Nat /\ i < MaxRecs
  BY <1>1, Consts DEF InRoom, Placed
<1>3. QED BY <1>1, <1>2, RoomInBytes

-----------------------------------------------------------------------------
(* A record of k is written at pos and ref r gets it.                      *)
Wrote(x, refs, pos, r, k, y, refs2) ==
  /\ y = WriteRec(x, pos, k)
  /\ refs2 = [refs EXCEPT ![r] = [pos |-> pos, key |-> k]]

FreeAt(refs, pos, r) == r \in RefIds \ LiveIn(refs) /\ \A q \in LiveIn(refs) : refs[q].pos # pos

LEMMA WriteIntact ==
  ASSUME LinkFits, NEW x, NEW refs, NEW used, NEW n,
         Placed(refs, used, n), InRoom(n), Intact(x, refs),
         NEW i \in 0 .. n, i < MaxRecs \/ fixed_len < U32, NEW k \in Keys,
         NEW r, FreeAt(refs, Slot(i), r),
         NEW y, NEW refs2, Wrote(x, refs, Slot(i), r, k, y, refs2),
         NEW m \in Nat, n <= m, i < m, m <= MaxRecs + 1
  PROVE  /\ LiveIn(refs2) = LiveIn(refs) \cup {r}
         /\ Intact(y, refs2)
         /\ Cardinality(LiveIn(refs2)) = Cardinality(LiveIn(refs)) + 1
         /\ Placed(refs2, Slot(m), m)
<1>0. /\ n \in 0 .. MaxRecs + 1 /\ n \in Nat /\ i \in Nat /\ n <= MaxRecs
      /\ refs \in [RefIds -> [pos : Nat, key : Keys \cup {"none"}]]
      /\ MaxRecs \in Nat /\ r \in RefIds \ LiveIn(refs)
      /\ \A q \in LiveIn(refs) : refs[q].pos # Slot(i)
      /\ y = WriteRec(x, Slot(i), k)
      /\ refs2 = [refs EXCEPT ![r] = [pos |-> Slot(i), key |-> k]]
  BY Consts DEF Placed, InRoom, FreeAt, Wrote
<1>1. Slot(i) \in Nat /\ Slot(i) # 0
  BY <1>0, SlotType
<1>2. /\ refs2 \in [RefIds -> [pos : Nat, key : Keys \cup {"none"}]]
      /\ refs2[r].pos = Slot(i) /\ refs2[r].key = k
      /\ \A q \in RefIds : q # r => refs2[q] = refs[q]
  BY <1>0, <1>1
<1>3. LiveIn(refs2) = LiveIn(refs) \cup {r}
  BY <1>0, <1>1, <1>2 DEF LiveIn
<1>4. Intact(y, refs2)
  <2>1. DOMAIN y = Bytes
    BY <1>0 DEF WriteRec, Fill
  <2>2. \A a \in Bytes : y[a] = IF a \in Slot(i) .. Slot(i) + fixed_len THEN Byte(k, 0) ELSE x[a]
    <3>1. Slot(i) + Size - 1 = Slot(i) + fixed_len
      BY <1>1, Consts
    <3>2. QED BY <1>0, <3>1 DEF WriteRec, Fill
  <2>3. ASSUME NEW q \in LiveIn(refs2), NEW a \in refs2[q].pos .. refs2[q].pos + fixed_len
        PROVE  y[a] = Byte(refs2[q].key, 0)
    <3>1. CASE q = r
      <4>1. a \in Slot(i) .. Slot(i) + fixed_len
        BY <1>2, <2>3, <3>1
      <4>2. Slot(i) .. Slot(i) + fixed_len \subseteq Bytes
        BY <1>0, RoomInBytes
      <4>3. QED BY <1>2, <2>2, <3>1, <4>1, <4>2
    <3>2. CASE q # r
      <4>1. q \in LiveIn(refs) /\ refs2[q] = refs[q]
        BY <1>2, <1>3, <3>2 DEF LiveIn
      <4>2. PICK j \in 0 .. n - 1 : refs[q].pos = Slot(j)
        BY <4>1 DEF Placed
      <4>3. a \in Slot(j) .. Slot(j) + fixed_len /\ j # i /\ j \in Nat
        BY <1>0, <2>3, <4>1, <4>2
      <4>4. a \notin Slot(i) .. Slot(i) + fixed_len
        BY <1>0, <4>3, RoomsApart
      <4>5. a \in Bytes
        BY <4>1, <4>2, <4>3, LiveInBytes
      <4>6. x[a] = Byte(refs[q].key, 0)
        BY <4>1, <4>2, <4>3 DEF Intact
      <4>7. QED BY <2>2, <4>1, <4>4, <4>5, <4>6
    <3>3. QED BY <3>1, <3>2
  <2>4. QED BY <2>1, <2>3 DEF Intact
<1>5. Cardinality(LiveIn(refs2)) = Cardinality(LiveIn(refs)) + 1
  <2>1. IsFiniteSet(LiveIn(refs)) /\ r \notin LiveIn(refs)
    BY <1>0, LiveFinite
  <2>2. QED BY <1>3, <2>1, FS_AddElement
<1>6. Placed(refs2, Slot(m), m)
  <2>1. ASSUME NEW q \in LiveIn(refs2) PROVE \E j \in 0 .. m - 1 : refs2[q].pos = Slot(j)
    <3>1. CASE q = r
      BY <1>0, <1>2, <3>1
    <3>2. CASE q # r
      <4>1. q \in LiveIn(refs) /\ refs2[q] = refs[q]
        BY <1>2, <1>3, <3>2 DEF LiveIn
      <4>2. PICK j \in 0 .. n - 1 : refs[q].pos = Slot(j)
        BY <4>1 DEF Placed
      <4>3. j \in 0 .. m - 1
        BY <1>0, <4>2
      <4>4. QED BY <4>1, <4>2, <4>3
    <3>3. QED BY <3>1, <3>2
  <2>2. ASSUME NEW q \in LiveIn(refs2), NEW p \in LiveIn(refs2), refs2[q].pos = refs2[p].pos
        PROVE  q = p
    BY <1>0, <1>2, <1>3, <2>2 DEF LiveIn, Placed
  <2>3. m \in 0 .. MaxRecs + 1
    BY <1>0
  <2>4. QED BY <1>2, <2>1, <2>2, <2>3 DEF Placed
<1>7. QED BY <1>3, <1>4, <1>5, <1>6

-----------------------------------------------------------------------------
(* The free list. *)

LEMMA LinkInRoom ==
  ASSUME LinkFits, HoldsLink(fixed_len), NEW pos \in Nat,
         NEW a \in LinkAt(pos) .. LinkAt(pos) + U32 - 1
  PROVE  a \in pos + 1 .. pos + fixed_len /\ a \in pos .. pos + fixed_len
BY Consts DEF LinkFits, HoldsLink, LinkAt

(* What is written elsewhere leaves the list alone. *)
LEMMA ChainKept ==
  ASSUME LinkFits, HoldsLink(fixed_len), NEW x, NEW y, NEW D, NEW free_pos, NEW m \in Nat,
         NEW s \in [1 .. m + 1 -> Nat], Chain(x, D, free_pos, m, s),
         \A pos \in D : \A a \in pos .. pos + fixed_len : y[a] = x[a]
  PROVE  Chain(y, D, free_pos, m, s)
<1>1. ASSUME NEW i \in 1 .. m, NEW a \in LinkAt(s[i]) .. LinkAt(s[i]) + U32 - 1
      PROVE  y[a] = Byte("link", s[i + 1])
  <2>1. s[i] \in D /\ s[i] \in Nat
    BY DEF Chain
  <2>2. a \in s[i] .. s[i] + fixed_len
    BY <1>1, <2>1, LinkInRoom
  <2>3. x[a] = Byte("link", s[i + 1])
    BY <1>1 DEF Chain
  <2>4. QED BY <2>1, <2>2, <2>3
<1>2. QED BY <1>1 DEF Chain

LEMMA ReadsLink ==
  ASSUME NEW x, NEW pos \in Nat, NEW v,
         \A a \in LinkAt(pos) .. LinkAt(pos) + U32 - 1 : x[a] = Byte("link", v)
  PROVE  ReadLink(x, pos) = v
<1>1. /\ LinkAt(pos) \in Nat /\ U32 \in Nat /\ U32 > 0
  BY Consts DEF LinkAt
<1>2. \A i \in 0 .. U32 - 1 : LinkAt(pos) + i \in LinkAt(pos) .. LinkAt(pos) + U32 - 1
  BY <1>1
<1>3. \A i \in 0 .. U32 - 1 : x[LinkAt(pos) + i] = Byte("link", v)
  BY <1>2
<1>4. x[LinkAt(pos)] = Byte("link", v)
  BY <1>1
<1>5. Byte("link", v).what = "link" /\ Byte("link", v).v = v
  BY DEF Byte
<1>6. QED BY <1>3, <1>4, <1>5 DEF ReadLink

(* An empty list, of no deleted records. *)
LEMMA EmptyChain ==
  ASSUME NEW x, NEW D, D = {}
  PROVE  Chained(x, D, 0)
<1>1. PICK s \in [1 .. 0 + 1 -> Nat] : s = [i \in 1 .. 0 + 1 |-> 0]
  <2>1. [i \in 1 .. 0 + 1 |-> 0] \in [1 .. 0 + 1 -> Nat]
    OBVIOUS
  <2>2. QED BY <2>1
<1>2. Chain(x, D, 0, 0, s)
  BY <1>1 DEF Chain
<1>3. QED BY <1>2 DEF Chained

LEMMA NoChain ==
  ASSUME NEW x, NEW refs, NEW used, NEW n, Placed(refs, used, n),
         HoldsLink(fixed_len), Chained(x, DeletedIn(refs, used), 0)
  PROVE  DeletedIn(refs, used) = {}
<1>1. PICK m \in Nat : \E s \in [1 .. m + 1 -> Nat] : Chain(x, DeletedIn(refs, used), 0, m, s)
  BY DEF Chained
<1>2. PICK s \in [1 .. m + 1 -> Nat] : Chain(x, DeletedIn(refs, used), 0, m, s)
  BY <1>1
<1>3. 0 \notin DeletedIn(refs, used)
  <2> SUFFICES ASSUME 0 \in DeletedIn(refs, used) PROVE FALSE
    OBVIOUS
  <2>1. PICK i \in 0 .. MaxRecs : 0 = Slot(i)
    BY DEF DeletedIn, Slot
  <2>2. QED BY <2>1, SlotType, Consts
<1>4. m = 0
  <2> SUFFICES ASSUME m # 0 PROVE FALSE
    OBVIOUS
  <2>1. 1 \in 1 .. m
    OBVIOUS
  <2>2. QED BY <1>2, <1>3, <2>1 DEF Chain
<1>5. QED BY <1>2, <1>4 DEF Chain

-----------------------------------------------------------------------------
LEMMA PutAppendSound ==
  ASSUME LinkFits, NEW n \in Nat, InRoom(n),
         Sound(mem, ref, tab_used, tab_data_used, tab_data_free, 0, n),
         Live # RefIds, NEW r \in RefIds \ Live, NEW k \in Keys
  PROVE  /\ Sound(WriteRec(mem, tab_used, k), [ref EXCEPT ![r] = [pos |-> tab_used, key |-> k]],
                  tab_used + Size, tab_data_used + Size, tab_data_free, 0, n + 1)
         /\ HoldsLink(fixed_len) => n + 1 <= Refs
<1> DEFINE refs2 == [ref EXCEPT ![r] = [pos |-> tab_used, key |-> k]]
           y == WriteRec(mem, tab_used, k)
<1>1. /\ Placed(ref, tab_used, n) /\ Intact(mem, ref) /\ tab_used = Slot(n) /\ n <= MaxRecs
      /\ Counted(ref, tab_used, n, tab_data_used, tab_data_free)
      /\ Chained(mem, DeletedIn(ref, tab_used), 0)
      /\ Live = LiveIn(ref)
  BY DEF Sound, Placed, InRoom, Live, LiveIn
<1>2. \A q \in LiveIn(ref) : ref[q].pos # Slot(n)
  BY <1>1, SlotSame DEF Placed
<1>3. HoldsLink(fixed_len) => n + 1 <= Refs
  <2>1. ASSUME HoldsLink(fixed_len) PROVE DeletedIn(ref, tab_used) = {}
    BY <1>1, <2>1, NoChain
  <2>2. ASSUME HoldsLink(fixed_len) PROVE n = Cardinality(LiveIn(ref))
    <3>1. Cardinality(DeletedIn(ref, tab_used)) = 0
      BY <2>1, <2>2, FS_EmptySet
    <3>2. n = Cardinality(LiveIn(ref)) + Cardinality(DeletedIn(ref, tab_used))
      BY <1>1 DEF Counted
    <3>3. Cardinality(LiveIn(ref)) \in Nat
      BY LiveFinite
    <3>4. QED BY <3>1, <3>2, <3>3
  <2>3. QED BY <1>1, <2>2, LiveFinite, Consts
<1>4. n < MaxRecs \/ fixed_len < U32
  BY <1>3, Consts DEF HoldsLink
<1>5. /\ LiveIn(refs2) = LiveIn(ref) \cup {r} /\ Intact(y, refs2)
      /\ Cardinality(LiveIn(refs2)) = Cardinality(LiveIn(ref)) + 1
      /\ Placed(refs2, Slot(n + 1), n + 1)
  <2>1. Wrote(mem, ref, Slot(n), r, k, y, refs2) /\ FreeAt(ref, Slot(n), r)
    BY <1>1, <1>2 DEF Wrote, FreeAt
  <2> HIDE DEF refs2, y
  <2>2. /\ n + 1 \in Nat /\ n <= n + 1 /\ n < n + 1 /\ n + 1 <= MaxRecs + 1 /\ n \in 0 .. n
    BY <1>1, Consts
  <2>3. QED BY <1>1, <1>4, <2>1, <2>2, WriteIntact
<1>6. Slot(n + 1) = tab_used + Size
  BY <1>1, SlotNext
<1>7. r \in LiveIn(refs2) /\ refs2[r].pos = Slot(n) /\ \A q \in LiveIn(ref) : refs2[q].pos = ref[q].pos
  BY <1>1, <1>5 DEF Placed, LiveIn
<1> HIDE DEF refs2, y
<1>8. DeletedIn(refs2, tab_used + Size) = DeletedIn(ref, tab_used)
  <2>1. ASSUME NEW pos
        PROVE  pos \in DeletedIn(refs2, tab_used + Size) <=> pos \in DeletedIn(ref, tab_used)
    <3>1. pos \in DeletedIn(refs2, tab_used + Size) <=>
            \E i \in 0 .. n : pos = Slot(i) /\ \A q \in LiveIn(refs2) : refs2[q].pos # pos
      <4>1. (n + 1) - 1 = n
        OBVIOUS
      <4>2. QED BY <1>5, <1>6, <4>1, DeletedIs
    <3>2. pos \in DeletedIn(ref, tab_used) <=>
            \E i \in 0 .. n - 1 : pos = Slot(i) /\ \A q \in LiveIn(ref) : ref[q].pos # pos
      BY <1>1, DeletedIs
    <3>3. ASSUME pos \in DeletedIn(refs2, tab_used + Size) PROVE pos \in DeletedIn(ref, tab_used)
      <4>1. PICK i \in 0 .. n : pos = Slot(i) /\ \A q \in LiveIn(refs2) : refs2[q].pos # pos
        BY <3>1, <3>3
      <4>2. i # n
        BY <1>7, <4>1
      <4>3. i \in 0 .. n - 1
        BY <4>1, <4>2
      <4>4. \A q \in LiveIn(ref) : ref[q].pos # pos
        BY <1>5, <1>7, <4>1
      <4>5. QED BY <3>2, <4>1, <4>3, <4>4
    <3>4. ASSUME pos \in DeletedIn(ref, tab_used) PROVE pos \in DeletedIn(refs2, tab_used + Size)
      <4>1. PICK i \in 0 .. n - 1 : pos = Slot(i) /\ \A q \in LiveIn(ref) : ref[q].pos # pos
        BY <3>2, <3>4
      <4>2. i \in 0 .. n /\ i \in Nat /\ i # n
        BY <4>1
      <4>3. pos # Slot(n)
        BY <4>1, <4>2, SlotSame
      <4>4. \A q \in LiveIn(refs2) : refs2[q].pos # pos
        BY <1>5, <1>7, <4>1, <4>3
      <4>5. QED BY <3>1, <4>1, <4>2, <4>4
    <3>5. QED BY <3>3, <3>4
  <2>2. QED BY <2>1
<1>9. Counted(refs2, tab_used + Size, n + 1, tab_data_used + Size, tab_data_free)
  <2>1. Cardinality(LiveIn(ref)) \in Nat /\ Cardinality(DeletedIn(ref, tab_used)) \in Nat
    BY <1>1, LiveFinite, DeletedFinite
  <2>2. Size * (Cardinality(LiveIn(ref)) + 1) = Size * Cardinality(LiveIn(ref)) + Size
    BY <2>1, TimesNext
  <2>3. /\ n = Cardinality(LiveIn(ref)) + Cardinality(DeletedIn(ref, tab_used))
        /\ tab_data_used = Size * Cardinality(LiveIn(ref))
        /\ tab_data_free = Size * Cardinality(DeletedIn(ref, tab_used))
    BY <1>1 DEF Counted
  <2>4. n + 1 = Cardinality(LiveIn(refs2)) + Cardinality(DeletedIn(refs2, tab_used + Size))
    BY <1>5, <1>8, <2>1, <2>3
  <2>5. QED BY <1>5, <1>8, <2>2, <2>3, <2>4 DEF Counted
<1>10. Chained(y, DeletedIn(refs2, tab_used + Size), 0)
  <2>1. CASE HoldsLink(fixed_len)
    BY <1>1, <1>8, <2>1, NoChain, EmptyChain
  <2>2. CASE ~HoldsLink(fixed_len)
    BY <2>2 DEF Chained
  <2>3. QED BY <2>1, <2>2
<1>11. Sound(y, refs2, tab_used + Size, tab_data_used + Size, tab_data_free, 0, n + 1)
  BY <1>5, <1>6, <1>9, <1>10 DEF Sound
<1>12. QED BY <1>3, <1>11 DEF refs2, y

(* The first of the list is taken off it ... *)
LEMMA ChainPop ==
  ASSUME LinkFits, HoldsLink(fixed_len), NEW x, NEW D, NEW m \in Nat, m > 0,
         NEW s \in [1 .. m + 1 -> Nat], NEW pos, Chain(x, D, pos, m, s)
  PROVE  ReadLink(x, pos) = s[2] /\ Chained(x, D \ {pos}, s[2])
<1>1. PICK t : t = [j \in 1 .. (m - 1) + 1 |-> s[j + 1]]
  OBVIOUS
<1>2. m - 1 \in Nat /\ (m - 1) + 1 = m /\ 1 \in 1 .. m /\ 1 + 1 = 2
  OBVIOUS
<1>3. /\ t \in [1 .. (m - 1) + 1 -> Nat]
      /\ \A j \in 1 .. m : t[j] = s[j + 1] /\ j + 1 \in 1 .. m + 1
  BY <1>1, <1>2
<1>4. pos = s[1] /\ pos \in Nat
  BY <1>2 DEF Chain
<1>5. ReadLink(x, pos) = s[2]
  <2>1. \A a \in LinkAt(pos) .. LinkAt(pos) + U32 - 1 : x[a] = Byte("link", s[2])
    BY <1>2, <1>4 DEF Chain
  <2>2. QED BY <1>4, <2>1, ReadsLink
<1>6. \A j \in 1 .. m - 1 : j \in 1 .. m /\ j + 1 \in 1 .. m
  OBVIOUS
<1>7. t[1] = s[2] /\ t[(m - 1) + 1] = 0
  BY <1>2, <1>3 DEF Chain
<1>8. ASSUME NEW j \in 1 .. m - 1 PROVE t[j] \in D \ {pos}
  <2>1. t[j] = s[j + 1] /\ s[j + 1] \in D /\ j + 1 # 1
    BY <1>3, <1>6 DEF Chain
  <2>2. s[j + 1] # s[1]
    BY <1>2, <1>6, <2>1 DEF Chain
  <2>3. QED BY <1>4, <2>1, <2>2
<1>9. ASSUME NEW d \in D \ {pos} PROVE \E j \in 1 .. m - 1 : t[j] = d
  <2>1. PICK i \in 1 .. m : s[i] = d
    BY DEF Chain
  <2>2. i # 1
    BY <1>4, <2>1
  <2>3. i - 1 \in 1 .. m - 1 /\ (i - 1) + 1 = i
    BY <2>1, <2>2
  <2>4. QED BY <1>3, <1>6, <2>1, <2>3
<1>10. ASSUME NEW i \in 1 .. m - 1, NEW j \in 1 .. m - 1, t[i] = t[j] PROVE i = j
  <2>1. s[i + 1] = s[j + 1]
    BY <1>3, <1>6, <1>10
  <2>2. i + 1 = j + 1
    BY <1>6, <2>1 DEF Chain
  <2>3. QED BY <2>2
<1>11. ASSUME NEW j \in 1 .. m - 1, NEW a \in LinkAt(t[j]) .. LinkAt(t[j]) + U32 - 1
       PROVE  x[a] = Byte("link", t[j + 1])
  <2>1. t[j] = s[j + 1] /\ t[j + 1] = s[(j + 1) + 1]
    BY <1>3, <1>6
  <2>2. QED BY <1>6, <1>11, <2>1 DEF Chain
<1>12. Chain(x, D \ {pos}, s[2], m - 1, t)
  BY <1>7, <1>8, <1>9, <1>10, <1>11 DEF Chain
<1>13. QED BY <1>2, <1>3, <1>5, <1>12 DEF Chained

(* ... and one that is not on it put in front. *)
LEMMA ChainPush ==
  ASSUME NEW x, NEW D, NEW free_pos, HoldsLink(fixed_len), Chained(x, D, free_pos),
         NEW pos \in Nat, pos \notin D,
         \A a \in LinkAt(pos) .. LinkAt(pos) + U32 - 1 : x[a] = Byte("link", free_pos)
  PROVE  Chained(x, D \cup {pos}, pos)
<1>1. PICK m \in Nat : \E s \in [1 .. m + 1 -> Nat] : Chain(x, D, free_pos, m, s)
  BY DEF Chained
<1>2. PICK s \in [1 .. m + 1 -> Nat] : Chain(x, D, free_pos, m, s)
  BY <1>1
<1>3. PICK t : t = [j \in 1 .. (m + 1) + 1 |-> IF j = 1 THEN pos ELSE s[j - 1]]
  OBVIOUS
<1>4. /\ t \in [1 .. (m + 1) + 1 -> Nat] /\ t[1] = pos
      /\ \A j \in 1 .. m + 1 : t[j + 1] = s[j]
      /\ \A j \in 1 .. m + 1 : j = 1 \/ (j - 1 \in 1 .. m /\ (j - 1) + 1 = j)
  <2>1. ASSUME NEW j \in 1 .. (m + 1) + 1, j # 1 PROVE j - 1 \in 1 .. m + 1
    BY <2>1
  <2>2. ASSUME NEW j \in 1 .. m + 1 PROVE j + 1 \in 1 .. (m + 1) + 1 /\ j + 1 # 1 /\ (j + 1) - 1 = j
    OBVIOUS
  <2>3. ASSUME NEW j \in 1 .. m + 1, j # 1 PROVE j - 1 \in 1 .. m /\ (j - 1) + 1 = j
    BY <2>3
  <2>4. t \in [1 .. (m + 1) + 1 -> Nat] /\ t[1] = pos
    BY <1>3, <2>1
  <2>5. \A j \in 1 .. m + 1 : t[j + 1] = s[j]
    BY <1>3, <2>2
  <2>6. QED BY <2>3, <2>4, <2>5
<1>5. \A j \in 1 .. m : t[j + 1] = s[j] /\ t[(j + 1) + 1] = s[j + 1] /\ j + 1 \in 1 .. m + 1
  BY <1>4
<1>6. t[(m + 1) + 1] = 0
  BY <1>2, <1>4 DEF Chain
<1>7. ASSUME NEW j \in 1 .. m + 1 PROVE t[j] \in D \cup {pos}
  <2>1. CASE j = 1
    BY <1>4, <2>1
  <2>2. CASE j # 1
    <3>1. PICK i \in 1 .. m : i + 1 = j
      BY <1>4, <2>2
    <3>2. QED BY <1>2, <1>5, <3>1 DEF Chain
  <2>3. QED BY <2>1, <2>2
<1>8. ASSUME NEW d \in D \cup {pos} PROVE \E j \in 1 .. m + 1 : t[j] = d
  <2>1. CASE d = pos
    BY <1>4, <2>1
  <2>2. CASE d # pos
    <3>1. PICK i \in 1 .. m : s[i] = d
      BY <1>2, <2>2 DEF Chain
    <3>2. QED BY <1>5, <3>1
  <2>3. QED BY <2>1, <2>2
<1>9. ASSUME NEW i \in 1 .. m + 1, NEW j \in 1 .. m + 1, t[i] = t[j] PROVE i = j
  <2>1. \A k \in 1 .. m : s[k] # pos
    BY <1>2 DEF Chain
  <2>1a. \A k \in 1 .. m + 1 : k # 1 => t[k] # pos
    <3> SUFFICES ASSUME NEW k \in 1 .. m + 1, k # 1 PROVE t[k] # pos
      OBVIOUS
    <3>1. PICK l \in 1 .. m : l + 1 = k
      BY <1>4
    <3>2. QED BY <1>5, <2>1, <3>1
  <2>2. CASE i = 1 \/ j = 1
    BY <1>4, <1>9, <2>1a, <2>2
  <2>3. CASE i # 1 /\ j # 1
    <3>1. /\ i - 1 \in 1 .. m /\ j - 1 \in 1 .. m
          /\ t[i] = s[i - 1] /\ t[j] = s[j - 1]
      BY <1>4, <1>5, <2>3
    <3>2. i - 1 = j - 1
      BY ZenonT(40), <1>2, <1>9, <3>1 DEF Chain
    <3>3. QED BY <3>2
  <2>4. QED BY <2>2, <2>3
<1>10. ASSUME NEW j \in 1 .. m + 1, NEW a \in LinkAt(t[j]) .. LinkAt(t[j]) + U32 - 1
       PROVE  x[a] = Byte("link", t[j + 1])
  <2>1. CASE j = 1
    <3>1. t[1] = pos /\ t[1 + 1] = free_pos
      BY <1>2, <1>4 DEF Chain
    <3>2. QED BY <1>10, <2>1, <3>1
  <2>2. CASE j # 1
    <3>1. PICK i \in 1 .. m : i + 1 = j
      BY <1>4, <2>2
    <3>2. t[j] = s[i] /\ t[j + 1] = s[i + 1]
      BY <1>5, <3>1
    <3>3. QED BY <1>2, <1>10, <3>2 DEF Chain
  <2>3. QED BY <2>1, <2>2
<1>11. Chain(x, D \cup {pos}, pos, m + 1, t)
  BY <1>4, <1>6, <1>7, <1>8, <1>9, <1>10 DEF Chain
<1>12. m + 1 \in Nat /\ t \in [1 .. (m + 1) + 1 -> Nat]
  BY <1>4
<1>13. QED BY <1>11, <1>12 DEF Chained

LEMMA ChainedKept ==
  ASSUME LinkFits, NEW x, NEW y, NEW D, NEW free_pos, Chained(x, D, free_pos),
         \A pos \in D : \A a \in pos .. pos + fixed_len : y[a] = x[a]
  PROVE  Chained(y, D, free_pos)
<1>1. CASE HoldsLink(fixed_len)
  <2>1. PICK m \in Nat : \E s \in [1 .. m + 1 -> Nat] : Chain(x, D, free_pos, m, s)
    BY <1>1 DEF Chained
  <2>2. PICK s \in [1 .. m + 1 -> Nat] : Chain(x, D, free_pos, m, s)
    BY <2>1
  <2>3. Chain(y, D, free_pos, m, s)
    BY <1>1, <2>2, ChainKept
  <2>4. QED BY <1>1, <2>3 DEF Chained
<1>2. CASE ~HoldsLink(fixed_len)
  BY <1>2 DEF Chained
<1>3. QED BY <1>1, <1>2

-----------------------------------------------------------------------------
LEMMA PutReuseSound ==
  ASSUME LinkFits, NEW n \in Nat, InRoom(n), tab_data_free_pos # 0,
         Sound(mem, ref, tab_used, tab_data_used, tab_data_free, tab_data_free_pos, n),
         NEW r \in RefIds \ Live, NEW k \in Keys
  PROVE  /\ Sound(WriteRec(mem, tab_data_free_pos, k),
                  [ref EXCEPT ![r] = [pos |-> tab_data_free_pos, key |-> k]],
                  tab_used, tab_data_used + Size, tab_data_free - Size,
                  ReadLink(mem, tab_data_free_pos), n)
         /\ HoldsLink(fixed_len)
<1> DEFINE pos == tab_data_free_pos
           refs2 == [ref EXCEPT ![r] = [pos |-> pos, key |-> k]]
           y == WriteRec(mem, pos, k)
           D == DeletedIn(ref, tab_used)
<1>1. /\ Placed(ref, tab_used, n) /\ Intact(mem, ref) /\ tab_used = Slot(n) /\ n <= MaxRecs
      /\ Counted(ref, tab_used, n, tab_data_used, tab_data_free)
      /\ Chained(mem, D, pos)
      /\ Live = LiveIn(ref)
  BY DEF Sound, Placed, InRoom, Live, LiveIn
<1>2. HoldsLink(fixed_len)
  BY <1>1 DEF Chained
<1>3. PICK m \in Nat : \E s \in [1 .. m + 1 -> Nat] : Chain(mem, D, pos, m, s)
  BY <1>1, <1>2 DEF Chained
<1>4. PICK s \in [1 .. m + 1 -> Nat] : Chain(mem, D, pos, m, s)
  BY <1>3
<1>5. m > 0
  <2> SUFFICES ASSUME m = 0 PROVE FALSE
    OBVIOUS
  <2>1. s[1] = pos /\ s[0 + 1] = 0
    BY <1>4 DEF Chain
  <2>2. QED BY <2>1
<1>6. pos \in D
  <2>1. 1 \in 1 .. m
    BY <1>5
  <2>2. QED BY <1>4, <2>1 DEF Chain
<1>7. ReadLink(mem, pos) = s[2] /\ Chained(mem, D \ {pos}, s[2])
  BY <1>2, <1>4, <1>5, ChainPop
<1> HIDE DEF D
<1>8. PICK i \in 0 .. n - 1 : pos = Slot(i) /\ \A q \in LiveIn(ref) : ref[q].pos # pos
  BY <1>1, <1>6, DeletedIs DEF D
<1>9. i \in 0 .. n /\ i \in Nat /\ i < n /\ i < MaxRecs /\ n <= MaxRecs + 1
  BY <1>1, <1>8, Consts
<1>10. /\ LiveIn(refs2) = LiveIn(ref) \cup {r} /\ Intact(y, refs2)
       /\ Cardinality(LiveIn(refs2)) = Cardinality(LiveIn(ref)) + 1
       /\ Placed(refs2, Slot(n), n)
  <2>1. Wrote(mem, ref, pos, r, k, y, refs2) /\ FreeAt(ref, pos, r)
    BY <1>1, <1>8 DEF Wrote, FreeAt
  <2> HIDE DEF refs2, y, pos
  <2>2. Wrote(mem, ref, Slot(i), r, k, y, refs2) /\ FreeAt(ref, Slot(i), r) /\ n <= n
    BY <1>8, <2>1
  <2>3. QED BY <1>1, <1>9, <2>2, WriteIntact
<1>11. /\ r \in LiveIn(refs2) /\ refs2[r].pos = pos
       /\ \A q \in LiveIn(ref) : refs2[q].pos = ref[q].pos
  BY <1>1, <1>10 DEF Placed, LiveIn
<1>12. \A a \in Bytes : a \notin Slot(i) .. Slot(i) + fixed_len => y[a] = mem[a]
  <2>1. Slot(i) + Size - 1 = Slot(i) + fixed_len
    BY <1>9, SlotType, Consts
  <2>2. QED BY <1>8, <2>1 DEF WriteRec, Fill
<1> HIDE DEF refs2, y, pos
<1>13. DeletedIn(refs2, tab_used) = D \ {pos}
  <2>1. ASSUME NEW d PROVE d \in DeletedIn(refs2, tab_used) <=> d \in D \ {pos}
    <3>1. d \in DeletedIn(refs2, tab_used) <=>
            \E j \in 0 .. n - 1 : d = Slot(j) /\ \A q \in LiveIn(refs2) : refs2[q].pos # d
      BY <1>1, <1>10, DeletedIs
    <3>2. d \in D <=>
            \E j \in 0 .. n - 1 : d = Slot(j) /\ \A q \in LiveIn(ref) : ref[q].pos # d
      BY <1>1, DeletedIs DEF D
    <3>3. (\A q \in LiveIn(refs2) : refs2[q].pos # d) <=>
            (d # pos /\ \A q \in LiveIn(ref) : ref[q].pos # d)
      BY <1>10, <1>11
    <3>4. QED BY <3>1, <3>2, <3>3
  <2>2. QED BY <2>1
<1>14. Counted(refs2, tab_used, n, tab_data_used + Size, tab_data_free - Size)
  <2>1. /\ Cardinality(LiveIn(ref)) \in Nat /\ Cardinality(D) \in Nat /\ IsFiniteSet(D)
    BY <1>1, LiveFinite, DeletedFinite DEF D
  <2>2. Cardinality(D \ {pos}) = Cardinality(D) - 1 /\ Cardinality(D \ {pos}) \in Nat
    BY <1>6, <2>1, FS_RemoveElement, FS_CardinalityType
  <2>3. /\ n = Cardinality(LiveIn(ref)) + Cardinality(D)
        /\ tab_data_used = Size * Cardinality(LiveIn(ref))
        /\ tab_data_free = Size * Cardinality(D)
    BY <1>1 DEF Counted, D
  <2>4. PICK c \in Nat : c = Cardinality(D \ {pos})
    BY <2>2
  <2>5. PICK l \in Nat : l = Cardinality(LiveIn(ref))
    BY <2>1
  <2>6. Cardinality(D) = c + 1
    BY <2>1, <2>2, <2>4
  <2>7. /\ Size * (l + 1) = Size * l + Size /\ Size * (c + 1) = Size * c + Size
        /\ Size * l \in Nat /\ Size * c \in Nat
    BY TimesNext
  <2>8. /\ n = (l + 1) + c /\ tab_data_used + Size = Size * (l + 1)
        /\ tab_data_free - Size = Size * c
    BY <2>3, <2>5, <2>6, <2>7, Consts
  <2>9. QED BY <1>10, <1>13, <2>4, <2>5, <2>8 DEF Counted
<1>15. Chained(y, D \ {pos}, s[2])
  <2>1. ASSUME NEW d \in D \ {pos}, NEW a \in d .. d + fixed_len PROVE y[a] = mem[a]
    <3>1. PICK j \in 0 .. n - 1 : d = Slot(j)
      BY <1>1, DeletedIs DEF D
    <3>2. j # i /\ j \in Nat /\ j < MaxRecs
      BY <1>1, <1>8, <2>1, <3>1, Consts
    <3>3. a \in Bytes
      BY <2>1, <3>1, <3>2, RoomInBytes
    <3>4. a \notin Slot(i) .. Slot(i) + fixed_len
      BY <1>9, <2>1, <3>1, <3>2, RoomsApart
    <3>5. QED BY <1>12, <3>3, <3>4
  <2>2. QED BY <1>7, <2>1, ChainedKept
<1>16. Sound(y, refs2, tab_used, tab_data_used + Size, tab_data_free - Size, ReadLink(mem, pos), n)
  BY <1>1, <1>7, <1>10, <1>13, <1>14, <1>15 DEF Sound
<1>17. QED BY <1>2, <1>16 DEF refs2, y, pos

(* Of the numbers of a set there is a least one. *)
LEMMA LeastOf ==
  ASSUME NEW T, T \subseteq Nat, T # {}
  PROVE  \E d \in T : \A e \in T : d <= e
<1> DEFINE R == {e \in Nat \X Nat : e[1] < e[2]}
<1>1. IsWellFoundedOn(R, Nat)
  BY NatLessThanWellFounded DEF OpToRel
<1>2. PICK d \in T : \A e \in T : ~(<<e, d>> \in R)
  <2> HIDE DEF R
  <2> QED BY <1>1, WFMin
<1>3. \A e \in Nat, f \in Nat : e < f => <<e, f>> \in R
  OBVIOUS
<1> HIDE DEF R
<1>4. \A e \in T : ~(e < d)
  BY <1>2, <1>3, Zenon
<1>5. QED BY <1>4

LEMMA FreeRef ==
  ASSUME Live # RefIds
  PROVE  Min(RefIds \ Live) \in RefIds \ Live
<1>1. RefIds \ Live \subseteq Nat /\ RefIds \ Live # {}
  BY DEF RefIds, Live
<1>2. PICK r \in RefIds \ Live : \A q \in RefIds \ Live : r <= q
  BY <1>1, LeastOf
<1>3. QED BY <1>2 DEF Min

LEMMA DelSound ==
  ASSUME LinkFits, NEW n \in Nat, InRoom(n),
         Sound(mem, ref, tab_used, tab_data_used, tab_data_free, tab_data_free_pos, n),
         NEW r \in RefIds, Del(r)
  PROVE  Sound(mem', ref', tab_used', tab_data_used', tab_data_free', tab_data_free_pos', n)
<1> DEFINE D == DeletedIn(ref, tab_used)
<1>1. /\ Placed(ref, tab_used, n) /\ Intact(mem, ref) /\ tab_used = Slot(n) /\ n <= MaxRecs
      /\ Counted(ref, tab_used, n, tab_data_used, tab_data_free)
      /\ Chained(mem, D, tab_data_free_pos)
      /\ Live = LiveIn(ref) /\ r \in LiveIn(ref)
      /\ ref \in [RefIds -> [pos : Nat, key : Keys \cup {"none"}]]
      /\ DOMAIN mem = Bytes
  BY DEF Sound, Placed, Intact, InRoom, Live, LiveIn, Del
<1>2. PICK pos \in Nat : pos = ref[r].pos
  BY <1>1
<1>3. PICK i \in 0 .. n - 1 : pos = Slot(i)
  BY <1>1, <1>2 DEF Placed
<1>4. i \in Nat /\ i < MaxRecs /\ MaxRecs \in Nat
  BY <1>1, Consts
<1>5. /\ tab_used' = tab_used /\ tab_data_used' = tab_data_used - Size
      /\ tab_data_free' = tab_data_free + Size
      /\ HoldsLink(fixed_len) => tab_data_free_pos' = pos
      /\ ~HoldsLink(fixed_len) => tab_data_free_pos' = tab_data_free_pos
  BY <1>2 DEF Del
<1>6. DOMAIN mem' = Bytes
  BY <1>1 DEF Del, WriteLink, Fill
<1>7. ASSUME NEW a \in Bytes, a \notin Slot(i) .. Slot(i) + fixed_len PROVE mem'[a] = mem[a]
  <2>1. a # pos
    BY <1>3, <1>4, <1>7, SlotType, Consts
  <2>2. [mem EXCEPT ![pos] = Byte("deleted", 0)][a] = mem[a]
    BY <1>1, <2>1
  <2>3. CASE HoldsLink(fixed_len)
    <3>1. a \notin LinkAt(pos) .. LinkAt(pos) + U32 - 1
      BY <1>3, <1>7, <2>3, LinkInRoom
    <3>2. QED BY <1>2, <2>2, <2>3, <3>1 DEF Del, WriteLink, Fill
  <2>4. CASE ~HoldsLink(fixed_len)
    BY <1>2, <2>2, <2>4 DEF Del
  <2>5. QED BY <2>3, <2>4
<1>8. ASSUME HoldsLink(fixed_len), NEW a \in LinkAt(pos) .. LinkAt(pos) + U32 - 1
      PROVE  mem'[a] = Byte("link", tab_data_free_pos)
  <2>1. a \in Slot(i) .. Slot(i) + fixed_len
    BY <1>3, <1>8, LinkInRoom
  <2>2. a \in Bytes
    BY <1>4, <2>1, RoomInBytes
  <2>3. QED BY <1>2, <1>8, <2>2 DEF Del, WriteLink, Fill
<1>9. /\ ref' \in [RefIds -> [pos : Nat, key : Keys \cup {"none"}]]
      /\ ref'[r].pos = 0 /\ \A q \in RefIds : q # r => ref'[q] = ref[q]
  BY <1>1 DEF Del, NoRef
<1>10. LiveIn(ref') = LiveIn(ref) \ {r}
  BY <1>9 DEF LiveIn
<1>10a. \A q \in LiveIn(ref') : q \in LiveIn(ref) /\ q # r /\ ref'[q] = ref[q]
  BY <1>9, <1>10 DEF LiveIn
<1>11. Placed(ref', tab_used', n)
  <2>1. \A q \in LiveIn(ref') : \E j \in 0 .. n - 1 : ref'[q].pos = Slot(j)
    BY <1>1, <1>10a DEF Placed
  <2>2. \A q, p \in LiveIn(ref') : ref'[q].pos = ref'[p].pos => q = p
    BY <1>1, <1>10a DEF Placed
  <2>3. QED BY <1>1, <1>5, <1>9, <2>1, <2>2 DEF Placed
<1>12. Intact(mem', ref')
  <2>1. ASSUME NEW q \in LiveIn(ref'), NEW a \in ref'[q].pos .. ref'[q].pos + fixed_len
        PROVE  mem'[a] = Byte(ref'[q].key, 0)
    <3>1. q \in LiveIn(ref) /\ q # r /\ ref'[q] = ref[q]
      BY <1>10a
    <3>2. PICK j \in 0 .. n - 1 : ref[q].pos = Slot(j)
      BY <1>1, <3>1 DEF Placed
    <3>3. j \in Nat /\ j # i
      <4>1. j = i => q = r
        BY <1>1, <1>2, <1>3, <3>1, <3>2 DEF Placed
      <4>2. QED BY <3>1, <3>2, <4>1
    <3>4. a \in Slot(j) .. Slot(j) + fixed_len
      BY <2>1, <3>1, <3>2
    <3>5. a \notin Slot(i) .. Slot(i) + fixed_len
      BY <1>4, <3>3, <3>4, RoomsApart
    <3>6. a \in Bytes
      BY <1>1, <3>1, <3>2, <3>4, LiveInBytes
    <3>7. mem[a] = Byte(ref[q].key, 0)
      BY <1>1, <3>1, <3>2, <3>4 DEF Intact
    <3>8. QED BY <1>7, <3>1, <3>5, <3>6, <3>7
  <2>2. QED BY <1>6, <2>1 DEF Intact
<1>13. DeletedIn(ref', tab_used') = D \cup {pos} /\ pos \notin D
  <2>1. ASSUME NEW d PROVE d \in DeletedIn(ref', tab_used') <=> d \in D \cup {pos}
    <3>1. d \in DeletedIn(ref', tab_used') <=>
            \E j \in 0 .. n - 1 : d = Slot(j) /\ \A q \in LiveIn(ref') : ref'[q].pos # d
      BY <1>11, DeletedIs
    <3>2. d \in D <=>
            \E j \in 0 .. n - 1 : d = Slot(j) /\ \A q \in LiveIn(ref) : ref[q].pos # d
      BY <1>1, DeletedIs
    <3>3. CASE d = pos
      <4>1. \A q \in LiveIn(ref') : ref'[q].pos # pos
        BY <1>1, <1>2, <1>10a DEF Placed
      <4>2. QED BY <1>3, <3>1, <3>3, <4>1
    <3>4. CASE d # pos
      <4>1. (\A q \in LiveIn(ref') : ref'[q].pos # d) <=> (\A q \in LiveIn(ref) : ref[q].pos # d)
        BY <1>2, <1>10, <1>10a, <3>4
      <4>2. QED BY <3>1, <3>2, <3>4, <4>1
    <3>5. QED BY <3>3, <3>4
  <2>2. pos \notin D
    BY <1>1, <1>2 DEF DeletedIn
  <2>3. QED BY <2>1, <2>2
<1>14. Counted(ref', tab_used', n, tab_data_used', tab_data_free')
  <2>1. /\ Cardinality(LiveIn(ref)) \in Nat /\ IsFiniteSet(LiveIn(ref))
        /\ Cardinality(D) \in Nat /\ IsFiniteSet(D)
    BY <1>1, LiveFinite, DeletedFinite
  <2>2. /\ Cardinality(LiveIn(ref')) = Cardinality(LiveIn(ref)) - 1
        /\ Cardinality(LiveIn(ref')) \in Nat
    BY <1>1, <1>10, <2>1, FS_RemoveElement, LiveFinite
  <2>3. /\ n = Cardinality(LiveIn(ref)) + Cardinality(D)
        /\ tab_data_used = Size * Cardinality(LiveIn(ref))
        /\ tab_data_free = Size * Cardinality(D)
    BY <1>1 DEF Counted
  <2>4. PICK c \in Nat : c = Cardinality(D)
    BY <2>1
  <2>5. PICK l \in Nat : l = Cardinality(LiveIn(ref'))
    BY <2>2
  <2>6. Cardinality(DeletedIn(ref', tab_used')) = c + 1
    BY <1>13, <2>1, <2>4, FS_AddElement
  <2>7. /\ Size * (l + 1) = Size * l + Size /\ Size * (c + 1) = Size * c + Size
        /\ Size * l \in Nat /\ Size * c \in Nat
    BY TimesNext
  <2>8. Cardinality(LiveIn(ref)) = l + 1
    BY <2>1, <2>2, <2>5
  <2>9. /\ n = l + (c + 1) /\ tab_data_used' = Size * l
        /\ tab_data_free' = Size * (c + 1)
    BY <1>5, <2>3, <2>4, <2>7, <2>8, Consts
  <2>10. QED BY <2>5, <2>6, <2>9 DEF Counted
<1> HIDE DEF D
<1>15. Chained(mem', DeletedIn(ref', tab_used'), tab_data_free_pos')
  <2>1. ASSUME NEW d \in D, NEW a \in d .. d + fixed_len PROVE mem'[a] = mem[a]
    <3>1. PICK j \in 0 .. n - 1 : d = Slot(j)
      BY <1>1, DeletedIs DEF D
    <3>2. j # i /\ j \in Nat /\ j < MaxRecs
      BY <1>1, <1>3, <1>13, <2>1, <3>1, Consts
    <3>3. a \in Bytes
      BY <2>1, <3>1, <3>2, RoomInBytes
    <3>4. a \notin Slot(i) .. Slot(i) + fixed_len
      BY <1>4, <2>1, <3>1, <3>2, RoomsApart
    <3>5. QED BY <1>7, <3>3, <3>4
  <2>2. Chained(mem', D, tab_data_free_pos)
    BY <1>1, <2>1, ChainedKept
  <2>3. CASE HoldsLink(fixed_len)
    BY <1>5, <1>8, <1>13, <2>2, <2>3, ChainPush
  <2>4. CASE ~HoldsLink(fixed_len)
    BY <1>5, <2>2, <2>4 DEF Chained
  <2>5. QED BY <2>3, <2>4
<1>16. QED BY <1>11, <1>12, <1>14, <1>15 DEF Sound

-----------------------------------------------------------------------------
(* Shrinking: the live records keep their order. *)
Before(refs, r) == {i \in RefIds : i < r /\ refs[i].pos # 0}

Rank(refs, r) == Cardinality(Before(refs, r))

LEMMA RankOrder ==
  ASSUME NEW refs, NEW r \in LiveIn(refs)
  PROVE  /\ Rank(refs, r) \in 0 .. Cardinality(LiveIn(refs)) - 1
         /\ \A q \in LiveIn(refs) : r < q => Rank(refs, r) < Rank(refs, q)
<1>1. /\ IsFiniteSet(LiveIn(refs)) /\ Cardinality(LiveIn(refs)) \in Nat
      /\ LiveIn(refs) \subseteq RefIds /\ RefIds \subseteq Nat
  BY LiveFinite DEF LiveIn, RefIds
<1>2. /\ IsFiniteSet(LiveIn(refs) \ {r})
      /\ Cardinality(LiveIn(refs) \ {r}) = Cardinality(LiveIn(refs)) - 1
  BY <1>1, FS_RemoveElement
<1>3. Before(refs, r) \subseteq LiveIn(refs) \ {r}
  BY <1>1 DEF Before, LiveIn
<1>4. /\ IsFiniteSet(Before(refs, r)) /\ Rank(refs, r) \in Nat
      /\ Rank(refs, r) <= Cardinality(LiveIn(refs) \ {r})
  BY <1>2, <1>3, FS_Subset, FS_CardinalityType DEF Rank
<1>5. ASSUME NEW q \in LiveIn(refs), r < q PROVE Rank(refs, r) < Rank(refs, q)
  <2>1. Before(refs, r) \cup {r} \subseteq Before(refs, q) /\ r \notin Before(refs, r)
    <3>1. r \in Nat /\ q \in Nat /\ r \in RefIds /\ refs[r].pos # 0
      BY <1>1 DEF LiveIn
    <3>2. ASSUME NEW i \in Before(refs, r) PROVE i \in Before(refs, q) /\ i # r
      <4>1. i \in Nat /\ i \in RefIds /\ i < r /\ refs[i].pos # 0
        BY <1>1 DEF Before
      <4>2. i < q /\ i # r
        BY <1>5, <3>1, <4>1
      <4>3. QED BY <4>1, <4>2 DEF Before
    <3>3. r \in Before(refs, q)
      BY <1>5, <3>1 DEF Before
    <3>4. QED BY <3>2, <3>3
  <2>2. Before(refs, q) \subseteq LiveIn(refs)
    BY DEF Before, LiveIn
  <2>3. IsFiniteSet(Before(refs, q)) /\ Rank(refs, q) \in Nat
    BY <1>1, <2>2, FS_Subset, FS_CardinalityType DEF Rank
  <2>4. Cardinality(Before(refs, r) \cup {r}) = Rank(refs, r) + 1
    BY <1>4, <2>1, FS_AddElement DEF Rank
  <2>5. Cardinality(Before(refs, r) \cup {r}) <= Rank(refs, q)
    BY <2>1, <2>3, FS_Subset DEF Rank
  <2>6. QED BY <1>4, <2>3, <2>4, <2>5
<1>6. QED BY <1>1, <1>2, <1>4, <1>5

(* No room is left between them. *)
LEMMA RankOnto ==
  ASSUME NEW refs, NEW j \in 0 .. Cardinality(LiveIn(refs)) - 1
  PROVE  \E r \in LiveIn(refs) : Rank(refs, r) = j
<1> DEFINE S == LiveIn(refs)
           T == 0 .. Cardinality(S) - 1
           f == [r \in S |-> Rank(refs, r)]
<1>1. IsFiniteSet(S) /\ Cardinality(S) \in Nat /\ S \subseteq Nat
  BY LiveFinite DEF LiveIn, RefIds
<1>2. IsFiniteSet(T) /\ Cardinality(T) = Cardinality(S)
  BY <1>1, FS_Interval
<1>3. f \in Injection(S, T)
  <2>1. f \in [S -> T]
    BY RankOrder
  <2>2. ASSUME NEW r \in S, NEW q \in S, f[r] = f[q] PROVE r = q
    <3>1. Rank(refs, r) = Rank(refs, q) /\ Rank(refs, r) \in Nat
      BY <1>1, <2>2, RankOrder
    <3>2. ~(r < q) /\ ~(q < r)
      BY <3>1, RankOrder
    <3>3. QED BY <1>1, <3>2
  <2> HIDE DEF f, S, T
  <2>3. QED BY <2>1, <2>2 DEF Injection, IsInjective
<1>4. f \in Surjection(S, T)
  <2> HIDE DEF f, S, T
  <2> QED BY <1>2, <1>3, FS_Injection
<1>5. QED BY <1>4 DEF Surjection

LEMMA ShrinkInv ==
  ASSUME NEW x, NEW refs, NEW used, NEW n, Placed(refs, used, n), Intact(x, refs),
         Shrink(x, refs)
  PROVE  FixedInv'
<1>0. /\ refs \in [RefIds -> [pos : Nat, key : Keys \cup {"none"}]]
      /\ LiveIn(refs) \subseteq RefIds
  BY DEF Placed, LiveIn
<1>1. PICK c \in Nat : c = Cardinality(LiveIn(refs)) /\ c <= Refs
  BY LiveFinite
<1>2. MaxRecs \in Nat /\ Refs <= MaxRecs /\ Refs \in Nat
  BY Consts
<1>3. \A r \in LiveIn(refs) : NewPos(refs, r) = Slot(Rank(refs, r))
  BY DEF NewPos, Slot, Rank, Before
<1>4. \A r \in LiveIn(refs) : Rank(refs, r) \in 0 .. c - 1 /\ Rank(refs, r) \in Nat
  BY <1>1, RankOrder
<1>5. \A r, q \in LiveIn(refs) : Rank(refs, r) = Rank(refs, q) => r = q
  <2> SUFFICES ASSUME NEW r \in LiveIn(refs), NEW q \in LiveIn(refs), Rank(refs, r) = Rank(refs, q)
               PROVE  r = q
    OBVIOUS
  <2>1. ~(r < q) /\ ~(q < r)
    BY <1>4, RankOrder
  <2>2. r \in Nat /\ q \in Nat
    BY <1>0 DEF RefIds
  <2>3. QED BY <2>1, <2>2
<1>6. /\ tab_used' = Slot(c) /\ tab_data_used' = Size * c
      /\ tab_data_free' = 0 /\ tab_data_free_pos' = 0
  BY <1>1 DEF Shrink, Slot, LiveIn
<1>7. /\ DOMAIN ref' = RefIds
      /\ \A r \in LiveIn(refs) : /\ ref'[r] \in [pos : Nat, key : Keys \cup {"none"}]
                                /\ ref'[r].pos = Slot(Rank(refs, r))
                                /\ ref'[r].key = refs[r].key /\ ref'[r].pos # 0
      /\ \A r \in RefIds \ LiveIn(refs) : ref'[r] = NoRef
  <2>1. ref' = [r \in RefIds |->
                 IF r \in LiveIn(refs) THEN [refs[r] EXCEPT !.pos = NewPos(refs, r)] ELSE NoRef]
    BY DEF Shrink, LiveIn
  <2>2. ASSUME NEW r \in LiveIn(refs)
        PROVE  /\ ref'[r] \in [pos : Nat, key : Keys \cup {"none"}]
               /\ ref'[r].pos = Slot(Rank(refs, r))
               /\ ref'[r].key = refs[r].key /\ ref'[r].pos # 0
    <3>1. ref'[r] = [refs[r] EXCEPT !.pos = Slot(Rank(refs, r))]
      BY <1>0, <1>3, <2>1
    <3>2. Slot(Rank(refs, r)) \in Nat /\ Slot(Rank(refs, r)) # 0
      BY <1>4, SlotType
    <3>3. refs[r] \in [pos : Nat, key : Keys \cup {"none"}]
      BY <1>0
    <3>4. QED BY <3>1, <3>2, <3>3
  <2>3. QED BY <2>1, <2>2
<1>8. ref' \in [RefIds -> [pos : Nat, key : Keys \cup {"none"}]]
  <2>1. NoRef \in [pos : Nat, key : Keys \cup {"none"}]
    BY DEF NoRef
  <2>2. \A r \in RefIds : ref'[r] \in [pos : Nat, key : Keys \cup {"none"}]
    BY <1>7, <2>1
  <2>3. ref' = [r \in RefIds |-> ref'[r]]
    BY DEF Shrink
  <2>4. QED BY <2>2, <2>3
<1>9. LiveIn(ref') = LiveIn(refs)
  <2>1. NoRef.pos = 0
    BY DEF NoRef
  <2>2. \A r \in RefIds : ref'[r].pos # 0 <=> r \in LiveIn(refs)
    BY <1>7, <2>1
  <2>3. QED BY <1>0, <2>2 DEF LiveIn
<1>10. Placed(ref', tab_used', c)
  <2>1. c \in 0 .. MaxRecs + 1
    BY <1>1, <1>2
  <2>2. \A r \in LiveIn(ref') : \E i \in 0 .. c - 1 : ref'[r].pos = Slot(i)
    BY <1>4, <1>7, <1>9
  <2>3. \A r, q \in LiveIn(ref') : ref'[r].pos = ref'[q].pos => r = q
    BY <1>4, <1>5, <1>7, <1>9, SlotSame
  <2>4. QED BY <1>6, <1>8, <2>1, <2>2, <2>3 DEF Placed
<1>11. Intact(mem', ref')
  <2>1. ASSUME NEW r \in LiveIn(refs), NEW a \in Slot(Rank(refs, r)) .. Slot(Rank(refs, r)) + fixed_len
        PROVE  mem'[a] = Byte(refs[r].key, 0)
    <3> DEFINE owner == {q \in LiveIn(refs) : a \in NewPos(refs, q) .. NewPos(refs, q) + Size - 1}
    <3>1. Rank(refs, r) \in Nat /\ Rank(refs, r) < MaxRecs
      BY <1>1, <1>2, <1>4
    <3>2. a \in Bytes
      BY <2>1, <3>1, RoomInBytes
    <3>3. ASSUME NEW q \in LiveIn(refs)
          PROVE  NewPos(refs, q) .. NewPos(refs, q) + Size - 1
                   = Slot(Rank(refs, q)) .. Slot(Rank(refs, q)) + fixed_len
      <4>1. Slot(Rank(refs, q)) + Size - 1 = Slot(Rank(refs, q)) + fixed_len
        BY <1>4, SlotType, Consts
      <4>2. QED BY <1>3, <4>1
    <3>4. r \in owner
      BY <2>1, <3>3
    <3>5. ASSUME NEW q \in owner PROVE q = r
      <4>1. q \in LiveIn(refs) /\ a \in Slot(Rank(refs, q)) .. Slot(Rank(refs, q)) + fixed_len
        BY <3>3
      <4>2. Rank(refs, q) = Rank(refs, r)
        BY <1>4, <2>1, <4>1, RoomsApart
      <4>3. QED BY <1>5, <4>1, <4>2
    <3>6. owner = {r}
      <4> HIDE DEF owner
      <4> QED BY <3>4, <3>5
    <3>7. mem'[a] = LET own == {q \in LiveIn(refs) : a \in NewPos(refs, q) .. NewPos(refs, q) + Size - 1}
                    IN  IF own = {} THEN Zero
                        ELSE LET q == CHOOSE q \in own : TRUE IN x[refs[q].pos + a - NewPos(refs, q)]
      BY <3>2 DEF Shrink, LiveIn
    <3>8. mem'[a] = IF owner = {} THEN Zero
                    ELSE x[refs[CHOOSE q \in owner : TRUE].pos + a - NewPos(refs, CHOOSE q \in owner : TRUE)]
      BY <3>7
    <3>9. (CHOOSE q \in {r} : TRUE) = r
      OBVIOUS
    <3>10. mem'[a] = x[refs[r].pos + a - NewPos(refs, r)]
      <4> HIDE DEF owner
      <4> QED BY <3>6, <3>8, <3>9
    <3>11. NewPos(refs, r) = Slot(Rank(refs, r)) /\ Slot(Rank(refs, r)) \in Nat /\ refs[r].pos \in Nat
      BY <1>0, <1>3, <3>1, SlotType
    <3>12. refs[r].pos + a - NewPos(refs, r) \in refs[r].pos .. refs[r].pos + fixed_len
      BY <2>1, <3>11, Consts
    <3>13. QED BY <3>10, <3>12 DEF Intact
  <2>2. DOMAIN mem' = Bytes
    BY DEF Shrink
  <2>3. ASSUME NEW r \in LiveIn(ref'), NEW a \in ref'[r].pos .. ref'[r].pos + fixed_len
        PROVE  mem'[a] = Byte(ref'[r].key, 0)
    BY <1>7, <1>9, <2>1, <2>3
  <2>4. QED BY <2>2, <2>3 DEF Intact
<1>12. DeletedIn(ref', tab_used') = {}
  <2>1. ASSUME NEW pos \in DeletedIn(ref', tab_used') PROVE FALSE
    <3>1. PICK i \in 0 .. c - 1 : pos = Slot(i) /\ \A r \in LiveIn(ref') : ref'[r].pos # pos
      BY <1>10, <2>1, DeletedIs
    <3>2. PICK r \in LiveIn(refs) : Rank(refs, r) = i
      BY <1>1, RankOnto
    <3>3. QED BY <1>7, <1>9, <3>1, <3>2
  <2>2. QED BY <2>1
<1>13. Counted(ref', tab_used', c, tab_data_used', tab_data_free')
  <2>1. Size * 0 = 0
    BY Consts
  <2>2. QED BY <1>1, <1>6, <1>9, <1>12, <2>1, FS_EmptySet DEF Counted
<1>14. Chained(mem', DeletedIn(ref', tab_used'), tab_data_free_pos')
  BY <1>6, <1>12, EmptyChain
<1>15. Sound(mem', ref', tab_used', tab_data_used', tab_data_free', tab_data_free_pos', c)
  BY <1>10, <1>11, <1>13, <1>14 DEF Sound
<1>16. InRoom(c)
  BY <1>1, <1>2 DEF InRoom
<1>17. QED BY <1>15, <1>16 DEF FixedInv

-----------------------------------------------------------------------------
(* At the end of a put either all is compacted or little is deleted.       *)
LEMMA LittleDeleted ==
  ASSUME NEW l \in Nat, NEW d \in Nat, l <= Refs,
         ~(Size * d > ((Size * l) * 20) \div 100)
  PROVE  l + d <= MaxRecs
<1>1. Size * l \in Nat /\ Size * d \in Nat
  BY Distributes
<1>2. 5 * (Size * d) <= Size * l
  BY <1>1
<1>3. Size * (5 * d) = 5 * (Size * d)
  <2>1. /\ Size * (d + d) = Size * d + Size * d /\ d + d \in Nat
    BY Distributes
  <2>2. /\ Size * ((d + d) + (d + d)) = Size * (d + d) + Size * (d + d)
        /\ (d + d) + (d + d) \in Nat
    BY <2>1, Distributes
  <2>3. Size * (((d + d) + (d + d)) + d) = Size * ((d + d) + (d + d)) + Size * d
    BY <2>2, Distributes
  <2>4. 5 * d = ((d + d) + (d + d)) + d
    OBVIOUS
  <2>5. QED BY <1>1, <2>1, <2>2, <2>3, <2>4
<1>4. 5 * d <= l
  <2>1. 5 * d \in Nat /\ Size * (5 * d) <= Size * l
    BY <1>2, <1>3
  <2>2. QED BY <2>1, TimesOrder
<1>5. d <= Refs \div 5
  BY <1>4, Consts
<1>6. QED BY <1>5, Consts DEF MaxRecs

LEMMA PutEndInv ==
  ASSUME LinkFits, NEW x, NEW refs, NEW used, NEW data_used, NEW data_free, NEW free_pos,
         NEW n \in Nat, Sound(x, refs, used, data_used, data_free, free_pos, n),
         HoldsLink(fixed_len) => n <= Refs,
         PutEnd(x, refs, used, data_used, data_free, free_pos)
  PROVE  FixedInv'
<1>1. /\ Placed(refs, used, n) /\ Intact(x, refs)
      /\ Counted(refs, used, n, data_used, data_free)
  BY DEF Sound
<1>2. CASE data_free > (data_used * 20) \div 100
  <2>1. Shrink(x, refs)
    BY <1>2 DEF PutEnd
  <2>2. QED BY <1>1, <2>1, ShrinkInv
<1>3. CASE ~(data_free > (data_used * 20) \div 100)
  <2>1. /\ mem' = x /\ ref' = refs /\ tab_used' = used /\ tab_data_used' = data_used
        /\ tab_data_free' = data_free /\ tab_data_free_pos' = free_pos
    BY <1>3 DEF PutEnd
  <2>2. Sound(mem', ref', tab_used', tab_data_used', tab_data_free', tab_data_free_pos', n)
    BY <2>1
  <2>3. n <= MaxRecs
    <3>1. PICK l \in Nat : l = Cardinality(LiveIn(refs)) /\ l <= Refs
      BY LiveFinite
    <3>2. PICK d \in Nat : d = Cardinality(DeletedIn(refs, used))
      BY <1>1, DeletedFinite
    <3>3. n = l + d /\ data_used = Size * l /\ data_free = Size * d
      BY <1>1, <3>1, <3>2 DEF Counted
    <3>4. QED BY <1>3, <3>1, <3>3, LittleDeleted
  <2>4. InRoom(n)
    BY <2>3 DEF InRoom
  <2>5. QED BY <2>2, <2>4 DEF FixedInv
<1>4. QED BY <1>2, <1>3

LEMMA FixedInit == Init => FixedInv
<1> SUFFICES ASSUME Init PROVE FixedInv
  OBVIOUS
<1>1. /\ ref = [r \in RefIds |-> NoRef] /\ tab_used = Hdr /\ tab_data_used = 0
      /\ tab_data_free = 0 /\ tab_data_free_pos = 0 /\ DOMAIN mem = Bytes
  BY DEF Init
<1>2. LiveIn(ref) = {} /\ Size * 0 = 0
  BY <1>1, Consts DEF LiveIn, NoRef
<1>3. Placed(ref, tab_used, 0)
  <2>1. ref \in [RefIds -> [pos : Nat, key : Keys \cup {"none"}]]
    BY <1>1 DEF NoRef
  <2>2. 0 \in 0 .. MaxRecs + 1 /\ tab_used = Slot(0)
    BY <1>1, <1>2, Consts DEF Slot
  <2>3. QED BY <1>2, <2>1, <2>2 DEF Placed
<1>4. DeletedIn(ref, tab_used) = {}
  <2>1. \A pos : pos \notin DeletedIn(ref, tab_used)
    <3>1. 0 .. 0 - 1 = {}
      OBVIOUS
    <3>2. QED BY <1>3, <3>1, DeletedIs
  <2>2. QED BY <2>1
<1>5. Sound(mem, ref, tab_used, tab_data_used, tab_data_free, tab_data_free_pos, 0)
  BY <1>1, <1>2, <1>3, <1>4, EmptyChain, FS_EmptySet DEF Sound, Intact, Counted
<1>6. QED BY <1>5, Consts DEF FixedInv, InRoom

LEMMA FixedStep ==
  ASSUME LinkFits, FixedInv, [Next]_vars
  PROVE  FixedInv'
<1>1. PICK n \in Nat :
        /\ Sound(mem, ref, tab_used, tab_data_used, tab_data_free, tab_data_free_pos, n)
        /\ InRoom(n)
  BY DEF FixedInv
<1>2. CASE UNCHANGED vars
  BY <1>1, <1>2 DEF FixedInv, vars
<1>3. ASSUME NEW k \in Keys, PutReuse(k) PROVE FixedInv'
  <2>1. PICK r \in RefIds \ Live : r = Min(RefIds \ Live)
    BY <1>3, FreeRef DEF PutReuse
  <2>2. tab_data_free_pos # 0
    BY <1>3 DEF PutReuse
  <2>3. PutEnd(WriteRec(mem, tab_data_free_pos, k),
               [ref EXCEPT ![r] = [pos |-> tab_data_free_pos, key |-> k]],
               tab_used, tab_data_used + Size, tab_data_free - Size,
               ReadLink(mem, tab_data_free_pos))
    BY <1>3, <2>1 DEF PutReuse
  <2>4. /\ Sound(WriteRec(mem, tab_data_free_pos, k),
                 [ref EXCEPT ![r] = [pos |-> tab_data_free_pos, key |-> k]],
                 tab_used, tab_data_used + Size, tab_data_free - Size,
                 ReadLink(mem, tab_data_free_pos), n)
        /\ HoldsLink(fixed_len)
    BY <1>1, <2>2, PutReuseSound
  <2>5. n <= Refs
    BY <1>1, <2>4 DEF InRoom
  <2>6. QED BY <2>3, <2>4, <2>5, PutEndInv
<1>4. ASSUME NEW k \in Keys, PutAppend(k) PROVE FixedInv'
  <2>1. PICK r \in RefIds \ Live : r = Min(RefIds \ Live)
    BY <1>4, FreeRef DEF PutAppend
  <2>2. tab_data_free_pos = 0
    BY <1>4 DEF PutAppend
  <2>3. PutEnd(WriteRec(mem, tab_used, k), [ref EXCEPT ![r] = [pos |-> tab_used, key |-> k]],
               tab_used + Size, tab_data_used + Size, tab_data_free, 0)
    BY <1>4, <2>1 DEF PutAppend
  <2>4. /\ Sound(WriteRec(mem, tab_used, k), [ref EXCEPT ![r] = [pos |-> tab_used, key |-> k]],
                 tab_used + Size, tab_data_used + Size, tab_data_free, 0, n + 1)
        /\ HoldsLink(fixed_len) => n + 1 <= Refs
    BY <1>1, <2>2, PutAppendSound
  <2>5. n + 1 \in Nat
    OBVIOUS
  <2>6. QED BY <2>3, <2>4, <2>5, PutEndInv
<1>5. ASSUME NEW r \in RefIds, Del(r) PROVE FixedInv'
  BY <1>1, <1>5, DelSound DEF FixedInv
<1>6. ASSUME NEW r \in RefIds, GetShrinks(r) PROVE FixedInv'
  BY <1>1, <1>6, ShrinkInv DEF GetShrinks, Sound
<1>7. QED BY <1>2, <1>3, <1>4, <1>5, <1>6 DEF Next

(* The bytes of the data are a row of places, each a live record or a      *)
(* deleted one that the free list leads through, and the header of the     *)
(* table counts them.                                                      *)
THEOREM FixedInvariant == LinkFits => (Spec => []FixedInv)
<1> SUFFICES ASSUME LinkFits PROVE Spec => []FixedInv
  OBVIOUS
<1>1. FixedInv /\ [Next]_vars => FixedInv'
  BY FixedStep
<1>2. QED BY <1>1, FixedInit, PTL DEF Spec

-----------------------------------------------------------------------------
(* No delete, reuse or shrink writes into the bytes of a live record.      *)
THEOREM FixedRecordsIntact == LinkFits => (Spec => []RecordsIntact)
<1> SUFFICES ASSUME LinkFits PROVE Spec => []RecordsIntact
  OBVIOUS
<1>1. FixedInv => RecordsIntact
  BY DEF FixedInv, Sound, Intact, RecordsIntact, Live, LiveIn
<1>2. QED BY <1>1, FixedInvariant, PTL

(* How FreeListSound walks the list. *)
Walk(at) ==
  at = [n \in 0 .. Refs |->
          IF n = 0 THEN tab_data_free_pos
          ELSE IF at[n - 1] \in {0, Garbage} THEN at[n - 1] ELSE ReadLink(mem, at[n - 1])]

(* There is one walk only. *)
LEMMA WalkUnique ==
  ASSUME NEW f, NEW g, Walk(f), Walk(g)
  PROVE  f = g
<1> DEFINE T == {n \in 0 .. Refs : f[n] # g[n]}
<1>1. CASE T = {}
  <2>1. \A n \in 0 .. Refs : f[n] = g[n]
    BY <1>1
  <2>2. f = [n \in 0 .. Refs |-> f[n]] /\ g = [n \in 0 .. Refs |-> g[n]]
    BY DEF Walk
  <2>3. QED BY <2>1, <2>2
<1>2. CASE T # {}
  <2>1. T \subseteq Nat
    BY Consts
  <2>2. PICK d \in T : \A e \in T : d <= e
    <3> HIDE DEF T
    <3> QED BY <1>2, <2>1, LeastOf
  <2>3. d \in 0 .. Refs /\ f[d] # g[d] /\ Refs \in Nat
    BY Consts
  <2>4. d # 0
    BY <2>3 DEF Walk
  <2>5. d - 1 \in 0 .. Refs /\ d - 1 \notin T
    BY <2>2, <2>3, <2>4
  <2>6. f[d - 1] = g[d - 1]
    BY <2>5
  <2>7. /\ f[d] = IF f[d - 1] \in {0, Garbage} THEN f[d - 1] ELSE ReadLink(mem, f[d - 1])
        /\ g[d] = IF g[d - 1] \in {0, Garbage} THEN g[d - 1] ELSE ReadLink(mem, g[d - 1])
    BY <2>3, <2>4 DEF Walk
  <2>8. QED BY <2>3, <2>6, <2>7
<1>3. QED BY <1>1, <1>2

(* Where records hold links it goes through all that is deleted, and       *)
(* nowhere where they do not.                                              *)
LEMMA WalkReaches ==
  ASSUME FixedInv
  PROVE  \E at : /\ Walk(at)
                 /\ {at[n] : n \in 0 .. Refs} \ {0} = IF HoldsLink(fixed_len) THEN DeletedPos ELSE {}
<1>1. PICK n \in Nat :
        /\ Sound(mem, ref, tab_used, tab_data_used, tab_data_free, tab_data_free_pos, n)
        /\ InRoom(n)
  BY DEF FixedInv
<1>2. /\ Placed(ref, tab_used, n)
      /\ Counted(ref, tab_used, n, tab_data_used, tab_data_free)
      /\ Chained(mem, DeletedIn(ref, tab_used), tab_data_free_pos)
      /\ Refs \in Nat
  BY <1>1, Consts DEF Sound
<1>3. DeletedPos = DeletedIn(ref, tab_used)
  BY DEF DeletedPos, DeletedIn, Live, LiveIn
<1>4. CASE ~HoldsLink(fixed_len)
  <2>1. tab_data_free_pos = 0
    BY <1>2, <1>4 DEF Chained
  <2>2. PICK at : at = [i \in 0 .. Refs |-> 0]
    OBVIOUS
  <2>3. \A i \in 0 .. Refs : at[i] = 0 /\ (i # 0 => i - 1 \in 0 .. Refs)
    BY <1>2, <2>2
  <2>4. Walk(at)
    BY <2>1, <2>2, <2>3 DEF Walk
  <2>5. {at[i] : i \in 0 .. Refs} \ {0} = {}
    BY <2>3
  <2>6. QED BY <1>4, <2>4, <2>5
<1>5. CASE HoldsLink(fixed_len)
  <2> DEFINE D == DeletedIn(ref, tab_used)
  <2>1. PICK m \in Nat : \E s \in [1 .. m + 1 -> Nat] : Chain(mem, D, tab_data_free_pos, m, s)
    BY <1>2, <1>5 DEF Chained
  <2>2. PICK s \in [1 .. m + 1 -> Nat] : Chain(mem, D, tab_data_free_pos, m, s)
    BY <2>1
  <2>3. 0 \notin D /\ D \subseteq Nat
    <3> SUFFICES ASSUME NEW d \in D PROVE d \in Nat /\ d # 0
      OBVIOUS
    <3>1. PICK i \in 0 .. n - 1 : d = Slot(i)
      BY <1>2, DeletedIs
    <3>2. QED BY <3>1, SlotType
  <2>4. m <= Refs
    <3>1. IsFiniteSet(D) /\ Cardinality(D) \in Nat /\ Cardinality(D) <= Refs
      <4>1. n <= Refs
        BY <1>1, <1>5 DEF InRoom
      <4>2. n = Cardinality(LiveIn(ref)) + Cardinality(D)
        BY <1>2 DEF Counted
      <4>3. IsFiniteSet(D) /\ Cardinality(D) \in Nat /\ Cardinality(LiveIn(ref)) \in Nat
        BY <1>2, LiveFinite, DeletedFinite
      <4>4. QED BY <1>2, <4>1, <4>2, <4>3
    <3>2. PICK t : t = [i \in 1 .. m |-> s[i]]
      OBVIOUS
    <3> HIDE DEF D
    <3>3. t \in Injection(1 .. m, D)
      BY <2>2, <3>2 DEF Chain, Injection, IsInjective
    <3>4. Cardinality(1 .. m) <= Cardinality(D)
      BY <3>1, <3>3, FS_Injection
    <3>5. Cardinality(1 .. m) = m
      BY FS_Interval
    <3>6. QED BY <1>2, <3>1, <3>4, <3>5
  <2>5. PICK at : at = [i \in 0 .. Refs |-> IF i <= m THEN s[i + 1] ELSE 0]
    OBVIOUS
  <2>6. /\ \A i \in 0 .. m : at[i] = s[i + 1] /\ i \in 0 .. Refs
        /\ \A i \in 0 .. Refs : i > m => at[i] = 0
        /\ DOMAIN at = 0 .. Refs
    BY <1>2, <2>4, <2>5
  <2>6a. s[1] = tab_data_free_pos /\ s[m + 1] = 0
    BY <2>2 DEF Chain
  <2> HIDE DEF D
  <2>7. at[m] = 0
    BY <2>6, <2>6a
  <2>8. ASSUME NEW i \in 0 .. Refs, i # 0
        PROVE  at[i] = IF at[i - 1] \in {0, Garbage} THEN at[i - 1] ELSE ReadLink(mem, at[i - 1])
    <3>1. CASE i <= m
      <4>1. i \in 1 .. m /\ i - 1 \in 0 .. m /\ (i - 1) + 1 = i /\ i \in 0 .. m
        BY <2>8, <3>1
      <4>2. at[i - 1] = s[i] /\ at[i] = s[i + 1]
        BY <2>6, <4>1
      <4>3. s[i] \in D /\ s[i] \in Nat
        BY <2>2, <4>1 DEF Chain
      <4>4. s[i] \notin {0, Garbage}
        BY <2>3, <4>3 DEF Garbage
      <4>5. \A a \in LinkAt(s[i]) .. LinkAt(s[i]) + U32 - 1 : mem[a] = Byte("link", s[i + 1])
        BY <2>2, <4>1 DEF Chain
      <4>6. ReadLink(mem, s[i]) = s[i + 1]
        BY <4>3, <4>5, ReadsLink
      <4>7. QED BY <4>2, <4>4, <4>6
    <3>2. CASE i > m
      <4>1. at[i] = 0
        BY <2>6, <3>2
      <4>2. i - 1 \in 0 .. Refs /\ (i - 1 = m \/ i - 1 > m)
        BY <1>2, <2>8, <3>2
      <4>3. at[i - 1] = 0
        BY <2>6, <2>7, <4>2
      <4>4. QED BY <4>1, <4>3
    <3>3. QED BY <3>1, <3>2
  <2>9. Walk(at)
    <3>1. at[0] = tab_data_free_pos
      BY <2>6, <2>6a
    <3>2. at = [i \in 0 .. Refs |-> at[i]]
      BY <2>5
    <3>3. \A i \in 0 .. Refs : at[i] = IF i = 0 THEN tab_data_free_pos
            ELSE IF at[i - 1] \in {0, Garbage} THEN at[i - 1] ELSE ReadLink(mem, at[i - 1])
      BY <2>8, <3>1
    <3>4. QED BY <3>2, <3>3 DEF Walk
  <2>10. ASSUME NEW d \in {at[i] : i \in 0 .. Refs} \ {0} PROVE d \in D
    <3>1. PICK i \in 0 .. Refs : d = at[i] /\ at[i] # 0
      OBVIOUS
    <3>2. i < m
      BY <1>2, <2>6, <2>7, <3>1
    <3>3. i + 1 \in 1 .. m /\ i \in 0 .. m
      BY <3>1, <3>2
    <3>4. QED BY <2>2, <2>6, <3>1, <3>3 DEF Chain
  <2>11. ASSUME NEW d \in D PROVE d \in {at[i] : i \in 0 .. Refs} \ {0}
    <3>1. PICK i \in 1 .. m : s[i] = d
      BY <2>2 DEF Chain
    <3>2. i - 1 \in 0 .. m /\ (i - 1) + 1 = i
      BY <3>1
    <3>3. at[i - 1] = d /\ i - 1 \in 0 .. Refs
      BY <2>6, <3>1, <3>2
    <3>4. QED BY <2>3, <3>3
  <2>12. {at[i] : i \in 0 .. Refs} \ {0} = D
    BY <2>10, <2>11
  <2>13. QED BY <1>3, <1>5, <2>9, <2>12 DEF D
<1>6. QED BY <1>4, <1>5

(* The free list reaches all the deleted records and no live one, and the  *)
(* counters of the header say how much of the data is which.               *)
THEOREM FixedFreeListSound == LinkFits => (Spec => []FreeListSound)
<1> SUFFICES ASSUME LinkFits PROVE Spec => []FreeListSound
  OBVIOUS
<1>1. FixedInv => FreeListSound
  <2> SUFFICES ASSUME FixedInv PROVE FreeListSound
    OBVIOUS
  <2> DEFINE at0 == CHOOSE at : Walk(at)
  <2>1. PICK at : /\ Walk(at)
                  /\ {at[n] : n \in 0 .. Refs} \ {0} = IF HoldsLink(fixed_len) THEN DeletedPos ELSE {}
    BY WalkReaches
  <2>2. Walk(at0)
    BY <2>1
  <2>3. at0 = at
    <3> HIDE DEF at0
    <3> QED BY <2>1, <2>2, WalkUnique
  <2>4. {at0[n] : n \in 0 .. Refs} \ {0} = IF HoldsLink(fixed_len) THEN DeletedPos ELSE {}
    <3> HIDE DEF at0
    <3> QED BY <2>1, <2>3
  <2>5. /\ tab_data_free = Size * Cardinality(DeletedPos)
        /\ tab_data_used = Size * Cardinality(Live)
    BY DEF FixedInv, Sound, Counted, DeletedPos, DeletedIn, Live, LiveIn
  <2>6. QED BY <2>4, <2>5 DEF FreeListSound, Walk
<1>2. QED BY <1>1, FixedInvariant, PTL
=============================================================================
