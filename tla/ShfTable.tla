------------------------------ MODULE ShfTable ------------------------------
(***************************************************************************)
(* One window of a SharedHashFile: the redirect array, the table files and *)
(* every process's private mappings of them (shf.c, SHF_GET_TAB_MMAP to    *)
(* shf_find_key_internal).  Keys have variable length, the default mode.   *)
(*                                                                         *)
(* A call that holds the window's lock as writer is one step: module       *)
(* ShfRwLock shows that nobody else is in the window then.  The calls that *)
(* only hold it as reader are one step here too; module ShfCalls takes     *)
(* them apart.  What one call does to the shared memory, the directory and *)
(* the caller's mappings is a function on the record m:                    *)
(*   tabs, tabs_used  of SHF_WIN_MMAP                                      *)
(*   ino[t][i]        the contents of an inode of table t: 0 is the one    *)
(*                    its file name leads to, the others were unlinked     *)
(*   map[p][t]        SHF.tabs[win][t] of p: inode (or NotMapped), size    *)
(*   count_mmap[p]    of SHF, 0 when p is detached                         *)
(***************************************************************************)
EXTENDS Integers, FiniteSets, Sequences, FiniteSetsExt, SequencesExt

CONSTANTS
  Procs, Keys,
  TabsPerWin, Rows, RefsPerRow,    \* SHF_TABS_PER_WIN, _ROWS_PER_TAB, _REFS_PER_ROW
  HashTab2(_), HashRow(_),         \* the hash of a key, split as shf_put_key_val does
  Lens, LongLen, Nums,             \* lengths of records, of one with a long, values
  Puts, Targets,                   \* the records that get put; what is looked up,
                                   \* a [key |-> k] or a [uid |-> u]
  Page, Hdr                        \* SHF_SIZE_PAGE, offsetof(SHF_TAB_MMAP, data)

ASSUME SizeAssumption ==
  /\ TabsPerWin \in Nat \ {0} /\ Rows \in Nat \ {0} /\ RefsPerRow \in Nat \ {0}
  /\ Page \in Nat /\ Page > 1 /\ Hdr \in Nat \ {0}
  /\ Lens \in SUBSET (Nat \ {0}) /\ Puts \in SUBSET [key : Keys, len : Lens, n : Nums]
  /\ \A k \in Keys : HashTab2(k) \in 0 .. TabsPerWin - 1 /\ HashRow(k) \in 0 .. Rows - 1
  /\ IsFiniteSet(Procs)
  /\ IsFiniteSet(Nums) /\ 0 \in Nums /\ Nums = 0 .. Cardinality(Nums) - 1   \* a long wraps

VARIABLES m, pend, stuck

vars == <<m, pend, stuck>>

Tabs == 0 .. TabsPerWin - 1
Slots == (0 .. Rows - 1) \X (0 .. RefsPerRow - 1)
Uids == Tabs \X Slots                             \* <<tab2, <<row, ref>>>>
AllTargets == [key : Keys] \cup [uid : Uids]
ASSUME TargetsAssumption == Targets \subseteq AllTargets
Recs == [key : Keys, len : Lens, n : Nums]
NoRec == [key |-> "none", len |-> 0, n |-> 0]
NoSlot == <<-1, -1>>

(* The rows of a table, and the refs of a row, in the order of the loops.   *)
SlotSeq == [i \in 1 .. Rows * RefsPerRow |->
              <<(i - 1) \div RefsPerRow, (i - 1) % RefsPerRow>>]

(* A process keeps at most one unlinked inode of a table alive.             *)
Unlinked == 1 .. Cardinality(Procs)
Inodes == {0} \cup Unlinked
NotMapped == -1

-----------------------------------------------------------------------------
(* Files. *)

ModPage(bytes) == (((bytes - 1) \div Page) + 1) * Page

NoRef == [pos |-> 0, tab |-> 0]

NewFile ==
  [fsize |-> ModPage(Hdr), tab_size |-> 0, tab_used |-> 0, tab_refs_used |-> 0,
   tab_data_free |-> 0, tab_data_used |-> 0,
   row |-> [s \in Slots |-> NoRef], data |-> [pos \in {} |-> NoRec]]

Mapped(w, t) == {w.map[p][t].ino : p \in Procs}

SetFile(w, t, i, f) == [w EXCEPT !.ino[t][i] = f]
SetMap(w, p, t, i, size) == [w EXCEPT !.map[p][t] = [ino |-> i, size |-> size]]

(* shf_tab_create: a file of zeros under the name of table t. *)
TabCreate(w, t) == SetFile(w, t, 0, NewFile)

(* unlink(): the inode lives on, under another number, while it is mapped. *)
FreeInode(w, t) == Min(Unlinked \ Mapped(w, t))

Unlink(w, t) ==
  LET i == FreeInode(w, t)
  IN  [w EXCEPT !.ino[t][i] = w.ino[t][0],
                !.map = [p \in Procs |-> IF @[p][t].ino = 0 THEN [@[p] EXCEPT ![t].ino = i]
                                                           ELSE @[p]]]

(* The kernel frees an unlinked inode that nobody has mapped. *)
Reclaim(w) ==
  [w EXCEPT !.ino = [t \in Tabs |-> [i \in Inodes |->
     IF i = 0 \/ i \in Mapped(w, t) THEN w.ino[t][i] ELSE NewFile]]]

File(w, p, t) == w.ino[t][w.map[p][t].ino]

-----------------------------------------------------------------------------
(* SHF_GET_TAB_MMAP: map the table if it is not mapped, format it if it is  *)
(* new, and follow it if another process grew or replaced it.               *)

MapName(w, p, t) == SetMap(w, p, t, 0, w.ino[t][0].fsize)

MapIfUnmapped(w, p, t) ==
  IF w.map[p][t].ino # NotMapped THEN w
  ELSE [MapName(w, p, t) EXCEPT !.count_mmap[p] = @ + 1]

FormatIfNew(w, p, t) ==
  LET f == File(w, p, t)
  IN  IF f.tab_size # 0 THEN w
      ELSE SetFile(w, t, w.map[p][t].ino, [f EXCEPT !.tab_size = w.map[p][t].size, !.tab_used = Hdr])

Follow(w, p, t) ==
  LET size == File(w, p, t).tab_size
  IN  CASE size = w.map[p][t].size -> w
        [] size # w.map[p][t].size /\ size = 1 -> Reclaim(MapName(w, p, t))
        [] OTHER -> SetMap(w, p, t, w.map[p][t].ino, size)

GetTab(w, p, t) == Follow(FormatIfNew(MapIfUnmapped(w, p, t), p, t), p, t)

-----------------------------------------------------------------------------
(* Records. *)

(* sizeof(SHF_DATA_TYPE) + LEN_LEN + key_len + LEN_LEN + val_len: a record  *)
(* keeps this sum as its len, since no call tells its parts apart.          *)
Size(rec) == rec.len

(* Mutant of Grow: ftruncate() is missing. *)
GrowMapOnly(w, p, t, need) ==
  LET f == File(w, p, t)
      size == ModPage(f.tab_size + need)
  IN  IF need <= f.tab_size - f.tab_used THEN w
      ELSE SetMap(SetFile(w, t, 0, [w.ino[t][0] EXCEPT !.tab_size = size]), p, t, 0, size)

Grow(w, p, t, need) ==
  LET f == File(w, p, t)
      size == ModPage(f.tab_size + need)
  IN  IF need <= f.tab_size - f.tab_used THEN w
      ELSE SetMap(SetFile(w, t, 0, [w.ino[t][0] EXCEPT !.fsize = size, !.tab_size = size]),
                  p, t, 0, size)

(* SHF_TAB_APPEND; the record goes to the old tab_used. *)
AppendRec(f, rec) ==
  [f EXCEPT !.data = [q \in DOMAIN @ \cup {f.tab_used} |-> IF q = f.tab_used THEN rec ELSE @[q]],
            !.tab_used = @ + Size(rec),
            !.tab_refs_used = @ + 1,
            !.tab_data_used = @ + Size(rec)]

Append_(w, p, t, rec) ==
  LET g == Grow(w, p, t, Size(rec))
  IN  SetFile(g, t, g.map[p][t].ino, AppendRec(File(g, p, t), rec))

(* Mutant of MarkDeleted: it forgets the garbage it makes. *)
MarkDeletedNoGarbage(f, s) ==
  LET pos == f.row[s].pos
  IN  [f EXCEPT !.data = [q \in DOMAIN @ \ {pos} |-> @[q]],
                !.tab_data_used = @ - Size(f.data[pos]),
                !.row[s] = NoRef,
                !.tab_refs_used = @ - 1]

(* SHF_TAB_REF_MARK_AS_DELETED. *)
MarkDeleted(f, s) ==
  LET pos == f.row[s].pos
      size == Size(f.data[pos])
  IN  [f EXCEPT !.data = [q \in DOMAIN @ \ {pos} |-> @[q]],
                !.tab_data_used = @ - size,
                !.tab_data_free = @ + size,
                !.row[s] = NoRef,
                !.tab_refs_used = @ - 1]

AddRef(f, s, ref) == [f EXCEPT !.row[s] = ref, !.tab_refs_used = @ + 1]

(* Mutant of RefCopy: the length of the record is not that of the old one. *)
RefCopyShort(w, p, old, i, t, s) ==
  LET ref == w.ino[old][i].row[s]
      pos == File(w, p, t).tab_used
      a == Append_(w, p, t, [w.ino[old][i].data[ref.pos] EXCEPT !.len = Min(Lens)])
      b == SetFile(a, old, i, MarkDeleted(a.ino[old][i], s))
  IN  SetFile(b, t, b.map[p][t].ino, AddRef(File(b, p, t), s, [pos |-> pos, tab |-> ref.tab]))

(* SHF_TAB_REF_COPY, from inode i of table old to table t. *)
RefCopy(w, p, old, i, t, s) ==
  LET ref == w.ino[old][i].row[s]
      pos == File(w, p, t).tab_used
      a == Append_(w, p, t, w.ino[old][i].data[ref.pos])
      b == SetFile(a, old, i, MarkDeleted(a.ino[old][i], s))
  IN  SetFile(b, t, b.map[p][t].ino, AddRef(File(b, p, t), s, [pos |-> pos, tab |-> ref.tab]))

(* Mutant of CopyRefs: the loop stops before the last ref. *)
CopyRefsButLast(w, p, old, i, t, chosen) ==
  FoldLeft(LAMBDA v, s : IF w.ino[old][i].row[s].pos # 0 /\ w.ino[old][i].row[s].tab \in chosen
                         THEN RefCopy(v, p, old, i, t, s) ELSE v,
           w, Front(SlotSeq))

CopyRefs(w, p, old, i, t, chosen) ==
  FoldLeft(LAMBDA v, s : IF w.ino[old][i].row[s].pos # 0 /\ w.ino[old][i].row[s].tab \in chosen
                         THEN RefCopy(v, p, old, i, t, s) ELSE v,
           w, SlotSeq)

(* Mutant of ForceReload: the old file keeps its tab_size. *)
ForceNothing(w, t, i) ==
  SetFile(w, t, i, [NewFile EXCEPT !.fsize = w.ino[t][i].fsize, !.tab_size = w.ino[t][i].tab_size])

(* shf_tab_shrink: the table under a new inode, without the garbage; the    *)
(* old one says 1 to every process that still has it mapped, and what else  *)
(* it held is dropped from the state.                                       *)
ForceReload(w, t, i) ==
  SetFile(w, t, i, [NewFile EXCEPT !.fsize = w.ino[t][i].fsize, !.tab_size = 1])

(* Mutant of TabShrink: the mapping it replaces is not taken off count_mmap. *)
TabShrinkCountsTwice(w, p, t) ==
  LET g == GetTab(w, p, t)
      i == FreeInode(g, t)
      u == [Unlink(g, t) EXCEPT !.map[p][t].ino = NotMapped]
      n == GetTab(TabCreate(u, t), p, t)
  IN  Reclaim(ForceReload(CopyRefs(n, p, t, i, t, Tabs), t, i))

TabShrink(w, p, t) ==
  LET g == GetTab(w, p, t)
      i == FreeInode(g, t)
      u == [Unlink(g, t) EXCEPT !.map[p][t].ino = NotMapped]
      n == GetTab(TabCreate(u, t), p, t)
      r == ForceReload(CopyRefs(n, p, t, i, t, Tabs), t, i)
  IN  Reclaim([r EXCEPT !.count_mmap[p] = @ - 1])

(* Mutant of Redirect: tab_switch is never set. *)
RedirectNone(w, old, new) == w.tabs

(* shf_tab_part: every other redirect to the old table now leads to a new   *)
(* one, and so do the refs behind them.                                     *)
Redirect(w, old, new) ==
  [u \in Tabs |->
     LET rank == Cardinality({v \in Tabs : v < u /\ w.tabs[v] = old})
     IN  IF w.tabs[u] = old /\ rank % 2 = 1 THEN new ELSE w.tabs[u]]

(* Mutant of TabPart: it copies the refs that should stay. *)
TabPartWrongHalf(w, p, old) ==
  LET new == w.tabs_used
      g == GetTab(TabCreate(w, new), p, new)
      r == [g EXCEPT !.tabs_used = @ + 1, !.tabs = Redirect(g, old, new)]
      c == CopyRefs(r, p, old, r.map[p][old].ino, new, {u \in Tabs : r.tabs[u] = old})
  IN  TabShrink(c, p, old)

TabPart(w, p, old) ==
  LET new == w.tabs_used
      g == GetTab(TabCreate(w, new), p, new)
      r == [g EXCEPT !.tabs_used = @ + 1, !.tabs = Redirect(g, old, new)]
      c == CopyRefs(r, p, old, r.map[p][old].ino, new, {u \in Tabs : r.tabs[u] = new})
  IN  TabShrink(c, p, old)

-----------------------------------------------------------------------------
(* Finding a record, by key or by UID.                                      *)

Tab2Of(x) == IF "key" \in DOMAIN x THEN HashTab2(x.key) ELSE x.uid[1]

(* Mutant of FindSlot: a UID leads to whatever is in its slot. *)
FindSlotAnyTab(f, x) ==
  LET k == IF "key" \in DOMAIN x THEN {s \in Slots : s[1] = HashRow(x.key)} ELSE {x.uid[2]}
      match == {s \in k : /\ f.row[s].pos # 0
                          /\ "key" \in DOMAIN x => f.data[f.row[s].pos].key = x.key}
  IN  IF match = {} THEN NoSlot ELSE CHOOSE s \in match : \A r \in match : s[2] <= r[2]

(* The ref that x leads to in the mapped table f. *)
FindSlot(f, x) ==
  IF "key" \in DOMAIN x
  THEN LET match == {s \in Slots : /\ s[1] = HashRow(x.key)
                                   /\ f.row[s].pos # 0
                                   /\ f.row[s].tab = HashTab2(x.key)
                                   /\ f.data[f.row[s].pos].key = x.key}
       IN  IF match = {} THEN NoSlot
           ELSE CHOOSE s \in match : \A r \in match : s[2] <= r[2]
  ELSE LET s == x.uid[2]
       IN  IF f.row[s].pos # 0 /\ f.row[s].tab = x.uid[1] THEN s ELSE NoSlot

-----------------------------------------------------------------------------
(* The calls. *)

Free(p) == m.count_mmap[p] > 0 /\ stuck = {} /\ pend[p] = NoRec

(* shf_attach_existing and shf_detach. *)
Attach(p) ==
  /\ m.count_mmap[p] = 0 /\ stuck = {}
  /\ m' = [m EXCEPT !.count_mmap[p] = 1]
  /\ UNCHANGED <<pend, stuck>>

Detach(p) ==
  /\ Free(p)
  /\ m' = Reclaim([m EXCEPT !.map[p] = [t \in Tabs |-> [ino |-> NotMapped, size |-> 0]],
                            !.count_mmap[p] = 0])
  /\ UNCHANGED <<pend, stuck>>

(* shf_put_key_val: it does not look whether the key exists.                *)
FreeRefs(f, row) == {r \in 0 .. RefsPerRow - 1 : f.row[<<row, r>>].pos = 0}

PutsNow(p, rec) == m.count_mmap[p] > 0 /\ stuck = {} /\ pend[p] \in {rec, NoRec}

PutInRow(p, rec) ==
  LET t == m.tabs[HashTab2(rec.key)]
      g == GetTab(m, p, t)
      room == FreeRefs(File(g, p, t), HashRow(rec.key))
      pos == File(g, p, t).tab_used
      a == Append_(g, p, t, rec)
      b == SetFile(a, t, a.map[p][t].ino,
             [File(a, p, t) EXCEPT !.row[<<HashRow(rec.key), Min(room)>>] =
                [pos |-> pos, tab |-> HashTab2(rec.key)]])
      f == File(b, p, t)
  IN  /\ PutsNow(p, rec)
      /\ room # {}
      /\ m' = IF f.tab_data_free > (f.tab_data_used * 20) \div 100
              THEN TabShrink(b, p, t) ELSE b
      /\ pend' = [pend EXCEPT ![p] = NoRec]
      /\ UNCHANGED stuck

(* The row is full: split the table, let go of the lock and start again.    *)
PutParts(p, rec) ==
  LET t == m.tabs[HashTab2(rec.key)]
      g == GetTab(m, p, t)
  IN  /\ PutsNow(p, rec)
      /\ FreeRefs(File(g, p, t), HashRow(rec.key)) = {}
      /\ m.tabs_used < TabsPerWin
      /\ m' = TabPart(g, p, t)
      /\ pend' = [pend EXCEPT ![p] = rec]
      /\ UNCHANGED stuck

(* ... and if there is no table left, the assertion in shf_tab_part ends    *)
(* the process, which never lets go of the lock.  tabs_used is one too high *)
(* by then, for a table that no redirect leads to.                          *)
PutOverflows(p, rec) ==
  LET t == m.tabs[HashTab2(rec.key)]
      g == GetTab(m, p, t)
  IN  /\ PutsNow(p, rec)
      /\ FreeRefs(File(g, p, t), HashRow(rec.key)) = {}
      /\ m.tabs_used = TabsPerWin
      /\ m' = [g EXCEPT !.tabs_used = @ + 1]
      /\ stuck' = {p}
      /\ UNCHANGED pend

(* shf_find_key_internal: the table that p looks in for x, and the slot.    *)
Lookup(p, x) ==
  LET t == m.tabs[Tab2Of(x)]
      g == GetTab(m, p, t)
  IN  [g |-> g, t |-> t, s |-> FindSlot(File(g, p, t), x)]

Found(at, p) == LET f == File(at.g, p, at.t) IN f.data[f.row[at.s].pos]

(* If x is found, what the caller asked for gives the state onFound.        *)
Find(p, x, onFound) ==
  /\ Free(p)
  /\ m' = IF Lookup(p, x).s = NoSlot THEN Lookup(p, x).g ELSE onFound
  /\ UNCHANGED <<pend, stuck>>

(* shf_get_*_addr *)
GetAddr(p, x) == Find(p, x, Lookup(p, x).g)

(* shf_get_*_copy: a copy of the key or the value, then maybe a shrink.     *)
GetCopy(p, x) ==
  LET at == Lookup(p, x)
      f == File(at.g, p, at.t)
  IN  Find(p, x, IF f.tab_data_free > f.tab_data_used \div 4
                 THEN TabShrink(at.g, p, at.t) ELSE at.g)

(* Changes the value of the record that was found. *)
Store(at, p, n) ==
  LET f == File(at.g, p, at.t)
  IN  SetFile(at.g, at.t, at.g.map[p][at.t].ino, [f EXCEPT !.data[f.row[at.s].pos].n = n])

(* shf_add_*_atom: SHF_RET_BAD_VAL if the value is shorter than a long.     *)
AddAtom(p, x, add) ==
  LET at == Lookup(p, x)
  IN  Find(p, x, IF Found(at, p).len < LongLen THEN at.g
                 ELSE Store(at, p, (Found(at, p).n + add) % Cardinality(Nums)))

(* shf_upd_*_val with shf_upd_callback_copy: SHF_RET_BAD_CB on a length     *)
(* other than the value's.                                                  *)
Upd(p, x, len, n) ==
  LET at == Lookup(p, x)
  IN  Find(p, x, IF Found(at, p).len # len THEN at.g ELSE Store(at, p, n))

(* shf_del_*_val, conditional if shf_ttl is not 0.                          *)
Del(p, x, ttl) ==
  LET at == Lookup(p, x)
  IN  Find(p, x, IF ttl # 0 /\ ttl # Found(at, p).n THEN at.g
                 ELSE SetFile(at.g, at.t, at.g.map[p][at.t].ino, MarkDeleted(File(at.g, p, at.t), at.s)))

-----------------------------------------------------------------------------
(* shf_attach by the process that creates the SharedHashFile, then nobody   *)
(* is attached; table 0 is all there is.                                    *)
Init ==
  /\ m = [tabs |-> [u \in Tabs |-> 0], tabs_used |-> 1,
          ino |-> [t \in Tabs |-> [i \in Inodes |-> NewFile]],
          map |-> [p \in Procs |-> [t \in Tabs |-> [ino |-> NotMapped, size |-> 0]]],
          count_mmap |-> [p \in Procs |-> 0]]
  /\ pend = [p \in Procs |-> NoRec]
  /\ stuck = {}

Next ==
  \E p \in Procs :
    \/ Attach(p)
    \/ Detach(p)
    \/ \E rec \in Puts : PutInRow(p, rec) \/ PutParts(p, rec) \/ PutOverflows(p, rec)
    \/ \E x \in Targets :
         \/ GetAddr(p, x)
         \/ GetCopy(p, x)
         \/ \E n \in Nums : AddAtom(p, x, n) \/ Del(p, x, n) \/ \E len \in Lens : Upd(p, x, len, n)

Spec == Init /\ [][Next]_vars

-----------------------------------------------------------------------------
(* Properties. *)

Current(t) == m.ino[t][0]
Live(f) == {s \in Slots : f.row[s].pos # 0}
Used == Tabs \cap 0 .. m.tabs_used - 1

(* Every ref and redirect stays within the tables there are, and no byte   *)
(* counter goes below zero.                                                *)
TypeOK ==
  /\ m.tabs_used \in 1 .. TabsPerWin + Cardinality(stuck)
  /\ m.tabs \in [Tabs -> Used]
  /\ \A t \in Used :
       LET f == Current(t)
       IN  /\ f.tab_refs_used \in Nat /\ f.tab_data_free \in Nat /\ f.tab_data_used \in Nat
           /\ \A s \in Live(f) : f.row[s].tab \in Tabs /\ f.data[f.row[s].pos] \in Recs
  /\ pend \in [Procs -> Puts \cup {NoRec}]
  /\ stuck \in SUBSET Procs

(* Refinement: seen through the redirects, the window is the abstract      *)
(* store.  In particular a split or a shrink, whoever triggers it, moves   *)
(* no record to another UID and loses none.                                *)
StoredAt(u) ==
  LET f == Current(m.tabs[u[1]])
      ref == f.row[u[2]]
  IN  IF ref.pos # 0 /\ ref.tab = u[1] THEN f.data[ref.pos] ELSE NoRec

Store_ == INSTANCE KvStore WITH
            recs <- [u \in Uids |-> StoredAt(u)],
            UidsOf <- LAMBDA k : {u \in Uids : u[1] = HashTab2(k) /\ u[2][1] = HashRow(k)}

ImplementsKvStore == Store_!Spec

(* A record leaves the store in a call that deletes and in no other, and a *)
(* put adds one: a get, a put or a split that shrinks a table on its way   *)
(* drops nothing that was in it, the record just put included.             *)
RecordsLeaveByDelete ==
  [][/\ (\E u \in Uids : StoredAt(u) # NoRec /\ StoredAt(u)' = NoRec)
          => \E p \in Procs, x \in Targets, ttl \in Nums : Del(p, x, ttl)
     /\ (\E p \in Procs, rec \in Puts : PutInRow(p, rec))
          => \E u \in Uids : StoredAt(u) = NoRec /\ StoredAt(u)' # NoRec]_vars

(* Every process finds every key and UID of the store, with the right      *)
(* record, and no other, however long ago it last mapped the table and     *)
(* whatever was split, shrunk or grown since.                              *)
LookupsAgree ==
  \A p \in Procs, x \in AllTargets :
    m.count_mmap[p] > 0 =>
      LET at == Lookup(p, x)
          here == {u \in Uids : /\ StoredAt(u) # NoRec
                                /\ IF "key" \in DOMAIN x THEN StoredAt(u).key = x.key ELSE u = x.uid}
      IN  IF at.s = NoSlot THEN here = {}
          ELSE \E u \in here : u = <<Tab2Of(x), at.s>> /\ Found(at, p) = StoredAt(u)

(* The assertion of shf_tab_part: a ref is only ever in the table its own  *)
(* redirect leads to, so a lookup never has to look in two tables.         *)
RefsFollowRedirects ==
  \A t \in Used : \A s \in Live(Current(t)) : m.tabs[Current(t).row[s].tab] = t

(* Whatever was grown or replaced since p last looked, the table p gets    *)
(* from SHF_GET_TAB_MMAP is the one the name leads to, all of it.          *)
MappingsCatchUp ==
  \A p \in Procs, t \in Used :
    m.count_mmap[p] > 0 =>
      LET g == GetTab(m, p, t)
      IN  g.map[p][t].ino = 0 /\ g.map[p][t].size = File(g, p, t).tab_size

(* No process has more of a file mapped than the file is long, which would *)
(* be a SIGBUS at the far end.                                             *)
MappedBytesExist ==
  \A p \in Procs, t \in Tabs :
    m.map[p][t].ino # NotMapped => m.map[p][t].size <= File(m, p, t).fsize

(* What shf_tab_validate checks, and more: the live records of a table lie *)
(* between the refs and tab_used, tab_used within the file, none overlaps  *)
(* another, and the two byte counters account for all of the data part.    *)
DataSound ==
  \A t \in Used :
    LET f == Current(t)
        at(s) == f.row[s].pos
        end(s) == at(s) + Size(f.data[at(s)])
    IN  /\ f.tab_size \in {0, f.fsize}
        /\ f.tab_used <= f.tab_size
        /\ \A s \in Live(f) : at(s) >= Hdr /\ end(s) <= f.tab_used
        /\ \A s, r \in Live(f) : s # r => end(s) <= at(r) \/ end(r) <= at(s)
        /\ f.tab_data_used = FoldSet(LAMBDA s, sum : sum + Size(f.data[at(s)]), 0, Live(f))
        /\ f.tab_size # 0 => f.tab_used = Hdr + f.tab_data_used + f.tab_data_free

(* The assertion of shf_detach: it finds as many mappings to undo as       *)
(* count_mmap says were made (the one of the window array is the first).   *)
DetachUnmapsAll ==
  \A p \in Procs :
    m.count_mmap[p] > 0 =>
      m.count_mmap[p] = 1 + Cardinality({t \in Used : m.map[p][t].size >= Page})

(* As long as every table has a redirect of its own, a process runs out of *)
(* tables, and takes the window's lock with it, or splits one in vain only *)
(* when some row is full of records of one redirect: a split of any other  *)
(* row leaves each of the two tables with a redirect.                      *)
Wasted == \E t \in Used : \A u \in Tabs : m.tabs[u] # t

Overloaded ==
  \E t \in Used, row \in 0 .. Rows - 1 :
    \A r, q \in 0 .. RefsPerRow - 1 :
      Current(t).row[<<row, r>>].pos # 0 /\ Current(t).row[<<row, r>>].tab = Current(t).row[<<row, q>>].tab

OverflowOnlyWhenOverloaded == [][~Wasted /\ (Wasted' \/ stuck' # stuck) => Overloaded]_vars
=============================================================================
