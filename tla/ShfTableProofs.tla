--------------------------- MODULE ShfTableProofs ---------------------------
(***************************************************************************)
(* Proofs about the tables of a window, for any number of processes, keys, *)
(* tables, rows and refs and every page and header size.                   *)
(***************************************************************************)
EXTENDS ShfIterate, FiniteSetTheorems, NaturalsInduction, TLAPS

-----------------------------------------------------------------------------
(* The types of the state. *)

Refs == [pos : Nat, tab : Tabs]
Datas == UNION {[D -> Recs] : D \in SUBSET Nat}
Files == [fsize : Nat, tab_size : Nat, tab_used : Nat, tab_refs_used : Int,
          tab_data_free : Nat, tab_data_used : Int, row : [Slots -> Refs], data : Datas]
Maps == [ino : Inodes \cup {NotMapped}, size : Nat]
Wins == [tabs : [Tabs -> Tabs], tabs_used : Nat, ino : [Tabs -> [Inodes -> Files]],
         map : [Procs -> [Tabs -> Maps]], count_mmap : [Procs -> Int]]

-----------------------------------------------------------------------------
(* Numbers. *)

LEMMA LeastOf ==
  ASSUME NEW T, T \subseteq Nat, T # {}
  PROVE  \E d \in T : \A e \in T : d <= e
<1> DEFINE R == {e \in Nat \X Nat : e[1] < e[2]}
<1>1. IsWellFoundedOn(R, Nat)
  BY NatLessThanWellFounded DEF OpToRel
<1>2. PICK d \in T : \A e \in T : ~(<<e, d>> \in R)
  <2> HIDE DEF R
  <2> QED BY <1>1, WFMin
<1>3. \A e \in Nat, f \in Nat : e < f => <<e, f>> \in R
  OBVIOUS
<1> HIDE DEF R
<1>4. \A e \in T : ~(e < d)
  BY <1>2, <1>3, Zenon
<1>5. QED BY <1>4

LEMMA MinIn ==
  ASSUME NEW T, T \subseteq Nat, T # {}
  PROVE  Min(T) \in T
<1>1. PICK d \in T : \A e \in T : d <= e
  BY LeastOf
<1>2. QED BY <1>1 DEF Min

LEMMA ModPageIs ==
  ASSUME NEW b \in Nat, b > 0
  PROVE  ModPage(b) \in Nat /\ ModPage(b) >= b /\ ModPage(b) >= Page
BY SizeAssumption DEF ModPage

LEMMA InodesAre ==
  /\ 0 \in Inodes /\ Unlinked \subseteq Inodes /\ Inodes \subseteq Nat /\ NotMapped \notin Inodes
  /\ Unlinked \subseteq Nat /\ 0 \notin Unlinked /\ \A i \in Inodes : i = 0 \/ i \in Unlinked
BY DEF Inodes, Unlinked, NotMapped

LEMMA TabsAre == 0 \in Tabs /\ Tabs \subseteq Nat /\ IsFiniteSet(Tabs) /\ \A t \in Tabs : t < TabsPerWin
<1>1. IsFiniteSet(Tabs)
  BY SizeAssumption, FS_Interval DEF Tabs
<1>2. QED BY <1>1, SizeAssumption DEF Tabs

-----------------------------------------------------------------------------
(* The bytes of the records of a set of refs of a file. *)

LenAt(f, s) == f.data[f.row[s].pos].len
Pick(s) == CHOOSE x \in s : TRUE
Adds(r, h, s) == IF s = {} THEN 0 ELSE LET x == CHOOSE x \in s : TRUE IN h[s \ {x}] + LenAt(r, x)
Sums(r, S, h) == h = [s \in SUBSET S |-> Adds(r, h, s)]
SumOf(r, S) == LET h == CHOOSE h : Sums(r, S, h) IN h[S]

LEMMA SumIs ==
  ASSUME NEW f, NEW S
  PROVE  FoldSet(LAMBDA s, sum : sum + Size(f.data[f.row[s].pos]), 0, S) = SumOf(f, S)
BY DEF FoldSet, MapThenFoldSet, SumOf, Sums, Adds, LenAt, Size

LEMMA AddsIs ==
  /\ \A r, h : Adds(r, h, {}) = 0
  /\ \A r, h, s : s # {} => Pick(s) \in s /\ Adds(r, h, s) = h[s \ {Pick(s)}] + LenAt(r, Pick(s))
BY DEF Adds, Pick

LEMMA LeastSet ==
  ASSUME NEW S, IsFiniteSet(S), NEW B, B \subseteq SUBSET S, B # {}
  PROVE  \E b \in B : \A e \in SUBSET S : Cardinality(e) < Cardinality(b) => e \notin B
<1> DEFINE T == {Cardinality(e) : e \in B}
<1>1. \A e \in SUBSET S : Cardinality(e) \in Nat
  BY FS_Subset, FS_CardinalityType
<1>2. T \subseteq Nat /\ T # {}
  BY <1>1
<1>3. PICK d \in T : \A e \in T : d <= e
  <2> HIDE DEF T
  <2> QED BY <1>2, LeastOf
<1>4. PICK b \in B : d = Cardinality(b)
  OBVIOUS
<1>5. ASSUME NEW e \in B PROVE ~(Cardinality(e) < Cardinality(b))
  <2>1. Cardinality(e) \in T /\ Cardinality(e) \in Nat /\ Cardinality(b) \in Nat
    BY <1>1
  <2>2. QED BY <1>3, <1>4, <2>1
<1>6. QED BY <1>5

(* A set without one of its elements is smaller. *)
LEMMA Smaller ==
  ASSUME NEW S, IsFiniteSet(S), NEW s \in SUBSET S, NEW x \in s
  PROVE  /\ s \ {x} \in SUBSET S /\ Cardinality(s \ {x}) < Cardinality(s)
         /\ Cardinality(s) \in Nat /\ Cardinality(s \ {x}) = Cardinality(s) - 1
<1>1. IsFiniteSet(s) /\ Cardinality(s) \in Nat
  BY FS_Subset, FS_CardinalityType
<1>2. Cardinality(s \ {x}) = Cardinality(s) - 1
  BY <1>1, FS_RemoveElement
<1>3. QED BY <1>1, <1>2

LEMMA SumsOnce ==
  ASSUME NEW r, NEW S, IsFiniteSet(S), NEW f, NEW g, Sums(r, S, f), Sums(r, S, g)
  PROVE  f = g
<1> DEFINE B == {s \in SUBSET S : f[s] # g[s]}
<1>1. CASE B = {}
  <2>1. \A s \in SUBSET S : f[s] = g[s]
    BY <1>1
  <2>2. f = [s \in SUBSET S |-> f[s]] /\ g = [s \in SUBSET S |-> g[s]]
    BY DEF Sums
  <2>3. QED BY <2>1, <2>2
<1>2. CASE B # {}
  <2>1. B \subseteq SUBSET S
    OBVIOUS
  <2>2. PICK b \in B : \A e \in SUBSET S : Cardinality(e) < Cardinality(b) => e \notin B
    <3> HIDE DEF B
    <3> QED BY <1>2, <2>1, LeastSet
  <2>3. b \in SUBSET S /\ f[b] # g[b] /\ f[b] = Adds(r, f, b) /\ g[b] = Adds(r, g, b)
    BY DEF Sums
  <2>4. b # {}
    BY <2>3, AddsIs
  <2>5. PICK x \in b : x = Pick(b)
    BY <2>4, AddsIs
  <2>6. b \ {x} \in SUBSET S /\ b \ {x} \notin B
    BY <2>2, <2>3, Smaller
  <2>7. f[b \ {x}] = g[b \ {x}]
    BY <2>6
  <2>8. f[b] = f[b \ {x}] + LenAt(r, x) /\ g[b] = g[b \ {x}] + LenAt(r, x)
    <3>1. Adds(r, f, b) = f[b \ {x}] + LenAt(r, x)
      BY ZenonT(40), <2>4, <2>5, AddsIs
    <3>2. Adds(r, g, b) = g[b \ {x}] + LenAt(r, x)
      BY <2>4, <2>5, AddsIs
    <3>3. QED BY <2>3, <3>1, <3>2
  <2>9. QED BY <2>3, <2>7, <2>8
<1>3. QED BY <1>1, <1>2

(* The same for the sets of at most n elements. *)
Few(S, n) == {s \in SUBSET S : Cardinality(s) <= n}
SumsFew(r, S, n, h) == h = [s \in Few(S, n) |-> Adds(r, h, s)]

LEMMA SumsExist ==
  ASSUME NEW r, NEW S, IsFiniteSet(S)
  PROVE  \E h : Sums(r, S, h)
<1>0. \A s \in SUBSET S : IsFiniteSet(s) /\ Cardinality(s) \in Nat /\ Cardinality(s) <= Cardinality(S)
  BY FS_Subset, FS_CardinalityType
<1> DEFINE T == {n \in Nat : ~ \E h : SumsFew(r, S, n, h)}
<1>1. T = {}
  <2> SUFFICES ASSUME T # {} PROVE FALSE
    OBVIOUS
  <2>1. T \subseteq Nat
    OBVIOUS
  <2>2. PICK d \in T : \A e \in T : d <= e
    <3> HIDE DEF T
    <3> QED BY <2>1, LeastOf
  <2>3. d # 0
    <3> SUFFICES ASSUME d = 0 PROVE FALSE
      OBVIOUS
    <3>1. PICK h : h = [s \in Few(S, 0) |-> 0]
      OBVIOUS
    <3>2. \A s \in Few(S, 0) : Adds(r, h, s) = 0
      <4> SUFFICES ASSUME NEW s \in Few(S, 0) PROVE Adds(r, h, s) = 0
        OBVIOUS
      <4>1. Cardinality(s) = 0 /\ IsFiniteSet(s)
        BY <1>0 DEF Few
      <4>2. s = {}
        BY <4>1, FS_EmptySet
      <4>3. QED BY <4>2, AddsIs
    <3>3. SumsFew(r, S, 0, h)
      BY <3>1, <3>2 DEF SumsFew
    <3>4. QED BY <3>3
  <2>4. d - 1 \in Nat /\ d - 1 \notin T
    BY <2>2, <2>3
  <2>5. PICK h : SumsFew(r, S, d - 1, h)
    BY <2>4
  <2>6. PICK g : g = [s \in Few(S, d) |-> Adds(r, h, s)]
    OBVIOUS
  <2>7. \A s \in Few(S, d - 1) : s \in Few(S, d) /\ g[s] = h[s]
    <3>1. \A s \in Few(S, d - 1) : s \in Few(S, d)
      BY <1>0, <2>4 DEF Few
    <3>2. QED BY <2>5, <2>6, <3>1 DEF SumsFew
  <2>8. \A s \in Few(S, d) : Adds(r, g, s) = Adds(r, h, s)
    <3> SUFFICES ASSUME NEW s \in Few(S, d), s # {} PROVE Adds(r, g, s) = Adds(r, h, s)
      BY AddsIs
    <3>1. PICK x \in s : x = Pick(s)
      BY AddsIs
    <3>2. s \in SUBSET S /\ Cardinality(s) <= d
      BY DEF Few
    <3>3. s \ {x} \in SUBSET S /\ Cardinality(s) \in Nat /\ Cardinality(s \ {x}) = Cardinality(s) - 1
      BY <3>2, Smaller
    <3>4. s \ {x} \in Few(S, d - 1)
      BY <2>4, <3>2, <3>3 DEF Few
    <3>5. g[s \ {x}] = h[s \ {x}]
      BY <2>7, <3>4
    <3>6. QED BY <3>1, <3>5, AddsIs
  <2>9. SumsFew(r, S, d, g)
    BY <2>6, <2>8 DEF SumsFew
  <2>10. QED BY <2>9
<1>2. Cardinality(S) \in Nat
  BY FS_CardinalityType
<1>3. PICK h : SumsFew(r, S, Cardinality(S), h)
  BY <1>1, <1>2
<1>4. Few(S, Cardinality(S)) = SUBSET S
  BY <1>0 DEF Few
<1>5. Sums(r, S, h)
  BY <1>3, <1>4 DEF SumsFew, Sums
<1>6. QED BY <1>5

(* What the sum of a part of S is, as the sum of S counts it. *)
LEMMA SumOfPart ==
  ASSUME NEW r, NEW S, IsFiniteSet(S), NEW h, Sums(r, S, h), NEW s \in SUBSET S
  PROVE  h[s] = SumOf(r, s)
<1>1. PICK g : g = [t \in SUBSET s |-> h[t]]
  OBVIOUS
<1>2. ASSUME NEW t \in SUBSET s PROVE g[t] = Adds(r, g, t)
  <2>1. g[t] = Adds(r, h, t)
    BY <1>1 DEF Sums
  <2>2. CASE t = {}
    BY <2>1, <2>2, AddsIs
  <2>3. CASE t # {}
    <3>1. PICK x \in t : x = Pick(t)
      BY <2>3, AddsIs
    <3>2. g[t \ {x}] = h[t \ {x}]
      BY <1>1
    <3>3. Adds(r, h, t) = h[t \ {x}] + LenAt(r, x) /\ Adds(r, g, t) = g[t \ {x}] + LenAt(r, x)
      BY ZenonT(40), <2>3, <3>1, AddsIs
    <3>4. QED BY <2>1, <3>2, <3>3
  <2>4. QED BY <2>2, <2>3
<1>3. Sums(r, s, g)
  BY <1>1, <1>2 DEF Sums
<1>4. PICK k : k = CHOOSE e : Sums(r, s, e)
  OBVIOUS
<1>5. Sums(r, s, k)
  BY <1>3, <1>4
<1>6. IsFiniteSet(s)
  BY FS_Subset
<1>7. k = g
  BY <1>3, <1>5, <1>6, SumsOnce
<1>8. SumOf(r, s) = k[s]
  BY <1>4 DEF SumOf
<1>9. QED BY <1>1, <1>7, <1>8

LEMMA SumStep ==
  ASSUME NEW r, NEW S, IsFiniteSet(S)
  PROVE  /\ SumOf(r, {}) = 0
         /\ S # {} => Pick(S) \in S /\ SumOf(r, S) = SumOf(r, S \ {Pick(S)}) + LenAt(r, Pick(S))
<1>1. PICK h : Sums(r, S, h)
  BY SumsExist
<1>2. \A s \in SUBSET S : h[s] = Adds(r, h, s) /\ h[s] = SumOf(r, s)
  <2>1. \A s \in SUBSET S : h[s] = Adds(r, h, s)
    BY <1>1 DEF Sums
  <2>2. \A s \in SUBSET S : h[s] = SumOf(r, s)
    BY <1>1, SumOfPart
  <2>3. QED BY <2>1, <2>2
<1>3. {} \in SUBSET S /\ S \in SUBSET S
  OBVIOUS
<1>4. SumOf(r, {}) = 0
  BY <1>2, <1>3, AddsIs
<1>5. ASSUME S # {} PROVE Pick(S) \in S /\ SumOf(r, S) = SumOf(r, S \ {Pick(S)}) + LenAt(r, Pick(S))
  <2>1. PICK x \in S : x = Pick(S)
    BY <1>5, AddsIs
  <2>2. S \ {x} \in SUBSET S
    OBVIOUS
  <2>3. h[S] = h[S \ {x}] + LenAt(r, x)
    <3>1. h[S] = Adds(r, h, S)
      BY <1>2, <1>3
    <3>2. Adds(r, h, S) = h[S \ {x}] + LenAt(r, x)
      BY ZenonT(40), <1>5, <2>1, AddsIs
    <3>3. QED BY <3>1, <3>2
  <2>4. QED BY <1>2, <1>3, <2>1, <2>2, <2>3
<1>6. QED BY <1>4, <1>5

LEMMA SumType ==
  ASSUME NEW r, NEW S, IsFiniteSet(S), \A x \in S : LenAt(r, x) \in Int
  PROVE  SumOf(r, S) \in Int
<1> DEFINE B == {s \in SUBSET S : SumOf(r, s) \notin Int}
<1> SUFFICES ASSUME B # {} PROVE FALSE
  OBVIOUS
<1>1. B \subseteq SUBSET S
  OBVIOUS
<1>2. PICK b \in B : \A e \in SUBSET S : Cardinality(e) < Cardinality(b) => e \notin B
  <2> HIDE DEF B
  <2> QED BY <1>1, LeastSet
<1>3. b \in SUBSET S /\ SumOf(r, b) \notin Int /\ IsFiniteSet(b)
  BY FS_Subset
<1>4. b # {}
  <2>1. SumOf(r, {}) = 0
    BY SumStep
  <2>2. QED BY <1>3, <2>1
<1>5. PICK x \in b : x = Pick(b) /\ SumOf(r, b) = SumOf(r, b \ {x}) + LenAt(r, x)
  BY <1>3, <1>4, SumStep
<1>6. SumOf(r, b \ {x}) \in Int
  BY <1>2, <1>3, Smaller
<1>7. QED BY <1>3, <1>5, <1>6

LEMMA SumNat ==
  ASSUME NEW r, NEW S, IsFiniteSet(S), \A x \in S : LenAt(r, x) \in Nat
  PROVE  SumOf(r, S) \in Nat
<1> DEFINE B == {s \in SUBSET S : SumOf(r, s) \notin Nat}
<1> SUFFICES ASSUME B # {} PROVE FALSE
  OBVIOUS
<1>1. B \subseteq SUBSET S
  OBVIOUS
<1>2. PICK b \in B : \A e \in SUBSET S : Cardinality(e) < Cardinality(b) => e \notin B
  <2> HIDE DEF B
  <2> QED BY <1>1, LeastSet
<1>3. b \in SUBSET S /\ SumOf(r, b) \notin Nat /\ IsFiniteSet(b)
  BY FS_Subset
<1>4. b # {}
  <2>1. SumOf(r, {}) = 0
    BY SumStep
  <2>2. QED BY <1>3, <2>1
<1>5. PICK x \in b : x = Pick(b) /\ SumOf(r, b) = SumOf(r, b \ {x}) + LenAt(r, x)
  BY <1>3, <1>4, SumStep
<1>6. SumOf(r, b \ {x}) \in Nat
  BY <1>2, <1>3, Smaller
<1>7. QED BY <1>3, <1>5, <1>6

LEMMA SumSame ==
  ASSUME NEW r, NEW r2, NEW S, IsFiniteSet(S), \A x \in S : LenAt(r, x) = LenAt(r2, x)
  PROVE  SumOf(r, S) = SumOf(r2, S)
<1> DEFINE B == {s \in SUBSET S : SumOf(r, s) # SumOf(r2, s)}
<1> SUFFICES ASSUME B # {} PROVE FALSE
  OBVIOUS
<1>1. B \subseteq SUBSET S
  OBVIOUS
<1>2. PICK b \in B : \A e \in SUBSET S : Cardinality(e) < Cardinality(b) => e \notin B
  <2> HIDE DEF B
  <2> QED BY <1>1, LeastSet
<1>3. b \in SUBSET S /\ SumOf(r, b) # SumOf(r2, b) /\ IsFiniteSet(b)
  BY FS_Subset
<1>4. b # {}
  BY <1>3, SumStep
<1>5. PICK x \in b : x = Pick(b)
  BY <1>4, AddsIs
<1>6. SumOf(r, b) = SumOf(r, b \ {x}) + LenAt(r, x) /\ SumOf(r2, b) = SumOf(r2, b \ {x}) + LenAt(r2, x)
  BY <1>3, <1>4, <1>5, SumStep
<1>7. SumOf(r, b \ {x}) = SumOf(r2, b \ {x})
  BY <1>2, <1>3, Smaller
<1>8. LenAt(r, x) = LenAt(r2, x)
  BY <1>3
<1>9. QED BY <1>3, <1>6, <1>7, <1>8

(* It does not matter which element comes first. *)
LEMMA SumWithout ==
  ASSUME NEW r, NEW S, IsFiniteSet(S), \A x \in S : LenAt(r, x) \in Int, NEW y \in S
  PROVE  SumOf(r, S) = SumOf(r, S \ {y}) + LenAt(r, y)
<1> DEFINE B == {s \in SUBSET S : \E z \in s : SumOf(r, s) # SumOf(r, s \ {z}) + LenAt(r, z)}
<1> SUFFICES ASSUME B # {} PROVE FALSE
  OBVIOUS
<1>1. B \subseteq SUBSET S
  OBVIOUS
<1>2. PICK b \in B : \A e \in SUBSET S : Cardinality(e) < Cardinality(b) => e \notin B
  <2> HIDE DEF B
  <2> QED BY <1>1, LeastSet
<1>3. b \in SUBSET S /\ IsFiniteSet(b)
  BY FS_Subset
<1>4. PICK z \in b : SumOf(r, b) # SumOf(r, b \ {z}) + LenAt(r, z)
  OBVIOUS
<1>5. PICK x \in b : x = Pick(b) /\ SumOf(r, b) = SumOf(r, b \ {x}) + LenAt(r, x)
  BY <1>3, SumStep
<1>6. x # z
  BY <1>4, <1>5
<1>7. b \ {x} \in SUBSET S /\ b \ {x} \notin B /\ b \ {z} \in SUBSET S /\ b \ {z} \notin B
  BY <1>2, <1>3, Smaller
<1>8. PICK u : u = b \ {x, z}
  OBVIOUS
<1>9. (b \ {x}) \ {z} = u /\ (b \ {z}) \ {x} = u /\ z \in b \ {x} /\ x \in b \ {z}
  BY <1>6, <1>8
<1>10. SumOf(r, b \ {x}) = SumOf(r, u) + LenAt(r, z) /\ SumOf(r, b \ {z}) = SumOf(r, u) + LenAt(r, x)
  BY <1>7, <1>9
<1>11. u \in SUBSET S /\ IsFiniteSet(u)
  BY <1>3, <1>8, FS_Subset
<1>12. SumOf(r, u) \in Int /\ LenAt(r, x) \in Int /\ LenAt(r, z) \in Int
  BY <1>3, <1>11, SumType
<1>13. QED BY <1>4, <1>5, <1>10, <1>12

-----------------------------------------------------------------------------
(* The contents of a file: what a slot holds, and what makes a file sound. *)

Holds(f, s) == IF f.row[s].pos = 0 THEN NoRec ELSE f.data[f.row[s].pos]
EndOf(f, s) == f.row[s].pos + LenAt(f, s)

RefOK(f, s) ==
  /\ f.row[s].pos \in DOMAIN f.data /\ f.row[s].pos >= Hdr /\ EndOf(f, s) <= f.tab_used
  /\ HashRow(Holds(f, s).key) = s[1] /\ HashTab2(Holds(f, s).key) = f.row[s].tab

Apart(f, s, r) == EndOf(f, s) <= f.row[r].pos \/ EndOf(f, r) <= f.row[s].pos

SizesOK(f) ==
  /\ f.tab_size \in {0, f.fsize} /\ f.fsize >= Page /\ f.fsize >= Hdr
  /\ f.tab_used <= f.tab_size
  /\ f.tab_size # 0 => f.tab_used = Hdr + f.tab_data_used + f.tab_data_free
  /\ f.tab_size = 0 => f.tab_data_used = 0 /\ f.tab_data_free = 0

FileOK(f) ==
  /\ SizesOK(f)
  /\ \A s \in Live(f) : RefOK(f, s)
  /\ \A s, r \in Live(f) : s # r => Apart(f, s, r)
  /\ f.tab_data_used = SumOf(f, Live(f))

LEMMA FileParts ==
  ASSUME NEW f \in Files
  PROVE  /\ f.fsize \in Nat /\ f.tab_size \in Nat /\ f.tab_used \in Nat /\ f.tab_data_free \in Nat
         /\ f.tab_refs_used \in Int /\ f.tab_data_used \in Int /\ f.data \in Datas
         /\ \A s \in Slots : f.row[s] \in Refs /\ f.row[s].pos \in Nat /\ f.row[s].tab \in Tabs
BY DEF Files, Refs

LEMMA DataIs ==
  ASSUME NEW d \in Datas
  PROVE  DOMAIN d \subseteq Nat /\ d = [q \in DOMAIN d |-> d[q]] /\ \A q \in DOMAIN d : d[q] \in Recs
BY DEF Datas

LEMMA RecIs ==
  ASSUME NEW rec \in Recs
  PROVE  /\ rec.len \in Nat /\ rec.len > 0 /\ rec.key \in Keys /\ rec.n \in Nums /\ rec # NoRec
         /\ HashTab2(rec.key) \in Tabs /\ HashRow(rec.key) \in 0 .. Rows - 1
<1>1. rec.len \in Lens /\ rec.key \in Keys /\ rec.n \in Nums
  BY DEF Recs
<1>2. rec.len \in Nat /\ rec.len > 0
  <2>1. \A l \in Lens : l \in Nat \ {0}
    BY SizeAssumption, Zenon
  <2>2. QED BY <1>1, <2>1
<1>3. NoRec.len = 0
  BY DEF NoRec
<1>4. rec # NoRec
  BY <1>2, <1>3
<1>5. QED BY <1>1, <1>2, <1>4, SizeAssumption DEF Tabs

LEMMA LiveIs ==
  ASSUME NEW f \in Files
  PROVE  IsFiniteSet(Live(f)) /\ Live(f) \subseteq Slots
<1>1. IsFiniteSet(0 .. Rows - 1) /\ IsFiniteSet(0 .. RefsPerRow - 1)
  <2>1. Rows - 1 \in Int /\ RefsPerRow - 1 \in Int
    BY SizeAssumption
  <2>2. \A b \in Int : IsFiniteSet(0 .. b)
    BY FS_Interval
  <2>3. QED BY <2>1, <2>2
<1>2. IsFiniteSet(Slots)
  BY <1>1, FS_Product DEF Slots
<1>3. QED BY <1>2, FS_Subset DEF Live

(* What a live ref of a sound file leads to. *)
LEMMA LiveRef ==
  ASSUME NEW f \in Files, FileOK(f), NEW s \in Live(f)
  PROVE  /\ s \in Slots /\ f.row[s].pos \in Nat /\ f.row[s].pos > 0 /\ f.row[s].tab \in Tabs
         /\ f.row[s].pos \in DOMAIN f.data /\ f.data[f.row[s].pos] \in Recs
         /\ Holds(f, s) = f.data[f.row[s].pos] /\ Holds(f, s) \in Recs /\ Holds(f, s) # NoRec
         /\ LenAt(f, s) \in Nat /\ LenAt(f, s) > 0 /\ EndOf(f, s) = f.row[s].pos + LenAt(f, s)
<1>1. s \in Slots /\ f.row[s].pos # 0 /\ RefOK(f, s)
  BY DEF Live, FileOK
<1>2. f.row[s].pos \in DOMAIN f.data
  BY <1>1 DEF RefOK
<1>3. f.data[f.row[s].pos] \in Recs
  BY <1>2, FileParts, DataIs
<1>4. f.row[s].pos \in Nat /\ f.row[s].tab \in Tabs
  BY <1>1, FileParts
<1>5. QED BY <1>1, <1>2, <1>3, <1>4, RecIs DEF Holds, LenAt, EndOf

LEMMA HoldsLive ==
  ASSUME NEW f \in Files, FileOK(f), NEW s \in Slots
  PROVE  /\ Holds(f, s) # NoRec <=> s \in Live(f)
         /\ Holds(f, s) \in Recs \cup {NoRec}
         /\ s \in Live(f) <=> f.row[s].pos # 0
         /\ s \in Live(f) => HashRow(Holds(f, s).key) = s[1] /\ HashTab2(Holds(f, s).key) = f.row[s].tab
<1>1. s \in Live(f) <=> f.row[s].pos # 0
  BY DEF Live
<1>2. CASE s \in Live(f)
  <2>1. RefOK(f, s)
    BY <1>2 DEF FileOK
  <2>2. QED BY <1>1, <1>2, <2>1, LiveRef DEF RefOK
<1>3. CASE s \notin Live(f)
  BY <1>1, <1>3 DEF Holds
<1>4. QED BY <1>2, <1>3

(* A file with the same refs and records as a sound one, as good sizes. *)
LEMMA SameRefs ==
  ASSUME NEW f \in Files, FileOK(f), NEW g \in Files, SizesOK(g), g.row = f.row, g.data = f.data,
         g.tab_used >= f.tab_used, g.tab_data_used = f.tab_data_used
  PROVE  FileOK(g) /\ Live(g) = Live(f) /\ \A s \in Slots : Holds(g, s) = Holds(f, s)
<1>1. Live(g) = Live(f) /\ \A s \in Slots : Holds(g, s) = Holds(f, s)
  BY DEF Live, Holds
<1>2. \A s \in Slots : LenAt(g, s) = LenAt(f, s) /\ EndOf(g, s) = EndOf(f, s)
  BY DEF LenAt, EndOf
<1>3. SumOf(g, Live(g)) = SumOf(f, Live(f))
  BY <1>1, <1>2, LiveIs, SumSame
<1>4. \A s \in Live(g) : RefOK(g, s)
  <2> SUFFICES ASSUME NEW s \in Live(g) PROVE RefOK(g, s)
    OBVIOUS
  <2>1. s \in Live(f) /\ s \in Slots /\ RefOK(f, s)
    BY <1>1, LiveIs DEF FileOK
  <2>2. EndOf(g, s) <= g.tab_used
    <3>1. EndOf(f, s) <= f.tab_used
      BY <2>1 DEF RefOK
    <3>2. EndOf(f, s) \in Nat
      BY <2>1, LiveRef
    <3>3. QED BY <1>2, <2>1, <3>1, <3>2, FileParts
  <2>3. QED BY <1>1, <2>1, <2>2 DEF RefOK
<1>5. \A s, r \in Live(g) : s # r => Apart(g, s, r)
  BY <1>1, <1>2, LiveIs DEF FileOK, Apart
<1>6. QED BY <1>1, <1>3, <1>4, <1>5 DEF FileOK

LEMMA MarkIs ==
  ASSUME NEW f \in Files, FileOK(f), NEW s \in Live(f), NEW g, g = MarkDeleted(f, s)
  PROVE  /\ g \in Files /\ FileOK(g)
         /\ g.fsize = f.fsize /\ g.tab_size = f.tab_size /\ g.tab_used = f.tab_used
         /\ Live(g) = Live(f) \ {s} /\ Holds(g, s) = NoRec
         /\ \A r \in Slots : r # s => Holds(g, r) = Holds(f, r)
<1>1. PICK pos \in Nat : pos = f.row[s].pos
  BY LiveRef
<1>2. pos > 0 /\ pos \in DOMAIN f.data /\ s \in Slots
  BY <1>1, LiveRef
<1>3. PICK len \in Nat : len = LenAt(f, s)
  BY LiveRef
<1>4. len = Size(f.data[pos])
  BY <1>1, <1>3 DEF LenAt, Size
<1>5. PICK d : d = [q \in DOMAIN f.data \ {pos} |-> f.data[q]]
  OBVIOUS
<1>6. d \in Datas /\ DOMAIN d = DOMAIN f.data \ {pos} /\ \A q \in DOMAIN d : d[q] = f.data[q]
  <2>1. \A q \in DOMAIN f.data \ {pos} : f.data[q] \in Recs /\ q \in Nat
    BY FileParts, DataIs
  <2>2. d \in [DOMAIN f.data \ {pos} -> Recs]
    BY <1>5, <2>1
  <2>3. DOMAIN f.data \ {pos} \in SUBSET Nat
    BY <2>1
  <2>4. d \in Datas
    BY <2>2, <2>3 DEF Datas
  <2>5. QED BY <1>5, <2>4
<1>7. g = [f EXCEPT !.data = d, !.tab_data_used = f.tab_data_used - len, !.tab_data_free = f.tab_data_free + len,
                    !.row[s] = NoRef, !.tab_refs_used = f.tab_refs_used - 1]
  BY <1>1, <1>4, <1>5 DEF MarkDeleted
<1>8. NoRef \in Refs /\ NoRef.pos = 0
  BY TabsAre DEF NoRef, Refs
<1>9. /\ g \in Files /\ g.fsize = f.fsize /\ g.tab_size = f.tab_size /\ g.tab_used = f.tab_used
      /\ g.data = d /\ g.tab_data_used = f.tab_data_used - len /\ g.tab_data_free = f.tab_data_free + len
      /\ g.row[s] = NoRef /\ \A r \in Slots : r # s => g.row[r] = f.row[r]
  <2>1. f.tab_data_used - len \in Int /\ f.tab_data_free + len \in Nat /\ f.tab_refs_used - 1 \in Int
    BY FileParts
  <2>2. PICK rw : rw = [f.row EXCEPT ![s] = NoRef]
    OBVIOUS
  <2>3. rw \in [Slots -> Refs] /\ rw[s] = NoRef /\ \A r \in Slots : r # s => rw[r] = f.row[r]
    BY <1>2, <1>8, <2>2 DEF Files
  <2>4. g = [f EXCEPT !.data = d, !.tab_data_used = f.tab_data_used - len, !.tab_data_free = f.tab_data_free + len,
                      !.row = rw, !.tab_refs_used = f.tab_refs_used - 1]
    BY <1>7, <2>2 DEF Files
  <2>5. QED BY <1>6, <2>1, <2>3, <2>4 DEF Files
<1>10. Live(g) = Live(f) \ {s}
  BY <1>2, <1>8, <1>9 DEF Live
<1>11. ASSUME NEW r \in Live(f), r # s
       PROVE  /\ r \in Slots /\ f.row[r].pos \in DOMAIN d /\ g.row[r] = f.row[r]
              /\ Holds(g, r) = Holds(f, r) /\ LenAt(g, r) = LenAt(f, r) /\ EndOf(g, r) = EndOf(f, r)
  <2>1. Apart(f, s, r)
    BY <1>11 DEF FileOK
  <2>2. /\ r \in Slots /\ f.row[r].pos \in Nat /\ f.row[r].pos \in DOMAIN f.data /\ LenAt(f, r) \in Nat
        /\ LenAt(f, r) > 0 /\ LenAt(f, s) > 0
    BY LiveRef
  <2>3. f.row[r].pos # pos
    BY <1>1, <1>3, <2>1, <2>2 DEF Apart, EndOf
  <2>4. f.row[r].pos \in DOMAIN d
    BY <1>6, <2>2, <2>3
  <2>5. g.row[r] = f.row[r] /\ g.data[g.row[r].pos] = f.data[f.row[r].pos]
    BY <1>6, <1>9, <1>11, <2>2, <2>4
  <2>6. QED BY <2>2, <2>4, <2>5 DEF Holds, LenAt, EndOf
<1>12. Holds(g, s) = NoRec
  BY <1>8, <1>9 DEF Holds
<1>13. \A r \in Slots : r # s => Holds(g, r) = Holds(f, r)
  <2> SUFFICES ASSUME NEW r \in Slots, r # s PROVE Holds(g, r) = Holds(f, r)
    OBVIOUS
  <2>1. CASE r \in Live(f)
    BY <1>11, <2>1
  <2>2. CASE r \notin Live(f)
    <3>1. f.row[r].pos = 0 /\ g.row[r].pos = 0
      BY <1>9, <2>2 DEF Live
    <3>2. QED BY <3>1 DEF Holds
  <2>3. QED BY <2>1, <2>2
<1>14. SumOf(g, Live(g)) = f.tab_data_used - len
  <2>1. IsFiniteSet(Live(f) \ {s}) /\ \A r \in Live(f) \ {s} : LenAt(g, r) = LenAt(f, r)
    BY <1>11, LiveIs, FS_Subset
  <2>2. SumOf(g, Live(g)) = SumOf(f, Live(f) \ {s})
    BY <1>10, <2>1, SumSame
  <2>3. \A r \in Live(f) : LenAt(f, r) \in Int
    BY LiveRef
  <2>4. SumOf(f, Live(f)) = SumOf(f, Live(f) \ {s}) + LenAt(f, s)
    BY <2>3, LiveIs, SumWithout
  <2>5. SumOf(f, Live(f) \ {s}) \in Int
    BY <2>1, <2>3, SumType
  <2>6. QED BY <1>3, <2>2, <2>4, <2>5 DEF FileOK
<1>15. SizesOK(g)
  <2>1. SizesOK(f) /\ EndOf(f, s) <= f.tab_used /\ EndOf(f, s) = pos + len
    BY <1>1, <1>3, LiveRef DEF FileOK, RefOK
  <2>2. f.tab_size # 0
    BY <1>2, <2>1, FileParts DEF SizesOK
  <2>3. Hdr \in Nat
    BY SizeAssumption
  <2>4. f.tab_used = Hdr + (f.tab_data_used - len) + (f.tab_data_free + len)
    BY <2>1, <2>2, <2>3, FileParts DEF SizesOK
  <2>5. QED BY <1>9, <2>1, <2>2, <2>4 DEF SizesOK
<1>16. \A r \in Live(g) : RefOK(g, r)
  <2> SUFFICES ASSUME NEW r \in Live(g) PROVE RefOK(g, r)
    OBVIOUS
  <2>1. r \in Live(f) /\ r # s /\ RefOK(f, r)
    BY <1>10 DEF FileOK
  <2>2. QED BY <1>9, <1>11, <2>1 DEF RefOK
<1>17. \A q, r \in Live(g) : q # r => Apart(g, q, r)
  <2> SUFFICES ASSUME NEW q \in Live(g), NEW r \in Live(g), q # r PROVE Apart(g, q, r)
    OBVIOUS
  <2>1. q \in Live(f) /\ r \in Live(f) /\ q # s /\ r # s /\ Apart(f, q, r)
    BY <1>10 DEF FileOK
  <2>2. QED BY <1>11, <2>1 DEF Apart
<1>18. FileOK(g)
  BY <1>9, <1>14, <1>15, <1>16, <1>17 DEF FileOK
<1>19. QED BY <1>9, <1>10, <1>12, <1>13, <1>18

(* The records of f with rec at the end of them: what AppendRec makes. *)
Longer(f, rec) == [q \in DOMAIN f.data \cup {f.tab_used} |-> IF q = f.tab_used THEN rec ELSE f.data[q]]

LEMMA AppendIs ==
  ASSUME NEW f \in Files, NEW rec \in Recs, NEW g, g = AppendRec(f, rec)
  PROVE  /\ g \in Files /\ g.fsize = f.fsize /\ g.tab_size = f.tab_size /\ g.tab_used = f.tab_used + rec.len
         /\ g.tab_data_free = f.tab_data_free /\ g.tab_data_used = f.tab_data_used + rec.len
         /\ g.row = f.row /\ g.data = Longer(f, rec)
<1>1. Longer(f, rec) \in Datas
  <2>1. \A q \in DOMAIN f.data \cup {f.tab_used} : q \in Nat /\ (q # f.tab_used => f.data[q] \in Recs)
    BY FileParts, DataIs
  <2>2. Longer(f, rec) \in [DOMAIN f.data \cup {f.tab_used} -> Recs]
    BY <2>1 DEF Longer
  <2>3. DOMAIN f.data \cup {f.tab_used} \in SUBSET Nat
    BY <2>1
  <2>4. QED BY <2>2, <2>3 DEF Datas
<1>2. f.tab_used + rec.len \in Nat /\ f.tab_data_used + rec.len \in Int /\ f.tab_refs_used + 1 \in Int
  BY FileParts, RecIs
<1>3. g = [f EXCEPT !.data = Longer(f, rec), !.tab_used = f.tab_used + rec.len,
                    !.tab_refs_used = f.tab_refs_used + 1, !.tab_data_used = f.tab_data_used + rec.len]
  BY DEF AppendRec, Longer, Size, Files
<1>4. QED BY <1>1, <1>2, <1>3 DEF Files

(* A sound file with one more record, at slot s. *)
LEMMA PutIs ==
  ASSUME NEW f \in Files, FileOK(f), NEW rec \in Recs, NEW s \in Slots, s \notin Live(f),
         f.tab_size # 0, f.tab_used + rec.len <= f.tab_size, HashRow(rec.key) = s[1],
         NEW g \in Files, g.fsize = f.fsize, g.tab_size = f.tab_size, g.tab_used = f.tab_used + rec.len,
         g.tab_data_free = f.tab_data_free, g.tab_data_used = f.tab_data_used + rec.len,
         g.data = Longer(f, rec), g.row[s] = [pos |-> f.tab_used, tab |-> HashTab2(rec.key)],
         \A r \in Slots : r # s => g.row[r] = f.row[r]
  PROVE  /\ FileOK(g) /\ Live(g) = Live(f) \cup {s} /\ Holds(g, s) = rec
         /\ \A r \in Slots : r # s => Holds(g, r) = Holds(f, r)
<1>1. PICK len \in Nat : len = rec.len
  BY RecIs
<1>2. PICK used \in Nat : used = f.tab_used
  BY FileParts
<1>3. len > 0 /\ Hdr \in Nat /\ Hdr > 0
  BY <1>1, RecIs, SizeAssumption
<1>4. SizesOK(f) /\ f.fsize \in Nat /\ f.tab_size \in Nat /\ f.tab_data_used \in Int /\ f.tab_data_free \in Nat
  BY FileParts DEF FileOK
<1>5. f.tab_data_used \in Nat
  <2>1. \A r \in Live(f) : LenAt(f, r) \in Nat
    BY LiveRef
  <2>2. SumOf(f, Live(f)) \in Nat
    BY <2>1, LiveIs, SumNat
  <2>3. QED BY <2>2 DEF FileOK
<1>6. used >= Hdr
  BY <1>2, <1>3, <1>4, <1>5 DEF SizesOK
<1>7. g.row[s].pos = used /\ g.row[s].pos # 0 /\ g.row[s].tab = HashTab2(rec.key)
  BY <1>2, <1>3, <1>6
<1>8. Live(g) = Live(f) \cup {s}
  BY <1>7 DEF Live
<1>9. g.data[used] = rec /\ used \in DOMAIN g.data
  BY <1>2 DEF Longer
<1>10. Holds(g, s) = rec /\ LenAt(g, s) = len /\ EndOf(g, s) = used + len
  BY <1>1, <1>7, <1>9 DEF Holds, LenAt, EndOf
<1>11. ASSUME NEW r \in Live(f)
       PROVE  /\ r \in Slots /\ r # s /\ g.row[r] = f.row[r] /\ f.row[r].pos \in DOMAIN g.data
              /\ Holds(g, r) = Holds(f, r) /\ LenAt(g, r) = LenAt(f, r) /\ EndOf(g, r) = EndOf(f, r)
              /\ EndOf(f, r) \in Nat /\ EndOf(f, r) <= used
  <2>1. /\ r \in Slots /\ f.row[r].pos \in Nat /\ f.row[r].pos \in DOMAIN f.data /\ LenAt(f, r) \in Nat
        /\ LenAt(f, r) > 0 /\ EndOf(f, r) = f.row[r].pos + LenAt(f, r) /\ RefOK(f, r)
    BY LiveRef DEF FileOK
  <2>2. f.row[r].pos # used /\ EndOf(f, r) <= used
    BY <1>2, <2>1 DEF RefOK
  <2>3. f.row[r].pos \in DOMAIN g.data /\ g.data[f.row[r].pos] = f.data[f.row[r].pos]
    BY <1>2, <2>1, <2>2 DEF Longer
  <2>4. QED BY <2>1, <2>2, <2>3 DEF Holds, LenAt, EndOf
<1>12. \A r \in Slots : r # s => Holds(g, r) = Holds(f, r)
  <2> SUFFICES ASSUME NEW r \in Slots, r # s PROVE Holds(g, r) = Holds(f, r)
    OBVIOUS
  <2>1. CASE r \in Live(f)
    BY <1>11, <2>1
  <2>2. CASE r \notin Live(f)
    <3>1. f.row[r].pos = 0 /\ g.row[r].pos = 0
      BY <2>2 DEF Live
    <3>2. QED BY <3>1 DEF Holds
  <2>3. QED BY <2>1, <2>2
<1>13. SumOf(g, Live(g)) = g.tab_data_used
  <2>1. IsFiniteSet(Live(g)) /\ IsFiniteSet(Live(f)) /\ s \in Live(g) /\ Live(g) \ {s} = Live(f)
    BY <1>8, LiveIs
  <2>2. \A r \in Live(g) : LenAt(g, r) \in Int
    BY <1>8, <1>10, <1>11, LiveRef
  <2>3. SumOf(g, Live(g)) = SumOf(g, Live(f)) + len
    BY <1>10, <2>1, <2>2, SumWithout
  <2>4. SumOf(g, Live(f)) = SumOf(f, Live(f))
    BY <1>11, <2>1, SumSame
  <2>5. QED BY <1>1, <2>3, <2>4 DEF FileOK
<1>14. SizesOK(g)
  <2>1. used + len = Hdr + (f.tab_data_used + len) + f.tab_data_free
    BY <1>2, <1>3, <1>4 DEF SizesOK
  <2>2. QED BY <1>1, <1>2, <1>4, <2>1 DEF SizesOK
<1>15. \A r \in Live(g) : RefOK(g, r)
  <2>1. RefOK(g, s)
    BY <1>1, <1>2, <1>6, <1>7, <1>9, <1>10 DEF RefOK
  <2>2. ASSUME NEW r \in Live(f) PROVE RefOK(g, r)
    <3>1. RefOK(f, r)
      BY DEF FileOK
    <3>2. EndOf(g, r) <= g.tab_used
      BY <1>1, <1>2, <1>11
    <3>3. QED BY <1>11, <3>1, <3>2 DEF RefOK
  <2>3. QED BY <1>8, <2>1, <2>2
<1>16. \A q, r \in Live(g) : q # r => Apart(g, q, r)
  <2> SUFFICES ASSUME NEW q \in Live(g), NEW r \in Live(g), q # r PROVE Apart(g, q, r)
    OBVIOUS
  <2>1. CASE q # s /\ r # s
    <3>1. q \in Live(f) /\ r \in Live(f) /\ Apart(f, q, r)
      BY <1>8, <2>1 DEF FileOK
    <3>2. QED BY <1>11, <3>1 DEF Apart
  <2>2. CASE q = s
    <3>1. r \in Live(f)
      BY <1>8, <2>2
    <3>2. QED BY <1>7, <1>11, <2>2, <3>1 DEF Apart
  <2>3. CASE r = s
    <3>1. q \in Live(f)
      BY <1>8, <2>3
    <3>2. QED BY <1>7, <1>11, <2>3, <3>1 DEF Apart
  <2>4. QED BY <2>1, <2>2, <2>3
<1>17. QED BY <1>8, <1>10, <1>12, <1>13, <1>14, <1>15, <1>16 DEF FileOK

(* Another value for the record at slot s: what Store makes. *)
Revalued(f, s, n) == [f EXCEPT !.data[f.row[s].pos].n = n]

LEMMA StoreIs ==
  ASSUME NEW f \in Files, FileOK(f), NEW s \in Live(f), NEW n \in Nums,
         NEW g, g = Revalued(f, s, n)
  PROVE  /\ g \in Files /\ FileOK(g) /\ g.fsize = f.fsize /\ g.tab_size = f.tab_size
         /\ Live(g) = Live(f) /\ Holds(g, s) = [Holds(f, s) EXCEPT !.n = n]
         /\ \A r \in Slots : r # s => Holds(g, r) = Holds(f, r)
<1>1. PICK pos \in DOMAIN f.data : pos = f.row[s].pos
  BY LiveRef
<1>2. PICK rec \in Recs : rec = f.data[pos]
  BY <1>1, LiveRef
<1>3. PICK new : new = [rec EXCEPT !.n = n]
  OBVIOUS
<1>4. new \in Recs /\ new.key = rec.key /\ new.len = rec.len
  BY <1>3 DEF Recs
<1>5. PICK d : d = [f.data EXCEPT ![pos] = new]
  OBVIOUS
<1>6. f.data = [q \in DOMAIN f.data |-> f.data[q]] /\ DOMAIN f.data \subseteq Nat /\ \A q \in DOMAIN f.data : f.data[q] \in Recs
  BY FileParts, DataIs
<1>7. DOMAIN d = DOMAIN f.data /\ d[pos] = new /\ \A q \in DOMAIN f.data : q # pos => d[q] = f.data[q]
  BY <1>1, <1>5, <1>6
<1>8. d \in Datas
  <2>1. d \in [DOMAIN f.data -> Recs]
    BY <1>1, <1>4, <1>5, <1>6
  <2>2. QED BY <1>6, <2>1 DEF Datas
<1>9. g = [f EXCEPT !.data = d]
  <2>1. [f.data EXCEPT ![pos].n = n] = d
    BY <1>1, <1>2, <1>3, <1>5, <1>6
  <2>2. g = [f EXCEPT !.data = [f.data EXCEPT ![pos].n = n]]
    BY <1>1 DEF Files, Revalued
  <2>3. QED BY <2>1, <2>2
<1>10. /\ g \in Files /\ g.fsize = f.fsize /\ g.tab_size = f.tab_size /\ g.tab_used = f.tab_used /\ g.data = d
       /\ g.tab_data_free = f.tab_data_free /\ g.tab_data_used = f.tab_data_used /\ g.row = f.row
  BY <1>8, <1>9 DEF Files
<1>11. Live(g) = Live(f)
  BY <1>10 DEF Live
<1>12. ASSUME NEW r \in Live(f)
       PROVE  /\ r \in Slots /\ g.row[r] = f.row[r] /\ f.row[r].pos \in DOMAIN g.data
              /\ LenAt(g, r) = LenAt(f, r) /\ EndOf(g, r) = EndOf(f, r)
              /\ Holds(g, r).key = Holds(f, r).key
              /\ Holds(g, r) = IF r = s THEN new ELSE Holds(f, r)
  <2>1. r \in Slots /\ f.row[r].pos \in Nat /\ f.row[r].pos \in DOMAIN f.data /\ LenAt(f, r) \in Nat /\ LenAt(f, r) > 0
    BY LiveRef
  <2>2. CASE r = s
    <3>1. g.row[r] = f.row[r] /\ f.row[r].pos = pos /\ g.data[pos] = new /\ f.data[pos] = rec /\ pos # 0
      BY <1>1, <1>2, <1>7, <1>10, <2>2, LiveRef
    <3>2. LenAt(g, r) = LenAt(f, r) /\ EndOf(g, r) = EndOf(f, r)
      BY <1>4, <3>1 DEF LenAt, EndOf
    <3>3. Holds(g, r) = new /\ Holds(f, r) = rec
      BY <3>1 DEF Holds
    <3>4. QED BY <1>1, <1>4, <1>7, <1>10, <2>1, <2>2, <3>1, <3>2, <3>3
  <2>3. CASE r # s
    <3>1. Apart(f, s, r) /\ LenAt(f, s) \in Nat /\ LenAt(f, s) > 0 /\ f.row[s].pos \in Nat
      BY <2>3, LiveRef DEF FileOK
    <3>2. f.row[r].pos # pos
      BY <1>1, <2>1, <3>1 DEF Apart, EndOf
    <3>3. d[f.row[r].pos] = f.data[f.row[r].pos]
      BY <1>7, <2>1, <3>2
    <3>4. QED BY <1>7, <1>10, <2>1, <2>3, <3>3 DEF LenAt, EndOf, Holds
  <2>4. QED BY <2>2, <2>3
<1>13. SumOf(g, Live(g)) = SumOf(f, Live(f))
  BY <1>11, <1>12, LiveIs, SumSame
<1>14. SizesOK(g)
  BY <1>10 DEF FileOK, SizesOK
<1>15. \A r \in Live(g) : RefOK(g, r)
  <2> SUFFICES ASSUME NEW r \in Live(f) PROVE RefOK(g, r)
    BY <1>11
  <2>1. RefOK(f, r)
    BY DEF FileOK
  <2>2. QED BY <1>10, <1>12, <2>1 DEF RefOK
<1>16. \A q, r \in Live(g) : q # r => Apart(g, q, r)
  <2> SUFFICES ASSUME NEW q \in Live(f), NEW r \in Live(f), q # r PROVE Apart(g, q, r)
    BY <1>11
  <2>1. Apart(f, q, r)
    BY DEF FileOK
  <2>2. QED BY <1>12, <2>1 DEF Apart
<1>17. FileOK(g)
  BY <1>10, <1>13, <1>14, <1>15, <1>16 DEF FileOK
<1>18. \A r \in Slots : r # s => Holds(g, r) = Holds(f, r)
  <2> SUFFICES ASSUME NEW r \in Slots, r # s PROVE Holds(g, r) = Holds(f, r)
    OBVIOUS
  <2>1. CASE r \in Live(f)
    BY <1>12, <2>1
  <2>2. CASE r \notin Live(f)
    <3>1. f.row[r].pos = 0 /\ g.row[r].pos = 0
      BY <1>10, <2>2 DEF Live
    <3>2. QED BY <3>1 DEF Holds
  <2>3. QED BY <2>1, <2>2
<1>19. Holds(g, s) = [Holds(f, s) EXCEPT !.n = n]
  <2>1. Holds(f, s) = rec
    BY <1>1, <1>2, LiveRef
  <2>2. Holds(g, s) = new
    BY <1>12
  <2>3. QED BY <1>3, <2>1, <2>2
<1>20. QED BY <1>10, <1>11, <1>17, <1>18, <1>19

(* A new file, and one that was just formatted or grown. *)
LEMMA NewFileIs ==
  /\ NewFile \in Files /\ FileOK(NewFile) /\ NewFile.tab_size = 0 /\ Live(NewFile) = {}
  /\ \A s \in Slots : Holds(NewFile, s) = NoRec
<1>1. NewFile \in Files
  <2>1. [s \in Slots |-> NoRef] \in [Slots -> Refs]
    BY TabsAre DEF Refs, NoRef
  <2>2. [pos \in {} |-> NoRec] \in Datas
    BY DEF Datas
  <2>3. QED BY <2>1, <2>2, SizeAssumption, ModPageIs DEF NewFile, Files
<1>2. /\ NewFile.tab_size = 0 /\ NewFile.tab_used = 0 /\ NewFile.tab_data_used = 0 /\ NewFile.tab_data_free = 0
      /\ NewFile.fsize = ModPage(Hdr) /\ \A s \in Slots : NewFile.row[s].pos = 0
  BY DEF NewFile, NoRef
<1>3. Live(NewFile) = {} /\ \A s \in Slots : Holds(NewFile, s) = NoRec
  BY <1>2 DEF Live, Holds
<1>4. SumOf(NewFile, {}) = 0
  BY FS_EmptySet, SumStep
<1>5. SizesOK(NewFile)
  <2>1. Hdr \in Nat /\ Hdr > 0
    BY SizeAssumption
  <2>2. QED BY <1>2, <2>1, ModPageIs DEF SizesOK
<1>6. QED BY <1>1, <1>2, <1>3, <1>4, <1>5 DEF FileOK

LEMMA FormatIs ==
  ASSUME NEW f \in Files, FileOK(f), f.tab_size = 0, NEW g, g = [f EXCEPT !.tab_size = f.fsize, !.tab_used = Hdr]
  PROVE  /\ g \in Files /\ FileOK(g) /\ g.fsize = f.fsize /\ g.tab_size = f.fsize /\ Live(g) = Live(f)
         /\ \A s \in Slots : Holds(g, s) = Holds(f, s)
<1>1. Hdr \in Nat /\ Hdr > 0 /\ f.fsize \in Nat /\ f.tab_used \in Nat
  BY SizeAssumption, FileParts
<1>2. /\ g \in Files /\ g.fsize = f.fsize /\ g.tab_size = f.fsize /\ g.tab_used = Hdr /\ g.data = f.data
      /\ g.tab_data_free = f.tab_data_free /\ g.tab_data_used = f.tab_data_used /\ g.row = f.row
  BY <1>1 DEF Files
<1>3. SizesOK(f)
  BY DEF FileOK
<1>4. SizesOK(g) /\ g.tab_used >= f.tab_used
  BY <1>1, <1>2, <1>3 DEF SizesOK
<1>5. QED BY <1>2, <1>4, SameRefs

Sized(f, size) == [f EXCEPT !.fsize = size, !.tab_size = size]

LEMMA GrownIs ==
  ASSUME NEW f \in Files, FileOK(f), f.tab_size # 0, NEW size \in Nat, size >= f.tab_size,
         NEW g, g = Sized(f, size)
  PROVE  /\ g \in Files /\ FileOK(g) /\ g.fsize = size /\ g.tab_size = size /\ g.tab_used = f.tab_used
         /\ Live(g) = Live(f) /\ \A s \in Slots : Holds(g, s) = Holds(f, s)
<1>1. /\ g \in Files /\ g.fsize = size /\ g.tab_size = size /\ g.tab_used = f.tab_used /\ g.data = f.data
      /\ g.tab_data_free = f.tab_data_free /\ g.tab_data_used = f.tab_data_used /\ g.row = f.row
  BY DEF Files, Sized
<1>2. SizesOK(f) /\ f.tab_used \in Nat /\ f.tab_size \in Nat /\ Page \in Nat /\ Hdr \in Nat
  BY FileParts, SizeAssumption DEF FileOK
<1>3. SizesOK(g) /\ g.tab_used >= f.tab_used
  BY <1>1, <1>2 DEF SizesOK
<1>4. QED BY <1>1, <1>3, SameRefs

-----------------------------------------------------------------------------
(* The parts of the state that a function on it leaves alone. *)

LEMMA WinParts ==
  ASSUME NEW w \in Wins, NEW p \in Procs, NEW t \in Tabs
  PROVE  /\ \A i \in Inodes : w.ino[t][i] \in Files
         /\ w.map[p][t] \in Maps /\ w.map[p][t].ino \in Inodes \cup {NotMapped} /\ w.map[p][t].size \in Nat
         /\ w.map[p][t] = [ino |-> w.map[p][t].ino, size |-> w.map[p][t].size]
         /\ w.count_mmap[p] \in Int /\ w.tabs[t] \in Tabs /\ w.tabs_used \in Nat
BY DEF Wins, Maps

OtherMaps(w, v, p, t) == \A q \in Procs, u \in Tabs : q # p \/ u # t => v.map[q][u] = w.map[q][u]
OtherFiles(w, v, t, i) == \A u \in Tabs, j \in Inodes : u # t \/ j # i => v.ino[u][j] = w.ino[u][j]
OtherCounts(w, v, p) == \A q \in Procs : q # p => v.count_mmap[q] = w.count_mmap[q]
SameTabs(w, v) == v.tabs = w.tabs /\ v.tabs_used = w.tabs_used

LEMMA SetFileIs ==
  ASSUME NEW w \in Wins, NEW t \in Tabs, NEW i \in Inodes, NEW f \in Files, NEW v, v = SetFile(w, t, i, f)
  PROVE  /\ v \in Wins /\ SameTabs(w, v) /\ OtherFiles(w, v, t, i)
         /\ v.map = w.map /\ v.count_mmap = w.count_mmap
         /\ v.ino[t][i] = f
<1>1. v \in Wins
  BY DEF SetFile, Wins
<1>2. OtherFiles(w, v, t, i)
  BY DEF SetFile, Wins, OtherFiles
<1>3. v.ino[t][i] = f
  BY DEF SetFile, Wins
<1>4. QED BY <1>1, <1>2, <1>3 DEF SetFile, Wins, SameTabs

LEMMA SetNameIs ==
  ASSUME NEW w \in Wins, NEW t \in Tabs, NEW f \in Files, NEW v, v = SetFile(w, t, 0, f)
  PROVE  /\ v \in Wins /\ SameTabs(w, v) /\ OtherFiles(w, v, t, 0)
         /\ v.map = w.map /\ v.count_mmap = w.count_mmap /\ v.ino[t][0] = f
BY SetFileIs, InodesAre

LEMMA SetMapIs ==
  ASSUME NEW w \in Wins, NEW p \in Procs, NEW t \in Tabs, NEW i \in Inodes \cup {NotMapped}, NEW size \in Nat,
         NEW v, v = SetMap(w, p, t, i, size)
  PROVE  /\ v \in Wins /\ SameTabs(w, v) /\ OtherMaps(w, v, p, t)
         /\ v.ino = w.ino /\ v.count_mmap = w.count_mmap
         /\ v.map[p][t].ino = i /\ v.map[p][t].size = size
<1>0. [ino |-> i, size |-> size] \in Maps
  BY DEF Maps
<1>1. v \in Wins
  BY <1>0 DEF SetMap, Wins
<1>2. OtherMaps(w, v, p, t)
  BY DEF SetMap, Wins, OtherMaps
<1>3. v.map[p][t] = [ino |-> i, size |-> size]
  BY DEF SetMap, Wins
<1>4. QED BY <1>1, <1>2, <1>3 DEF SetMap, Wins, SameTabs

LEMMA ReclaimIs ==
  ASSUME NEW w \in Wins, NEW v, v = Reclaim(w)
  PROVE  /\ v \in Wins /\ SameTabs(w, v) /\ v.map = w.map /\ v.count_mmap = w.count_mmap
         /\ \A t \in Tabs : v.ino[t][0] = w.ino[t][0]
         /\ \A t \in Tabs, p \in Procs : w.map[p][t].ino # NotMapped =>
              v.ino[t][w.map[p][t].ino] = w.ino[t][w.map[p][t].ino]
<1>1. \A t \in Tabs, i \in Inodes : v.ino[t][i] = IF i = 0 \/ i \in Mapped(w, t) THEN w.ino[t][i] ELSE NewFile
  BY DEF Reclaim, Wins
<1>2. v \in Wins
  <2>1. \A t \in Tabs, i \in Inodes : (IF i = 0 \/ i \in Mapped(w, t) THEN w.ino[t][i] ELSE NewFile) \in Files
    BY NewFileIs DEF Wins
  <2>2. [t \in Tabs |-> [i \in Inodes |->
           IF i = 0 \/ i \in Mapped(w, t) THEN w.ino[t][i] ELSE NewFile]] \in [Tabs -> [Inodes -> Files]]
    BY <2>1
  <2>3. QED BY <2>2 DEF Reclaim, Wins
<1>3. \A t \in Tabs, p \in Procs : w.map[p][t].ino # NotMapped =>
              w.map[p][t].ino \in Inodes /\ w.map[p][t].ino \in Mapped(w, t)
  BY DEF Mapped, Wins, Maps
<1>4. SameTabs(w, v) /\ v.map = w.map /\ v.count_mmap = w.count_mmap
  BY DEF Reclaim, Wins, SameTabs
<1>5. QED BY <1>1, <1>2, <1>3, <1>4, InodesAre

-----------------------------------------------------------------------------
(* SHF_GET_TAB_MMAP. *)

Same(f, g) == Live(g) = Live(f) /\ \A s \in Slots : Holds(g, s) = Holds(f, s)

(* Who has a file mapped has no more of it than there is, and who has an    *)
(* unlinked one is told so by its tab_size.                                 *)
MapAt(w, p, t) ==
  LET x == w.map[p][t]
  IN  /\ x.ino = NotMapped => x.size = 0
      /\ x.ino # NotMapped => /\ x.size >= Page /\ x.size <= w.ino[t][x.ino].fsize
                              /\ w.ino[t][0].tab_size # 0
      /\ x.ino \in Unlinked => w.ino[t][x.ino].tab_size = 1

MapOK(w) == \A p \in Procs, t \in Tabs : MapAt(w, p, t)

FilesOK(w) == \A t \in Tabs : FileOK(w.ino[t][0])

(* p has all of the current file of t mapped. *)
Opened(w, p, t) ==
  /\ w.map[p][t].ino = 0 /\ w.map[p][t].size = w.ino[t][0].tab_size /\ w.ino[t][0].tab_size # 0


LEMMA SoundSizes ==
  ASSUME NEW f \in Files, FileOK(f)
  PROVE  /\ f.tab_size # 0 => f.tab_size = f.fsize /\ f.tab_size # 1
         /\ f.fsize >= Page /\ f.fsize \in Nat /\ f.tab_size \in Nat /\ f.fsize # 0
<1>1. f.tab_size \in {0, f.fsize} /\ f.fsize >= Page
  BY DEF FileOK, SizesOK
<1>2. Page \in Nat /\ Page > 1
  BY SizeAssumption
<1>3. QED BY <1>1, <1>2, FileParts

LEMMA OpenedAt ==
  ASSUME NEW w \in Wins, NEW p \in Procs, NEW t \in Tabs, Opened(w, p, t), FileOK(w.ino[t][0])
  PROVE  MapAt(w, p, t)
<1>1. PICK b : b \in Files /\ b = w.ino[t][0]
  BY WinParts, InodesAre
<1>2. w.map[p][t].ino = 0 /\ w.map[p][t].size = b.tab_size /\ b.tab_size # 0 /\ FileOK(b)
  BY <1>1 DEF Opened
<1>3. b.tab_size = b.fsize /\ b.fsize >= Page /\ b.fsize \in Nat
  BY <1>1, <1>2, SoundSizes
<1>4. QED BY <1>1, <1>2, <1>3, InodesAre DEF MapAt

LEMMA KeptAt ==
  ASSUME NEW w \in Wins, NEW v, NEW p \in Procs, NEW t \in Tabs, MapAt(w, p, t), v.map[p][t] = w.map[p][t],
         \A j \in Inodes : v.ino[t][j].fsize = w.ino[t][j].fsize /\ v.ino[t][j].tab_size = w.ino[t][j].tab_size
  PROVE  MapAt(v, p, t)
<1>1. w.map[p][t].ino \in Inodes \cup {NotMapped}
  BY WinParts
<1>2. QED BY <1>1, InodesAre DEF MapAt

LEMMA GrewAt ==
  ASSUME NEW w \in Wins, NEW v \in Wins, NEW p \in Procs, NEW t \in Tabs, MapAt(w, p, t), v.map[p][t] = w.map[p][t],
         \A j \in Inodes : j # 0 => v.ino[t][j] = w.ino[t][j],
         v.ino[t][0].tab_size # 0, w.ino[t][0].fsize <= v.ino[t][0].fsize
  PROVE  MapAt(v, p, t)
<1>1. w.map[p][t].ino \in Inodes \cup {NotMapped} /\ w.map[p][t].size \in Nat
  BY WinParts
<1>2. w.ino[t][0].fsize \in Nat /\ v.ino[t][0].fsize \in Nat
  <2>1. w.ino[t][0] \in Files /\ v.ino[t][0] \in Files
    BY WinParts, InodesAre
  <2>2. QED BY <2>1, FileParts
<1>3. CASE w.map[p][t].ino = 0
  BY <1>1, <1>2, <1>3, InodesAre DEF MapAt
<1>4. CASE w.map[p][t].ino # 0
  BY <1>1, <1>4, InodesAre DEF MapAt
<1>5. QED BY <1>3, <1>4

(* A table that p has not mapped yet. *)
LEMMA GetTabFresh ==
  ASSUME NEW w \in Wins, NEW p \in Procs, NEW t \in Tabs, w.map[p][t].ino = NotMapped,
         FileOK(w.ino[t][0]), NEW g, g = GetTab(w, p, t)
  PROVE  /\ g \in Wins /\ SameTabs(w, g) /\ OtherMaps(w, g, p, t) /\ OtherFiles(w, g, t, 0)
         /\ OtherCounts(w, g, p) /\ g.count_mmap[p] = w.count_mmap[p] + 1
         /\ Opened(g, p, t) /\ FileOK(g.ino[t][0]) /\ g.ino[t][0].fsize = w.ino[t][0].fsize
         /\ Same(w.ino[t][0], g.ino[t][0])
<1>1. PICK f \in Files : f = w.ino[t][0]
  BY WinParts, InodesAre
<1>2. FileOK(f)
  BY <1>1
<1>3. PICK size \in Nat : size = f.fsize
  BY FileParts
<1>4. PICK a : a = SetMap(w, p, t, 0, size)
  OBVIOUS
<1>5. /\ a \in Wins /\ SameTabs(w, a) /\ a.ino = w.ino /\ a.count_mmap = w.count_mmap
      /\ a.map[p][t].ino = 0 /\ a.map[p][t].size = size /\ OtherMaps(w, a, p, t)
  BY <1>4, SetMapIs, InodesAre
<1>6. PICK b : b = [a EXCEPT !.count_mmap[p] = @ + 1]
  OBVIOUS
<1>7. /\ b \in Wins /\ SameTabs(w, b) /\ b.ino = w.ino /\ b.map = a.map
      /\ b.count_mmap[p] = w.count_mmap[p] + 1 /\ OtherCounts(w, b, p)
  <2>0. w.count_mmap[p] \in Int
    BY WinParts
  <2>1. a.count_mmap[p] + 1 \in Int
    BY <1>5, <2>0
  <2>2. b \in Wins
    BY <1>5, <1>6, <2>1 DEF Wins
  <2>3. QED BY <1>5, <1>6, <2>2 DEF Wins, OtherCounts, SameTabs
<1>8. MapIfUnmapped(w, p, t) = b
  BY <1>1, <1>3, <1>4, <1>6 DEF MapIfUnmapped, MapName
<1>9. PICK c : c = FormatIfNew(b, p, t)
  OBVIOUS
<1>10. File(b, p, t) = f /\ b.map[p][t].ino = 0 /\ b.map[p][t].size = size
  BY <1>1, <1>5, <1>7 DEF File
<1>11. /\ c \in Wins /\ SameTabs(w, c) /\ c.map = b.map /\ c.count_mmap = b.count_mmap
       /\ OtherFiles(w, c, t, 0) /\ FileOK(c.ino[t][0]) /\ c.ino[t][0].fsize = size /\ c.ino[t][0].tab_size = size
       /\ Same(f, c.ino[t][0])
  <2>1. CASE f.tab_size # 0
    <3>1. c = b
      BY <1>9, <1>10, <2>1 DEF FormatIfNew
    <3>2. f.tab_size = size
      BY <1>2, <1>3, <2>1, SoundSizes
    <3>3. QED BY <1>1, <1>2, <1>3, <1>7, <3>1, <3>2 DEF OtherFiles, Same, SameTabs
  <2>2. CASE f.tab_size = 0
    <3>1. PICK h : h = [f EXCEPT !.tab_size = f.fsize, !.tab_used = Hdr]
      OBVIOUS
    <3>2. h \in Files /\ FileOK(h) /\ h.fsize = size /\ h.tab_size = size /\ Same(f, h)
      BY <1>2, <1>3, <2>2, <3>1, FormatIs DEF Same
    <3>3. c = SetFile(b, t, 0, h)
      BY <1>3, <1>9, <1>10, <2>2, <3>1 DEF FormatIfNew
    <3>4. /\ c \in Wins /\ SameTabs(b, c) /\ OtherFiles(b, c, t, 0) /\ c.map = b.map
          /\ c.count_mmap = b.count_mmap /\ c.ino[t][0] = h
      BY <1>7, <3>2, <3>3, SetFileIs, InodesAre
    <3>5. SameTabs(w, c) /\ OtherFiles(w, c, t, 0)
      BY <1>7, <3>4 DEF OtherFiles, SameTabs
    <3>6. QED BY <3>2, <3>4, <3>5
  <2>3. QED BY <2>1, <2>2
<1>12. g = c
  <2>1. GetTab(w, p, t) = Follow(c, p, t)
    BY <1>8, <1>9 DEF GetTab
  <2>2. File(c, p, t).tab_size = c.map[p][t].size
    BY <1>10, <1>11 DEF File
  <2>3. QED BY <2>1, <2>2 DEF Follow
<1>13. size # 0
  BY <1>2, <1>3, SoundSizes
<1>14. SameTabs(w, g) /\ OtherCounts(w, g, p) /\ g.count_mmap[p] = w.count_mmap[p] + 1 /\ OtherMaps(w, g, p, t)
  BY <1>5, <1>7, <1>11, <1>12 DEF SameTabs, OtherCounts, OtherMaps
<1>15. Opened(g, p, t)
  BY <1>10, <1>11, <1>12, <1>13 DEF Opened
<1>16. QED BY <1>1, <1>3, <1>11, <1>12, <1>14, <1>15

LEMMA GetTabIs ==
  ASSUME NEW w \in Wins, MapOK(w), FilesOK(w), NEW p \in Procs, NEW t \in Tabs, NEW g, g = GetTab(w, p, t)
  PROVE  /\ g \in Wins /\ MapOK(g) /\ FilesOK(g) /\ SameTabs(w, g) /\ Opened(g, p, t)
         /\ OtherMaps(w, g, p, t) /\ OtherCounts(w, g, p)
         /\ g.count_mmap[p] = w.count_mmap[p] + (IF w.map[p][t].ino = NotMapped THEN 1 ELSE 0)
         /\ \A u \in Tabs : Same(w.ino[u][0], g.ino[u][0])
<1>1. PICK f \in Files : f = w.ino[t][0]
  BY WinParts, InodesAre
<1>2. FileOK(f) /\ f.fsize \in Nat /\ f.tab_size \in Nat /\ f.fsize >= Page
  BY <1>1, SoundSizes DEF FilesOK
<1>3. w.map[p][t].ino \in Inodes \cup {NotMapped} /\ w.map[p][t].size \in Nat /\ w.count_mmap[p] \in Int
  BY WinParts
<1>4. CASE w.map[p][t].ino = NotMapped
  <2>1. /\ g \in Wins /\ SameTabs(w, g) /\ OtherMaps(w, g, p, t) /\ OtherFiles(w, g, t, 0)
        /\ OtherCounts(w, g, p) /\ g.count_mmap[p] = w.count_mmap[p] + 1
        /\ Opened(g, p, t) /\ FileOK(g.ino[t][0]) /\ g.ino[t][0].fsize = w.ino[t][0].fsize
        /\ Same(w.ino[t][0], g.ino[t][0])
    BY <1>1, <1>2, <1>4, GetTabFresh
  <2>2. FilesOK(g) /\ \A u \in Tabs : Same(w.ino[u][0], g.ino[u][0])
    BY <2>1, InodesAre DEF FilesOK, OtherFiles, Same
  <2>3. MapOK(g)
    <3> SUFFICES ASSUME NEW q \in Procs, NEW u \in Tabs PROVE MapAt(g, q, u)
      BY DEF MapOK
    <3>1. CASE q = p /\ u = t
      <4>1. g.map[q][u].ino = 0 /\ g.map[q][u].size = g.ino[t][0].tab_size /\ g.ino[t][0].tab_size # 0
        BY <2>1, <3>1 DEF Opened
      <4>2. g.ino[t][0] \in Files /\ FileOK(g.ino[t][0])
        BY <2>1, WinParts, InodesAre
      <4>3. g.ino[t][0].tab_size = g.ino[t][0].fsize /\ g.ino[t][0].fsize >= Page /\ g.ino[t][0].fsize \in Nat
        BY <4>1, <4>2, SoundSizes
      <4>4. QED BY <3>1, <4>1, <4>3, InodesAre DEF MapAt
    <3>2. CASE ~(q = p /\ u = t)
      <4>1. g.map[q][u] = w.map[q][u] /\ w.map[q][u].ino \in Inodes \cup {NotMapped} /\ MapAt(w, q, u)
        BY <2>1, <3>2, WinParts DEF OtherMaps, MapOK
      <4>2. \A i \in Inodes : g.ino[u][i].fsize = w.ino[u][i].fsize /\ (i # 0 => g.ino[u][i] = w.ino[u][i])
        BY <2>1 DEF OtherFiles
      <4>3. w.ino[u][0].tab_size # 0 => g.ino[u][0].tab_size # 0
        BY <2>1, InodesAre DEF OtherFiles, Opened
      <4>4. QED BY <4>1, <4>2, <4>3, InodesAre DEF MapAt
    <3>3. QED BY <3>1, <3>2
  <2>4. QED BY <1>4, <2>1, <2>2, <2>3
<1>5. CASE w.map[p][t].ino = 0
  <2>1. f.tab_size # 0 /\ w.map[p][t].size >= Page /\ w.map[p][t].size <= f.fsize
    BY <1>1, <1>5, InodesAre DEF MapOK, MapAt
  <2>2. f.tab_size = f.fsize /\ f.tab_size # 1
    BY <1>2, <2>1, SoundSizes
  <2>3. MapIfUnmapped(w, p, t) = w /\ FormatIfNew(w, p, t) = w /\ File(w, p, t) = f
    BY <1>1, <1>5, <2>1, InodesAre DEF MapIfUnmapped, FormatIfNew, File
  <2>4. g = IF f.tab_size = w.map[p][t].size THEN w ELSE SetMap(w, p, t, 0, f.tab_size)
    BY <1>5, <2>2, <2>3 DEF GetTab, Follow
  <2>5. /\ g \in Wins /\ SameTabs(w, g) /\ OtherMaps(w, g, p, t) /\ g.count_mmap = w.count_mmap
        /\ g.ino = w.ino /\ g.map[p][t].ino = 0 /\ g.map[p][t].size = f.tab_size
    <3>1. CASE f.tab_size = w.map[p][t].size
      BY <1>5, <2>4, <3>1 DEF SameTabs, OtherMaps
    <3>2. CASE f.tab_size # w.map[p][t].size
      BY <1>2, <2>4, <3>2, SetMapIs, InodesAre
    <3>3. QED BY <3>1, <3>2
  <2>6. Opened(g, p, t) /\ FilesOK(g)
    BY <1>1, <2>1, <2>5 DEF Opened, FilesOK
  <2>7. MapOK(g)
    <3> SUFFICES ASSUME NEW q \in Procs, NEW u \in Tabs PROVE MapAt(g, q, u)
      BY DEF MapOK
    <3>1. CASE q = p /\ u = t
      BY <1>1, <1>2, <2>1, <2>2, <2>5, <3>1, InodesAre DEF MapAt
    <3>2. CASE ~(q = p /\ u = t)
      <4>1. g.map[q][u] = w.map[q][u] /\ g.ino = w.ino
        BY <2>5, <3>2 DEF OtherMaps
      <4>2. MapAt(w, q, u)
        BY DEF MapOK
      <4>3. QED BY <4>1, <4>2 DEF MapAt
    <3>3. QED BY <3>1, <3>2
  <2>8. QED BY <1>3, <1>5, <2>5, <2>6, <2>7, InodesAre DEF OtherCounts, Same
<1>6. CASE w.map[p][t].ino \in Unlinked
  <2>1. PICK i \in Unlinked : i = w.map[p][t].ino
    BY <1>6
  <2>2. w.ino[t][i].tab_size = 1 /\ w.map[p][t].size >= Page /\ f.tab_size # 0 /\ i # NotMapped
    BY <1>1, <2>1, InodesAre DEF MapOK, MapAt
  <2>3. Page \in Nat /\ Page > 1
    BY SizeAssumption
  <2>4. MapIfUnmapped(w, p, t) = w /\ FormatIfNew(w, p, t) = w /\ File(w, p, t).tab_size = 1
    BY <2>1, <2>2 DEF MapIfUnmapped, FormatIfNew, File
  <2>5. PICK a : a = SetMap(w, p, t, 0, f.fsize)
    OBVIOUS
  <2>6. g = Reclaim(a)
    BY <1>1, <1>3, <2>2, <2>3, <2>4, <2>5 DEF GetTab, Follow, MapName
  <2>7. /\ a \in Wins /\ SameTabs(w, a) /\ OtherMaps(w, a, p, t) /\ a.count_mmap = w.count_mmap
        /\ a.ino = w.ino /\ a.map[p][t].ino = 0 /\ a.map[p][t].size = f.fsize
    BY <1>2, <2>5, SetMapIs, InodesAre
  <2>8. /\ g \in Wins /\ SameTabs(w, g) /\ OtherMaps(w, g, p, t) /\ g.count_mmap = w.count_mmap
        /\ g.map = a.map /\ \A u \in Tabs : g.ino[u][0] = w.ino[u][0]
        /\ \A u \in Tabs, q \in Procs : a.map[q][u].ino # NotMapped =>
              g.ino[u][a.map[q][u].ino] = w.ino[u][a.map[q][u].ino]
    BY <2>6, <2>7, ReclaimIs DEF SameTabs, OtherMaps
  <2>9. f.tab_size = f.fsize
    BY <1>2, <2>2, SoundSizes
  <2>10. Opened(g, p, t) /\ FilesOK(g)
    BY <1>1, <2>2, <2>7, <2>8, <2>9 DEF Opened, FilesOK
  <2>11. MapOK(g)
    <3> SUFFICES ASSUME NEW q \in Procs, NEW u \in Tabs PROVE MapAt(g, q, u)
      BY DEF MapOK
    <3>1. CASE q = p /\ u = t
      BY <1>1, <1>2, <2>2, <2>7, <2>8, <2>9, <3>1, InodesAre DEF MapAt
    <3>2. CASE ~(q = p /\ u = t)
      <4>1. PICK i2 : i2 = w.map[q][u].ino
        OBVIOUS
      <4>2. g.map[q][u] = w.map[q][u] /\ a.map[q][u] = w.map[q][u] /\ MapAt(w, q, u)
        BY <2>7, <2>8, <3>2 DEF OtherMaps, MapOK
      <4>3. i2 # NotMapped => g.ino[u][i2] = w.ino[u][i2]
        BY <2>8, <4>1, <4>2
      <4>4. QED BY <2>8, <4>1, <4>2, <4>3, InodesAre DEF MapAt
    <3>3. QED BY <3>1, <3>2
  <2>12. QED BY <1>3, <1>6, <2>2, <2>1, <2>8, <2>10, <2>11, InodesAre DEF OtherCounts, Same
<1>7. QED BY <1>3, <1>4, <1>5, <1>6, InodesAre

-----------------------------------------------------------------------------
(* The loop of CopyRefs, one ref after the other. *)

Step(w, p, old, i, t, chosen, v, s) ==
  IF w.ino[old][i].row[s].pos # 0 /\ w.ino[old][i].row[s].tab \in chosen THEN RefCopy(v, p, old, i, t, s) ELSE v

Steps == DOMAIN SlotSeq
After(w, p, old, i, t, chosen, h, S) ==
  IF S = {} THEN w ELSE LET x == Max(S) IN Step(w, p, old, i, t, chosen, h[S \ {x}], SlotSeq[x])
Copies(w, p, old, i, t, chosen, h) == h = [S \in SUBSET Steps |-> After(w, p, old, i, t, chosen, h, S)]

LEMMA StepsAre == Steps = 1 .. Rows * RefsPerRow /\ Rows * RefsPerRow \in Nat /\ IsFiniteSet(Steps)
<1>1. Steps = 1 .. Rows * RefsPerRow
  BY DEF Steps, SlotSeq
<1>2. Rows * RefsPerRow \in Nat
  BY SizeAssumption
<1>3. \A b \in Int : IsFiniteSet(1 .. b)
  BY FS_Interval
<1>4. QED BY <1>1, <1>2, <1>3

LEMMA MaxIn ==
  ASSUME NEW S \in SUBSET Steps, S # {}
  PROVE  Max(S) \in S /\ \A y \in S : y <= Max(S)
<1>1. PICK N \in Nat : N = Rows * RefsPerRow
  BY StepsAre
<1>2. \A y \in S : y \in 1 .. N
  BY <1>1, StepsAre
<1> DEFINE T == {N - y : y \in S}
<1>3. T \subseteq Nat /\ T # {}
  BY <1>2
<1>4. PICK d \in T : \A e \in T : d <= e
  <2> HIDE DEF T
  <2> QED BY <1>3, LeastOf
<1>5. PICK x \in S : d = N - x
  OBVIOUS
<1>6. \A y \in S : x >= y
  <2> SUFFICES ASSUME NEW y \in S PROVE x >= y
    OBVIOUS
  <2>1. N - y \in T
    OBVIOUS
  <2>2. d <= N - y
    BY <1>4, <2>1
  <2>3. QED BY <1>2, <1>5, <2>2
<1>7. Max(S) \in S /\ \A y \in S : Max(S) >= y
  BY <1>6 DEF Max
<1>8. QED BY <1>2, <1>7

LEMMA AfterIs ==
  ASSUME NEW w, NEW p, NEW old, NEW i, NEW t, NEW chosen
  PROVE  /\ \A h : After(w, p, old, i, t, chosen, h, {}) = w
         /\ \A h, S : S # {} => After(w, p, old, i, t, chosen, h, S)
                                  = Step(w, p, old, i, t, chosen, h[S \ {Max(S)}], SlotSeq[Max(S)])
BY DEF After

LEMMA CopiesExist ==
  ASSUME NEW w, NEW p, NEW old, NEW i, NEW t, NEW chosen
  PROVE  \E h : Copies(w, p, old, i, t, chosen, h)
<1> DEFINE A(h, S) == After(w, p, old, i, t, chosen, h, S)
           G(v, x) == Step(w, p, old, i, t, chosen, v, SlotSeq[x])
           CF(n, h) == h = [S \in Few(Steps, n) |-> A(h, S)]
<1>0. \A S \in SUBSET Steps : IsFiniteSet(S) /\ Cardinality(S) \in Nat /\ Cardinality(S) <= Cardinality(Steps)
  BY StepsAre, FS_Subset, FS_CardinalityType
<1>a. (\A h : A(h, {}) = w) /\ \A h, S : S # {} => A(h, S) = G(h[S \ {Max(S)}], Max(S))
  BY AfterIs
<1> HIDE DEF A, G
<1> DEFINE T == {n \in Nat : ~ \E h : CF(n, h)}
<1>1. T = {}
  <2> SUFFICES ASSUME T # {} PROVE FALSE
    OBVIOUS
  <2>1. T \subseteq Nat
    OBVIOUS
  <2>2. PICK d \in T : \A e \in T : d <= e
    <3> HIDE DEF T
    <3> QED BY <2>1, LeastOf
  <2>3. d # 0
    <3> SUFFICES ASSUME d = 0 PROVE FALSE
      OBVIOUS
    <3>1. PICK h : h = [S \in Few(Steps, 0) |-> w]
      OBVIOUS
    <3>2. \A S \in Few(Steps, 0) : A(h, S) = w
      <4> SUFFICES ASSUME NEW S \in Few(Steps, 0) PROVE A(h, S) = w
        OBVIOUS
      <4>1. Cardinality(S) = 0 /\ IsFiniteSet(S)
        BY <1>0 DEF Few
      <4>2. S = {}
        BY <4>1, FS_EmptySet
      <4>3. QED BY <1>a, <4>2
    <3>3. CF(0, h)
      BY <3>1, <3>2
    <3>4. QED BY <3>3
  <2>4. d - 1 \in Nat /\ d - 1 \notin T
    BY <2>2, <2>3
  <2>5. PICK h : CF(d - 1, h)
    BY <2>4
  <2>6. PICK g : g = [S \in Few(Steps, d) |-> A(h, S)]
    OBVIOUS
  <2>7. \A S \in Few(Steps, d - 1) : S \in Few(Steps, d) /\ g[S] = h[S]
    <3>1. \A S \in Few(Steps, d - 1) : S \in Few(Steps, d)
      BY <1>0, <2>4 DEF Few
    <3>2. QED BY <2>5, <2>6, <3>1
  <2>8. \A S \in Few(Steps, d) : A(g, S) = A(h, S)
    <3> SUFFICES ASSUME NEW S \in Few(Steps, d), S # {} PROVE A(g, S) = A(h, S)
      BY <1>a
    <3>1. S \in SUBSET Steps /\ Cardinality(S) <= d
      BY DEF Few
    <3>2. PICK x \in S : x = Max(S)
      BY <3>1, MaxIn
    <3>3. S \ {x} \in SUBSET Steps /\ Cardinality(S) \in Nat /\ Cardinality(S \ {x}) = Cardinality(S) - 1
      <4>1. IsFiniteSet(Steps) /\ x \in S
        BY <3>2, StepsAre
      <4>2. QED BY <3>1, <4>1, Smaller
    <3>4. S \ {x} \in Few(Steps, d - 1)
      BY <2>4, <3>1, <3>3 DEF Few
    <3>5. g[S \ {x}] = h[S \ {x}]
      BY <2>7, <3>4
    <3>6. A(g, S) = G(g[S \ {x}], x) /\ A(h, S) = G(h[S \ {x}], x)
      BY ZenonT(40), <1>a, <3>2
    <3>7. QED BY <3>5, <3>6
  <2>9. CF(d, g)
    BY <2>6, <2>8
  <2>10. QED BY <2>9
<1>2. Cardinality(Steps) \in Nat
  BY StepsAre, FS_CardinalityType
<1>3. PICK h : CF(Cardinality(Steps), h)
  BY <1>1, <1>2
<1>4. Few(Steps, Cardinality(Steps)) = SUBSET Steps
  BY <1>0 DEF Few
<1>5. h = [S \in SUBSET Steps |-> A(h, S)]
  BY <1>3, <1>4
<1>6. QED BY <1>5 DEF Copies, A

(* The states of the loop: h[S] is the one after the steps S. *)
Loop(w, p, old, i, t, chosen, h) ==
  /\ CopyRefs(w, p, old, i, t, chosen) = h[Steps] /\ h[{}] = w
  /\ \A S \in SUBSET Steps : S # {} => Max(S) \in S /\
       h[S] = Step(w, p, old, i, t, chosen, h[S \ {Max(S)}], SlotSeq[Max(S)])

LEMMA CopyRefsIs ==
  ASSUME NEW w, NEW p, NEW old, NEW i, NEW t, NEW chosen
  PROVE  \E h : Loop(w, p, old, i, t, chosen, h)
<1>1. PICK h : h = CHOOSE g : Copies(w, p, old, i, t, chosen, g)
  OBVIOUS
<1>2. Copies(w, p, old, i, t, chosen, h)
  BY <1>1, CopiesExist
<1>3. CopyRefs(w, p, old, i, t, chosen) = h[Steps]
  <2>1. CopyRefs(w, p, old, i, t, chosen) = (CHOOSE g : Copies(w, p, old, i, t, chosen, g))[Steps]
    BY DEF CopyRefs, FoldLeft, MapThenFoldSet, Copies, After, Step, Steps
  <2>2. QED BY <1>1, <2>1
<1>4. \A S \in SUBSET Steps : h[S] = After(w, p, old, i, t, chosen, h, S)
  BY <1>2 DEF Copies
<1>5. h[{}] = w
  BY <1>4, AfterIs
<1>6. ASSUME NEW S \in SUBSET Steps, S # {}
      PROVE  Max(S) \in S /\ h[S] = Step(w, p, old, i, t, chosen, h[S \ {Max(S)}], SlotSeq[Max(S)])
  <2>1. Max(S) \in S
    BY <1>6, MaxIn
  <2>2. h[S] = After(w, p, old, i, t, chosen, h, S)
    BY <1>4
  <2>3. After(w, p, old, i, t, chosen, h, S) = Step(w, p, old, i, t, chosen, h[S \ {Max(S)}], SlotSeq[Max(S)])
    BY <1>6 DEF After
  <2>4. QED BY <2>1, <2>2, <2>3
<1>7. QED BY <1>3, <1>5, <1>6 DEF Loop

LEMMA DivMod ==
  ASSUME NEW n \in Nat, NEW c \in Nat, c > 0
  PROVE  n \div c \in Nat /\ n % c \in 0 .. c - 1 /\ n = c * (n \div c) + (n % c)
OBVIOUS

LEMMA DivModOnce ==
  ASSUME NEW c \in Nat, c > 0, NEW a \in Nat, NEW b \in Nat, NEW r \in 0 .. c - 1, NEW s \in 0 .. c - 1,
         c * a + r = c * b + s
  PROVE  a = b /\ r = s
<1>1. CASE a < b
  <2>1. c * b >= c * (a + 1)
    BY <1>1
  <2>2. c * (a + 1) = c * a + c
    OBVIOUS
  <2>3. QED BY <2>1, <2>2
<1>2. CASE b < a
  <2>1. c * a >= c * (b + 1)
    BY <1>2
  <2>2. c * (b + 1) = c * b + c
    OBVIOUS
  <2>3. QED BY <2>1, <2>2
<1>3. CASE a = b
  BY <1>3
<1>4. QED BY <1>1, <1>2, <1>3

(* SlotSeq comes across every slot, and across none twice. *)
LEMMA SlotSeqIs ==
  /\ \A k \in Steps : SlotSeq[k] \in Slots
  /\ \A j, k \in Steps : SlotSeq[j] = SlotSeq[k] => j = k
  /\ \A s \in Slots : \E k \in Steps : SlotSeq[k] = s
<1>1. PICK c \in Nat : c = RefsPerRow
  BY SizeAssumption
<1>2. PICK R \in Nat : R = Rows
  BY SizeAssumption
<1>3. c > 0 /\ R > 0 /\ Steps = 1 .. R * c
  BY <1>1, <1>2, SizeAssumption, StepsAre
<1>4. \A k \in Steps : SlotSeq[k] = <<(k - 1) \div c, (k - 1) % c>>
  BY <1>1, <1>2, <1>3 DEF SlotSeq
<1>5. Slots = (0 .. R - 1) \X (0 .. c - 1)
  BY <1>1, <1>2 DEF Slots
<1>6. ASSUME NEW k \in Steps
      PROVE  k - 1 \in Nat /\ (k - 1) \div c \in 0 .. R - 1 /\ (k - 1) % c \in 0 .. c - 1
             /\ k - 1 = c * ((k - 1) \div c) + ((k - 1) % c)
  <2>1. k - 1 \in Nat /\ k - 1 < R * c
    BY <1>3
  <2>2. PICK q \in Nat : q = (k - 1) \div c
    BY <1>3, <2>1, DivMod
  <2>3. PICK r \in 0 .. c - 1 : r = (k - 1) % c
    BY <1>3, <2>1, DivMod
  <2>4. k - 1 = c * q + r
    BY <1>3, <2>1, <2>2, <2>3, DivMod
  <2>5. q < R
    <3> SUFFICES ASSUME q >= R PROVE FALSE
      OBVIOUS
    <3>1. c * q >= c * R
      OBVIOUS
    <3>2. c * R = R * c
      OBVIOUS
    <3>3. QED BY <2>1, <2>3, <2>4, <3>1, <3>2
  <2>6. QED BY <2>1, <2>2, <2>3, <2>4, <2>5
<1>7. \A k \in Steps : SlotSeq[k] \in Slots
  <2> SUFFICES ASSUME NEW k \in Steps PROVE SlotSeq[k] \in Slots
    OBVIOUS
  <2>1. PICK a \in 0 .. R - 1, b \in 0 .. c - 1 : SlotSeq[k] = <<a, b>>
    <3>1. SlotSeq[k] = <<(k - 1) \div c, (k - 1) % c>>
      BY <1>4
    <3>2. (k - 1) \div c \in 0 .. R - 1 /\ (k - 1) % c \in 0 .. c - 1
      BY <1>6
    <3>3. QED BY ZenonT(40), <3>1, <3>2
  <2>2. QED BY <1>5, <2>1
<1>8. ASSUME NEW j \in Steps, NEW k \in Steps, SlotSeq[j] = SlotSeq[k] PROVE j = k
  <2>1. (j - 1) \div c = (k - 1) \div c /\ (j - 1) % c = (k - 1) % c
    BY <1>4, <1>8
  <2>2. j - 1 = k - 1
    BY <1>6, <2>1
  <2>3. j \in Int /\ k \in Int
    BY <1>3
  <2>4. QED BY <2>2, <2>3
<1>9. ASSUME NEW s \in Slots PROVE \E k \in Steps : SlotSeq[k] = s
  <2>1. PICK a \in 0 .. R - 1, b \in 0 .. c - 1 : s = <<a, b>>
    BY <1>5
  <2>2. PICK n \in Nat : n = c * a + b
    <3>1. c * a \in Nat
      OBVIOUS
    <3>2. QED BY <3>1
  <2>3. n < R * c
    <3>1. c * a <= c * (R - 1)
      OBVIOUS
    <3>2. c * (R - 1) = R * c - c
      OBVIOUS
    <3>3. QED BY <2>2, <3>1, <3>2
  <2>4. n + 1 \in Steps /\ (n + 1) - 1 = n
    BY <1>3, <2>3
  <2>5. n \div c \in Nat /\ n % c \in 0 .. c - 1 /\ n = c * (n \div c) + (n % c)
    BY <1>3, DivMod
  <2>6. n \div c = a /\ n % c = b
    BY <1>3, <2>2, <2>5, DivModOnce
  <2>7. SlotSeq[n + 1] = <<a, b>>
    BY <1>4, <2>4, <2>6
  <2>8. QED BY <2>1, <2>4, <2>7
<1>10. QED BY <1>7, <1>8, <1>9

-----------------------------------------------------------------------------
(* Appending to a table that p has open, and copying refs to it. *)

LEMMA GrowIs ==
  ASSUME NEW w \in Wins, NEW p \in Procs, NEW t \in Tabs, Opened(w, p, t), NEW f \in Files, f = w.ino[t][0], FileOK(f),
         NEW need \in Nat, need > 0, NEW v, v = Grow(w, p, t, need)
  PROVE  /\ v \in Wins /\ SameTabs(w, v) /\ OtherMaps(w, v, p, t) /\ OtherFiles(w, v, t, 0)
         /\ v.count_mmap = w.count_mmap /\ Opened(v, p, t) /\ File(v, p, t) = v.ino[t][0]
         /\ v.ino[t][0] \in Files /\ FileOK(v.ino[t][0]) /\ v.ino[t][0].tab_used = f.tab_used
         /\ f.tab_used + need <= v.ino[t][0].tab_size /\ Same(f, v.ino[t][0]) /\ f.fsize <= v.ino[t][0].fsize
<1>1. File(w, p, t) = f /\ w.map[p][t].ino = 0
  BY DEF File, Opened
<1>2. /\ f.tab_size \in Nat /\ f.tab_used \in Nat /\ f.tab_used <= f.tab_size /\ f.tab_size # 0
      /\ f.fsize \in Nat /\ f.fsize = f.tab_size
  BY FileParts, SoundSizes DEF Opened, FileOK, SizesOK
<1>3. CASE need <= f.tab_size - f.tab_used
  <2>1. v = w
    BY <1>1, <1>3 DEF Grow
  <2>2. QED BY <1>1, <1>2, <1>3, <2>1 DEF SameTabs, OtherMaps, OtherFiles, Same
<1>4. CASE ~(need <= f.tab_size - f.tab_used)
  <2>1. f.tab_size + need \in Nat /\ f.tab_size + need > 0
    BY <1>2
  <2>2. PICK size \in Nat : size = ModPage(f.tab_size + need)
    BY <2>1, ModPageIs
  <2>3. size >= f.tab_size + need
    BY <2>1, <2>2, ModPageIs
  <2>4. PICK g : g = Sized(f, size)
    OBVIOUS
  <2>5. size >= f.tab_size /\ f.tab_used + need <= size /\ size # 0
    BY <1>2, <2>3
  <2>6. /\ g \in Files /\ FileOK(g) /\ g.fsize = size /\ g.tab_size = size /\ g.tab_used = f.tab_used /\ Same(f, g)
    <3>1. /\ g \in Files /\ FileOK(g) /\ g.fsize = size /\ g.tab_size = size /\ g.tab_used = f.tab_used
          /\ Live(g) = Live(f) /\ \A s \in Slots : Holds(g, s) = Holds(f, s)
      BY <1>2, <2>2, <2>4, <2>5, GrownIs
    <3>2. QED BY <3>1 DEF Same
  <2>7. PICK a : a = SetFile(w, t, 0, g)
    OBVIOUS
  <2>8. /\ a \in Wins /\ SameTabs(w, a) /\ OtherFiles(w, a, t, 0) /\ a.map = w.map /\ a.count_mmap = w.count_mmap
        /\ a.ino[t][0] = g
    BY <2>6, <2>7, SetFileIs, InodesAre
  <2>9. v = SetMap(a, p, t, 0, size)
    BY <1>1, <1>4, <2>2, <2>4, <2>7 DEF Grow, Sized
  <2>10. /\ v \in Wins /\ SameTabs(a, v) /\ OtherMaps(a, v, p, t) /\ v.ino = a.ino /\ v.count_mmap = a.count_mmap
         /\ v.map[p][t].ino = 0 /\ v.map[p][t].size = size
    BY <2>8, <2>9, SetMapIs, InodesAre
  <2>11. SameTabs(w, v) /\ OtherMaps(w, v, p, t) /\ OtherFiles(w, v, t, 0)
    BY <2>8, <2>10 DEF SameTabs, OtherMaps, OtherFiles
  <2>12. Opened(v, p, t) /\ File(v, p, t) = v.ino[t][0] /\ v.ino[t][0] = g
    BY <2>5, <2>6, <2>8, <2>10 DEF Opened, File
  <2>13. f.fsize <= g.fsize
    BY <1>2, <2>5, <2>6
  <2>14. QED BY <2>5, <2>6, <2>8, <2>10, <2>11, <2>12, <2>13
<1>5. QED BY <1>3, <1>4

(* After SHF_TAB_APPEND the record is in the file but no ref leads to it; g *)
(* is the file before, long enough.                                         *)
LEMMA AppendedIs ==
  ASSUME NEW w \in Wins, NEW p \in Procs, NEW t \in Tabs, Opened(w, p, t), NEW f \in Files, f = w.ino[t][0], FileOK(f),
         NEW rec \in Recs, NEW v, v = Append_(w, p, t, rec)
  PROVE  \E g \in Files :
         /\ FileOK(g) /\ g.tab_used = f.tab_used /\ g.tab_used + rec.len <= g.tab_size /\ g.tab_size # 0 /\ Same(f, g)
         /\ f.fsize <= g.fsize
         /\ v \in Wins /\ SameTabs(w, v) /\ OtherMaps(w, v, p, t) /\ OtherFiles(w, v, t, 0)
         /\ v.count_mmap = w.count_mmap /\ v.map[p][t].ino = 0 /\ v.map[p][t].size = g.tab_size
         /\ v.ino[t][0] = AppendRec(g, rec)
<1>1. rec.len \in Nat /\ rec.len > 0
  BY RecIs
<1>2. PICK a : a = Grow(w, p, t, rec.len)
  OBVIOUS
<1>3. /\ a \in Wins /\ SameTabs(w, a) /\ OtherMaps(w, a, p, t) /\ OtherFiles(w, a, t, 0)
      /\ a.count_mmap = w.count_mmap /\ Opened(a, p, t) /\ File(a, p, t) = a.ino[t][0]
      /\ a.ino[t][0] \in Files /\ FileOK(a.ino[t][0]) /\ a.ino[t][0].tab_used = f.tab_used
      /\ f.tab_used + rec.len <= a.ino[t][0].tab_size /\ Same(f, a.ino[t][0]) /\ f.fsize <= a.ino[t][0].fsize
  BY <1>1, <1>2, GrowIs
<1>4. PICK g \in Files : g = a.ino[t][0]
  BY <1>3
<1>5. AppendRec(g, rec) \in Files
  BY AppendIs
<1>6. a.map[p][t].ino = 0 /\ a.map[p][t].size = g.tab_size /\ g.tab_size # 0
  BY <1>3, <1>4 DEF Opened
<1>7. v = SetFile(a, t, 0, AppendRec(g, rec))
  BY <1>2, <1>3, <1>4, <1>6 DEF Append_, Size
<1>8. /\ v \in Wins /\ SameTabs(a, v) /\ OtherFiles(a, v, t, 0) /\ v.map = a.map /\ v.count_mmap = a.count_mmap
      /\ v.ino[t][0] = AppendRec(g, rec)
  BY <1>3, <1>5, <1>7, SetFileIs, InodesAre
<1>9. SameTabs(w, v) /\ OtherMaps(w, v, p, t) /\ OtherFiles(w, v, t, 0)
  BY <1>3, <1>8 DEF SameTabs, OtherMaps, OtherFiles
<1>10. QED BY <1>3, <1>4, <1>6, <1>8, <1>9

(* What copying the slots D, from inode i of table old to table t, makes of w. *)
Copied(w, v, p, old, i, t, D) ==
  /\ v \in Wins /\ SameTabs(w, v) /\ OtherMaps(w, v, p, t) /\ v.count_mmap = w.count_mmap /\ Opened(v, p, t)
  /\ \A u \in Tabs, j \in Inodes : (u # old \/ j # i) /\ (u # t \/ j # 0) => v.ino[u][j] = w.ino[u][j]
  /\ FileOK(v.ino[old][i]) /\ FileOK(v.ino[t][0])
  /\ v.ino[old][i].fsize = w.ino[old][i].fsize /\ v.ino[old][i].tab_size = w.ino[old][i].tab_size
  /\ \A s \in Slots : /\ Holds(v.ino[old][i], s) = IF s \in D THEN NoRec ELSE Holds(w.ino[old][i], s)
                      /\ Holds(v.ino[t][0], s) = IF s \in D THEN Holds(w.ino[old][i], s) ELSE NoRec

Elsewhere(old, i, t) == old # t \/ i # 0

LEMMA RefCopyIs ==
  ASSUME NEW w \in Wins, NEW v, NEW p \in Procs, NEW old \in Tabs, NEW i \in Inodes, NEW t \in Tabs,
         Elsewhere(old, i, t), NEW D \in SUBSET Slots, Copied(w, v, p, old, i, t, D),
         NEW s \in Slots, s \notin D, Holds(w.ino[old][i], s) # NoRec,
         NEW c, c = RefCopy(v, p, old, i, t, s)
  PROVE  Copied(w, c, p, old, i, t, D \cup {s})
<1>1. v \in Wins /\ Opened(v, p, t)
  BY DEF Copied
<1>2. PICK f : f \in Files /\ f = v.ino[t][0]
  BY <1>1, WinParts, InodesAre
<1>3. PICK e : e \in Files /\ e = v.ino[old][i]
  BY <1>1, WinParts
<1>4. f \in Files /\ e \in Files /\ FileOK(f) /\ FileOK(e) /\ Holds(f, s) = NoRec /\ Holds(e, s) = Holds(w.ino[old][i], s)
  BY <1>2, <1>3 DEF Copied
<1>5. s \notin Live(f) /\ s \in Live(e)
  BY <1>4, HoldsLive
<1>6. PICK rec : rec \in Recs /\ rec = Holds(e, s)
  BY <1>4, <1>5, LiveRef
<1>7. rec = e.data[e.row[s].pos] /\ e.row[s].tab = HashTab2(rec.key) /\ HashRow(rec.key) = s[1]
  BY <1>4, <1>5, <1>6, LiveRef, HoldsLive
<1>8. PICK a : a = Append_(v, p, t, rec)
  OBVIOUS
<1>9. PICK g :
        /\ g \in Files /\ FileOK(g) /\ g.tab_used = f.tab_used /\ g.tab_used + rec.len <= g.tab_size /\ g.tab_size # 0 /\ Same(f, g)
        /\ a \in Wins /\ SameTabs(v, a) /\ OtherMaps(v, a, p, t) /\ OtherFiles(v, a, t, 0)
        /\ a.count_mmap = v.count_mmap /\ a.map[p][t].ino = 0 /\ a.map[p][t].size = g.tab_size
        /\ a.ino[t][0] = AppendRec(g, rec)
  BY <1>1, <1>2, <1>4, <1>6, <1>8, AppendedIs
<1>10. a.ino[old][i] = e
  BY <1>3, <1>9 DEF OtherFiles, Elsewhere
<1>11. PICK k : k = MarkDeleted(e, s)
  OBVIOUS
<1>12. /\ k \in Files /\ FileOK(k) /\ k.fsize = e.fsize /\ k.tab_size = e.tab_size
       /\ Holds(k, s) = NoRec /\ \A r \in Slots : r # s => Holds(k, r) = Holds(e, r)
  BY <1>4, <1>5, <1>11, MarkIs
<1>13. PICK b : b = SetFile(a, old, i, k)
  OBVIOUS
<1>14. /\ b \in Wins /\ SameTabs(a, b) /\ OtherFiles(a, b, old, i) /\ b.map = a.map /\ b.count_mmap = a.count_mmap
       /\ b.ino[old][i] = k
  BY <1>9, <1>12, <1>13, SetFileIs
<1>15. PICK h : h = AppendRec(g, rec)
  OBVIOUS
<1>16. /\ h \in Files /\ h.fsize = g.fsize /\ h.tab_size = g.tab_size /\ h.tab_used = g.tab_used + rec.len
       /\ h.tab_data_free = g.tab_data_free /\ h.tab_data_used = g.tab_data_used + rec.len
       /\ h.row = g.row /\ h.data = Longer(g, rec)
  BY <1>6, <1>9, <1>15, AppendIs
<1>17. File(b, p, t) = h /\ b.map[p][t].ino = 0 /\ b.ino[t][0] = h
  BY <1>9, <1>14, <1>15, InodesAre DEF File, OtherFiles, Elsewhere
<1>18. PICK ref : ref = [pos |-> g.tab_used, tab |-> HashTab2(rec.key)]
  OBVIOUS
<1>19. ref \in Refs
  BY <1>6, <1>9, <1>18, FileParts, RecIs DEF Refs
<1>20. PICK l : l = AddRef(h, s, ref)
  OBVIOUS
<1>21. /\ l \in Files /\ l.fsize = h.fsize /\ l.tab_size = h.tab_size /\ l.tab_used = h.tab_used
       /\ l.tab_data_free = h.tab_data_free /\ l.tab_data_used = h.tab_data_used
       /\ l.data = h.data /\ l.row[s] = ref /\ \A r \in Slots : r # s => l.row[r] = h.row[r]
  <2>1. h.tab_refs_used + 1 \in Int
    BY <1>16, FileParts
  <2>2. PICK rw : rw = [h.row EXCEPT ![s] = ref]
    OBVIOUS
  <2>3. rw \in [Slots -> Refs] /\ rw[s] = ref /\ \A r \in Slots : r # s => rw[r] = h.row[r]
    BY <1>16, <1>19, <2>2 DEF Files
  <2>4. l = [h EXCEPT !.row = rw, !.tab_refs_used = h.tab_refs_used + 1]
    BY <1>16, <1>20, <2>2 DEF AddRef, Files
  <2>5. QED BY <1>16, <2>1, <2>3, <2>4 DEF Files
<1>22. c = SetFile(b, t, 0, l)
  <2>1. File(v, p, t) = f
    BY <1>1, <1>2 DEF File, Opened
  <2>2. [pos |-> File(v, p, t).tab_used, tab |-> v.ino[old][i].row[s].tab] = ref
    BY <1>3, <1>7, <1>9, <1>18, <2>1
  <2>3. Append_(v, p, t, v.ino[old][i].data[v.ino[old][i].row[s].pos]) = a
    BY <1>3, <1>7, <1>8
  <2>4. SetFile(a, old, i, MarkDeleted(a.ino[old][i], s)) = b
    BY <1>10, <1>11, <1>13
  <2>5. QED BY <1>17, <1>20, <2>2, <2>3, <2>4 DEF RefCopy
<1>23. /\ c \in Wins /\ SameTabs(b, c) /\ OtherFiles(b, c, t, 0) /\ c.map = b.map /\ c.count_mmap = b.count_mmap
       /\ c.ino[t][0] = l
  <2>1. b \in Wins /\ l \in Files /\ t \in Tabs
    BY <1>14, <1>21
  <2>2. QED BY <1>22, <2>1, SetNameIs
<1>24. s \notin Live(g)
  BY <1>5, <1>9 DEF Same
<1>25. FileOK(l) /\ Holds(l, s) = rec /\ \A r \in Slots : r # s => Holds(l, r) = Holds(g, r)
  BY <1>6, <1>7, <1>9, <1>16, <1>18, <1>21, <1>24, PutIs
<1>26. c.ino[old][i] = k
  BY <1>14, <1>23 DEF OtherFiles, Elsewhere
<1>27. SameTabs(w, c) /\ OtherMaps(w, c, p, t) /\ c.count_mmap = w.count_mmap /\ Opened(c, p, t)
  <2>1. SameTabs(w, v) /\ OtherMaps(w, v, p, t) /\ v.count_mmap = w.count_mmap
    BY DEF Copied
  <2>2. SameTabs(w, c) /\ c.count_mmap = w.count_mmap
    BY <1>9, <1>14, <1>23, <2>1 DEF SameTabs
  <2>3. OtherMaps(w, c, p, t)
    BY <1>9, <1>14, <1>23, <2>1 DEF OtherMaps
  <2>4. Opened(c, p, t)
    BY <1>9, <1>14, <1>16, <1>21, <1>23 DEF Opened
  <2>5. QED BY <2>2, <2>3, <2>4
<1>28. ASSUME NEW u \in Tabs, NEW j \in Inodes, u # old \/ j # i, u # t \/ j # 0
       PROVE  c.ino[u][j] = w.ino[u][j]
  <2>1. v.ino[u][j] = w.ino[u][j]
    BY <1>28 DEF Copied
  <2>2. QED BY <1>9, <1>14, <1>23, <1>28, <2>1 DEF OtherFiles
<1>29. k.fsize = w.ino[old][i].fsize /\ k.tab_size = w.ino[old][i].tab_size
  BY <1>3, <1>12 DEF Copied
<1>30. ASSUME NEW r \in Slots
       PROVE  /\ Holds(k, r) = IF r \in D \cup {s} THEN NoRec ELSE Holds(w.ino[old][i], r)
              /\ Holds(l, r) = IF r \in D \cup {s} THEN Holds(w.ino[old][i], r) ELSE NoRec
  <2>1. /\ Holds(e, r) = IF r \in D THEN NoRec ELSE Holds(w.ino[old][i], r)
        /\ Holds(f, r) = IF r \in D THEN Holds(w.ino[old][i], r) ELSE NoRec
    BY <1>2, <1>3 DEF Copied
  <2>2. Holds(g, r) = Holds(f, r)
    BY <1>9 DEF Same
  <2>3. CASE r = s
    BY <1>4, <1>6, <1>12, <1>25, <2>3
  <2>4. CASE r # s
    BY <1>12, <1>25, <2>1, <2>2, <2>4
  <2>5. QED BY <2>3, <2>4
<1>31. QED BY <1>12, <1>23, <1>25, <1>26, <1>27, <1>28, <1>29, <1>30 DEF Copied

(* The refs that CopyRefs takes out of file f, and those among the first n. *)
Taken(f, chosen) == {s \in Live(f) : f.row[s].tab \in chosen}
TakenBy(f, chosen, n) == {s \in Taken(f, chosen) : \E k \in 1 .. n : s = SlotSeq[k]}

LEMMA CopyRefsDone ==
  ASSUME NEW w \in Wins, NEW p \in Procs, NEW old \in Tabs, NEW i \in Inodes, NEW t \in Tabs,
         Elsewhere(old, i, t), Opened(w, p, t), NEW f, f = w.ino[old][i], FileOK(f),
         FileOK(w.ino[t][0]), Live(w.ino[t][0]) = {}, NEW chosen, NEW c, c = CopyRefs(w, p, old, i, t, chosen)
  PROVE  Copied(w, c, p, old, i, t, Taken(f, chosen))
<1>1. PICK h : Loop(w, p, old, i, t, chosen, h)
  BY CopyRefsIs
<1>2. PICK N \in Nat : N = Rows * RefsPerRow
  BY StepsAre
<1>3. Steps = 1 .. N
  BY <1>2, StepsAre
<1>4. f \in Files /\ Live(f) \subseteq Slots
  <2>1. f \in Files
    BY WinParts
  <2>2. QED BY <2>1, LiveIs
<1> DEFINE T == {n \in 0 .. N : ~Copied(w, h[1 .. n], p, old, i, t, TakenBy(f, chosen, n))}
<1>5. T = {}
  <2> SUFFICES ASSUME T # {} PROVE FALSE
    OBVIOUS
  <2>1. T \subseteq Nat
    OBVIOUS
  <2>2. PICK n \in T : \A e \in T : n <= e
    <3> HIDE DEF T
    <3> QED BY <2>1, LeastOf
  <2>3. n \in 0 .. N /\ ~Copied(w, h[1 .. n], p, old, i, t, TakenBy(f, chosen, n))
    OBVIOUS
  <2>4. n # 0
    <3> SUFFICES ASSUME n = 0 PROVE FALSE
      OBVIOUS
    <3>1. 1 .. 0 = {} /\ TakenBy(f, chosen, 0) = {}
      BY DEF TakenBy
    <3>2. \A s \in Slots : Holds(w.ino[t][0], s) = NoRec
      <4>1. w.ino[t][0] \in Files
        BY WinParts, InodesAre
      <4>2. QED BY <4>1, HoldsLive
    <3>3. Copied(w, w, p, old, i, t, {})
      BY <3>2 DEF Copied, SameTabs, OtherMaps
    <3>4. QED BY <1>1, <2>3, <3>1, <3>3 DEF Loop
  <2>5. n - 1 \in 0 .. N /\ n - 1 \notin T
    BY <2>2, <2>3, <2>4
  <2>6. PICK v : v = h[1 .. (n - 1)]
    OBVIOUS
  <2>7. Copied(w, v, p, old, i, t, TakenBy(f, chosen, n - 1))
    BY <2>5, <2>6
  <2>8. PICK S : S = 1 .. n
    OBVIOUS
  <2>9. S \in SUBSET Steps /\ S # {} /\ n \in S
    <3>1. n \in Nat /\ n >= 1 /\ n <= N
      BY <2>3, <2>4
    <3>2. \A k \in 1 .. n : k \in 1 .. N
      BY <3>1
    <3>3. n \in 1 .. n
      BY <3>1
    <3>4. QED BY <1>3, <2>8, <3>2, <3>3
  <2>10. Max(S) = n
    <3>1. Max(S) \in S /\ n <= Max(S)
      BY <2>9, MaxIn
    <3>2. QED BY <2>3, <2>8, <3>1
  <2>11. S \ {n} = 1 .. (n - 1)
    BY <2>3, <2>4, <2>8
  <2>12. PICK s : s = SlotSeq[n]
    OBVIOUS
  <2>13. s \in Slots /\ n \in Steps
    BY <2>9, <2>12, SlotSeqIs
  <2>14. h[S] = Step(w, p, old, i, t, chosen, v, s)
    BY <1>1, <2>6, <2>9, <2>10, <2>11, <2>12 DEF Loop
  <2>15. s \notin TakenBy(f, chosen, n - 1)
    <3> SUFFICES ASSUME s \in TakenBy(f, chosen, n - 1) PROVE FALSE
      OBVIOUS
    <3>1. PICK k \in 1 .. (n - 1) : s = SlotSeq[k]
      BY DEF TakenBy
    <3>2. k \in Steps /\ k # n
      BY <1>3, <2>3
    <3>3. QED BY <2>12, <2>13, <3>1, <3>2, SlotSeqIs
  <2>16. TakenBy(f, chosen, n) = TakenBy(f, chosen, n - 1) \cup ({s} \cap Taken(f, chosen))
    <3>1. \A k \in 1 .. n : k \in 1 .. (n - 1) \/ k = n
      BY <2>3
    <3>2. (\A k \in 1 .. (n - 1) : k \in 1 .. n) /\ n \in 1 .. n
      BY <2>3, <2>4
    <3>3. QED BY <2>12, <3>1, <3>2 DEF TakenBy
  <2>17. TakenBy(f, chosen, n - 1) \in SUBSET Slots
    BY <1>4 DEF TakenBy, Taken
  <2>18. CASE s \in Taken(f, chosen)
    <3>1. Holds(f, s) # NoRec /\ f.row[s].pos # 0 /\ f.row[s].tab \in chosen
      BY <1>4, <2>13, <2>18, HoldsLive DEF Taken
    <3>2. h[S] = RefCopy(v, p, old, i, t, s)
      BY <2>14, <3>1 DEF Step
    <3>3. Copied(w, h[S], p, old, i, t, TakenBy(f, chosen, n - 1) \cup {s})
      BY <2>7, <2>13, <2>15, <2>17, <3>1, <3>2, RefCopyIs
    <3>4. TakenBy(f, chosen, n) = TakenBy(f, chosen, n - 1) \cup {s}
      BY <2>16, <2>18
    <3>5. QED BY <2>3, <2>8, <3>3, <3>4
  <2>19. CASE s \notin Taken(f, chosen)
    <3>1. ~(f.row[s].pos # 0 /\ f.row[s].tab \in chosen)
      BY <2>13, <2>19 DEF Taken, Live
    <3>2. h[S] = v
      BY <2>14, <3>1 DEF Step
    <3>3. TakenBy(f, chosen, n) = TakenBy(f, chosen, n - 1)
      BY <2>16, <2>19
    <3>4. QED BY <2>3, <2>7, <2>8, <3>2, <3>3
  <2>20. QED BY <2>18, <2>19
<1>6. Copied(w, h[1 .. N], p, old, i, t, TakenBy(f, chosen, N))
  <2>1. N \in 0 .. N
    OBVIOUS
  <2>2. QED BY <1>5, <2>1
<1>7. TakenBy(f, chosen, N) = Taken(f, chosen)
  <2>1. \A s \in Taken(f, chosen) : \E k \in 1 .. N : s = SlotSeq[k]
    BY <1>3, <1>4, SlotSeqIs DEF Taken
  <2>2. QED BY <2>1 DEF TakenBy
<1>8. QED BY <1>1, <1>3, <1>6, <1>7 DEF Loop

-----------------------------------------------------------------------------
(* shf_tab_shrink. *)

LEMMA FreeInodeIs ==
  ASSUME NEW w \in Wins, NEW p \in Procs, NEW t \in Tabs, w.map[p][t].ino = 0
  PROVE  FreeInode(w, t) \in Unlinked /\ \A q \in Procs : w.map[q][t].ino # FreeInode(w, t)
<1> DEFINE Others == Procs \ {p}
           F == [i \in Unlinked |-> CHOOSE q \in Others : w.map[q][t].ino = i]
<1>1. IsFiniteSet(Procs)
  BY SizeAssumption
<1>2. PICK n \in Nat : n = Cardinality(Procs)
  BY <1>1, FS_CardinalityType
<1>3. IsFiniteSet(Others) /\ Cardinality(Others) = n - 1
  BY <1>1, <1>2, FS_RemoveElement
<1>4. IsFiniteSet(Unlinked) /\ Cardinality(Unlinked) = n
  <2>1. \A b \in Int : IsFiniteSet(1 .. b) /\ Cardinality(1 .. b) = IF 1 > b THEN 0 ELSE b - 1 + 1
    BY FS_Interval
  <2>2. QED BY <1>2, <2>1 DEF Unlinked
<1>5. Unlinked \ Mapped(w, t) # {}
  <2> SUFFICES ASSUME Unlinked \ Mapped(w, t) = {} PROVE FALSE
    OBVIOUS
  <2>1. \A i \in Unlinked : \E q \in Others : w.map[q][t].ino = i
    BY InodesAre DEF Mapped
  <2>2. \A i \in Unlinked : F[i] \in Others /\ w.map[F[i]][t].ino = i
    BY <2>1
  <2>3. F \in [Unlinked -> Others]
    BY <2>2
  <2>4. Cardinality(Others) < Cardinality(Unlinked)
    BY <1>3, <1>4
  <2> HIDE DEF F, Others
  <2>5. \E i, j \in Unlinked : i # j /\ F[i] = F[j]
    BY <1>3, <1>4, <2>3, <2>4, FS_PigeonHole
  <2>6. QED BY <2>2, <2>5
<1>6. FreeInode(w, t) \in Unlinked \ Mapped(w, t)
  BY <1>5, InodesAre, MinIn DEF FreeInode
<1>7. QED BY <1>6 DEF Mapped

(* What p has done to the mappings of t before it creates the file anew. *)
Dropped(w, p, t) == [Unlink(w, t) EXCEPT !.map[p][t].ino = NotMapped]

LEMMA DroppedIs ==
  ASSUME NEW w \in Wins, NEW p \in Procs, NEW t \in Tabs, w.map[p][t].ino = 0,
         NEW i, i = FreeInode(w, t), NEW v, v = Dropped(w, p, t)
  PROVE  /\ i \in Unlinked /\ \A q \in Procs : w.map[q][t].ino # i
         /\ v \in Wins /\ SameTabs(w, v) /\ v.count_mmap = w.count_mmap
         /\ OtherFiles(w, v, t, i) /\ v.ino[t][i] = w.ino[t][0]
         /\ v.map[p][t].ino = NotMapped
         /\ \A q \in Procs, u \in Tabs : u # t => v.map[q][u] = w.map[q][u]
         /\ \A q \in Procs : q # p =>
              /\ v.map[q][t].size = w.map[q][t].size
              /\ v.map[q][t].ino = IF w.map[q][t].ino = 0 THEN i ELSE w.map[q][t].ino
<1>1. i \in Unlinked /\ (\A q \in Procs : w.map[q][t].ino # i) /\ i \in Inodes
  BY FreeInodeIs, InodesAre
<1>2. PICK f : f \in Files /\ f = w.ino[t][0]
  BY WinParts, InodesAre
<1>3. PICK a : a = SetFile(w, t, i, f)
  OBVIOUS
<1>4. a \in Wins /\ SameTabs(w, a) /\ OtherFiles(w, a, t, i) /\ a.map = w.map /\ a.count_mmap = w.count_mmap /\ a.ino[t][i] = f
  BY <1>1, <1>2, <1>3, SetFileIs
<1>5. PICK mp : mp = [q \in Procs |-> IF w.map[q][t].ino = 0 THEN [w.map[q] EXCEPT ![t].ino = i] ELSE w.map[q]]
  OBVIOUS
<1>6. mp \in [Procs -> [Tabs -> Maps]]
  <2>1. w.map \in [Procs -> [Tabs -> Maps]]
    BY DEF Wins
  <2>2. \A x \in Maps : [x EXCEPT !.ino = i] \in Maps
    BY <1>1 DEF Maps
  <2>3. ASSUME NEW q \in Procs PROVE mp[q] \in [Tabs -> Maps]
    BY <1>5, <2>1, <2>2
  <2>4. QED BY <1>5, <2>3
<1>7. \A q \in Procs, u \in Tabs : u # t => mp[q][u] = w.map[q][u]
  BY <1>5 DEF Wins, Maps
<1>8. \A q \in Procs : /\ mp[q][t].size = w.map[q][t].size
                       /\ mp[q][t].ino = IF w.map[q][t].ino = 0 THEN i ELSE w.map[q][t].ino
  BY <1>5 DEF Wins, Maps
<1>9. Unlink(w, t) = [a EXCEPT !.map = mp]
  BY <1>2, <1>3, <1>4, <1>5 DEF Unlink, SetFile, Wins
<1>10. PICK np : np = [mp EXCEPT ![p][t].ino = NotMapped]
  OBVIOUS
<1>11. np \in [Procs -> [Tabs -> Maps]] /\ np[p][t].ino = NotMapped
  BY <1>6, <1>10 DEF Maps
<1>12. \A q \in Procs, u \in Tabs : (q # p \/ u # t) => np[q][u] = mp[q][u]
  BY <1>6, <1>10 DEF Maps
<1>13. v = [a EXCEPT !.map = np]
  BY <1>4, <1>9, <1>10 DEF Dropped, Wins
<1>14. v \in Wins /\ v.map = np /\ v.ino = a.ino /\ v.count_mmap = a.count_mmap /\ SameTabs(a, v)
  BY <1>4, <1>11, <1>13 DEF Wins, SameTabs
<1>15. SameTabs(w, v) /\ OtherFiles(w, v, t, i)
  BY <1>4, <1>14 DEF SameTabs, OtherFiles
<1>16. QED BY <1>1, <1>2, <1>4, <1>7, <1>8, <1>11, <1>12, <1>14, <1>15

(* Who has which table mapped, but for p and t. *)
SameOpen(w, v, p, t) ==
  \A q \in Procs, u \in Tabs : q # p \/ u # t => (v.map[q][u].ino = NotMapped <=> w.map[q][u].ino = NotMapped)

(* What a call of p that opens table t, and has no other mapping changed    *)
(* but by the files it replaces, makes of w.                                *)
Serves(w, v, p, t) ==
  /\ v \in Wins /\ MapOK(v) /\ FilesOK(v) /\ SameTabs(w, v) /\ Opened(v, p, t)
  /\ SameOpen(w, v, p, t) /\ OtherCounts(w, v, p)
  /\ v.count_mmap[p] = w.count_mmap[p] + (IF w.map[p][t].ino = NotMapped THEN 1 ELSE 0)

SameRecs(w, v) == \A u \in Tabs : Same(w.ino[u][0], v.ino[u][0])

LEMMA GetTabServes ==
  ASSUME NEW w \in Wins, MapOK(w), FilesOK(w), NEW p \in Procs, NEW t \in Tabs, NEW g, g = GetTab(w, p, t)
  PROVE  Serves(w, g, p, t) /\ SameRecs(w, g) /\ File(g, p, t) = g.ino[t][0]
<1>1. /\ g \in Wins /\ MapOK(g) /\ FilesOK(g) /\ SameTabs(w, g) /\ Opened(g, p, t)
      /\ OtherMaps(w, g, p, t) /\ OtherCounts(w, g, p)
      /\ g.count_mmap[p] = w.count_mmap[p] + (IF w.map[p][t].ino = NotMapped THEN 1 ELSE 0)
      /\ \A u \in Tabs : Same(w.ino[u][0], g.ino[u][0])
  BY GetTabIs
<1>2. SameOpen(w, g, p, t)
  BY <1>1 DEF OtherMaps, SameOpen
<1>3. File(g, p, t) = g.ino[t][0]
  BY <1>1 DEF File, Opened
<1>4. QED BY <1>1, <1>2, <1>3 DEF Serves, SameRecs

Uncount(w, p) == [w EXCEPT !.count_mmap[p] = @ - 1]

LEMMA UncountIs ==
  ASSUME NEW w \in Wins, NEW p \in Procs, NEW v, v = Uncount(w, p)
  PROVE  /\ v \in Wins /\ SameTabs(w, v) /\ v.ino = w.ino /\ v.map = w.map
         /\ v.count_mmap[p] = w.count_mmap[p] - 1 /\ OtherCounts(w, v, p)
<1>1. w.count_mmap[p] - 1 \in Int
  <2>1. w.count_mmap[p] \in Int
    BY DEF Wins
  <2>2. QED BY <2>1
<1>2. v \in Wins
  BY <1>1 DEF Uncount, Wins
<1>3. QED BY <1>2 DEF Uncount, Wins, OtherCounts, SameTabs

(* shf_tab_shrink after its SHF_GET_TAB_MMAP. *)
LEMMA ShrinkOpened ==
  ASSUME NEW g \in Wins, MapOK(g), FilesOK(g), NEW p \in Procs, NEW t \in Tabs, Opened(g, p, t),
         NEW i, i = FreeInode(g, t), NEW n, n = GetTab(TabCreate(Dropped(g, p, t), t), p, t),
         NEW r, r = ForceReload(CopyRefs(n, p, t, i, t, Tabs), t, i),
         NEW v, v = Reclaim(Uncount(r, p))
  PROVE  Serves(g, v, p, t) /\ SameRecs(g, v)
<1>1. PICK f : f \in Files /\ f = g.ino[t][0]
  BY WinParts, InodesAre
<1>2. FileOK(f) /\ g.map[p][t].ino = 0 /\ f.tab_size # 0
  BY <1>1 DEF FilesOK, Opened
<1>3. PICK d : d = Dropped(g, p, t)
  OBVIOUS
<1>4. /\ i \in Unlinked /\ \A q \in Procs : g.map[q][t].ino # i
      /\ d \in Wins /\ SameTabs(g, d) /\ d.count_mmap = g.count_mmap
      /\ OtherFiles(g, d, t, i) /\ d.ino[t][i] = f
      /\ d.map[p][t].ino = NotMapped
      /\ \A q \in Procs, u \in Tabs : u # t => d.map[q][u] = g.map[q][u]
      /\ \A q \in Procs : q # p =>
           /\ d.map[q][t].size = g.map[q][t].size
           /\ d.map[q][t].ino = IF g.map[q][t].ino = 0 THEN i ELSE g.map[q][t].ino
  BY <1>1, <1>2, <1>3, DroppedIs
<1>5. i \in Inodes /\ i # 0 /\ i # NotMapped
  BY <1>4, InodesAre
<1>6. PICK c : c = SetFile(d, t, 0, NewFile)
  OBVIOUS
<1>7. /\ c \in Wins /\ SameTabs(d, c) /\ OtherFiles(d, c, t, 0)
      /\ c.map = d.map /\ c.count_mmap = d.count_mmap /\ c.ino[t][0] = NewFile
  BY <1>4, <1>6, NewFileIs, SetNameIs
<1>8. n = GetTab(c, p, t)
  BY <1>3, <1>6 DEF TabCreate
<1>9. /\ n \in Wins /\ SameTabs(c, n) /\ OtherMaps(c, n, p, t) /\ OtherFiles(c, n, t, 0)
      /\ OtherCounts(c, n, p) /\ n.count_mmap[p] = c.count_mmap[p] + 1
      /\ Opened(n, p, t) /\ FileOK(n.ino[t][0])
      /\ Same(c.ino[t][0], n.ino[t][0])
  <2>1. c.map[p][t].ino = NotMapped /\ FileOK(c.ino[t][0])
    BY <1>4, <1>7, NewFileIs
  <2>2. QED BY <1>7, <1>8, <2>1, GetTabFresh
<1>10. Live(n.ino[t][0]) = {}
  BY <1>7, <1>9, NewFileIs DEF Same
<1>11. n.ino[t][i] = f /\ \A u \in Tabs, j \in Inodes : u # t => n.ino[u][j] = g.ino[u][j]
  BY <1>4, <1>5, <1>7, <1>9 DEF OtherFiles
<1>12. PICK k : k = CopyRefs(n, p, t, i, t, Tabs)
  OBVIOUS
<1>13. Elsewhere(t, i, t)
  BY <1>5 DEF Elsewhere
<1>14. Copied(n, k, p, t, i, t, Taken(f, Tabs))
  BY <1>2, <1>5, <1>9, <1>10, <1>11, <1>12, <1>13, CopyRefsDone
<1>15. Taken(f, Tabs) = Live(f)
  BY <1>1, <1>2, LiveRef DEF Taken
<1>16. /\ k \in Wins /\ SameTabs(n, k) /\ OtherMaps(n, k, p, t) /\ k.count_mmap = n.count_mmap /\ Opened(k, p, t)
       /\ \A u \in Tabs, j \in Inodes : (u # t \/ j # i) /\ (u # t \/ j # 0) => k.ino[u][j] = n.ino[u][j]
       /\ FileOK(k.ino[t][0]) /\ k.ino[t][i].fsize = f.fsize
       /\ \A s \in Slots : Holds(k.ino[t][0], s) = IF s \in Live(f) THEN Holds(f, s) ELSE NoRec
  BY <1>11, <1>14, <1>15 DEF Copied
<1>17. Same(f, k.ino[t][0])
  <2>1. k.ino[t][0] \in Files
    BY <1>16, WinParts, InodesAre
  <2>2. \A s \in Slots : Holds(k.ino[t][0], s) = Holds(f, s)
    BY <1>1, <1>2, <1>16, HoldsLive
  <2>3. \A s \in Slots : s \in Live(k.ino[t][0]) <=> s \in Live(f)
    BY <1>1, <1>2, <1>16, <2>1, <2>2, HoldsLive
  <2>4. Live(k.ino[t][0]) \subseteq Slots /\ Live(f) \subseteq Slots
    BY <1>1, <2>1, LiveIs
  <2>5. QED BY <2>2, <2>3, <2>4 DEF Same
<1>18. PICK h : h = [NewFile EXCEPT !.fsize = f.fsize, !.tab_size = 1]
  OBVIOUS
<1>19. h \in Files /\ h.fsize = f.fsize /\ h.tab_size = 1
  BY <1>1, <1>18, NewFileIs DEF Files
<1>20. r = SetFile(k, t, i, h)
  BY <1>12, <1>16, <1>18 DEF ForceReload
<1>21. /\ r \in Wins /\ SameTabs(k, r) /\ OtherFiles(k, r, t, i)
       /\ r.map = k.map /\ r.count_mmap = k.count_mmap /\ r.ino[t][i] = h
  BY <1>5, <1>16, <1>19, <1>20, SetFileIs
<1>22. PICK x : x = Uncount(r, p)
  OBVIOUS
<1>23. /\ x \in Wins /\ SameTabs(r, x) /\ x.ino = r.ino /\ x.map = r.map
       /\ x.count_mmap[p] = r.count_mmap[p] - 1 /\ OtherCounts(r, x, p)
  BY <1>21, <1>22, UncountIs
<1>24. /\ v \in Wins /\ SameTabs(x, v) /\ v.map = x.map /\ v.count_mmap = x.count_mmap
       /\ \A u \in Tabs : v.ino[u][0] = x.ino[u][0]
       /\ \A u \in Tabs, q \in Procs : x.map[q][u].ino # NotMapped =>
              v.ino[u][x.map[q][u].ino] = x.ino[u][x.map[q][u].ino]
  <2>1. x \in Wins /\ v = Reclaim(x)
    BY <1>22, <1>23
  <2>2. QED BY <2>1, ReclaimIs
<1>25. SameTabs(g, v)
  <2>1. SameTabs(g, n)
    BY <1>4, <1>7, <1>9 DEF SameTabs
  <2>2. SameTabs(n, v)
    BY <1>16, <1>21, <1>23, <1>24 DEF SameTabs
  <2>3. QED BY <2>1, <2>2 DEF SameTabs
<1>26. OtherCounts(g, v, p) /\ v.count_mmap[p] = g.count_mmap[p]
  <2>1. OtherCounts(g, v, p)
    <3>1. OtherCounts(g, n, p)
      BY <1>4, <1>7, <1>9 DEF OtherCounts
    <3>2. OtherCounts(n, x, p)
      BY <1>16, <1>21, <1>23 DEF OtherCounts
    <3>3. QED BY <1>24, <3>1, <3>2 DEF OtherCounts
  <2>2. g.count_mmap[p] \in Int
    BY WinParts
  <2>3. n.count_mmap[p] = g.count_mmap[p] + 1
    BY <1>4, <1>7, <1>9
  <2>4. v.count_mmap[p] = n.count_mmap[p] - 1
    BY <1>16, <1>21, <1>23, <1>24
  <2>5. QED BY <2>1, <2>2, <2>3, <2>4
<1>27. v.ino[t][0] = k.ino[t][0] /\ \A u \in Tabs : u # t => v.ino[u][0] = g.ino[u][0]
  BY <1>5, <1>11, <1>16, <1>21, <1>23, <1>24, InodesAre DEF OtherFiles
<1>28. v.map = k.map
  BY <1>21, <1>23, <1>24
<1>29. /\ \A q \in Procs, u \in Tabs : u # t => v.map[q][u] = g.map[q][u]
       /\ \A q \in Procs : q # p =>
              /\ v.map[q][t].size = g.map[q][t].size
              /\ v.map[q][t].ino = IF g.map[q][t].ino = 0 THEN i ELSE g.map[q][t].ino
  BY <1>4, <1>7, <1>9, <1>16, <1>28 DEF OtherMaps
<1>30. Opened(v, p, t) /\ FilesOK(v) /\ SameRecs(g, v)
  <2>1. Opened(v, p, t)
    BY <1>16, <1>27, <1>28 DEF Opened
  <2>2. FilesOK(v)
    BY <1>16, <1>27 DEF FilesOK
  <2>3. SameRecs(g, v)
    BY <1>1, <1>17, <1>27 DEF SameRecs, Same
  <2>4. QED BY <2>1, <2>2, <2>3
<1>31. SameOpen(g, v, p, t)
  BY <1>5, <1>29, InodesAre DEF SameOpen
<1>32. MapOK(v)
  <2> SUFFICES ASSUME NEW q \in Procs, NEW u \in Tabs PROVE MapAt(v, q, u)
    BY DEF MapOK
  <2>1. PICK e : e = v.map[q][u].ino
    OBVIOUS
  <2>2. e # NotMapped => e \in Inodes /\ v.ino[u][e] = r.ino[u][e]
    <3>1. e \in Inodes \cup {NotMapped} /\ e = x.map[q][u].ino
      BY <1>24, <2>1, WinParts
    <3>2. QED BY <1>23, <1>24, <3>1
  <2>3. MapAt(g, q, u) /\ g.map[q][u].ino \in Inodes \cup {NotMapped}
    BY WinParts DEF MapOK
  <2>4. CASE u # t
    <3>1. v.map[q][u] = g.map[q][u]
      BY <1>29, <2>4
    <3>2. e # NotMapped => v.ino[u][e] = g.ino[u][e]
      BY <1>11, <1>16, <1>21, <2>2, <2>4 DEF OtherFiles
    <3>3. v.ino[u][0] = g.ino[u][0]
      BY <1>27, <2>4
    <3>4. QED BY <2>1, <2>3, <3>1, <3>2, <3>3, InodesAre DEF MapAt
  <2>5. CASE u = t /\ q = p
    <3>1. FileOK(v.ino[t][0])
      BY <1>30 DEF FilesOK
    <3>2. QED BY <1>24, <1>30, <2>5, <3>1, OpenedAt
  <2>6. CASE u = t /\ q # p
    <3>1. v.map[q][t].size = g.map[q][t].size /\ e = IF g.map[q][t].ino = 0 THEN i ELSE g.map[q][t].ino
      BY <1>29, <2>1, <2>6
    <3>2. v.ino[t][0].tab_size # 0
      BY <1>30 DEF Opened
    <3>3. CASE g.map[q][t].ino = 0
      <4>1. e = i /\ v.ino[t][e] = h
        BY <1>5, <1>21, <2>2, <2>6, <3>1, <3>3
      <4>2. g.map[q][t].size >= Page /\ g.map[q][t].size <= f.fsize
        BY <1>1, <2>3, <2>6, <3>3, InodesAre DEF MapAt
      <4>3. QED BY <1>5, <1>19, <2>1, <2>6, <3>1, <3>2, <4>1, <4>2 DEF MapAt
    <3>4. CASE g.map[q][t].ino = NotMapped
      BY <2>1, <2>3, <2>6, <3>1, <3>4, InodesAre DEF MapAt
    <3>5. CASE g.map[q][t].ino \in Unlinked
      <4>1. e = g.map[q][t].ino /\ e # 0 /\ e # i /\ e \in Inodes /\ e # NotMapped
        BY <1>4, <3>1, <3>5, InodesAre
      <4>2. r.ino[t][e] = n.ino[t][e]
        BY <1>16, <1>21, <4>1 DEF OtherFiles
      <4>3. n.ino[t][e] = g.ino[t][e]
        BY <1>4, <1>7, <1>9, <4>1 DEF OtherFiles
      <4>4. v.ino[t][e] = g.ino[t][e]
        BY <2>2, <2>6, <4>1, <4>2, <4>3
      <4>5. QED BY <2>1, <2>3, <2>6, <3>1, <3>2, <4>1, <4>4 DEF MapAt
    <3>6. QED BY <2>3, <2>6, <3>3, <3>4, <3>5, InodesAre
  <2>7. QED BY <2>4, <2>5, <2>6
<1>33. v.count_mmap[p] = g.count_mmap[p] + (IF g.map[p][t].ino = NotMapped THEN 1 ELSE 0)
  <2>1. g.count_mmap[p] \in Int /\ g.map[p][t].ino # NotMapped
    BY <1>2, WinParts, InodesAre
  <2>2. QED BY <1>26, <2>1
<1>34. QED BY <1>24, <1>25, <1>26, <1>30, <1>31, <1>32, <1>33 DEF Serves

LEMMA TabShrinkIs ==
  ASSUME NEW w \in Wins, MapOK(w), FilesOK(w), NEW p \in Procs, NEW t \in Tabs, NEW v, v = TabShrink(w, p, t)
  PROVE  Serves(w, v, p, t) /\ SameRecs(w, v)
<1>1. PICK g : g = GetTab(w, p, t)
  OBVIOUS
<1>2. Serves(w, g, p, t) /\ SameRecs(w, g)
  BY <1>1, GetTabServes
<1>3. g \in Wins /\ MapOK(g) /\ FilesOK(g) /\ Opened(g, p, t) /\ g.map[p][t].ino # NotMapped
  BY <1>2, InodesAre DEF Serves, Opened
<1>4. PICK i : i = FreeInode(g, t)
  OBVIOUS
<1>5. PICK n : n = GetTab(TabCreate(Dropped(g, p, t), t), p, t)
  OBVIOUS
<1>6. PICK r : r = ForceReload(CopyRefs(n, p, t, i, t, Tabs), t, i)
  OBVIOUS
<1>7. v = Reclaim(Uncount(r, p))
  BY <1>1, <1>4, <1>5, <1>6 DEF TabShrink, Dropped, Uncount
<1>8. Serves(g, v, p, t) /\ SameRecs(g, v)
  BY <1>3, <1>4, <1>5, <1>6, <1>7, ShrinkOpened
<1>9. SameTabs(w, v) /\ OtherCounts(w, v, p) /\ SameOpen(w, v, p, t)
  BY <1>2, <1>8 DEF Serves, SameTabs, OtherCounts, SameOpen
<1>10. v.count_mmap[p] = g.count_mmap[p]
  <2>1. g.count_mmap[p] \in Int
    BY <1>3, WinParts
  <2>2. v.count_mmap[p] = g.count_mmap[p] + (IF g.map[p][t].ino = NotMapped THEN 1 ELSE 0)
    BY <1>8 DEF Serves
  <2>3. QED BY <1>3, <2>1, <2>2
<1>11. SameRecs(w, v)
  BY <1>2, <1>8 DEF SameRecs, Same
<1>12. QED BY <1>2, <1>8, <1>9, <1>10, <1>11 DEF Serves

-----------------------------------------------------------------------------
(* shf_tab_part. *)

LEMMA RedirectIs ==
  ASSUME NEW w \in Wins, NEW old \in Tabs, NEW new \in Tabs, NEW d, d = Redirect(w, old, new)
  PROVE  d \in [Tabs -> Tabs] /\ \A u \in Tabs : d[u] = w.tabs[u] \/ (w.tabs[u] = old /\ d[u] = new)
BY DEF Redirect, Wins

(* The record h of the table that is split goes to table new. *)
Moves(d, new, h) == h # NoRec /\ d[HashTab2(h.key)] = new

Splits(w, v, old, new) ==
  \A s \in Slots :
    LET h == Holds(w.ino[old][0], s)
    IN  /\ Holds(v.ino[old][0], s) = IF Moves(v.tabs, new, h) THEN NoRec ELSE h
        /\ Holds(v.ino[new][0], s) = IF Moves(v.tabs, new, h) THEN h ELSE NoRec

Parts(w, v, p, old, new) ==
  /\ v \in Wins /\ MapOK(v) /\ FilesOK(v) /\ v.tabs_used = w.tabs_used + 1 /\ v.tabs = Redirect(w, old, new)
  /\ SameOpen(w, v, p, new) /\ v.map[p][new].ino # NotMapped
  /\ OtherCounts(w, v, p) /\ v.count_mmap[p] = w.count_mmap[p] + 1
  /\ \A u \in Tabs : u # old /\ u # new => Same(w.ino[u][0], v.ino[u][0])
  /\ Splits(w, v, old, new)

(* A table more, and redirects to it. *)
WithTab(g, d) == [g EXCEPT !.tabs_used = @ + 1, !.tabs = d]

LEMMA WithTabIs ==
  ASSUME NEW g \in Wins, NEW d \in [Tabs -> Tabs], NEW r, r = WithTab(g, d)
  PROVE  /\ r \in Wins /\ r.map = g.map /\ r.ino = g.ino /\ r.count_mmap = g.count_mmap
         /\ r.tabs = d /\ r.tabs_used = g.tabs_used + 1
<1>1. g.tabs_used \in Nat
  BY DEF Wins
<1>2. g.tabs_used + 1 \in Nat
  BY <1>1
<1>3. r \in Wins
  BY <1>2 DEF WithTab, Wins
<1>4. QED BY <1>3 DEF WithTab, Wins

Chosen(r, new) == {u \in Tabs : r.tabs[u] = new}
Nobody(w, t) == \A q \in Procs : w.map[q][t].ino = NotMapped

(* shf_tab_part before it shrinks the old table. *)
LEMMA SplitIs ==
  ASSUME NEW w \in Wins, MapOK(w), FilesOK(w), NEW p \in Procs, NEW old \in Tabs, Opened(w, p, old),
         NEW new \in Tabs, new # old, Nobody(w, new),
         NEW g, g = GetTab(TabCreate(w, new), p, new), NEW d, d = Redirect(g, old, new),
         NEW r, r = WithTab(g, d), NEW c, c = CopyRefs(r, p, old, 0, new, Chosen(r, new))
  PROVE  Parts(w, c, p, old, new) /\ Opened(c, p, old)
<1>1. PICK a : a = SetFile(w, new, 0, NewFile)
  OBVIOUS
<1>2. /\ a \in Wins /\ SameTabs(w, a) /\ OtherFiles(w, a, new, 0)
      /\ a.map = w.map /\ a.count_mmap = w.count_mmap /\ a.ino[new][0] = NewFile
  BY <1>1, NewFileIs, SetNameIs
<1>3. /\ g \in Wins /\ SameTabs(a, g) /\ OtherMaps(a, g, p, new) /\ OtherFiles(a, g, new, 0)
      /\ OtherCounts(a, g, p) /\ g.count_mmap[p] = a.count_mmap[p] + 1
      /\ Opened(g, p, new) /\ FileOK(g.ino[new][0]) /\ Same(a.ino[new][0], g.ino[new][0])
  <2>1. a.map[p][new].ino = NotMapped /\ FileOK(a.ino[new][0]) /\ g = GetTab(a, p, new)
    BY <1>1, <1>2, NewFileIs DEF TabCreate, Nobody
  <2>2. QED BY <1>2, <2>1, GetTabFresh
<1>4. Live(g.ino[new][0]) = {}
  BY <1>2, <1>3, NewFileIs DEF Same
<1>5. g.tabs = w.tabs /\ g.tabs_used = w.tabs_used
  BY <1>2, <1>3 DEF SameTabs
<1>6. d \in [Tabs -> Tabs] /\ d = Redirect(w, old, new)
  <2>1. d \in [Tabs -> Tabs]
    BY <1>3, RedirectIs
  <2>2. QED BY <1>5, <2>1 DEF Redirect
<1>7. /\ r \in Wins /\ r.map = g.map /\ r.ino = g.ino /\ r.count_mmap = g.count_mmap
      /\ r.tabs = d /\ r.tabs_used = w.tabs_used + 1
  <2>1. r \in Wins /\ r.map = g.map /\ r.ino = g.ino /\ r.count_mmap = g.count_mmap
        /\ r.tabs = d /\ r.tabs_used = g.tabs_used + 1
    BY <1>3, <1>6, WithTabIs
  <2>2. QED BY <1>5, <2>1
<1>8. PICK chosen : chosen = Chosen(r, new)
  OBVIOUS
<1>9. PICK f : f \in Files /\ f = w.ino[old][0]
  BY WinParts, InodesAre
<1>10. \A u \in Tabs, j \in Inodes : u # new \/ j # 0 => r.ino[u][j] = w.ino[u][j]
  BY <1>2, <1>3, <1>7 DEF OtherFiles
<1>11. r.ino[old][0] = f /\ FileOK(f)
  BY <1>9, <1>10, InodesAre DEF FilesOK
<1>12. Copied(r, c, p, old, 0, new, Taken(f, chosen))
  <2>1. Elsewhere(old, 0, new) /\ 0 \in Inodes
    BY InodesAre DEF Elsewhere
  <2>2. Opened(r, p, new) /\ FileOK(r.ino[new][0]) /\ Live(r.ino[new][0]) = {}
    BY <1>3, <1>4, <1>7 DEF Opened
  <2>3. c = CopyRefs(r, p, old, 0, new, chosen)
    BY <1>8
  <2>4. QED BY <1>7, <1>11, <2>1, <2>2, <2>3, CopyRefsDone
<1>13. /\ c \in Wins /\ SameTabs(r, c) /\ OtherMaps(r, c, p, new) /\ c.count_mmap = r.count_mmap /\ Opened(c, p, new)
       /\ \A u \in Tabs, j \in Inodes : (u # old \/ j # 0) /\ (u # new \/ j # 0) => c.ino[u][j] = r.ino[u][j]
       /\ FileOK(c.ino[old][0]) /\ FileOK(c.ino[new][0])
       /\ c.ino[old][0].fsize = f.fsize /\ c.ino[old][0].tab_size = f.tab_size
       /\ \A s \in Slots : /\ Holds(c.ino[old][0], s) = IF s \in Taken(f, chosen) THEN NoRec ELSE Holds(f, s)
                           /\ Holds(c.ino[new][0], s) = IF s \in Taken(f, chosen) THEN Holds(f, s) ELSE NoRec
  BY <1>11, <1>12 DEF Copied
<1>14. c.tabs = d /\ c.tabs_used = w.tabs_used + 1
  BY <1>7, <1>13 DEF SameTabs
<1>15. \A s \in Slots : s \in Taken(f, chosen) <=> Moves(d, new, Holds(f, s))
  <2> SUFFICES ASSUME NEW s \in Slots PROVE s \in Taken(f, chosen) <=> Moves(d, new, Holds(f, s))
    OBVIOUS
  <2>1. CASE s \in Live(f)
    <3>1. Holds(f, s) # NoRec /\ HashTab2(Holds(f, s).key) = f.row[s].tab /\ f.row[s].tab \in Tabs
      BY <1>9, <1>11, <2>1, HoldsLive, LiveRef
    <3>2. QED BY <1>7, <1>8, <2>1, <3>1 DEF Taken, Moves, Chosen
  <2>2. CASE s \notin Live(f)
    <3>1. Holds(f, s) = NoRec
      BY <1>9, <1>11, <2>2, HoldsLive
    <3>2. QED BY <2>2, <3>1 DEF Taken, Moves
  <2>3. QED BY <2>1, <2>2
<1>16. Splits(w, c, old, new)
  BY <1>9, <1>13, <1>14, <1>15 DEF Splits
<1>17. \A u \in Tabs, j \in Inodes : (u # old \/ j # 0) /\ (u # new \/ j # 0) => c.ino[u][j] = w.ino[u][j]
  BY <1>10, <1>13
<1>18. FilesOK(c) /\ \A u \in Tabs : u # old /\ u # new => Same(w.ino[u][0], c.ino[u][0])
  BY <1>13, <1>17, InodesAre DEF FilesOK, Same
<1>19. OtherMaps(w, c, p, new)
  BY <1>2, <1>3, <1>7, <1>13 DEF OtherMaps
<1>20. OtherCounts(w, c, p) /\ c.count_mmap[p] = w.count_mmap[p] + 1
  BY <1>2, <1>3, <1>7, <1>13 DEF OtherCounts
<1>21. Opened(c, p, old)
  BY <1>9, <1>13, <1>19 DEF OtherMaps, Opened
<1>22. SameOpen(w, c, p, new) /\ c.map[p][new].ino # NotMapped
  <2>1. SameOpen(w, c, p, new)
    BY <1>19 DEF SameOpen, OtherMaps
  <2>2. c.map[p][new].ino = 0
    BY <1>13 DEF Opened
  <2>3. QED BY <2>1, <2>2, InodesAre
<1>23. MapOK(c)
  <2> SUFFICES ASSUME NEW q \in Procs, NEW u \in Tabs PROVE MapAt(c, q, u)
    BY DEF MapOK
  <2>1. MapAt(w, q, u) /\ w.map[q][u].ino \in Inodes \cup {NotMapped}
    BY WinParts DEF MapOK
  <2>2. CASE q = p /\ u = new
    BY <1>13, <2>2, OpenedAt
  <2>3. CASE q # p /\ u = new
    <3>1. c.map[q][u] = w.map[q][u] /\ w.map[q][u].ino = NotMapped
      BY <1>19, <2>3 DEF OtherMaps, Nobody
    <3>2. QED BY <2>1, <3>1, InodesAre DEF MapAt
  <2>4. CASE u # new
    <3>1. c.map[q][u] = w.map[q][u]
      BY <1>19, <2>4 DEF OtherMaps
    <3>2. \A j \in Inodes : c.ino[u][j].fsize = w.ino[u][j].fsize /\ c.ino[u][j].tab_size = w.ino[u][j].tab_size
      BY <1>9, <1>13, <1>17, <2>4
    <3>3. QED BY <2>1, <3>1, <3>2, KeptAt
  <2>5. QED BY <2>2, <2>3, <2>4
<1>24. QED BY <1>6, <1>13, <1>14, <1>16, <1>18, <1>20, <1>21, <1>22, <1>23 DEF Parts

LEMMA TabPartIs ==
  ASSUME NEW w \in Wins, MapOK(w), FilesOK(w), NEW p \in Procs, NEW old \in Tabs, Opened(w, p, old),
         NEW new \in Tabs, new = w.tabs_used, new # old, Nobody(w, new),
         NEW v, v = TabPart(w, p, old)
  PROVE  Parts(w, v, p, old, new)
<1>1. PICK g : g = GetTab(TabCreate(w, new), p, new)
  OBVIOUS
<1>2. PICK d : d = Redirect(g, old, new)
  OBVIOUS
<1>3. PICK r : r = WithTab(g, d)
  OBVIOUS
<1>4. PICK c : c = CopyRefs(r, p, old, 0, new, Chosen(r, new))
  OBVIOUS
<1>5. Parts(w, c, p, old, new) /\ Opened(c, p, old)
  BY <1>1, <1>2, <1>3, <1>4, SplitIs
<1>6. r.map[p][old].ino = 0
  <2>1. PICK a : a = SetFile(w, new, 0, NewFile)
    OBVIOUS
  <2>2. a \in Wins /\ a.map = w.map /\ a.ino[new][0] = NewFile
    BY <2>1, NewFileIs, SetNameIs
  <2>3. a.map[p][new].ino = NotMapped /\ FileOK(a.ino[new][0]) /\ g = GetTab(a, p, new)
    BY <1>1, <2>1, <2>2, NewFileIs DEF TabCreate, Nobody
  <2>4. g \in Wins /\ OtherMaps(a, g, p, new)
    BY <2>2, <2>3, GetTabFresh
  <2>5. d \in [Tabs -> Tabs]
    BY <1>2, <2>4, RedirectIs
  <2>6. r.map = g.map
    BY <1>3, <2>4, <2>5, WithTabIs
  <2>7. QED BY <2>2, <2>4, <2>6 DEF OtherMaps, Opened
<1>7. v = TabShrink(c, p, old)
  BY <1>1, <1>2, <1>3, <1>4, <1>6 DEF TabPart, WithTab, Chosen
<1>8. c \in Wins /\ MapOK(c) /\ FilesOK(c)
  BY <1>5 DEF Parts
<1>9. Serves(c, v, p, old) /\ SameRecs(c, v)
  BY <1>7, <1>8, TabShrinkIs
<1>10. c.map[p][old].ino # NotMapped
  BY <1>5, InodesAre DEF Opened
<1>11. SameOpen(w, v, p, new) /\ v.map[p][new].ino # NotMapped
  <2>1. SameOpen(w, c, p, new) /\ c.map[p][new].ino # NotMapped
    BY <1>5 DEF Parts
  <2>2. SameOpen(c, v, p, old) /\ v.map[p][old].ino # NotMapped
    BY <1>9, InodesAre DEF Serves, Opened
  <2>3. QED BY <1>10, <2>1, <2>2 DEF SameOpen
<1>12. OtherCounts(w, v, p) /\ v.count_mmap[p] = w.count_mmap[p] + 1
  <2>1. OtherCounts(w, c, p) /\ c.count_mmap[p] = w.count_mmap[p] + 1
    BY <1>5 DEF Parts
  <2>2. OtherCounts(c, v, p) /\ v.count_mmap[p] = c.count_mmap[p] + 0
    BY <1>9, <1>10 DEF Serves
  <2>3. w.count_mmap[p] \in Int
    BY WinParts
  <2>4. QED BY <2>1, <2>2, <2>3 DEF OtherCounts
<1>13. v.tabs = c.tabs /\ v.tabs_used = c.tabs_used
  BY <1>9 DEF Serves, SameTabs
<1>14. \A u \in Tabs : Same(c.ino[u][0], v.ino[u][0])
  BY <1>9 DEF SameRecs
<1>15. \A u \in Tabs : u # old /\ u # new => Same(w.ino[u][0], v.ino[u][0])
  BY <1>5, <1>14 DEF Parts, Same
<1>16. Splits(w, v, old, new)
  BY <1>5, <1>13, <1>14 DEF Parts, Splits, Same
<1>17. QED BY <1>5, <1>9, <1>11, <1>12, <1>13, <1>15, <1>16 DEF Parts, Serves

-----------------------------------------------------------------------------
(* The inductive invariant, of the record m. *)

Has(w, p) == {t \in Tabs : w.map[p][t].ino # NotMapped}

CountAt(w, p) ==
  IF w.count_mmap[p] = 0 THEN Has(w, p) = {} ELSE w.count_mmap[p] = 1 + Cardinality(Has(w, p))

TabsOK(w) ==
  /\ w.tabs_used >= 1
  /\ \A u \in Tabs : w.tabs[u] < w.tabs_used
  /\ \A t \in Tabs : t >= w.tabs_used => Nobody(w, t)

Base(w) == w \in Wins /\ MapOK(w) /\ FilesOK(w) /\ TabsOK(w) /\ \A p \in Procs : CountAt(w, p)

(* A record is in the table that its redirect leads to. *)
Home(w, t, s) == LET h == Holds(w.ino[t][0], s) IN h # NoRec => w.tabs[HashTab2(h.key)] = t
Homes(w) == \A t \in Tabs, s \in Slots : Home(w, t, s)

(* The only record that differs is the one in slot s of table t. *)
OneRec(w, v, t, s, rec) ==
  /\ Holds(v.ino[t][0], s) = rec
  /\ \A u \in Tabs, r \in Slots : u # t \/ r # s => Holds(v.ino[u][0], r) = Holds(w.ino[u][0], r)

LEMMA HasIs ==
  ASSUME NEW w, NEW p
  PROVE  IsFiniteSet(Has(w, p)) /\ Cardinality(Has(w, p)) \in Nat
<1>1. IsFiniteSet(Has(w, p))
  BY TabsAre, FS_Subset DEF Has
<1>2. QED BY <1>1, FS_CardinalityType

LEMMA ServesBase ==
  ASSUME NEW w, Base(w), NEW p \in Procs, NEW t \in Tabs, t < w.tabs_used, w.count_mmap[p] # 0,
         NEW v, Serves(w, v, p, t)
  PROVE  Base(v) /\ v.count_mmap[p] > 0
<1>1. w \in Wins /\ TabsOK(w) /\ CountAt(w, p)
  BY DEF Base
<1>2. /\ v \in Wins /\ MapOK(v) /\ FilesOK(v) /\ SameTabs(w, v) /\ v.map[p][t].ino # NotMapped
      /\ SameOpen(w, v, p, t) /\ OtherCounts(w, v, p)
      /\ v.count_mmap[p] = w.count_mmap[p] + (IF w.map[p][t].ino = NotMapped THEN 1 ELSE 0)
  BY InodesAre DEF Serves, Opened
<1>3. ASSUME NEW q \in Procs, q # p PROVE CountAt(v, q)
  <2>1. Has(v, q) = Has(w, q)
    BY <1>2, <1>3 DEF SameOpen, Has
  <2>2. v.count_mmap[q] = w.count_mmap[q]
    BY <1>2, <1>3 DEF OtherCounts
  <2>3. QED BY <2>1, <2>2 DEF Base, CountAt
<1>4. CountAt(v, p) /\ v.count_mmap[p] > 0
  <2>1. Has(v, p) = Has(w, p) \cup {t}
    BY <1>2 DEF SameOpen, Has
  <2>2. PICK n \in Nat : n = Cardinality(Has(w, p))
    BY HasIs
  <2>3. Cardinality(Has(v, p)) = IF t \in Has(w, p) THEN n ELSE n + 1
    <3>1. IsFiniteSet(Has(w, p))
      BY HasIs
    <3>2. QED BY <2>1, <2>2, <3>1, FS_AddElement
  <2>4. t \in Has(w, p) <=> w.map[p][t].ino # NotMapped
    BY DEF Has
  <2>5. w.count_mmap[p] = 1 + n
    BY <1>1, <2>2 DEF CountAt
  <2>6. v.count_mmap[p] = 1 + Cardinality(Has(v, p)) /\ v.count_mmap[p] > 0
    BY <1>2, <2>3, <2>4, <2>5
  <2>7. QED BY <2>6 DEF CountAt
<1>5. TabsOK(v)
  <2>1. \A u \in Tabs : v.tabs[u] < v.tabs_used
    BY <1>1, <1>2 DEF TabsOK, SameTabs
  <2>2. v.tabs_used >= 1
    BY <1>1, <1>2 DEF TabsOK, SameTabs
  <2>3. ASSUME NEW u \in Tabs, u >= v.tabs_used, NEW q \in Procs PROVE v.map[q][u].ino = NotMapped
    <3>1. u >= w.tabs_used /\ w.tabs_used \in Nat
      BY <1>1, <1>2, <2>3 DEF SameTabs, Wins
    <3>2. u # t
      BY <3>1, TabsAre
    <3>3. w.map[q][u].ino = NotMapped
      BY <1>1, <3>1 DEF TabsOK, Nobody
    <3>4. QED BY <1>2, <3>2, <3>3 DEF SameOpen
  <2>4. QED BY <2>1, <2>2, <2>3 DEF TabsOK, Nobody
<1>6. \A q \in Procs : CountAt(v, q)
  BY <1>3, <1>4
<1>7. QED BY <1>2, <1>4, <1>5, <1>6 DEF Base

LEMMA ServesTwice ==
  ASSUME NEW w \in Wins, NEW g, NEW v, NEW p \in Procs, NEW t \in Tabs, Serves(w, g, p, t), Serves(g, v, p, t)
  PROVE  Serves(w, v, p, t)
<1>1. g \in Wins /\ g.map[p][t].ino # NotMapped
  BY InodesAre DEF Serves, Opened
<1>2. v.count_mmap[p] = g.count_mmap[p]
  <2>1. g.count_mmap[p] \in Int
    BY <1>1, WinParts
  <2>2. v.count_mmap[p] = g.count_mmap[p] + (IF g.map[p][t].ino = NotMapped THEN 1 ELSE 0)
    BY DEF Serves
  <2>3. QED BY <1>1, <2>1, <2>2
<1>3. SameTabs(w, v) /\ OtherCounts(w, v, p) /\ SameOpen(w, v, p, t)
  BY DEF Serves, SameTabs, OtherCounts, SameOpen
<1>4. QED BY <1>2, <1>3 DEF Serves

LEMMA HomesKept ==
  ASSUME NEW w, Homes(w), NEW v, SameTabs(w, v), SameRecs(w, v)
  PROVE  Homes(v)
BY DEF Homes, Home, SameTabs, SameRecs, Same

LEMMA HomesOne ==
  ASSUME NEW w, Homes(w), NEW v, SameTabs(w, v), NEW t \in Tabs, NEW s \in Slots, NEW rec,
         rec = NoRec \/ w.tabs[HashTab2(rec.key)] = t, OneRec(w, v, t, s, rec)
  PROVE  Homes(v)
<1> SUFFICES ASSUME NEW u \in Tabs, NEW r \in Slots PROVE Home(v, u, r)
  BY DEF Homes
<1>1. CASE u = t /\ r = s
  BY <1>1 DEF OneRec, Home, SameTabs
<1>2. CASE ~(u = t /\ r = s)
  <2>1. Holds(v.ino[u][0], r) = Holds(w.ino[u][0], r)
    BY <1>2 DEF OneRec
  <2>2. Home(w, u, r)
    BY DEF Homes
  <2>3. QED BY <2>1, <2>2 DEF Home, SameTabs
<1>3. QED BY <1>1, <1>2

(* Another file of the same size in the place of the one p has open. *)
LEMMA SetServes ==
  ASSUME NEW w \in Wins, MapOK(w), FilesOK(w), NEW p \in Procs, NEW t \in Tabs, Opened(w, p, t),
         NEW f \in Files, FileOK(f), f.fsize = w.ino[t][0].fsize, f.tab_size = w.ino[t][0].tab_size,
         NEW v, v = SetFile(w, t, 0, f)
  PROVE  Serves(w, v, p, t) /\ v.ino[t][0] = f /\ \A u \in Tabs : u # t => v.ino[u][0] = w.ino[u][0]
<1>1. /\ v \in Wins /\ SameTabs(w, v) /\ OtherFiles(w, v, t, 0)
      /\ v.map = w.map /\ v.count_mmap = w.count_mmap /\ v.ino[t][0] = f
  BY SetNameIs
<1>2. Opened(v, p, t) /\ w.map[p][t].ino # NotMapped
  BY <1>1, InodesAre DEF Opened
<1>3. \A u \in Tabs : u # t => v.ino[u][0] = w.ino[u][0]
  BY <1>1, InodesAre DEF OtherFiles
<1>4. FilesOK(v)
  BY <1>1, <1>3 DEF FilesOK
<1>5. MapOK(v)
  <2> SUFFICES ASSUME NEW q \in Procs, NEW u \in Tabs PROVE MapAt(v, q, u)
    BY DEF MapOK
  <2>1. \A j \in Inodes : v.ino[u][j].fsize = w.ino[u][j].fsize /\ v.ino[u][j].tab_size = w.ino[u][j].tab_size
    BY <1>1 DEF OtherFiles
  <2>2. QED BY <1>1, <2>1, KeptAt DEF MapOK
<1>6. v.count_mmap[p] = w.count_mmap[p] + (IF w.map[p][t].ino = NotMapped THEN 1 ELSE 0)
  <2>1. w.count_mmap[p] \in Int
    BY WinParts
  <2>2. QED BY <1>1, <1>2, <2>1
<1>7. SameOpen(w, v, p, t) /\ OtherCounts(w, v, p)
  BY <1>1 DEF SameOpen, OtherCounts
<1>8. QED BY <1>1, <1>2, <1>3, <1>4, <1>5, <1>6, <1>7 DEF Serves

-----------------------------------------------------------------------------
(* The calls on an opened table. *)

Filled(f, s, ref) == [f EXCEPT !.row[s] = ref]

LEMMA FilledIs ==
  ASSUME NEW f \in Files, NEW s \in Slots, NEW ref \in Refs, NEW l, l = Filled(f, s, ref)
  PROVE  /\ l \in Files /\ l.fsize = f.fsize /\ l.tab_size = f.tab_size /\ l.tab_used = f.tab_used
         /\ l.tab_data_free = f.tab_data_free /\ l.tab_data_used = f.tab_data_used
         /\ l.data = f.data /\ l.row[s] = ref /\ \A r \in Slots : r # s => l.row[r] = f.row[r]
<1>1. PICK rw : rw = [f.row EXCEPT ![s] = ref]
  OBVIOUS
<1>2. rw \in [Slots -> Refs] /\ rw[s] = ref /\ \A r \in Slots : r # s => rw[r] = f.row[r]
  BY <1>1 DEF Files
<1>3. l = [f EXCEPT !.row = rw]
  BY <1>1 DEF Filled, Files
<1>4. QED BY <1>2, <1>3 DEF Files

LEMMA PutServes ==
  ASSUME NEW g \in Wins, MapOK(g), FilesOK(g), NEW p \in Procs, NEW t \in Tabs, Opened(g, p, t),
         NEW f \in Files, f = g.ino[t][0], NEW s \in Slots, s \notin Live(f),
         NEW rec \in Recs, HashRow(rec.key) = s[1],
         NEW ref, ref = [pos |-> f.tab_used, tab |-> HashTab2(rec.key)],
         NEW a, a = Append_(g, p, t, rec),
         NEW b, b = SetFile(a, t, a.map[p][t].ino, Filled(File(a, p, t), s, ref))
  PROVE  Serves(g, b, p, t) /\ OneRec(g, b, t, s, rec)
<1>1. FileOK(f)
  BY DEF FilesOK
<1>2. PICK e : /\ e \in Files /\ FileOK(e) /\ e.tab_used = f.tab_used /\ e.tab_used + rec.len <= e.tab_size
               /\ e.tab_size # 0 /\ Same(f, e) /\ f.fsize <= e.fsize
               /\ a \in Wins /\ SameTabs(g, a) /\ OtherMaps(g, a, p, t) /\ OtherFiles(g, a, t, 0)
               /\ a.count_mmap = g.count_mmap /\ a.map[p][t].ino = 0 /\ a.map[p][t].size = e.tab_size
               /\ a.ino[t][0] = AppendRec(e, rec)
  BY <1>1, AppendedIs
<1>3. PICK h : h = AppendRec(e, rec)
  OBVIOUS
<1>4. /\ h \in Files /\ h.fsize = e.fsize /\ h.tab_size = e.tab_size /\ h.tab_used = e.tab_used + rec.len
      /\ h.tab_data_free = e.tab_data_free /\ h.tab_data_used = e.tab_data_used + rec.len
      /\ h.row = e.row /\ h.data = Longer(e, rec)
  BY <1>2, <1>3, AppendIs
<1>5. ref \in Refs
  BY <1>2, FileParts, RecIs DEF Refs
<1>6. PICK l : l = Filled(h, s, ref)
  OBVIOUS
<1>7. /\ l \in Files /\ l.fsize = h.fsize /\ l.tab_size = h.tab_size /\ l.tab_used = h.tab_used
      /\ l.tab_data_free = h.tab_data_free /\ l.tab_data_used = h.tab_data_used
      /\ l.data = h.data /\ l.row[s] = ref /\ \A r \in Slots : r # s => l.row[r] = h.row[r]
  BY <1>4, <1>5, <1>6, FilledIs
<1>8. s \notin Live(e)
  BY <1>2 DEF Same
<1>9. FileOK(l) /\ Holds(l, s) = rec /\ \A r \in Slots : r # s => Holds(l, r) = Holds(e, r)
  BY <1>2, <1>4, <1>7, <1>8, PutIs
<1>10. b = SetFile(a, t, 0, l)
  BY <1>2, <1>3, <1>6 DEF File
<1>11. /\ b \in Wins /\ SameTabs(a, b) /\ OtherFiles(a, b, t, 0)
       /\ b.map = a.map /\ b.count_mmap = a.count_mmap /\ b.ino[t][0] = l
  BY <1>2, <1>7, <1>10, SetNameIs
<1>12. SameTabs(g, b) /\ OtherMaps(g, b, p, t) /\ OtherFiles(g, b, t, 0)
  <2>1. SameTabs(g, b)
    BY <1>2, <1>11 DEF SameTabs
  <2>2. OtherMaps(g, b, p, t)
    BY <1>2, <1>11 DEF OtherMaps
  <2>3. OtherFiles(g, b, t, 0)
    BY <1>2, <1>11 DEF OtherFiles
  <2>4. QED BY <2>1, <2>2, <2>3
<1>13. Opened(b, p, t)
  <2>1. b.map[p][t].ino = 0 /\ b.map[p][t].size = e.tab_size
    BY <1>2, <1>11
  <2>2. b.ino[t][0].tab_size = e.tab_size
    BY <1>4, <1>7, <1>11
  <2>3. QED BY <1>2, <2>1, <2>2 DEF Opened
<1>14. \A u \in Tabs : u # t => b.ino[u][0] = g.ino[u][0]
  BY <1>12, InodesAre DEF OtherFiles
<1>15. FilesOK(b)
  <2> SUFFICES ASSUME NEW u \in Tabs PROVE FileOK(b.ino[u][0])
    BY DEF FilesOK
  <2>1. CASE u = t
    BY <1>9, <1>11, <2>1
  <2>2. CASE u # t
    <3>1. b.ino[u][0] = g.ino[u][0]
      BY <1>14, <2>2
    <3>2. FileOK(g.ino[u][0])
      BY DEF FilesOK
    <3>3. QED BY <3>1, <3>2
  <2>3. QED BY <2>1, <2>2
<1>16. MapOK(b)
  <2> SUFFICES ASSUME NEW q \in Procs, NEW u \in Tabs PROVE MapAt(b, q, u)
    BY DEF MapOK
  <2>1. CASE q = p /\ u = t
    BY <1>9, <1>11, <1>13, <2>1, OpenedAt
  <2>2. CASE u # t
    <3>1. b.map[q][u] = g.map[q][u] /\ \A j \in Inodes : b.ino[u][j] = g.ino[u][j]
      BY <1>12, <2>2 DEF OtherMaps, OtherFiles
    <3>2. QED BY <3>1, KeptAt DEF MapOK
  <2>3. CASE q # p /\ u = t
    <3>1. b.map[q][t] = g.map[q][t] /\ \A j \in Inodes : j # 0 => b.ino[t][j] = g.ino[t][j]
      BY <1>12, <2>3 DEF OtherMaps, OtherFiles
    <3>2. MapAt(g, q, t)
      BY DEF MapOK
    <3>3. b.ino[t][0].tab_size # 0
      BY <1>13 DEF Opened
    <3>4. g.ino[t][0].fsize <= b.ino[t][0].fsize
      BY <1>2, <1>4, <1>7, <1>11
    <3>5. QED BY <1>11, <2>3, <3>1, <3>2, <3>3, <3>4, GrewAt
  <2>4. QED BY <2>1, <2>2, <2>3
<1>17. b.count_mmap[p] = g.count_mmap[p] + (IF g.map[p][t].ino = NotMapped THEN 1 ELSE 0)
  <2>1. g.count_mmap[p] \in Int /\ g.map[p][t].ino # NotMapped
    BY WinParts, InodesAre DEF Opened
  <2>2. QED BY <1>2, <1>11, <2>1
<1>18. SameOpen(g, b, p, t) /\ OtherCounts(g, b, p)
  BY <1>2, <1>11, <1>12 DEF SameOpen, OtherMaps, OtherCounts
<1>19. OneRec(g, b, t, s, rec)
  <2>1. \A r \in Slots : r # s => Holds(l, r) = Holds(f, r)
    BY <1>2, <1>9 DEF Same
  <2>2. ASSUME NEW u \in Tabs, NEW r \in Slots, u # t \/ r # s
        PROVE  Holds(b.ino[u][0], r) = Holds(g.ino[u][0], r)
    <3>1. CASE u = t
      BY <1>11, <2>1, <2>2, <3>1
    <3>2. CASE u # t
      BY <1>14, <3>2
    <3>3. QED BY <3>1, <3>2
  <2>3. QED BY <1>9, <1>11, <2>2 DEF OneRec
<1>20. QED BY <1>11, <1>12, <1>13, <1>15, <1>16, <1>17, <1>18, <1>19 DEF Serves

(* x leads to the ref in slot r of file f. *)
Hits(f, x, r) ==
  /\ r \in Live(f) /\ f.row[r].tab = Tab2Of(x)
  /\ IF "key" \in DOMAIN x THEN Holds(f, r).key = x.key ELSE r = x.uid[2]

LEMMA TargetIs ==
  ASSUME NEW x \in AllTargets
  PROVE  /\ Tab2Of(x) \in Tabs
         /\ "key" \in DOMAIN x => x.key \in Keys /\ Tab2Of(x) = HashTab2(x.key) /\ HashRow(x.key) \in 0 .. Rows - 1
         /\ "key" \notin DOMAIN x => x.uid \in Uids /\ x.uid[2] \in Slots /\ Tab2Of(x) = x.uid[1]
<1>1. \A k \in Keys : HashTab2(k) \in Tabs /\ HashRow(k) \in 0 .. Rows - 1
  BY SizeAssumption, Zenon DEF Tabs
<1>2. CASE x \in [key : Keys]
  <2>1. "key" \in DOMAIN x /\ x.key \in Keys
    BY <1>2
  <2>2. QED BY <1>1, <2>1 DEF Tab2Of
<1>3. CASE x \in [uid : Uids]
  <2>1. "key" \notin DOMAIN x /\ x.uid \in Uids
    BY <1>3
  <2>2. x.uid[1] \in Tabs /\ x.uid[2] \in Slots
    BY <2>1 DEF Uids
  <2>3. QED BY <2>1, <2>2 DEF Tab2Of
<1>4. QED BY <1>2, <1>3 DEF AllTargets

LEMMA FirstRef ==
  ASSUME NEW T \in SUBSET Slots, T # {}
  PROVE  (CHOOSE s \in T : \A r \in T : s[2] <= r[2]) \in T
<1> DEFINE R == {s[2] : s \in T}
<1>1. \A s \in T : s[2] \in Nat
  BY DEF Slots
<1>2. R \subseteq Nat /\ R # {}
  BY <1>1
<1>3. PICK d \in R : \A e \in R : d <= e
  <2> HIDE DEF R
  <2> QED BY <1>2, LeastOf
<1>4. PICK s \in T : s[2] = d
  OBVIOUS
<1>5. \A r \in T : s[2] <= r[2]
  BY <1>3, <1>4
<1> HIDE DEF R
<1>6. QED BY <1>4, <1>5

LEMMA NoSlotIs == NoSlot \notin Slots
BY DEF NoSlot, Slots

LEMMA FindSlotIs ==
  ASSUME NEW f \in Files, FileOK(f), NEW x \in AllTargets, NEW s, s = FindSlot(f, x)
  PROVE  IF s = NoSlot THEN \A r \in Slots : ~Hits(f, x, r) ELSE Hits(f, x, s)
<1>1. \A r \in Slots : (r \in Live(f) <=> f.row[r].pos # 0) /\ (f.row[r].pos # 0 => Holds(f, r) = f.data[f.row[r].pos])
  BY DEF Live, Holds
<1>2. CASE "key" \in DOMAIN x
  <2>1. x.key \in Keys /\ Tab2Of(x) = HashTab2(x.key)
    BY <1>2, TargetIs
  <2>2. PICK T : T = {r \in Slots : /\ r[1] = HashRow(x.key) /\ f.row[r].pos # 0
                                    /\ f.row[r].tab = HashTab2(x.key) /\ f.data[f.row[r].pos].key = x.key}
    OBVIOUS
  <2>3. \A r \in Slots : r \in T <=> Hits(f, x, r)
    <3> SUFFICES ASSUME NEW r \in Slots PROVE r \in T <=> Hits(f, x, r)
      OBVIOUS
    <3>1. r \in Live(f) => HashRow(Holds(f, r).key) = r[1]
      BY HoldsLive
    <3>2. QED BY <1>1, <1>2, <2>1, <2>2, <3>1 DEF Hits
  <2>4. s = IF T = {} THEN NoSlot ELSE CHOOSE r \in T : \A q \in T : r[2] <= q[2]
    BY <1>2, <2>2 DEF FindSlot
  <2>5. T \in SUBSET Slots
    BY <2>2
  <2>6. T # {} => s \in T
    BY <2>4, <2>5, FirstRef
  <2>7. CASE T = {}
    <3>1. s = NoSlot /\ \A r \in Slots : ~Hits(f, x, r)
      BY <2>3, <2>4, <2>7
    <3>2. QED BY <3>1
  <2>8. CASE T # {}
    <3>1. s # NoSlot /\ Hits(f, x, s)
      BY <2>3, <2>5, <2>6, <2>8, NoSlotIs
    <3>2. QED BY <3>1
  <2>9. QED BY <2>7, <2>8
<1>3. CASE "key" \notin DOMAIN x
  <2>1. PICK r : r \in Slots /\ r = x.uid[2]
    BY <1>3, TargetIs
  <2>2. Tab2Of(x) = x.uid[1]
    BY <1>3, TargetIs
  <2>3. s = IF f.row[r].pos # 0 /\ f.row[r].tab = x.uid[1] THEN r ELSE NoSlot
    BY <1>3, <2>1 DEF FindSlot
  <2>4. \A q \in Slots : Hits(f, x, q) <=> q = r /\ f.row[r].pos # 0 /\ f.row[r].tab = x.uid[1]
    BY <1>1, <1>3, <2>1, <2>2 DEF Hits
  <2>5. QED BY <2>1, <2>3, <2>4, NoSlotIs
<1>4. QED BY <1>2, <1>3

LEMMA StoreServes ==
  ASSUME NEW g \in Wins, MapOK(g), FilesOK(g), NEW p \in Procs, NEW t \in Tabs, Opened(g, p, t),
         NEW f \in Files, f = g.ino[t][0], NEW s \in Live(f), NEW n \in Nums,
         NEW b, b = SetFile(g, t, 0, Revalued(f, s, n))
  PROVE  Serves(g, b, p, t) /\ OneRec(g, b, t, s, [Holds(f, s) EXCEPT !.n = n])
<1>1. PICK h : h = Revalued(f, s, n)
  OBVIOUS
<1>2. FileOK(f)
  BY DEF FilesOK
<1>3. /\ h \in Files /\ FileOK(h) /\ h.fsize = f.fsize /\ h.tab_size = f.tab_size
      /\ Holds(h, s) = [Holds(f, s) EXCEPT !.n = n]
      /\ \A r \in Slots : r # s => Holds(h, r) = Holds(f, r)
  BY <1>1, <1>2, StoreIs
<1>4. b = SetFile(g, t, 0, h)
  BY <1>1
<1>5. Serves(g, b, p, t) /\ b.ino[t][0] = h /\ \A u \in Tabs : u # t => b.ino[u][0] = g.ino[u][0]
  BY <1>3, <1>4, SetServes
<1>6. OneRec(g, b, t, s, [Holds(f, s) EXCEPT !.n = n])
  BY <1>3, <1>5 DEF OneRec
<1>7. QED BY <1>5, <1>6

LEMMA DelServes ==
  ASSUME NEW g \in Wins, MapOK(g), FilesOK(g), NEW p \in Procs, NEW t \in Tabs, Opened(g, p, t),
         NEW f \in Files, f = g.ino[t][0], NEW s \in Live(f),
         NEW b, b = SetFile(g, t, 0, MarkDeleted(f, s))
  PROVE  Serves(g, b, p, t) /\ OneRec(g, b, t, s, NoRec)
<1>1. PICK h : h = MarkDeleted(f, s)
  OBVIOUS
<1>2. FileOK(f)
  BY DEF FilesOK
<1>3. /\ h \in Files /\ FileOK(h) /\ h.fsize = f.fsize /\ h.tab_size = f.tab_size
      /\ Holds(h, s) = NoRec /\ \A r \in Slots : r # s => Holds(h, r) = Holds(f, r)
  BY <1>1, <1>2, MarkIs
<1>4. b = SetFile(g, t, 0, h)
  BY <1>1
<1>5. Serves(g, b, p, t) /\ b.ino[t][0] = h /\ \A u \in Tabs : u # t => b.ino[u][0] = g.ino[u][0]
  BY <1>3, <1>4, SetServes
<1>6. OneRec(g, b, t, s, NoRec)
  BY <1>3, <1>5 DEF OneRec
<1>7. QED BY <1>5, <1>6

-----------------------------------------------------------------------------
(* What a call makes of the redirects and the records. *)

Quiet(w, v) == SameTabs(w, v) /\ SameRecs(w, v)

Gains(w, v, rec) ==
  /\ SameTabs(w, v)
  /\ \E t \in Tabs, s \in Slots :
       /\ w.tabs[HashTab2(rec.key)] = t /\ HashRow(rec.key) = s[1]
       /\ Holds(w.ino[t][0], s) = NoRec /\ OneRec(w, v, t, s, rec)

Alters(w, v) ==
  /\ SameTabs(w, v)
  /\ \E t \in Tabs, s \in Slots, n \in Nums :
       /\ Holds(w.ino[t][0], s) # NoRec
       /\ OneRec(w, v, t, s, [Holds(w.ino[t][0], s) EXCEPT !.n = n])

Loses(w, v) ==
  /\ SameTabs(w, v)
  /\ \E t \in Tabs, s \in Slots : Holds(w.ino[t][0], s) # NoRec /\ OneRec(w, v, t, s, NoRec)

Moved(w, v, old, new) ==
  /\ new = w.tabs_used /\ v.tabs_used = w.tabs_used + 1 /\ v.tabs = Redirect(w, old, new)
  /\ \A u \in Tabs : u # old /\ u # new => Same(w.ino[u][0], v.ino[u][0])
  /\ Splits(w, v, old, new)

LEMMA HeldIs ==
  ASSUME NEW w \in Wins, FilesOK(w), NEW t \in Tabs, NEW s \in Slots
  PROVE  /\ Holds(w.ino[t][0], s) \in Recs \cup {NoRec}
         /\ Holds(w.ino[t][0], s) # NoRec => /\ Holds(w.ino[t][0], s) \in Recs /\ HashTab2(Holds(w.ino[t][0], s).key) \in Tabs
                                             /\ HashRow(Holds(w.ino[t][0], s).key) = s[1]
<1>1. PICK f : f \in Files /\ f = w.ino[t][0]
  BY InodesAre DEF Wins
<1>2. FileOK(f)
  BY <1>1 DEF FilesOK
<1>3. /\ Holds(f, s) \in Recs \cup {NoRec} /\ (Holds(f, s) # NoRec <=> s \in Live(f))
      /\ s \in Live(f) => HashRow(Holds(f, s).key) = s[1]
  BY <1>1, <1>2, HoldsLive
<1>4. Holds(f, s) # NoRec => Holds(f, s) \in Recs /\ HashTab2(Holds(f, s).key) \in Tabs
  BY <1>3, RecIs
<1>5. QED BY <1>1, <1>3, <1>4

LEMMA HomesGained ==
  ASSUME NEW w, Homes(w), NEW v, NEW rec, Gains(w, v, rec)
  PROVE  Homes(v)
BY HomesOne DEF Gains

LEMMA HomesLost ==
  ASSUME NEW w, Homes(w), NEW v, Loses(w, v)
  PROVE  Homes(v)
BY HomesOne DEF Loses

LEMMA HomesAltered ==
  ASSUME NEW w \in Wins, FilesOK(w), Homes(w), NEW v, Alters(w, v)
  PROVE  Homes(v)
<1>1. PICK t \in Tabs, s \in Slots, n \in Nums :
        /\ Holds(w.ino[t][0], s) # NoRec
        /\ OneRec(w, v, t, s, [Holds(w.ino[t][0], s) EXCEPT !.n = n])
  BY DEF Alters
<1>2. PICK h : h = Holds(w.ino[t][0], s)
  OBVIOUS
<1>3. h \in Recs /\ w.tabs[HashTab2(h.key)] = t
  BY <1>1, <1>2, HeldIs DEF Homes, Home
<1>4. PICK k : k = [h EXCEPT !.n = n]
  OBVIOUS
<1>5. k.key = h.key
  BY <1>3, <1>4 DEF Recs
<1>6. OneRec(w, v, t, s, k) /\ w.tabs[HashTab2(k.key)] = t
  BY <1>1, <1>2, <1>3, <1>4, <1>5
<1>7. QED BY <1>6, HomesOne DEF Alters

LEMMA HomesMoved ==
  ASSUME NEW w \in Wins, FilesOK(w), TabsOK(w), Homes(w), NEW v, NEW old \in Tabs, NEW new \in Tabs, old # new,
         Moved(w, v, old, new)
  PROVE  Homes(v)
<1> SUFFICES ASSUME NEW u \in Tabs, NEW s \in Slots PROVE Home(v, u, s)
  BY DEF Homes
<1>1. PICK d : d = Redirect(w, old, new)
  OBVIOUS
<1>2. v.tabs = d /\ \A b \in Tabs : d[b] = w.tabs[b] \/ (w.tabs[b] = old /\ d[b] = new)
  BY <1>1, RedirectIs DEF Moved
<1>3. PICK h : h = Holds(w.ino[old][0], s)
  OBVIOUS
<1>4. h # NoRec => HashTab2(h.key) \in Tabs /\ w.tabs[HashTab2(h.key)] = old
  BY <1>3, HeldIs DEF Homes, Home
<1>5. /\ Holds(v.ino[old][0], s) = IF Moves(d, new, h) THEN NoRec ELSE h
      /\ Holds(v.ino[new][0], s) = IF Moves(d, new, h) THEN h ELSE NoRec
  BY <1>2, <1>3 DEF Moved, Splits
<1>6. CASE u = old
  <2>1. CASE Moves(d, new, h)
    BY <1>5, <1>6, <2>1 DEF Home
  <2>2. CASE ~Moves(d, new, h)
    BY <1>2, <1>4, <1>5, <1>6, <2>2 DEF Home, Moves
  <2>3. QED BY <2>1, <2>2
<1>7. CASE u = new
  BY <1>2, <1>5, <1>7 DEF Home, Moves
<1>8. CASE u # old /\ u # new
  <2>1. PICK k : k = Holds(w.ino[u][0], s)
    OBVIOUS
  <2>2. k # NoRec => HashTab2(k.key) \in Tabs /\ w.tabs[HashTab2(k.key)] = u
    BY <2>1, HeldIs DEF Homes, Home
  <2>3. Holds(v.ino[u][0], s) = k
    BY <1>8, <2>1 DEF Moved, Same
  <2>4. QED BY <1>2, <1>8, <2>2, <2>3 DEF Home
<1>9. QED BY <1>6, <1>7, <1>8

LEMMA PartsBase ==
  ASSUME NEW w, Base(w), NEW p \in Procs, w.count_mmap[p] > 0, NEW old \in Tabs, NEW new \in Tabs, new = w.tabs_used,
         NEW v, Parts(w, v, p, old, new)
  PROVE  Base(v)
<1>1. w \in Wins /\ TabsOK(w) /\ CountAt(w, p) /\ w.tabs_used \in Nat
  BY DEF Base, Wins
<1>2. /\ v \in Wins /\ MapOK(v) /\ FilesOK(v) /\ v.tabs_used = w.tabs_used + 1 /\ v.tabs = Redirect(w, old, new)
      /\ SameOpen(w, v, p, new) /\ v.map[p][new].ino # NotMapped
      /\ OtherCounts(w, v, p) /\ v.count_mmap[p] = w.count_mmap[p] + 1
  BY DEF Parts
<1>3. ASSUME NEW q \in Procs, q # p PROVE CountAt(v, q)
  <2>1. Has(v, q) = Has(w, q)
    BY <1>2, <1>3 DEF SameOpen, Has
  <2>2. v.count_mmap[q] = w.count_mmap[q]
    BY <1>2, <1>3 DEF OtherCounts
  <2>3. QED BY <2>1, <2>2 DEF Base, CountAt
<1>4. Nobody(w, new)
  BY <1>1 DEF TabsOK
<1>5. CountAt(v, p)
  <2>1. Has(v, p) = Has(w, p) \cup {new} /\ new \notin Has(w, p)
    BY <1>2, <1>4 DEF SameOpen, Has, Nobody
  <2>2. PICK n \in Nat : n = Cardinality(Has(w, p))
    BY HasIs
  <2>3. Cardinality(Has(v, p)) = n + 1
    <3>1. IsFiniteSet(Has(w, p))
      BY HasIs
    <3>2. QED BY <2>1, <2>2, <3>1, FS_AddElement
  <2>4. w.count_mmap[p] = 1 + n
    BY <1>1, <2>2 DEF CountAt
  <2>5. v.count_mmap[p] = 1 + Cardinality(Has(v, p)) /\ v.count_mmap[p] # 0
    BY <1>2, <2>3, <2>4
  <2>6. QED BY <2>5 DEF CountAt
<1>6. TabsOK(v)
  <2>1. ASSUME NEW u \in Tabs PROVE v.tabs[u] < v.tabs_used
    <3>1. w.tabs[u] \in Nat /\ w.tabs[u] < w.tabs_used
      BY <1>1, WinParts, TabsAre DEF TabsOK
    <3>2. v.tabs[u] = w.tabs[u] \/ v.tabs[u] = new
      BY <1>1, <1>2, RedirectIs
    <3>3. QED BY <1>1, <1>2, <3>1, <3>2
  <2>2. v.tabs_used >= 1
    BY <1>1, <1>2
  <2>3. ASSUME NEW u \in Tabs, u >= v.tabs_used, NEW q \in Procs PROVE v.map[q][u].ino = NotMapped
    <3>1. u \in Nat /\ u >= w.tabs_used /\ u # new
      BY <1>1, <1>2, <2>3, TabsAre
    <3>2. w.map[q][u].ino = NotMapped
      BY <1>1, <3>1 DEF TabsOK, Nobody
    <3>3. QED BY <1>2, <3>1, <3>2 DEF SameOpen
  <2>4. QED BY <2>1, <2>2, <2>3 DEF TabsOK, Nobody
<1>7. \A q \in Procs : CountAt(v, q)
  BY <1>3, <1>5
<1>8. QED BY <1>2, <1>6, <1>7 DEF Base

-----------------------------------------------------------------------------
(* The calls.  Each keeps the invariant and has one of the five effects.    *)

StuckOK ==
  \/ stuck = {} /\ m.tabs_used <= TabsPerWin
  \/ (\E p \in Procs : stuck = {p}) /\ m.tabs_used <= TabsPerWin + 1

PendOK == pend \in [Procs -> Puts \cup {NoRec}]

Inv == Base(m) /\ Homes(m) /\ PendOK /\ StuckOK

LEMMA TabIs ==
  ASSUME Inv, NEW u \in Tabs
  PROVE  m \in Wins /\ m.tabs[u] \in Tabs /\ m.tabs[u] < m.tabs_used
<1>1. m \in Wins /\ m.tabs[u] < m.tabs_used
  BY DEF Inv, Base, TabsOK
<1>2. m.tabs[u] \in Tabs
  BY <1>1 DEF Wins
<1>3. QED BY <1>1, <1>2

(* p opens table t. *)
LEMMA EnterIs ==
  ASSUME Inv, NEW p \in Procs, m.count_mmap[p] > 0, NEW t \in Tabs, t < m.tabs_used,
         NEW g, g = GetTab(m, p, t)
  PROVE  /\ Serves(m, g, p, t) /\ Base(g) /\ Homes(g) /\ Quiet(m, g) /\ Opened(g, p, t) /\ g.map[p][t].ino = 0
         /\ g.count_mmap[p] > 0
         /\ File(g, p, t) = g.ino[t][0] /\ g.ino[t][0] \in Files /\ FileOK(g.ino[t][0])
         /\ \A u \in Tabs, s \in Slots : Holds(g.ino[u][0], s) = Holds(m.ino[u][0], s)
<1>1. Base(m) /\ Homes(m) /\ m \in Wins /\ MapOK(m) /\ FilesOK(m)
  BY DEF Inv, Base
<1>2. Serves(m, g, p, t) /\ SameRecs(m, g) /\ File(g, p, t) = g.ino[t][0]
  BY <1>1, GetTabServes
<1>3. Base(g) /\ g.count_mmap[p] > 0
  BY <1>1, <1>2, ServesBase
<1>4. SameTabs(m, g) /\ Opened(g, p, t)
  BY <1>2 DEF Serves
<1>5. Homes(g)
  BY <1>1, <1>2, <1>4, HomesKept
<1>6. g.ino[t][0] \in Files /\ FileOK(g.ino[t][0])
  BY <1>3, InodesAre DEF Base, Wins, FilesOK
<1>7. QED BY <1>2, <1>3, <1>4, <1>5, <1>6 DEF Quiet, SameRecs, Same, Opened

(* A call that ends with state v after it opened t and changed a record. *)
LEMMA ServedBase ==
  ASSUME Inv, NEW p \in Procs, m.count_mmap[p] > 0, NEW t \in Tabs, t < m.tabs_used,
         NEW g, Serves(m, g, p, t), NEW v, Serves(g, v, p, t)
  PROVE  Base(v) /\ SameTabs(m, v) /\ v.count_mmap[p] > 0
<1>1. Base(m) /\ m \in Wins
  BY DEF Inv, Base
<1>2. Serves(m, v, p, t)
  BY <1>1, ServesTwice
<1>3. QED BY <1>1, <1>2, ServesBase DEF Serves

(* Looking up x, and what p finds. *)
LEMMA LookupIs ==
  ASSUME Inv, NEW p \in Procs, m.count_mmap[p] > 0, NEW x \in AllTargets,
         NEW at, at = Lookup(p, x), NEW t, t = m.tabs[Tab2Of(x)]
  PROVE  /\ at.t = t /\ at.g = GetTab(m, p, t) /\ t \in Tabs /\ t < m.tabs_used
         /\ IF at.s = NoSlot THEN \A r \in Slots : ~Hits(at.g.ino[t][0], x, r)
            ELSE Hits(at.g.ino[t][0], x, at.s) /\ Found(at, p) = Holds(at.g.ino[t][0], at.s)
<1>1. t \in Tabs /\ t < m.tabs_used
  BY TargetIs, TabIs
<1>2. at.t = t /\ at.g = GetTab(m, p, t) /\ at.s = FindSlot(File(at.g, p, t), x)
  BY DEF Lookup
<1>3. PICK f : f \in Files /\ f = at.g.ino[t][0] /\ FileOK(f) /\ File(at.g, p, t) = f
  BY <1>1, <1>2, EnterIs
<1>4. IF at.s = NoSlot THEN \A r \in Slots : ~Hits(f, x, r) ELSE Hits(f, x, at.s)
  BY <1>2, <1>3, FindSlotIs
<1>5. at.s # NoSlot => Found(at, p) = Holds(f, at.s)
  <2> SUFFICES ASSUME at.s # NoSlot PROVE Found(at, p) = Holds(f, at.s)
    OBVIOUS
  <2>1. at.s \in Live(f)
    BY <1>4 DEF Hits
  <2>2. Holds(f, at.s) = f.data[f.row[at.s].pos]
    BY <1>3, <2>1, LiveRef
  <2>3. QED BY <1>2, <1>3, <2>2 DEF Found
<1>6. QED BY <1>1, <1>2, <1>3, <1>4, <1>5

Counted(w, p, n) == [w EXCEPT !.count_mmap[p] = n]

LEMMA CountedIs ==
  ASSUME NEW w \in Wins, NEW p \in Procs, NEW n \in Int, NEW v, v = Counted(w, p, n)
  PROVE  /\ v \in Wins /\ v.map = w.map /\ v.ino = w.ino /\ v.tabs = w.tabs /\ v.tabs_used = w.tabs_used
         /\ v.count_mmap[p] = n /\ OtherCounts(w, v, p)
<1>1. v \in Wins
  BY DEF Counted, Wins
<1>2. QED BY <1>1 DEF Counted, Wins, OtherCounts

LEMMA AttachIs ==
  ASSUME Inv, NEW p \in Procs, Attach(p)
  PROVE  Base(m') /\ Quiet(m, m')
<1>1. Base(m) /\ m \in Wins /\ m.count_mmap[p] = 0 /\ Has(m, p) = {}
  BY DEF Inv, Base, CountAt, Attach
<1>2. PICK v : v = m'
  OBVIOUS
<1>3. v = Counted(m, p, 1)
  BY <1>2 DEF Attach, Counted
<1>4. /\ v \in Wins /\ v.map = m.map /\ v.ino = m.ino /\ v.tabs = m.tabs /\ v.tabs_used = m.tabs_used
      /\ v.count_mmap[p] = 1 /\ OtherCounts(m, v, p)
  BY <1>1, <1>3, CountedIs
<1>5. ASSUME NEW q \in Procs PROVE CountAt(v, q)
  <2>1. Has(v, q) = Has(m, q)
    BY <1>4 DEF Has
  <2>2. CASE q = p
    BY <1>1, <1>4, <2>1, <2>2, FS_EmptySet DEF CountAt
  <2>3. CASE q # p
    BY <1>1, <1>4, <2>1, <2>3 DEF CountAt, Base, OtherCounts
  <2>4. QED BY <2>2, <2>3
<1>6. MapOK(v) /\ FilesOK(v) /\ TabsOK(v)
  BY <1>1, <1>4 DEF Base, MapOK, MapAt, FilesOK, TabsOK, Nobody
<1>7. Quiet(m, v)
  BY <1>4 DEF Quiet, SameTabs, SameRecs, Same
<1>8. QED BY <1>2, <1>4, <1>5, <1>6, <1>7 DEF Base

NoMaps == [t \in Tabs |-> [ino |-> NotMapped, size |-> 0]]
Unmapped(w, p) == [w EXCEPT !.map[p] = NoMaps, !.count_mmap[p] = 0]

LEMMA UnmappedIs ==
  ASSUME NEW w \in Wins, NEW p \in Procs, NEW v, v = Unmapped(w, p)
  PROVE  /\ v \in Wins /\ v.ino = w.ino /\ v.tabs = w.tabs /\ v.tabs_used = w.tabs_used
         /\ v.count_mmap[p] = 0 /\ OtherCounts(w, v, p)
         /\ \A t \in Tabs : v.map[p][t].ino = NotMapped /\ v.map[p][t].size = 0
         /\ \A q \in Procs : q # p => v.map[q] = w.map[q]
<1>1. NoMaps \in [Tabs -> Maps] /\ \A t \in Tabs : NoMaps[t].ino = NotMapped /\ NoMaps[t].size = 0
  BY DEF Maps, NoMaps
<1>2. v \in Wins
  <2>1. [w.map EXCEPT ![p] = NoMaps] \in [Procs -> [Tabs -> Maps]] /\ [w.count_mmap EXCEPT ![p] = 0] \in [Procs -> Int]
    BY <1>1 DEF Wins
  <2>2. v = [w EXCEPT !.map = [w.map EXCEPT ![p] = NoMaps], !.count_mmap = [w.count_mmap EXCEPT ![p] = 0]]
    BY DEF Unmapped, Wins
  <2>3. QED BY <2>1, <2>2 DEF Wins
<1>3. v.map[p] = NoMaps /\ \A q \in Procs : q # p => v.map[q] = w.map[q]
  BY DEF Unmapped, Wins
<1>4. QED BY <1>1, <1>2, <1>3 DEF Unmapped, Wins, OtherCounts

LEMMA DetachIs ==
  ASSUME Inv, NEW p \in Procs, Detach(p)
  PROVE  Base(m') /\ Quiet(m, m')
<1>1. Base(m) /\ m \in Wins
  BY DEF Inv, Base
<1>2. PICK v : v = m'
  OBVIOUS
<1>3. PICK a : a = Unmapped(m, p)
  OBVIOUS
<1>4. v = Reclaim(a)
  BY <1>2, <1>3 DEF Detach, Unmapped, NoMaps
<1>5. /\ a \in Wins /\ a.ino = m.ino /\ a.tabs = m.tabs /\ a.tabs_used = m.tabs_used
      /\ a.count_mmap[p] = 0 /\ OtherCounts(m, a, p)
      /\ \A t \in Tabs : a.map[p][t].ino = NotMapped /\ a.map[p][t].size = 0
      /\ \A q \in Procs : q # p => a.map[q] = m.map[q]
  BY <1>1, <1>3, UnmappedIs
<1>6. /\ v \in Wins /\ SameTabs(a, v) /\ v.map = a.map /\ v.count_mmap = a.count_mmap
      /\ \A t \in Tabs : v.ino[t][0] = a.ino[t][0]
      /\ \A t \in Tabs, q \in Procs : a.map[q][t].ino # NotMapped =>
           v.ino[t][a.map[q][t].ino] = a.ino[t][a.map[q][t].ino]
  <2>1. a \in Wins
    BY <1>5
  <2>2. QED BY <1>4, <2>1, ReclaimIs
<1>7. ASSUME NEW q \in Procs PROVE CountAt(v, q)
  <2>1. CASE q = p
    BY <1>5, <1>6, <2>1 DEF CountAt, Has
  <2>2. CASE q # p
    <3>1. Has(v, q) = Has(m, q) /\ v.count_mmap[q] = m.count_mmap[q]
      BY <1>5, <1>6, <2>2 DEF Has, OtherCounts
    <3>2. QED BY <1>1, <3>1 DEF CountAt, Base
  <2>3. QED BY <2>1, <2>2
<1>8. MapOK(v)
  <2> SUFFICES ASSUME NEW q \in Procs, NEW t \in Tabs PROVE MapAt(v, q, t)
    BY DEF MapOK
  <2>1. CASE q = p
    BY <1>5, <1>6, <2>1, InodesAre DEF MapAt
  <2>2. CASE q # p
    <3>1. v.map[q][t] = m.map[q][t] /\ a.map[q][t] = m.map[q][t] /\ MapAt(m, q, t)
      BY <1>1, <1>5, <1>6, <2>2 DEF Base, MapOK
    <3>2. m.map[q][t].ino # NotMapped => v.ino[t][m.map[q][t].ino] = m.ino[t][m.map[q][t].ino]
      BY <1>5, <1>6, <3>1
    <3>3. v.ino[t][0] = m.ino[t][0]
      BY <1>5, <1>6
    <3>4. QED BY <3>1, <3>2, <3>3, InodesAre DEF MapAt
  <2>3. QED BY <2>1, <2>2
<1>9. FilesOK(v)
  BY <1>1, <1>5, <1>6 DEF Base, FilesOK
<1>10. TabsOK(v)
  <2>1. \A q \in Procs, t \in Tabs : v.map[q][t].ino = NotMapped \/ v.map[q][t] = m.map[q][t]
    BY <1>5, <1>6
  <2>2. v.tabs = m.tabs /\ v.tabs_used = m.tabs_used
    BY <1>5, <1>6 DEF SameTabs
  <2>3. QED BY <1>1, <2>1, <2>2 DEF Base, TabsOK, Nobody
<1>11. Quiet(m, v)
  BY <1>5, <1>6 DEF Quiet, SameTabs, SameRecs, Same
<1>12. QED BY <1>2, <1>6, <1>7, <1>8, <1>9, <1>10, <1>11 DEF Base

LEMMA OneRecSame ==
  ASSUME NEW w, NEW a, NEW b, NEW v, NEW t \in Tabs, NEW s \in Slots, NEW rec,
         SameRecs(w, a), OneRec(a, b, t, s, rec), SameRecs(b, v)
  PROVE  OneRec(w, v, t, s, rec)
BY DEF SameRecs, Same, OneRec

LEMMA FreeRefIs ==
  ASSUME NEW f \in Files, NEW row \in 0 .. Rows - 1, FreeRefs(f, row) # {}, NEW s, s = <<row, Min(FreeRefs(f, row))>>
  PROVE  s \in Slots /\ s[1] = row /\ s \notin Live(f)
<1>1. FreeRefs(f, row) \subseteq Nat
  BY DEF FreeRefs
<1>2. Min(FreeRefs(f, row)) \in FreeRefs(f, row)
  BY <1>1, MinIn
<1>3. PICK r : r = Min(FreeRefs(f, row))
  OBVIOUS
<1>4. r \in 0 .. RefsPerRow - 1 /\ f.row[<<row, r>>].pos = 0
  BY <1>2, <1>3 DEF FreeRefs
<1>5. QED BY <1>3, <1>4 DEF Live, Slots

LEMMA PutInRowIs ==
  ASSUME Inv, NEW p \in Procs, NEW rec \in Puts, PutInRow(p, rec)
  PROVE  Base(m') /\ Gains(m, m', rec)
<1>1. rec \in Recs
  BY SizeAssumption, Zenon DEF Recs
<1>2. PICK t : t = m.tabs[HashTab2(rec.key)]
  OBVIOUS
<1>3. t \in Tabs /\ t < m.tabs_used /\ m.count_mmap[p] > 0 /\ HashRow(rec.key) \in 0 .. Rows - 1 /\ m \in Wins
  BY <1>1, <1>2, RecIs, TabIs DEF PutInRow, PutsNow
<1>4. PICK g : g = GetTab(m, p, t)
  OBVIOUS
<1>5. /\ Serves(m, g, p, t) /\ Base(g) /\ Quiet(m, g) /\ Opened(g, p, t) /\ File(g, p, t) = g.ino[t][0]
      /\ g.ino[t][0] \in Files /\ FileOK(g.ino[t][0])
  BY <1>3, <1>4, EnterIs
<1>6. PICK f : f \in Files /\ f = g.ino[t][0] /\ File(g, p, t) = f /\ FileOK(f)
  BY <1>5
<1>7. PICK s : s = <<HashRow(rec.key), Min(FreeRefs(f, HashRow(rec.key)))>>
  OBVIOUS
<1>8. s \in Slots /\ s[1] = HashRow(rec.key) /\ s \notin Live(f)
  <2>1. FreeRefs(f, HashRow(rec.key)) # {}
    BY <1>2, <1>4, <1>6 DEF PutInRow
  <2>2. QED BY <1>3, <1>6, <1>7, <2>1, FreeRefIs
<1>9. PICK ref : ref = [pos |-> f.tab_used, tab |-> HashTab2(rec.key)]
  OBVIOUS
<1>10. PICK a : a = Append_(g, p, t, rec)
  OBVIOUS
<1>11. PICK b : b = SetFile(a, t, a.map[p][t].ino, Filled(File(a, p, t), s, ref))
  OBVIOUS
<1>12. m' = b \/ m' = TabShrink(b, p, t)
  BY <1>2, <1>4, <1>6, <1>7, <1>9, <1>10, <1>11 DEF PutInRow, Filled
<1>13. Serves(g, b, p, t) /\ OneRec(g, b, t, s, rec)
  <2>1. g \in Wins /\ MapOK(g) /\ FilesOK(g)
    BY <1>5 DEF Base
  <2>2. QED BY <1>1, <1>3, <1>5, <1>6, <1>8, <1>9, <1>10, <1>11, <2>1, PutServes
<1>14. PICK v : v = m'
  OBVIOUS
<1>15. Serves(g, v, p, t) /\ SameRecs(b, v)
  <2>1. CASE v = b
    BY <1>13, <2>1 DEF SameRecs, Same
  <2>2. CASE v = TabShrink(b, p, t)
    <3>1. b \in Wins /\ MapOK(b) /\ FilesOK(b)
      BY <1>13 DEF Serves
    <3>2. Serves(b, v, p, t) /\ SameRecs(b, v)
      BY <1>3, <2>2, <3>1, TabShrinkIs
    <3>3. g \in Wins
      BY <1>5 DEF Base
    <3>4. QED BY <1>3, <1>13, <3>2, <3>3, ServesTwice
  <2>3. QED BY <1>12, <1>14, <2>1, <2>2
<1>16. Base(v) /\ SameTabs(m, v)
  BY <1>3, <1>5, <1>15, ServedBase
<1>17. OneRec(m, v, t, s, rec)
  BY <1>3, <1>5, <1>8, <1>13, <1>15, OneRecSame DEF Quiet
<1>18. Holds(m.ino[t][0], s) = NoRec
  <2>1. Holds(f, s) = NoRec
    BY <1>6, <1>8, HoldsLive
  <2>2. QED BY <1>3, <1>5, <1>6, <1>8, <2>1 DEF Quiet, SameRecs, Same
<1>19. Gains(m, v, rec)
  BY <1>2, <1>3, <1>8, <1>16, <1>17, <1>18 DEF Gains
<1>20. QED BY <1>14, <1>16, <1>19

LEMMA PutPartsIs ==
  ASSUME Inv, NEW p \in Procs, NEW rec \in Puts, PutParts(p, rec),
         NEW old, old = m.tabs[HashTab2(rec.key)], NEW new, new = m.tabs_used
  PROVE  old \in Tabs /\ new \in Tabs /\ old # new /\ Base(m') /\ Moved(m, m', old, new)
<1>1. rec \in Recs
  BY SizeAssumption, Zenon DEF Recs
<1>2. old \in Tabs /\ old < m.tabs_used /\ m.count_mmap[p] > 0 /\ m \in Wins /\ m.tabs_used < TabsPerWin
  BY <1>1, RecIs, TabIs DEF PutParts, PutsNow
<1>3. new \in Tabs /\ old # new
  <2>1. m.tabs_used \in Nat
    BY <1>2 DEF Wins
  <2>2. QED BY <1>2, <2>1, TabsAre, SizeAssumption DEF Tabs
<1>4. PICK g : g = GetTab(m, p, old)
  OBVIOUS
<1>5. Base(g) /\ Quiet(m, g) /\ Opened(g, p, old) /\ g.count_mmap[p] > 0 /\ SameRecs(m, g) /\ SameTabs(m, g)
  BY <1>2, <1>4, EnterIs DEF Quiet
<1>6. PICK v : v = m'
  OBVIOUS
<1>7. v = TabPart(g, p, old)
  BY <1>4, <1>6 DEF PutParts
<1>8. g \in Wins /\ MapOK(g) /\ FilesOK(g) /\ TabsOK(g) /\ new = g.tabs_used /\ Nobody(g, new)
  <2>1. g \in Wins /\ MapOK(g) /\ FilesOK(g) /\ TabsOK(g)
    BY <1>5 DEF Base
  <2>2. new = g.tabs_used
    BY <1>5 DEF SameTabs
  <2>3. new >= g.tabs_used
    BY <1>3, <2>2, TabsAre
  <2>4. QED BY <1>3, <2>1, <2>2, <2>3 DEF TabsOK
<1>9. Parts(g, v, p, old, new)
  BY <1>2, <1>3, <1>5, <1>7, <1>8, TabPartIs
<1>10. Base(v)
  BY <1>2, <1>3, <1>5, <1>8, <1>9, PartsBase
<1>11. Redirect(g, old, new) = Redirect(m, old, new)
  BY <1>5 DEF Redirect, SameTabs
<1>12. Splits(m, v, old, new)
  <2>1. \A s \in Slots : Holds(g.ino[old][0], s) = Holds(m.ino[old][0], s)
    BY <1>2, <1>5 DEF SameRecs, Same
  <2>2. QED BY <1>9, <2>1 DEF Parts, Splits
<1>13. v.tabs_used = m.tabs_used + 1 /\ v.tabs = Redirect(m, old, new)
  BY <1>8, <1>9, <1>11 DEF Parts
<1>14. \A u \in Tabs : u # old /\ u # new => Same(m.ino[u][0], v.ino[u][0])
  BY <1>5, <1>9 DEF Parts, SameRecs, Same
<1>15. Moved(m, v, old, new)
  BY <1>12, <1>13, <1>14 DEF Moved
<1>16. QED BY <1>2, <1>3, <1>6, <1>10, <1>15

LEMMA PutOverflowsIs ==
  ASSUME Inv, NEW p \in Procs, NEW rec \in Puts, PutOverflows(p, rec)
  PROVE  /\ Base(m') /\ SameRecs(m, m') /\ m'.tabs = m.tabs /\ m.tabs_used = TabsPerWin /\ m'.tabs_used = TabsPerWin + 1
         /\ stuck = {} /\ stuck' = {p}
<1>1. rec \in Recs
  BY SizeAssumption, Zenon DEF Recs
<1>2. PICK t : t = m.tabs[HashTab2(rec.key)]
  OBVIOUS
<1>3. t \in Tabs /\ t < m.tabs_used /\ m.count_mmap[p] > 0
  BY <1>1, <1>2, RecIs, TabIs DEF PutOverflows, PutsNow
<1>4. PICK g : g = GetTab(m, p, t)
  OBVIOUS
<1>5. Base(g) /\ SameRecs(m, g) /\ SameTabs(m, g)
  BY <1>3, <1>4, EnterIs DEF Quiet
<1>6. PICK v : v = m'
  OBVIOUS
<1>7. g \in Wins /\ g.tabs_used = TabsPerWin /\ TabsPerWin \in Nat
  BY <1>5, SizeAssumption DEF Base, SameTabs, PutOverflows
<1>8. PICK d : d = g.tabs
  OBVIOUS
<1>9. d \in [Tabs -> Tabs] /\ v = WithTab(g, d)
  BY <1>2, <1>4, <1>6, <1>7, <1>8 DEF PutOverflows, WithTab, Wins
<1>10. /\ v \in Wins /\ v.map = g.map /\ v.ino = g.ino /\ v.count_mmap = g.count_mmap
       /\ v.tabs = g.tabs /\ v.tabs_used = TabsPerWin + 1
  BY <1>7, <1>8, <1>9, WithTabIs
<1>11. Base(v)
  <2>1. MapOK(v) /\ FilesOK(v) /\ \A q \in Procs : CountAt(v, q)
    BY <1>5, <1>10 DEF Base, MapOK, MapAt, FilesOK, CountAt, Has
  <2>2. TabsOK(v)
    <3>1. \A u \in Tabs : v.tabs[u] \in Tabs /\ v.tabs[u] < TabsPerWin
      BY <1>10, TabsAre DEF Wins
    <3>2. \A u \in Tabs : v.tabs[u] < v.tabs_used
      BY <1>7, <1>10, <3>1, TabsAre
    <3>3. \A u \in Tabs : ~(u >= v.tabs_used)
      BY <1>7, <1>10, TabsAre
    <3>4. QED BY <1>7, <1>10, <3>2, <3>3 DEF TabsOK
  <2>3. QED BY <1>10, <2>1, <2>2 DEF Base
<1>12. SameRecs(m, v)
  BY <1>5, <1>10 DEF SameRecs, Same
<1>13. QED BY <1>5, <1>6, <1>10, <1>11, <1>12 DEF PutOverflows, PutsNow, SameTabs

(* What p found is one record of the store; f is the file it is in. *)
LEMMA FoundIs ==
  ASSUME Inv, NEW p \in Procs, m.count_mmap[p] > 0, NEW x \in AllTargets,
         NEW at, at = Lookup(p, x), at.s # NoSlot, NEW t, t = m.tabs[Tab2Of(x)],
         NEW g, g = at.g, NEW f, f = g.ino[t][0]
  PROVE  /\ at.t = t /\ t \in Tabs /\ t < m.tabs_used /\ f \in Files /\ FileOK(f) /\ at.s \in Live(f) /\ at.s \in Slots
         /\ g \in Wins /\ MapOK(g) /\ FilesOK(g) /\ Opened(g, p, t) /\ g.map[p][t].ino = 0 /\ File(g, p, t) = f
         /\ Serves(m, g, p, t) /\ SameRecs(m, g)
         /\ Found(at, p) = Holds(f, at.s) /\ Found(at, p) = Holds(m.ino[t][0], at.s) /\ Found(at, p) \in Recs
<1>1. at.t = t /\ g = GetTab(m, p, t) /\ t \in Tabs /\ t < m.tabs_used /\ Hits(f, x, at.s) /\ Found(at, p) = Holds(f, at.s)
  BY LookupIs
<1>2. /\ Serves(m, g, p, t) /\ Base(g) /\ Quiet(m, g) /\ Opened(g, p, t) /\ g.map[p][t].ino = 0
      /\ File(g, p, t) = f /\ f \in Files /\ FileOK(f)
      /\ \A u \in Tabs, s \in Slots : Holds(g.ino[u][0], s) = Holds(m.ino[u][0], s)
  <2>1. g = GetTab(m, p, t) /\ t \in Tabs /\ t < m.tabs_used
    BY <1>1
  <2>2. /\ Serves(m, g, p, t) /\ Base(g) /\ Quiet(m, g) /\ Opened(g, p, t) /\ g.map[p][t].ino = 0
        /\ File(g, p, t) = g.ino[t][0] /\ g.ino[t][0] \in Files /\ FileOK(g.ino[t][0])
        /\ \A u \in Tabs, s \in Slots : Holds(g.ino[u][0], s) = Holds(m.ino[u][0], s)
    BY <2>1, EnterIs
  <2>3. QED BY <2>2
<1>3. at.s \in Live(f)
  BY <1>1 DEF Hits
<1>4. at.s \in Slots /\ Holds(f, at.s) \in Recs
  BY <1>2, <1>3, LiveRef
<1>5. Holds(f, at.s) = Holds(m.ino[t][0], at.s)
  BY <1>1, <1>2, <1>4
<1>6. g \in Wins /\ MapOK(g) /\ FilesOK(g)
  BY <1>2 DEF Base
<1>7. QED BY <1>1, <1>2, <1>3, <1>4, <1>5, <1>6 DEF Quiet

LEMMA StoredIs ==
  ASSUME Inv, NEW p \in Procs, m.count_mmap[p] > 0, NEW x \in AllTargets,
         NEW at, at = Lookup(p, x), at.s # NoSlot, NEW n \in Nums, NEW v, v = Store(at, p, n)
  PROVE  Base(v) /\ Alters(m, v)
<1>1. PICK t : t = m.tabs[Tab2Of(x)]
  OBVIOUS
<1>2. PICK g : g = at.g
  OBVIOUS
<1>3. PICK f : f = g.ino[t][0]
  OBVIOUS
<1>4. /\ at.t = t /\ t \in Tabs /\ t < m.tabs_used /\ f \in Files /\ at.s \in Live(f) /\ at.s \in Slots
      /\ g \in Wins /\ MapOK(g) /\ FilesOK(g) /\ Opened(g, p, t) /\ g.map[p][t].ino = 0 /\ File(g, p, t) = f
      /\ Serves(m, g, p, t) /\ SameRecs(m, g)
      /\ Holds(f, at.s) = Holds(m.ino[t][0], at.s) /\ Holds(f, at.s) \in Recs
  BY <1>1, <1>2, <1>3, FoundIs
<1>5. PICK s : s = at.s
  OBVIOUS
<1>6. v = SetFile(g, t, 0, Revalued(f, s, n))
  BY <1>2, <1>4, <1>5 DEF Store, Revalued
<1>7. Serves(g, v, p, t) /\ OneRec(g, v, t, s, [Holds(f, s) EXCEPT !.n = n])
  BY <1>3, <1>4, <1>5, <1>6, StoreServes
<1>8. Base(v) /\ SameTabs(m, v)
  BY <1>4, <1>7, ServedBase
<1>9. SameRecs(v, v)
  BY DEF SameRecs, Same
<1>10. OneRec(m, v, t, s, [Holds(f, s) EXCEPT !.n = n])
  BY <1>4, <1>5, <1>7, <1>9, OneRecSame
<1>11. Holds(m.ino[t][0], s) # NoRec
  BY <1>4, <1>5, RecIs
<1>12. OneRec(m, v, t, s, [Holds(m.ino[t][0], s) EXCEPT !.n = n])
  BY <1>4, <1>5, <1>10
<1>13. QED BY <1>4, <1>5, <1>8, <1>11, <1>12 DEF Alters

LEMMA ErasedIs ==
  ASSUME Inv, NEW p \in Procs, m.count_mmap[p] > 0, NEW x \in AllTargets,
         NEW at, at = Lookup(p, x), at.s # NoSlot,
         NEW v, v = SetFile(at.g, at.t, at.g.map[p][at.t].ino, MarkDeleted(File(at.g, p, at.t), at.s))
  PROVE  Base(v) /\ Loses(m, v)
<1>1. PICK t : t = m.tabs[Tab2Of(x)]
  OBVIOUS
<1>2. PICK g : g = at.g
  OBVIOUS
<1>3. PICK f : f = g.ino[t][0]
  OBVIOUS
<1>4. /\ at.t = t /\ t \in Tabs /\ t < m.tabs_used /\ f \in Files /\ at.s \in Live(f) /\ at.s \in Slots
      /\ g \in Wins /\ MapOK(g) /\ FilesOK(g) /\ Opened(g, p, t) /\ g.map[p][t].ino = 0 /\ File(g, p, t) = f
      /\ Serves(m, g, p, t) /\ SameRecs(m, g)
      /\ Holds(f, at.s) = Holds(m.ino[t][0], at.s) /\ Holds(f, at.s) \in Recs
  <2>1. at.g = g /\ m.tabs[Tab2Of(x)] = t /\ f = g.ino[t][0]
    BY <1>1, <1>2, <1>3
  <2>2. QED BY <2>1, FoundIs
<1>5. PICK s : s = at.s
  OBVIOUS
<1>6. v = SetFile(g, t, 0, MarkDeleted(f, s))
  BY <1>2, <1>4, <1>5
<1>7. Serves(g, v, p, t) /\ OneRec(g, v, t, s, NoRec)
  BY <1>3, <1>4, <1>5, <1>6, DelServes
<1>8. Base(v) /\ SameTabs(m, v)
  BY <1>4, <1>7, ServedBase
<1>9. SameRecs(v, v)
  BY DEF SameRecs, Same
<1>10. OneRec(m, v, t, s, NoRec)
  BY <1>4, <1>5, <1>7, <1>9, OneRecSame
<1>11. Holds(m.ino[t][0], s) # NoRec
  BY <1>4, <1>5, RecIs
<1>12. QED BY <1>4, <1>5, <1>8, <1>10, <1>11 DEF Loses

(* A call that only opens the table it looks in. *)
LEMMA LookedIs ==
  ASSUME Inv, NEW p \in Procs, m.count_mmap[p] > 0, NEW x \in AllTargets
  PROVE  Base(Lookup(p, x).g) /\ Quiet(m, Lookup(p, x).g)
<1>1. PICK at : at = Lookup(p, x)
  OBVIOUS
<1>2. PICK t : t = m.tabs[Tab2Of(x)]
  OBVIOUS
<1>3. at.g = GetTab(m, p, t) /\ t \in Tabs /\ t < m.tabs_used
  BY <1>1, <1>2, LookupIs
<1>4. Base(at.g) /\ Quiet(m, at.g)
  BY <1>3, EnterIs
<1>5. QED BY <1>1, <1>4

LEMMA GetAddrIs ==
  ASSUME Inv, NEW p \in Procs, NEW x \in AllTargets, GetAddr(p, x)
  PROVE  Base(m') /\ Quiet(m, m')
<1>1. m' = Lookup(p, x).g /\ m.count_mmap[p] > 0
  BY DEF GetAddr, Find, Free
<1>2. QED BY <1>1, LookedIs

LEMMA GetCopyIs ==
  ASSUME Inv, NEW p \in Procs, NEW x \in AllTargets, GetCopy(p, x)
  PROVE  Base(m') /\ Quiet(m, m')
<1>1. PICK at : at = Lookup(p, x)
  OBVIOUS
<1>2. PICK t : t = m.tabs[Tab2Of(x)]
  OBVIOUS
<1>3. m.count_mmap[p] > 0
  BY DEF GetCopy, Find, Free
<1>4. at.t = t /\ at.g = GetTab(m, p, t) /\ t \in Tabs /\ t < m.tabs_used
  BY <1>1, <1>2, <1>3, LookupIs
<1>5. m' = at.g \/ m' = TabShrink(at.g, p, t)
  BY <1>1, <1>4 DEF GetCopy, Find
<1>6. PICK g : g = at.g
  OBVIOUS
<1>7. Serves(m, g, p, t) /\ Base(g) /\ Quiet(m, g)
  BY <1>3, <1>4, <1>6, EnterIs
<1>8. CASE m' = at.g
  BY <1>6, <1>7, <1>8
<1>9. CASE m' = TabShrink(at.g, p, t)
  <2>1. PICK v : v = m'
    OBVIOUS
  <2>2. g \in Wins /\ MapOK(g) /\ FilesOK(g)
    BY <1>7 DEF Base
  <2>3. Serves(g, v, p, t) /\ SameRecs(g, v)
    BY <1>4, <1>6, <1>9, <2>1, <2>2, TabShrinkIs
  <2>4. Base(v) /\ SameTabs(m, v)
    BY <1>3, <1>4, <1>7, <2>3, ServedBase
  <2>5. SameRecs(m, v)
    BY <1>7, <2>3 DEF Quiet, SameRecs, Same
  <2>6. QED BY <2>1, <2>4, <2>5 DEF Quiet
<1>10. QED BY <1>5, <1>8, <1>9

LEMMA NumsAre ==
  ASSUME NEW a \in Nums, NEW b \in Nums
  PROVE  (a + b) % Cardinality(Nums) \in Nums
<1>1. PICK c \in Nat : c = Cardinality(Nums)
  BY SizeAssumption, FS_CardinalityType
<1>2. Nums = 0 .. c - 1 /\ 0 \in Nums
  BY <1>1, SizeAssumption
<1>3. c > 0 /\ a \in Nat /\ b \in Nat
  BY <1>2
<1>4. (a + b) % c \in 0 .. c - 1
  BY <1>3
<1>5. QED BY <1>1, <1>2, <1>4

LEMMA AddAtomIs ==
  ASSUME Inv, NEW p \in Procs, NEW x \in AllTargets, NEW n \in Nums, AddAtom(p, x, n)
  PROVE  Base(m') /\ (Quiet(m, m') \/ Alters(m, m'))
<1>1. PICK at : at = Lookup(p, x)
  OBVIOUS
<1>2. m.count_mmap[p] > 0
  BY DEF AddAtom, Find, Free
<1>3. m' = at.g \/ (at.s # NoSlot /\ m' = Store(at, p, (Found(at, p).n + n) % Cardinality(Nums)))
  BY <1>1 DEF AddAtom, Find
<1>4. CASE m' = at.g
  BY <1>1, <1>2, <1>4, LookedIs
<1>5. CASE at.s # NoSlot /\ m' = Store(at, p, (Found(at, p).n + n) % Cardinality(Nums))
  <2>1. Found(at, p).n \in Nums
    BY <1>1, <1>2, <1>5, FoundIs, RecIs
  <2>2. PICK k : k = (Found(at, p).n + n) % Cardinality(Nums)
    OBVIOUS
  <2>3. k \in Nums
    BY <2>1, <2>2, NumsAre
  <2>4. QED BY <1>1, <1>2, <1>5, <2>2, <2>3, StoredIs
<1>6. QED BY <1>3, <1>4, <1>5

LEMMA UpdIs ==
  ASSUME Inv, NEW p \in Procs, NEW x \in AllTargets, NEW len \in Lens, NEW n \in Nums, Upd(p, x, len, n)
  PROVE  Base(m') /\ (Quiet(m, m') \/ Alters(m, m'))
<1>1. PICK at : at = Lookup(p, x)
  OBVIOUS
<1>2. m.count_mmap[p] > 0
  BY DEF Upd, Find, Free
<1>3. m' = at.g \/ (at.s # NoSlot /\ m' = Store(at, p, n))
  BY <1>1 DEF Upd, Find
<1>4. CASE m' = at.g
  BY <1>1, <1>2, <1>4, LookedIs
<1>5. CASE at.s # NoSlot /\ m' = Store(at, p, n)
  BY <1>1, <1>2, <1>5, StoredIs
<1>6. QED BY <1>3, <1>4, <1>5

LEMMA DelIs ==
  ASSUME Inv, NEW p \in Procs, NEW x \in AllTargets, NEW ttl \in Nums, Del(p, x, ttl)
  PROVE  Base(m') /\ (Quiet(m, m') \/ Loses(m, m'))
<1>1. PICK at : at = Lookup(p, x)
  OBVIOUS
<1>2. m.count_mmap[p] > 0
  BY DEF Del, Find, Free
<1>3. \/ m' = at.g
      \/ /\ at.s # NoSlot
         /\ m' = SetFile(at.g, at.t, at.g.map[p][at.t].ino, MarkDeleted(File(at.g, p, at.t), at.s))
  BY <1>1 DEF Del, Find
<1>4. CASE m' = at.g
  BY <1>1, <1>2, <1>4, LookedIs
<1>5. CASE at.s # NoSlot /\ m' = SetFile(at.g, at.t, at.g.map[p][at.t].ino, MarkDeleted(File(at.g, p, at.t), at.s))
  BY <1>1, <1>2, <1>5, ErasedIs
<1>6. QED BY <1>3, <1>4, <1>5

LEMMA IterateIs ==
  ASSUME Inv, NEW p \in Procs, NEW t \in Tabs, t < m.tabs_used, Free(p), m' = GetTab(m, p, t)
  PROVE  Base(m') /\ Homes(m') /\ Quiet(m, m')
<1>1. m.count_mmap[p] > 0
  BY DEF Free
<1>2. QED BY <1>1, EnterIs

-----------------------------------------------------------------------------
(* The invariant. *)

LEMMA InvInit ==
  ASSUME Init
  PROVE  Inv
<1>1. m = [tabs |-> [u \in Tabs |-> 0], tabs_used |-> 1,
           ino |-> [t \in Tabs |-> [i \in Inodes |-> NewFile]],
           map |-> [p \in Procs |-> [t \in Tabs |-> [ino |-> NotMapped, size |-> 0]]],
           count_mmap |-> [p \in Procs |-> 0]]
  BY DEF Init
<1>2. /\ m.tabs_used = 1 /\ \A u \in Tabs : m.tabs[u] = 0
      /\ \A t \in Tabs, i \in Inodes : m.ino[t][i] = NewFile
      /\ \A p \in Procs, t \in Tabs : m.map[p][t].ino = NotMapped /\ m.map[p][t].size = 0
      /\ \A p \in Procs : m.count_mmap[p] = 0
  BY <1>1
<1>3. m \in Wins
  <2>1. [u \in Tabs |-> 0] \in [Tabs -> Tabs]
    BY TabsAre
  <2>2. [t \in Tabs |-> [i \in Inodes |-> NewFile]] \in [Tabs -> [Inodes -> Files]]
    BY NewFileIs
  <2>3. NoMaps \in [Tabs -> Maps]
    BY DEF Maps, NoMaps
  <2>4. [p \in Procs |-> NoMaps] \in [Procs -> [Tabs -> Maps]]
    BY <2>3
  <2>5. [p \in Procs |-> 0] \in [Procs -> Int]
    OBVIOUS
  <2>6. m = [tabs |-> [u \in Tabs |-> 0], tabs_used |-> 1,
             ino |-> [t \in Tabs |-> [i \in Inodes |-> NewFile]],
             map |-> [p \in Procs |-> NoMaps], count_mmap |-> [p \in Procs |-> 0]]
    BY <1>1 DEF NoMaps
  <2>7. QED BY <2>1, <2>2, <2>4, <2>5, <2>6 DEF Wins
<1>4. MapOK(m)
  BY <1>2, InodesAre DEF MapOK, MapAt
<1>5. FilesOK(m)
  BY <1>2, NewFileIs, InodesAre DEF FilesOK
<1>6. TabsOK(m)
  BY <1>2, TabsAre DEF TabsOK, Nobody
<1>7. \A p \in Procs : CountAt(m, p)
  BY <1>2 DEF CountAt, Has
<1>8. Homes(m)
  BY <1>2, NewFileIs, InodesAre DEF Homes, Home
<1>9. PendOK
  BY DEF Init, PendOK
<1>10. StuckOK
  BY <1>2, SizeAssumption DEF Init, StuckOK
<1>11. QED BY <1>3, <1>4, <1>5, <1>6, <1>7, <1>8, <1>9, <1>10 DEF Inv, Base

LEMMA PendIs ==
  ASSUME PendOK, NEW p \in Procs, NEW x \in Puts \cup {NoRec}, pend' = [pend EXCEPT ![p] = x]
  PROVE  PendOK'
BY DEF PendOK

LEMMA StuckKept ==
  ASSUME StuckOK, SameTabs(m, m'), UNCHANGED stuck
  PROVE  StuckOK'
BY DEF StuckOK, SameTabs

LEMMA QuietInv ==
  ASSUME Inv, Base(m'), Quiet(m, m'), UNCHANGED <<pend, stuck>>
  PROVE  Inv'
<1>1. Homes(m')
  BY HomesKept DEF Quiet, Inv
<1>2. StuckOK' /\ PendOK'
  BY StuckKept DEF Quiet, Inv, PendOK
<1>3. QED BY <1>1, <1>2 DEF Inv

LEMMA ChangeInv ==
  ASSUME Inv, Base(m'), Quiet(m, m') \/ Alters(m, m') \/ Loses(m, m'), UNCHANGED <<pend, stuck>>
  PROVE  Inv'
<1>1. m \in Wins /\ FilesOK(m) /\ Homes(m)
  BY DEF Inv, Base
<1>2. Homes(m')
  <2>1. CASE Quiet(m, m')
    BY <1>1, <2>1, HomesKept DEF Quiet
  <2>2. CASE Alters(m, m')
    BY <1>1, <2>2, HomesAltered
  <2>3. CASE Loses(m, m')
    BY <1>1, <2>3, HomesLost
  <2>4. QED BY <2>1, <2>2, <2>3
<1>3. StuckOK' /\ PendOK'
  BY StuckKept DEF Quiet, Alters, Loses, Inv, PendOK
<1>4. QED BY <1>2, <1>3 DEF Inv

(* What a step does, for the properties of steps: which call it is, and its *)
(* effect on the records and the redirects.                                 *)
LEMMA StepIs ==
  ASSUME Inv, Next
  PROVE  /\ Inv'
         /\ \/ Quiet(m, m') /\ UNCHANGED stuck
            \/ \E rec \in Puts : Gains(m, m', rec) /\ UNCHANGED stuck
            \/ Alters(m, m') /\ UNCHANGED stuck
            \/ Loses(m, m') /\ UNCHANGED stuck /\ \E p \in Procs, x \in Targets, ttl \in Nums : Del(p, x, ttl)
            \/ \E old, new \in Tabs : old # new /\ Moved(m, m', old, new) /\ UNCHANGED stuck
            \/ SameRecs(m, m') /\ m'.tabs = m.tabs /\ m'.tabs_used = m.tabs_used + 1
<1>1. Base(m) /\ m \in Wins /\ FilesOK(m) /\ TabsOK(m) /\ Homes(m) /\ PendOK /\ StuckOK
  BY DEF Inv, Base
<1>2. PICK p \in Procs :
        \/ Attach(p)
        \/ Detach(p)
        \/ \E rec \in Puts : PutInRow(p, rec) \/ PutParts(p, rec) \/ PutOverflows(p, rec)
        \/ \E x \in Targets :
             \/ GetAddr(p, x)
             \/ GetCopy(p, x)
             \/ \E n \in Nums : AddAtom(p, x, n) \/ Del(p, x, n) \/ \E len \in Lens : Upd(p, x, len, n)
  BY DEF Next
<1>3. \A x \in Targets : x \in AllTargets
  BY TargetsAssumption
<1>4. CASE Attach(p)
  <2>1. Base(m') /\ Quiet(m, m') /\ UNCHANGED <<pend, stuck>>
    BY <1>4, AttachIs DEF Attach
  <2>2. QED BY <2>1, QuietInv
<1>5. CASE Detach(p)
  <2>1. Base(m') /\ Quiet(m, m') /\ UNCHANGED <<pend, stuck>>
    BY <1>5, DetachIs DEF Detach
  <2>2. QED BY <2>1, QuietInv
<1>6. ASSUME NEW rec \in Puts, PutInRow(p, rec)
      PROVE  Inv' /\ Gains(m, m', rec) /\ UNCHANGED stuck
  <2>1. Base(m') /\ Gains(m, m', rec)
    BY <1>6, PutInRowIs
  <2>2. pend' = [pend EXCEPT ![p] = NoRec] /\ UNCHANGED stuck
    BY <1>6 DEF PutInRow
  <2>3. Homes(m')
    BY <1>1, <2>1, HomesGained
  <2>4. PendOK'
    BY <1>1, <2>2, PendIs
  <2>5. StuckOK'
    BY <1>1, <2>1, <2>2, StuckKept DEF Gains
  <2>6. QED BY <2>1, <2>2, <2>3, <2>4, <2>5 DEF Inv
<1>7. ASSUME NEW rec \in Puts, PutParts(p, rec)
      PROVE  Inv' /\ (\E old, new \in Tabs : old # new /\ Moved(m, m', old, new)) /\ UNCHANGED stuck
  <2>1. PICK old : old = m.tabs[HashTab2(rec.key)]
    OBVIOUS
  <2>2. PICK new : new = m.tabs_used
    OBVIOUS
  <2>3. old \in Tabs /\ new \in Tabs /\ old # new /\ Base(m') /\ Moved(m, m', old, new)
    BY <1>7, <2>1, <2>2, PutPartsIs
  <2>4. pend' = [pend EXCEPT ![p] = rec] /\ UNCHANGED stuck /\ stuck = {} /\ m.tabs_used < TabsPerWin
    BY <1>7 DEF PutParts, PutsNow
  <2>5. Homes(m')
    BY <1>1, <2>3, HomesMoved
  <2>6. PendOK'
    BY <1>1, <2>4, PendIs
  <2>7. StuckOK'
    <3>1. m'.tabs_used <= TabsPerWin
      BY <1>1, <2>3, <2>4, SizeAssumption DEF Moved, Wins
    <3>2. QED BY <2>4, <3>1 DEF StuckOK
  <2>8. QED BY <2>3, <2>4, <2>5, <2>6, <2>7 DEF Inv
<1>8. ASSUME NEW rec \in Puts, PutOverflows(p, rec)
      PROVE  Inv' /\ SameRecs(m, m') /\ m'.tabs = m.tabs /\ m'.tabs_used = m.tabs_used + 1
  <2>1. /\ Base(m') /\ SameRecs(m, m') /\ m'.tabs = m.tabs /\ m.tabs_used = TabsPerWin /\ m'.tabs_used = TabsPerWin + 1
        /\ stuck' = {p}
    BY <1>8, PutOverflowsIs
  <2>2. Homes(m')
    BY <1>1, <2>1 DEF Homes, Home, SameRecs, Same
  <2>3. PendOK'
    BY <1>1, <1>8 DEF PutOverflows, PendOK
  <2>4. StuckOK'
    BY <2>1, SizeAssumption DEF StuckOK
  <2>5. QED BY <2>1, <2>2, <2>3, <2>4 DEF Inv
<1>9. ASSUME NEW x \in Targets, GetAddr(p, x)
      PROVE  Inv' /\ Quiet(m, m') /\ UNCHANGED stuck
  <2>1. Base(m') /\ Quiet(m, m') /\ UNCHANGED <<pend, stuck>>
    BY <1>3, <1>9, GetAddrIs DEF GetAddr, Find
  <2>2. QED BY <2>1, QuietInv
<1>10. ASSUME NEW x \in Targets, GetCopy(p, x)
       PROVE  Inv' /\ Quiet(m, m') /\ UNCHANGED stuck
  <2>1. Base(m') /\ Quiet(m, m') /\ UNCHANGED <<pend, stuck>>
    BY <1>3, <1>10, GetCopyIs DEF GetCopy, Find
  <2>2. QED BY <2>1, QuietInv
<1>11. ASSUME NEW x \in Targets, NEW n \in Nums, AddAtom(p, x, n)
       PROVE  Inv' /\ (Quiet(m, m') \/ Alters(m, m')) /\ UNCHANGED stuck
  <2>1. Base(m') /\ (Quiet(m, m') \/ Alters(m, m')) /\ UNCHANGED <<pend, stuck>>
    BY <1>3, <1>11, AddAtomIs DEF AddAtom, Find
  <2>2. QED BY <2>1, ChangeInv
<1>12. ASSUME NEW x \in Targets, NEW n \in Nums, Del(p, x, n)
       PROVE  Inv' /\ (Quiet(m, m') \/ Loses(m, m')) /\ UNCHANGED stuck
  <2>1. Base(m') /\ (Quiet(m, m') \/ Loses(m, m')) /\ UNCHANGED <<pend, stuck>>
    BY <1>3, <1>12, DelIs DEF Del, Find
  <2>2. QED BY <2>1, ChangeInv
<1>13. ASSUME NEW x \in Targets, NEW n \in Nums, NEW len \in Lens, Upd(p, x, len, n)
       PROVE  Inv' /\ (Quiet(m, m') \/ Alters(m, m')) /\ UNCHANGED stuck
  <2>1. Base(m') /\ (Quiet(m, m') \/ Alters(m, m')) /\ UNCHANGED <<pend, stuck>>
    BY <1>3, <1>13, UpdIs DEF Upd, Find
  <2>2. QED BY <2>1, ChangeInv
<1>14. CASE Attach(p) \/ Detach(p)
  <2>1. Inv' /\ Quiet(m, m') /\ UNCHANGED stuck
    BY <1>4, <1>5, <1>14, AttachIs, DetachIs DEF Attach, Detach
  <2>2. QED BY <2>1
<1>15. CASE \E rec \in Puts : PutInRow(p, rec) \/ PutParts(p, rec) \/ PutOverflows(p, rec)
  BY <1>6, <1>7, <1>8, <1>15
<1>16. CASE \E x \in Targets :
              \/ GetAddr(p, x)
              \/ GetCopy(p, x)
              \/ \E n \in Nums : AddAtom(p, x, n) \/ Del(p, x, n) \/ \E len \in Lens : Upd(p, x, len, n)
  BY <1>9, <1>10, <1>11, <1>12, <1>13, <1>16
<1>17. QED BY <1>2, <1>14, <1>15, <1>16

-----------------------------------------------------------------------------
(* Seen through the redirects. *)

StoreOf(w, u) ==
  LET h == Holds(w.ino[w.tabs[u[1]]][0], u[2])
  IN  IF h # NoRec /\ HashTab2(h.key) = u[1] THEN h ELSE NoRec

LEMMA SlotIs ==
  ASSUME NEW f \in Files, FileOK(f), NEW a \in Tabs, NEW s \in Slots
  PROVE  (IF f.row[s].pos # 0 /\ f.row[s].tab = a THEN f.data[f.row[s].pos] ELSE NoRec)
           = (IF Holds(f, s) # NoRec /\ HashTab2(Holds(f, s).key) = a THEN Holds(f, s) ELSE NoRec)
<1>1. CASE f.row[s].pos # 0
  <2>1. /\ Holds(f, s) # NoRec /\ HashTab2(Holds(f, s).key) = f.row[s].tab
        /\ Holds(f, s) = f.data[f.row[s].pos]
    BY <1>1, HoldsLive DEF Holds
  <2>2. QED BY <1>1, <2>1
<1>2. CASE f.row[s].pos = 0
  BY <1>2 DEF Holds
<1>3. QED BY <1>1, <1>2

LEMMA UidIs ==
  ASSUME NEW u \in Uids
  PROVE  u[1] \in Tabs /\ u[2] \in Slots /\ u = <<u[1], u[2]>>
BY DEF Uids

LEMMA StoreIsOf ==
  ASSUME NEW w, Base(w), NEW u \in Uids, NEW f, f = w.ino[w.tabs[u[1]]][0]
  PROVE  StoreOf(w, u) = IF f.row[u[2]].pos # 0 /\ f.row[u[2]].tab = u[1] THEN f.data[f.row[u[2]].pos] ELSE NoRec
<1>1. f \in Files /\ FileOK(f)
  BY UidIs, InodesAre DEF Base, Wins, FilesOK
<1>2. QED BY <1>1, UidIs, SlotIs DEF StoreOf

LEMMA StoredAtIs ==
  ASSUME Inv, NEW u \in Uids
  PROVE  StoredAt(u) = StoreOf(m, u)
<1>1. Base(m)
  BY DEF Inv
<1>2. PICK f : f = m.ino[m.tabs[u[1]]][0]
  OBVIOUS
<1>3. StoreOf(m, u) = IF f.row[u[2]].pos # 0 /\ f.row[u[2]].tab = u[1] THEN f.data[f.row[u[2]].pos] ELSE NoRec
  BY <1>1, <1>2, StoreIsOf
<1>4. QED BY <1>2, <1>3 DEF StoredAt, Current

LEMMA StoredThenIs ==
  ASSUME Inv', NEW u \in Uids
  PROVE  StoredAt(u)' = StoreOf(m', u)
<1>1. Base(m')
  BY DEF Inv
<1>2. PICK f : f = m'.ino[m'.tabs[u[1]]][0]
  OBVIOUS
<1>3. StoreOf(m', u) = IF f.row[u[2]].pos # 0 /\ f.row[u[2]].tab = u[1] THEN f.data[f.row[u[2]].pos] ELSE NoRec
  BY <1>1, <1>2, StoreIsOf
<1>4. QED BY <1>2, <1>3 DEF StoredAt, Current

(* The effects, seen through the redirects. *)
LEMMA QuietStore ==
  ASSUME NEW w, Base(w), NEW v, v.tabs = w.tabs, SameRecs(w, v), NEW u \in Uids
  PROVE  StoreOf(v, u) = StoreOf(w, u)
<1>1. w.tabs[u[1]] \in Tabs
  BY UidIs DEF Base, Wins
<1>2. Holds(v.ino[w.tabs[u[1]]][0], u[2]) = Holds(w.ino[w.tabs[u[1]]][0], u[2])
  BY <1>1, UidIs DEF SameRecs, Same
<1>3. QED BY <1>2 DEF StoreOf

LEMMA MovedStore ==
  ASSUME NEW w, Base(w), Homes(w), NEW v, NEW old \in Tabs, NEW new \in Tabs, old # new, Moved(w, v, old, new),
         NEW u \in Uids
  PROVE  /\ StoreOf(v, u) = StoreOf(w, u)
         /\ v.tabs[u[1]] = w.tabs[u[1]] \/ v.tabs[u[1]] = w.tabs_used
<1>1. w \in Wins /\ FilesOK(w) /\ TabsOK(w)
  BY DEF Base
<1>2. PICK d : d = Redirect(w, old, new)
  OBVIOUS
<1>3. v.tabs = d /\ new = w.tabs_used /\ \A b \in Tabs : d[b] = w.tabs[b] \/ (w.tabs[b] = old /\ d[b] = new)
  BY <1>1, <1>2, RedirectIs DEF Moved
<1>4. PICK a : a = u[1]
  OBVIOUS
<1>5. PICK s : s = u[2]
  OBVIOUS
<1>6. a \in Tabs /\ s \in Slots /\ w.tabs[a] \in Tabs /\ w.tabs[a] # new
  <2>1. a \in Tabs /\ s \in Slots
    BY <1>4, <1>5, UidIs
  <2>2. w.tabs[a] \in Tabs /\ w.tabs[a] < w.tabs_used
    BY <1>1, <2>1 DEF TabsOK, Wins
  <2>3. QED BY <1>3, <2>1, <2>2, TabsAre
<1>7. PICK h : h = Holds(w.ino[old][0], s)
  OBVIOUS
<1>8. /\ Holds(v.ino[old][0], s) = IF Moves(d, new, h) THEN NoRec ELSE h
      /\ Holds(v.ino[new][0], s) = IF Moves(d, new, h) THEN h ELSE NoRec
  BY <1>3, <1>6, <1>7 DEF Moved, Splits
<1>9. CASE w.tabs[a] # old
  <2>1. d[a] = w.tabs[a]
    BY <1>3, <1>6, <1>9
  <2>2. Holds(v.ino[w.tabs[a]][0], s) = Holds(w.ino[w.tabs[a]][0], s)
    BY <1>6, <1>9 DEF Moved, Same
  <2>3. QED BY <1>3, <1>4, <1>5, <2>1, <2>2 DEF StoreOf
<1>10. CASE w.tabs[a] = old
  <2>1. StoreOf(w, u) = IF h # NoRec /\ HashTab2(h.key) = a THEN h ELSE NoRec
    BY <1>4, <1>5, <1>7, <1>10 DEF StoreOf
  <2>2. PICK k : k = Holds(v.ino[d[a]][0], s)
    OBVIOUS
  <2>3. StoreOf(v, u) = IF k # NoRec /\ HashTab2(k.key) = a THEN k ELSE NoRec
    BY <1>3, <1>4, <1>5, <2>2 DEF StoreOf
  <2>4. CASE d[a] = new
    <3>1. k = IF Moves(d, new, h) THEN h ELSE NoRec
      BY <1>8, <2>2, <2>4
    <3>2. h # NoRec /\ HashTab2(h.key) = a => k = h
      BY <2>4, <3>1 DEF Moves
    <3>3. k = h \/ k = NoRec
      BY <3>1
    <3>4. QED BY <1>3, <1>4, <2>1, <2>3, <2>4, <3>2, <3>3
  <2>5. CASE d[a] = old
    <3>1. k = IF Moves(d, new, h) THEN NoRec ELSE h
      BY <1>8, <2>2, <2>5
    <3>2. h # NoRec /\ HashTab2(h.key) = a => k = h
      BY <2>5, <3>1 DEF Moves
    <3>3. k = h \/ k = NoRec
      BY <3>1
    <3>4. QED BY <1>3, <1>4, <1>10, <2>1, <2>3, <2>5, <3>2, <3>3
  <2>6. QED BY <1>3, <1>6, <1>10, <2>4, <2>5
<1>11. QED BY <1>9, <1>10

(* The record that differs is, for the store, that of the UID u. *)
LEMMA OneStore ==
  ASSUME NEW w, Base(w), Homes(w), NEW v, Base(v), SameTabs(w, v), NEW t \in Tabs, NEW s \in Slots, NEW rec,
         OneRec(w, v, t, s, rec), NEW a \in Tabs, w.tabs[a] = t, NEW u, u = <<a, s>>,
         rec = NoRec \/ HashTab2(rec.key) = a,
         Holds(w.ino[t][0], s) = NoRec \/ HashTab2(Holds(w.ino[t][0], s).key) = a
  PROVE  /\ u \in Uids /\ StoreOf(w, u) = Holds(w.ino[t][0], s) /\ StoreOf(v, u) = rec
         /\ \A z \in Uids : z # u => StoreOf(v, z) = StoreOf(w, z)
<1>1. u \in Uids /\ u[1] = a /\ u[2] = s
  BY DEF Uids
<1>2. StoreOf(w, u) = Holds(w.ino[t][0], s)
  BY <1>1 DEF StoreOf
<1>3. StoreOf(v, u) = rec
  BY <1>1 DEF StoreOf, SameTabs, OneRec
<1>4. ASSUME NEW z \in Uids, z # u PROVE StoreOf(v, z) = StoreOf(w, z)
  <2>1. z[1] \in Tabs /\ z[2] \in Slots /\ w.tabs[z[1]] \in Tabs /\ (z[1] # a \/ z[2] # s)
    BY <1>1, <1>4, UidIs DEF Base, Wins
  <2>2. CASE w.tabs[z[1]] = t /\ z[2] = s
    <3>1. StoreOf(w, z) = NoRec /\ StoreOf(v, z) = NoRec
      BY <2>1, <2>2 DEF StoreOf, SameTabs, OneRec
    <3>2. QED BY <3>1
  <2>3. CASE ~(w.tabs[z[1]] = t /\ z[2] = s)
    <3>1. Holds(v.ino[w.tabs[z[1]]][0], z[2]) = Holds(w.ino[w.tabs[z[1]]][0], z[2])
      BY <2>1, <2>3 DEF OneRec
    <3>2. QED BY <3>1 DEF StoreOf, SameTabs
  <2>4. QED BY <2>2, <2>3
<1>5. QED BY <1>1, <1>2, <1>3, <1>4

-----------------------------------------------------------------------------
(* Table iteration. *)

Walks == [tab : Tabs, due : SUBSET Uids]

WalkAt(p) ==
  /\ walk[p].tab < m.tabs_used
  /\ walk[p].tab = 0 => walk[p].due = {}
  /\ \A u \in walk[p].due : StoredAt(u) # NoRec /\ m.tabs[u[1]] >= walk[p].tab

WInv == Inv /\ walk \in [Iterators -> Walks] /\ \A p \in Iterators : WalkAt(p)

LEMMA WInvInit ==
  ASSUME WalkInit
  PROVE  WInv
<1>1. Inv
  BY InvInit DEF WalkInit
<1>2. walk = [p \in Iterators |-> [tab |-> 0, due |-> {}]]
  BY DEF WalkInit
<1>3. walk \in [Iterators -> Walks]
  BY <1>2, TabsAre DEF Walks
<1>4. m.tabs_used >= 1
  BY <1>1 DEF Inv, Base, TabsOK
<1>5. m.tabs_used \in Nat
  BY <1>1 DEF Inv, Base, Wins
<1>6. \A p \in Iterators : WalkAt(p)
  BY <1>2, <1>4, <1>5 DEF WalkAt
<1>7. QED BY <1>1, <1>3, <1>6 DEF WInv

(* No step takes a table away, and a redirect only ever moves to a table    *)
(* that was not there before.                                               *)
LEMMA TabsGrow ==
  ASSUME Inv, Next
  PROVE  /\ m.tabs_used \in Nat /\ m'.tabs_used \in Nat /\ m'.tabs_used >= m.tabs_used
         /\ \A a \in Tabs : m'.tabs[a] = m.tabs[a] \/ m'.tabs[a] = m.tabs_used
<1>1. Base(m) /\ Base(m') /\ m \in Wins /\ m.tabs_used \in Nat /\ m'.tabs_used \in Nat
  BY StepIs DEF Inv, Base, Wins
<1>2. CASE SameTabs(m, m')
  BY <1>1, <1>2 DEF SameTabs
<1>3. ASSUME NEW old \in Tabs, NEW new \in Tabs, Moved(m, m', old, new)
      PROVE  m'.tabs_used = m.tabs_used + 1 /\ \A a \in Tabs : m'.tabs[a] = m.tabs[a] \/ m'.tabs[a] = m.tabs_used
  BY <1>1, <1>3, RedirectIs DEF Moved
<1>4. CASE \E old, new \in Tabs : old # new /\ Moved(m, m', old, new)
  BY <1>1, <1>3, <1>4
<1>5. CASE SameRecs(m, m') /\ m'.tabs = m.tabs /\ m'.tabs_used = m.tabs_used + 1
  BY <1>1, <1>5
<1>6. QED BY <1>2, <1>4, <1>5, StepIs DEF Quiet, Gains, Alters, Loses

LEMMA WInvNext ==
  ASSUME WInv, Next, walk' = [p \in Iterators |-> [walk[p] EXCEPT !.due = @ \cap Stored']]
  PROVE  WInv'
<1>1. Inv /\ Inv'
  BY StepIs DEF WInv
<1>2. /\ m.tabs_used \in Nat /\ m'.tabs_used \in Nat /\ m'.tabs_used >= m.tabs_used
      /\ \A a \in Tabs : m'.tabs[a] = m.tabs[a] \/ m'.tabs[a] = m.tabs_used
  BY <1>1, TabsGrow
<1>3. ASSUME NEW p \in Iterators
      PROVE  walk'[p] \in Walks /\ walk'[p].tab = walk[p].tab /\ walk'[p].due = walk[p].due \cap Stored'
  <2>1. walk[p] \in Walks
    BY DEF WInv
  <2>2. walk'[p] = [walk[p] EXCEPT !.due = walk[p].due \cap Stored']
    OBVIOUS
  <2>3. QED BY <2>1, <2>2 DEF Walks
<1>4. ASSUME NEW p \in Iterators PROVE WalkAt(p)'
  <2>1. PICK t : t = walk[p].tab
    OBVIOUS
  <2>2. t \in Nat /\ t < m.tabs_used /\ WalkAt(p) /\ walk[p].due \subseteq Uids
    BY <2>1, TabsAre DEF WInv, WalkAt, Walks
  <2>3. t < m'.tabs_used
    BY <1>2, <2>2
  <2>4. ASSUME NEW u \in walk'[p].due PROVE StoredAt(u)' # NoRec /\ m'.tabs[u[1]] >= t
    <3>1. u \in walk[p].due /\ u \in Stored' /\ u \in Uids
      BY <1>3, <2>2, <2>4
    <3>2. StoredAt(u)' # NoRec
      BY <3>1 DEF Stored
    <3>3. m.tabs[u[1]] >= t
      BY <2>1, <2>2, <3>1 DEF WalkAt
    <3>4. m'.tabs[u[1]] >= t
      BY <1>2, <2>2, <3>1, <3>3, UidIs
    <3>5. QED BY <3>2, <3>4
  <2>5. t = 0 => walk'[p].due = {}
    BY <1>3, <2>1, <2>2 DEF WalkAt
  <2>6. QED BY <1>3, <2>1, <2>3, <2>4, <2>5 DEF WalkAt
<1>5. walk' \in [Iterators -> Walks]
  BY <1>3
<1>6. QED BY <1>1, <1>4, <1>5 DEF WInv

LEMMA WInvIterate ==
  ASSUME WInv, NEW p \in Iterators, TabCopyIterate(p)
  PROVE  WInv' /\ Quiet(m, m')
<1>1. PICK t : t = walk[p].tab
  OBVIOUS
<1>2. Inv /\ Base(m) /\ walk[p] \in Walks /\ WalkAt(p)
  BY DEF WInv, Inv
<1>3. t \in Tabs /\ t < m.tabs_used /\ walk[p].due \in SUBSET Uids /\ p \in Procs /\ t \in Nat /\ m.tabs_used \in Nat
  BY <1>1, <1>2, IteratorsAssumption, TabsAre DEF Walks, WalkAt, Base, Wins
<1>4. PICK g : g = GetTab(m, p, t)
  OBVIOUS
<1>5. m' = g /\ Free(p) /\ UNCHANGED <<pend, stuck>>
  BY <1>1, <1>4 DEF TabCopyIterate
<1>6. m.count_mmap[p] > 0 /\ stuck = {}
  BY <1>5 DEF Free
<1>7. Base(m') /\ Quiet(m, m') /\ Inv'
  BY <1>2, <1>3, <1>4, <1>5, IterateIs, QuietInv
<1>8. PICK f : f \in Files /\ FileOK(f) /\ f = g.ino[t][0] /\ File(g, p, t) = f
  BY <1>2, <1>3, <1>4, <1>6, EnterIs
<1>9. PICK copied : copied = {<<f.row[s].tab, s>> : s \in {r \in Slots : f.row[r].pos # 0}}
  OBVIOUS
<1>10. PICK D : D = (IF t = 0 THEN Stored ELSE walk[p].due) \ copied
  OBVIOUS
<1>11. PICK n : n = NextTab(t)
  OBVIOUS
<1>12. walk' = [walk EXCEPT ![p] = [tab |-> n, due |-> D]]
  BY <1>1, <1>4, <1>8, <1>9, <1>10, <1>11 DEF TabCopyIterate
<1>13. m'.tabs = m.tabs /\ m'.tabs_used = m.tabs_used
  BY <1>7 DEF Quiet, SameTabs
<1>14. n \in Tabs /\ n < m.tabs_used /\ (n = 0 \/ n = t + 1) /\ (n = 0 => t + 1 >= m.tabs_used)
  <2>1. m.tabs_used <= TabsPerWin /\ m.tabs_used >= 1
    BY <1>2, <1>6 DEF Inv, StuckOK, Base, TabsOK
  <2>2. QED BY <1>3, <1>11, <2>1, SizeAssumption DEF NextTab, Tabs
<1>15. ASSUME NEW u \in D PROVE u \in Uids /\ StoredAt(u)' # NoRec /\ m.tabs[u[1]] \in Nat /\ m.tabs[u[1]] >= t + 1
  <2>1. u \in Uids /\ StoredAt(u) # NoRec /\ m.tabs[u[1]] >= t /\ u \notin copied
    <3>1. CASE t = 0
      <4>1. u \in Stored /\ u \notin copied
        BY <1>10, <1>15, <3>1
      <4>2. u \in Uids /\ m.tabs[u[1]] \in Tabs
        BY <1>2, <4>1, UidIs, TabIs DEF Stored
      <4>3. StoredAt(u) # NoRec
        BY <4>1 DEF Stored
      <4>4. m.tabs[u[1]] \in Nat
        BY <4>2, TabsAre
      <4>5. m.tabs[u[1]] >= t
        BY <3>1, <4>4
      <4>6. QED BY <4>1, <4>2, <4>3, <4>5
    <3>2. CASE t # 0
      BY <1>1, <1>2, <1>3, <1>10, <1>15, <3>2 DEF WalkAt
    <3>3. QED BY <3>1, <3>2
  <2>2. StoredAt(u) = StoreOf(m, u) /\ StoredAt(u)' = StoreOf(m', u)
    BY <1>2, <1>7, <2>1, StoredAtIs, StoredThenIs
  <2>3. StoreOf(m', u) = StoreOf(m, u)
    BY <1>2, <1>7, <1>13, <2>1, QuietStore DEF Quiet
  <2>4. m.tabs[u[1]] # t
    <3> SUFFICES ASSUME m.tabs[u[1]] = t PROVE FALSE
      OBVIOUS
    <3>1. PICK s : s \in Slots /\ s = u[2]
      BY <2>1, UidIs
    <3>2. StoredAt(u)' = IF f.row[s].pos # 0 /\ f.row[s].tab = u[1] THEN f.data[f.row[s].pos] ELSE NoRec
      BY <1>5, <1>8, <1>13, <3>1 DEF StoredAt, Current
    <3>3. f.row[s].pos # 0 /\ f.row[s].tab = u[1]
      BY <2>1, <2>2, <2>3, <3>2
    <3>4. u = <<f.row[s].tab, s>>
      BY <2>1, <3>1, <3>3, UidIs
    <3>5. QED BY <1>9, <2>1, <3>1, <3>3, <3>4
  <2>5. m.tabs[u[1]] \in Nat
    BY <1>2, <2>1, UidIs, TabIs, TabsAre
  <2>6. QED BY <1>3, <2>1, <2>2, <2>3, <2>4, <2>5
<1>16. n = 0 => D = {}
  <2> SUFFICES ASSUME n = 0, NEW u \in D PROVE FALSE
    OBVIOUS
  <2>1. m.tabs[u[1]] < m.tabs_used
    BY <1>2, <1>15, UidIs, TabIs
  <2>2. QED BY <1>3, <1>14, <1>15, <2>1
<1>17. walk'[p].tab = n /\ walk'[p].due = D /\ walk' \in [Iterators -> Walks]
  <2>1. D \subseteq Uids
    BY <1>15
  <2>2. walk \in [Iterators -> Walks]
    BY DEF WInv
  <2>3. QED BY <1>12, <1>14, <2>1, <2>2 DEF Walks
<1>18. WalkAt(p)'
  BY <1>3, <1>13, <1>14, <1>15, <1>16, <1>17 DEF WalkAt
<1>19. ASSUME NEW q \in Iterators, q # p PROVE WalkAt(q)'
  <2>1. walk'[q] = walk[q] /\ WalkAt(q) /\ walk[q].due \subseteq Uids
    BY <1>12, <1>19 DEF WInv, Walks
  <2>2. \A u \in walk[q].due : StoredAt(u)' = StoredAt(u)
    BY <1>2, <1>7, <1>13, <2>1, StoredAtIs, StoredThenIs, QuietStore DEF Quiet
  <2>3. QED BY <1>13, <2>1, <2>2 DEF WalkAt
<1>20. \A q \in Iterators : WalkAt(q)'
  BY <1>18, <1>19
<1>21. QED BY <1>7, <1>17, <1>20 DEF WInv

LEMMA WInvStutter ==
  ASSUME WInv, UNCHANGED wvars
  PROVE  WInv'
<1>1. UNCHANGED <<m, pend, stuck>> /\ UNCHANGED walk
  BY DEF wvars, vars
<1>2. Inv'
  BY <1>1 DEF WInv, Inv, PendOK, StuckOK
<1>3. \A p \in Iterators : WalkAt(p)'
  BY <1>1 DEF WInv, WalkAt, StoredAt, Current
<1>4. QED BY <1>1, <1>2, <1>3 DEF WInv

-----------------------------------------------------------------------------
(* The invariants. *)

LEMMA WalkStep ==
  ASSUME WInv, [WalkNext]_wvars
  PROVE  WInv'
<1>1. CASE \E p \in Iterators : TabCopyIterate(p)
  BY <1>1, WInvIterate
<1>2. CASE Next /\ walk' = [p \in Iterators |-> [walk[p] EXCEPT !.due = @ \cap Stored']]
  BY <1>2, WInvNext
<1>3. CASE UNCHANGED wvars
  BY <1>3, WInvStutter
<1>4. QED BY <1>1, <1>2, <1>3 DEF WalkNext

(* The inductive invariant: what the files and mappings of every process    *)
(* look like, that every record is where its redirect leads, what the       *)
(* processes that wait or are stuck say of tabs_used, and what every pass   *)
(* still has before it.                                                     *)
THEOREM WalkInvariant == WalkSpec => []WInv
<1>1. WalkInit => WInv
  BY WInvInit
<1>2. WInv /\ [WalkNext]_wvars => WInv'
  BY WalkStep
<1>3. QED BY <1>1, <1>2, PTL DEF WalkSpec

LEMMA UsedIs ==
  ASSUME Inv, NEW t \in Used
  PROVE  t \in Tabs /\ t < m.tabs_used /\ m \in Wins /\ Current(t) = m.ino[t][0]
         /\ Current(t) \in Files /\ FileOK(Current(t))
<1>1. m \in Wins /\ m.tabs_used \in Nat /\ FilesOK(m)
  BY DEF Inv, Base, Wins
<1>2. t \in Tabs /\ t < m.tabs_used
  BY <1>1, TabsAre DEF Used
<1>3. m.ino[t][0] \in Files
  BY <1>1, <1>2, InodesAre DEF Wins
<1>4. QED BY <1>1, <1>2, <1>3 DEF FilesOK, Current

(* However many tables other processes grew, shrank or split since, the     *)
(* table that SHF_GET_TAB_MMAP hands out is the current one, all of it.     *)
THEOREM MappingsFollow == WalkSpec => []MappingsCatchUp
<1>1. ASSUME WInv PROVE MappingsCatchUp
  <2> SUFFICES ASSUME NEW p \in Procs, NEW t \in Used, m.count_mmap[p] > 0
               PROVE  LET g == GetTab(m, p, t) IN g.map[p][t].ino = 0 /\ g.map[p][t].size = File(g, p, t).tab_size
    BY DEF MappingsCatchUp
  <2>1. Inv /\ t \in Tabs /\ t < m.tabs_used
    BY <1>1, UsedIs DEF WInv
  <2>2. PICK g : g = GetTab(m, p, t)
    OBVIOUS
  <2>3. Opened(g, p, t) /\ File(g, p, t) = g.ino[t][0]
    BY <2>1, <2>2, EnterIs
  <2>4. QED BY <2>2, <2>3 DEF Opened
<1>2. QED BY <1>1, WalkInvariant, PTL

(* No mapping is longer than its file, replaced ones included: a shrink     *)
(* never cuts a file that another process still has mapped.                 *)
THEOREM MappingsEndInFiles == WalkSpec => []MappedBytesExist
<1>1. ASSUME WInv PROVE MappedBytesExist
  <2> SUFFICES ASSUME NEW p \in Procs, NEW t \in Tabs, m.map[p][t].ino # NotMapped
               PROVE  m.map[p][t].size <= File(m, p, t).fsize
    BY DEF MappedBytesExist
  <2>1. MapAt(m, p, t)
    BY <1>1 DEF WInv, Inv, Base, MapOK
  <2>2. QED BY <2>1 DEF MapAt, File
<1>2. QED BY <1>1, WalkInvariant, PTL

(* What shf_detach asserts: after any splits, shrinks and reloads           *)
(* count_mmap is one more than the tables that have a mapping.              *)
THEOREM DetachFindsAll == WalkSpec => []DetachUnmapsAll
<1>1. ASSUME WInv PROVE DetachUnmapsAll
  <2> SUFFICES ASSUME NEW p \in Procs, m.count_mmap[p] > 0
               PROVE  m.count_mmap[p] = 1 + Cardinality({t \in Used : m.map[p][t].size >= Page})
    BY DEF DetachUnmapsAll
  <2>1. Inv /\ m \in Wins /\ MapOK(m) /\ TabsOK(m) /\ CountAt(m, p) /\ m.tabs_used \in Nat
    BY <1>1 DEF WInv, Inv, Base, Wins
  <2>2. m.count_mmap[p] \in Int /\ m.count_mmap[p] # 0
    BY <2>1 DEF Wins
  <2>3. m.count_mmap[p] = 1 + Cardinality(Has(m, p))
    BY <2>1, <2>2 DEF CountAt
  <2>4. ASSUME NEW t \in Tabs PROVE t \in Has(m, p) <=> (t \in Used /\ m.map[p][t].size >= Page)
    <3>1. MapAt(m, p, t) /\ Page \in Nat /\ Page > 1
      BY <2>1, SizeAssumption DEF MapOK
    <3>2. t < m.tabs_used => t \in Used
      BY <2>1, TabsAre DEF Used
    <3>3. t >= m.tabs_used => m.map[p][t].ino = NotMapped
      BY <2>1 DEF TabsOK, Nobody
    <3>4. t \in Nat
      BY TabsAre
    <3>5. t \in Has(m, p) <=> m.map[p][t].ino # NotMapped
      BY DEF Has
    <3>6. QED BY <2>1, <3>1, <3>2, <3>3, <3>4, <3>5 DEF MapAt
  <2>5. Has(m, p) = {t \in Used : m.map[p][t].size >= Page}
    BY <2>4 DEF Has, Used
  <2>6. QED BY <2>3, <2>5
<1>2. QED BY <1>1, WalkInvariant, PTL

(* The assertion of shf_tab_part, in every state: a ref is in the table its *)
(* redirect leads to.                                                       *)
THEOREM RefsAtHome == WalkSpec => []RefsFollowRedirects
<1>1. ASSUME WInv PROVE RefsFollowRedirects
  <2> SUFFICES ASSUME NEW t \in Used, NEW s \in Live(Current(t))
               PROVE  m.tabs[Current(t).row[s].tab] = t
    BY DEF RefsFollowRedirects
  <2>1. Inv /\ t \in Tabs /\ Current(t) = m.ino[t][0] /\ Current(t) \in Files /\ FileOK(Current(t))
    BY <1>1, UsedIs DEF WInv
  <2>2. s \in Slots
    BY DEF Live
  <2>3. PICK h : h = Holds(m.ino[t][0], s)
    OBVIOUS
  <2>4. h # NoRec /\ HashTab2(h.key) = Current(t).row[s].tab
    BY <2>1, <2>2, <2>3, HoldsLive
  <2>5. m.tabs[HashTab2(h.key)] = t
    BY <2>1, <2>2, <2>3, <2>4 DEF Inv, Homes, Home
  <2>6. QED BY <2>4, <2>5
<1>2. QED BY <1>1, WalkInvariant, PTL

(* shf_tab_validate, in every state: records within tab_used, none over     *)
(* another, and byte counters that account for the whole data part.         *)
THEOREM DataStaysSound == WalkSpec => []DataSound
<1>1. ASSUME Inv, NEW t \in Used, NEW f, f = Current(t)
      PROVE  /\ f.tab_size \in {0, f.fsize}
             /\ f.tab_used <= f.tab_size
             /\ \A s \in Live(f) : f.row[s].pos >= Hdr /\ f.row[s].pos + Size(f.data[f.row[s].pos]) <= f.tab_used
             /\ \A s, r \in Live(f) : s # r =>
                  \/ f.row[s].pos + Size(f.data[f.row[s].pos]) <= f.row[r].pos
                  \/ f.row[r].pos + Size(f.data[f.row[r].pos]) <= f.row[s].pos
             /\ f.tab_data_used = FoldSet(LAMBDA s, sum : sum + Size(f.data[f.row[s].pos]), 0, Live(f))
             /\ f.tab_size # 0 => f.tab_used = Hdr + f.tab_data_used + f.tab_data_free
  <2>1. f \in Files /\ FileOK(f)
    BY <1>1, UsedIs
  <2>2. \A s : Size(f.data[f.row[s].pos]) = LenAt(f, s)
    BY DEF Size, LenAt
  <2>3. \A s : f.row[s].pos + Size(f.data[f.row[s].pos]) = EndOf(f, s)
    BY <2>2 DEF EndOf
  <2>4. f.tab_size \in {0, f.fsize} /\ f.tab_used <= f.tab_size
        /\ (f.tab_size # 0 => f.tab_used = Hdr + f.tab_data_used + f.tab_data_free)
    BY <2>1 DEF FileOK, SizesOK
  <2>5. \A s \in Live(f) : f.row[s].pos >= Hdr /\ EndOf(f, s) <= f.tab_used
    BY <2>1 DEF FileOK, RefOK
  <2>6. \A s, r \in Live(f) : s # r => EndOf(f, s) <= f.row[r].pos \/ EndOf(f, r) <= f.row[s].pos
    BY <2>1 DEF FileOK, Apart
  <2>7. f.tab_data_used = FoldSet(LAMBDA s, sum : sum + Size(f.data[f.row[s].pos]), 0, Live(f))
    BY <2>1, SumIs DEF FileOK
  <2>8. \A s \in Live(f) : f.row[s].pos >= Hdr /\ f.row[s].pos + Size(f.data[f.row[s].pos]) <= f.tab_used
    BY <2>3, <2>5
  <2>9. \A s, r \in Live(f) : s # r =>
           \/ f.row[s].pos + Size(f.data[f.row[s].pos]) <= f.row[r].pos
           \/ f.row[r].pos + Size(f.data[f.row[r].pos]) <= f.row[s].pos
    BY <2>3, <2>6
  <2>10. QED BY <2>4, <2>7, <2>8, <2>9
<1>2. WInv => DataSound
  BY <1>1 DEF WInv, DataSound
<1>3. QED BY <1>2, WalkInvariant, PTL

(* A pass of shf_tab_copy_iterate comes across every record that outlives   *)
(* it, whatever is split, shrunk, put or deleted between its calls.         *)
THEOREM PassesAreComplete == WalkSpec => []PassMissesNothing
<1>1. WInv => PassMissesNothing
  BY DEF WInv, WalkAt, PassMissesNothing
<1>2. QED BY <1>1, WalkInvariant, PTL

-----------------------------------------------------------------------------
(* Lookups. *)

Meant(x, u) ==
  StoredAt(u) # NoRec /\ IF "key" \in DOMAIN x THEN StoredAt(u).key = x.key ELSE u = x.uid

LEMMA HitIsStored ==
  ASSUME Inv, NEW p \in Procs, m.count_mmap[p] > 0, NEW x \in AllTargets, NEW t, t = m.tabs[Tab2Of(x)],
         NEW f, f = GetTab(m, p, t).ino[t][0], NEW r \in Slots, NEW u, u = <<Tab2Of(x), r>>, Hits(f, x, r)
  PROVE  u \in Uids /\ Meant(x, u) /\ StoredAt(u) = Holds(f, r)
<1>1. Tab2Of(x) \in Tabs /\ u \in Uids /\ u[1] = Tab2Of(x) /\ u[2] = r
  BY TargetIs DEF Uids
<1>2. t \in Tabs /\ t < m.tabs_used
  BY <1>1, TabIs
<1>3. f \in Files /\ FileOK(f) /\ Holds(f, r) = Holds(m.ino[t][0], r)
  BY <1>2, EnterIs
<1>4. r \in Live(f) /\ f.row[r].tab = Tab2Of(x)
  BY DEF Hits
<1>5. Holds(f, r) # NoRec /\ HashTab2(Holds(f, r).key) = Tab2Of(x)
  BY <1>3, <1>4, HoldsLive
<1>6. StoredAt(u) = Holds(f, r)
  BY <1>1, <1>3, <1>5, StoredAtIs DEF StoreOf
<1>7. "key" \notin DOMAIN x => x.uid \in Uids /\ Tab2Of(x) = x.uid[1] /\ r = x.uid[2]
  BY TargetIs DEF Hits
<1>8. "key" \notin DOMAIN x => u = x.uid
  BY <1>7, UidIs
<1>9. "key" \in DOMAIN x => Holds(f, r).key = x.key
  BY DEF Hits
<1>10. QED BY <1>1, <1>5, <1>6, <1>8, <1>9 DEF Meant

LEMMA StoredIsHit ==
  ASSUME Inv, NEW p \in Procs, m.count_mmap[p] > 0, NEW x \in AllTargets, NEW t, t = m.tabs[Tab2Of(x)],
         NEW f, f = GetTab(m, p, t).ino[t][0], NEW u \in Uids, Meant(x, u)
  PROVE  u[2] \in Slots /\ Hits(f, x, u[2])
<1>1. u[1] \in Tabs /\ u[2] \in Slots /\ u = <<u[1], u[2]>>
  BY UidIs
<1>2. PICK h : h = Holds(m.ino[m.tabs[u[1]]][0], u[2])
  OBVIOUS
<1>3. StoredAt(u) = h /\ h # NoRec /\ HashTab2(h.key) = u[1]
  BY <1>2, StoredAtIs DEF Meant, StoreOf
<1>4. u[1] = Tab2Of(x)
  <2>1. CASE "key" \in DOMAIN x
    BY <1>3, <2>1, TargetIs DEF Meant
  <2>2. CASE "key" \notin DOMAIN x
    BY <2>2, TargetIs DEF Meant
  <2>3. QED BY <2>1, <2>2
<1>5. t \in Tabs /\ t < m.tabs_used
  BY <1>1, <1>4, TabIs
<1>6. f \in Files /\ FileOK(f) /\ Holds(f, u[2]) = h
  BY <1>1, <1>2, <1>4, <1>5, EnterIs
<1>7. u[2] \in Live(f) /\ f.row[u[2]].tab = Tab2Of(x)
  BY <1>1, <1>3, <1>4, <1>6, HoldsLive
<1>8. IF "key" \in DOMAIN x THEN Holds(f, u[2]).key = x.key ELSE u[2] = x.uid[2]
  BY <1>3, <1>6 DEF Meant
<1>9. QED BY <1>1, <1>7, <1>8 DEF Hits

(* shf_find_key_internal, for every process and every key and UID, finds    *)
(* the record of the store if there is one and nothing if there is none.    *)
THEOREM LookupsFind == WalkSpec => []LookupsAgree
<1>1. ASSUME Inv, NEW p \in Procs, NEW x \in AllTargets, m.count_mmap[p] > 0,
             NEW at, at = Lookup(p, x), NEW here, here = {u \in Uids : Meant(x, u)}
      PROVE  IF at.s = NoSlot THEN here = {}
             ELSE \E u \in here : u = <<Tab2Of(x), at.s>> /\ Found(at, p) = StoredAt(u)
  <2>1. PICK t : t = m.tabs[Tab2Of(x)]
    OBVIOUS
  <2>2. PICK f : f = GetTab(m, p, t).ino[t][0]
    OBVIOUS
  <2>3. IF at.s = NoSlot THEN \A r \in Slots : ~Hits(f, x, r)
        ELSE Hits(f, x, at.s) /\ Found(at, p) = Holds(f, at.s)
    BY <1>1, <2>1, <2>2, LookupIs
  <2>4. CASE at.s = NoSlot
    <3>1. \A u \in Uids : ~Meant(x, u)
      BY <1>1, <2>1, <2>2, <2>3, <2>4, StoredIsHit
    <3>2. QED BY <1>1, <2>4, <3>1
  <2>5. CASE at.s # NoSlot
    <3>1. at.s \in Slots
      BY <2>3, <2>5 DEF Hits, Live
    <3>2. PICK u : u = <<Tab2Of(x), at.s>>
      OBVIOUS
    <3>3. u \in Uids /\ Meant(x, u) /\ StoredAt(u) = Holds(f, at.s)
      BY <1>1, <2>1, <2>2, <2>3, <2>5, <3>1, <3>2, HitIsStored
    <3>4. u \in here /\ Found(at, p) = StoredAt(u)
      BY <1>1, <2>3, <2>5, <3>3
    <3>5. QED BY <2>5, <3>2, <3>4
  <2>6. QED BY <2>4, <2>5
<1>2. ASSUME WInv PROVE LookupsAgree
  <2> SUFFICES ASSUME NEW p \in Procs, NEW x \in AllTargets, m.count_mmap[p] > 0
               PROVE  LET at == Lookup(p, x)
                          here == {u \in Uids : /\ StoredAt(u) # NoRec
                                                /\ IF "key" \in DOMAIN x THEN StoredAt(u).key = x.key ELSE u = x.uid}
                      IN  IF at.s = NoSlot THEN here = {}
                          ELSE \E u \in here : u = <<Tab2Of(x), at.s>> /\ Found(at, p) = StoredAt(u)
    BY DEF LookupsAgree
  <2>1. PICK here : here = {u \in Uids : Meant(x, u)}
    OBVIOUS
  <2>2. here = {u \in Uids : /\ StoredAt(u) # NoRec
                             /\ IF "key" \in DOMAIN x THEN StoredAt(u).key = x.key ELSE u = x.uid}
    BY <2>1 DEF Meant
  <2>3. PICK at : at = Lookup(p, x)
    OBVIOUS
  <2>4. IF at.s = NoSlot THEN here = {}
        ELSE \E u \in here : u = <<Tab2Of(x), at.s>> /\ Found(at, p) = StoredAt(u)
    BY <1>1, <1>2, <2>1, <2>3 DEF WInv
  <2>5. QED BY <2>2, <2>3, <2>4
<1>3. QED BY <1>2, WalkInvariant, PTL

-----------------------------------------------------------------------------
(* What a step does to the store. *)

OneUid(w, v, u, rec) ==
  u \in Uids /\ StoreOf(v, u) = rec /\ \A z \in Uids : z # u => StoreOf(v, z) = StoreOf(w, z)

LEMMA GainsStore ==
  ASSUME NEW w, Base(w), Homes(w), NEW v, Base(v), NEW rec \in Recs, Gains(w, v, rec)
  PROVE  \E u \in Uids : /\ u[1] = HashTab2(rec.key) /\ u[2][1] = HashRow(rec.key)
                         /\ StoreOf(w, u) = NoRec /\ OneUid(w, v, u, rec)
<1>1. PICK t \in Tabs, s \in Slots :
        /\ w.tabs[HashTab2(rec.key)] = t /\ HashRow(rec.key) = s[1]
        /\ Holds(w.ino[t][0], s) = NoRec /\ OneRec(w, v, t, s, rec)
  BY DEF Gains
<1>2. PICK a \in Tabs : a = HashTab2(rec.key)
  BY RecIs
<1>3. PICK u : u = <<a, s>>
  OBVIOUS
<1>4. u[1] = a /\ u[2] = s
  BY <1>3
<1>5. /\ u \in Uids /\ StoreOf(w, u) = NoRec /\ StoreOf(v, u) = rec
      /\ \A z \in Uids : z # u => StoreOf(v, z) = StoreOf(w, z)
  BY <1>1, <1>2, <1>3, OneStore DEF Gains
<1>6. QED BY <1>1, <1>2, <1>4, <1>5 DEF OneUid

(* The record that was in slot s of table t, and the UID it has. *)
LEMMA HeldStore ==
  ASSUME NEW w, Base(w), Homes(w), NEW t \in Tabs, NEW s \in Slots, NEW h, h = Holds(w.ino[t][0], s), h # NoRec,
         NEW a, a = HashTab2(h.key)
  PROVE  h \in Recs /\ a \in Tabs /\ w.tabs[a] = t
<1>1. w \in Wins /\ FilesOK(w)
  BY DEF Base
<1>2. h \in Recs /\ a \in Tabs
  BY <1>1, HeldIs
<1>3. w.tabs[a] = t
  BY DEF Homes, Home
<1>4. QED BY <1>2, <1>3

LEMMA AltersStore ==
  ASSUME NEW w, Base(w), Homes(w), NEW v, Base(v), Alters(w, v)
  PROVE  \E u \in Uids, n \in Nums : /\ StoreOf(w, u) \in Recs
                                     /\ OneUid(w, v, u, [StoreOf(w, u) EXCEPT !.n = n])
<1>1. PICK t \in Tabs, s \in Slots, n \in Nums :
        /\ Holds(w.ino[t][0], s) # NoRec
        /\ OneRec(w, v, t, s, [Holds(w.ino[t][0], s) EXCEPT !.n = n])
  BY DEF Alters
<1>2. PICK h : h = Holds(w.ino[t][0], s)
  OBVIOUS
<1>3. PICK a : a = HashTab2(h.key)
  OBVIOUS
<1>4. h \in Recs /\ a \in Tabs /\ w.tabs[a] = t
  BY <1>1, <1>2, <1>3, HeldStore
<1>5. PICK rec : rec = [h EXCEPT !.n = n]
  OBVIOUS
<1>6. rec.key = h.key
  BY <1>4, <1>5 DEF Recs
<1>7. PICK u : u = <<a, s>>
  OBVIOUS
<1>8. SameTabs(w, v) /\ OneRec(w, v, t, s, rec)
  BY <1>1, <1>2, <1>5 DEF Alters
<1>9. /\ u \in Uids /\ StoreOf(w, u) = h /\ StoreOf(v, u) = rec
      /\ \A z \in Uids : z # u => StoreOf(v, z) = StoreOf(w, z)
  BY <1>2, <1>3, <1>4, <1>6, <1>7, <1>8, OneStore
<1>10. OneUid(w, v, u, [StoreOf(w, u) EXCEPT !.n = n])
  BY <1>5, <1>9 DEF OneUid
<1>11. QED BY <1>4, <1>9, <1>10

LEMMA LosesStore ==
  ASSUME NEW w, Base(w), Homes(w), NEW v, Base(v), Loses(w, v)
  PROVE  \E u \in Uids : StoreOf(w, u) # NoRec /\ OneUid(w, v, u, NoRec)
<1>1. PICK t \in Tabs, s \in Slots : Holds(w.ino[t][0], s) # NoRec /\ OneRec(w, v, t, s, NoRec)
  BY DEF Loses
<1>2. PICK h : h = Holds(w.ino[t][0], s)
  OBVIOUS
<1>3. PICK a : a = HashTab2(h.key)
  OBVIOUS
<1>4. a \in Tabs /\ w.tabs[a] = t
  BY <1>1, <1>2, <1>3, HeldStore
<1>5. PICK u : u = <<a, s>>
  OBVIOUS
<1>6. /\ u \in Uids /\ StoreOf(w, u) = h /\ StoreOf(v, u) = NoRec
      /\ \A z \in Uids : z # u => StoreOf(v, z) = StoreOf(w, z)
  BY <1>1, <1>2, <1>3, <1>4, <1>5, OneStore DEF Loses
<1>7. QED BY <1>1, <1>2, <1>6 DEF OneUid

(* The five things a step can do to the store. *)
StoreKept == \A u \in Uids : StoreOf(m', u) = StoreOf(m, u)
StorePuts == \E rec \in Puts, u \in Uids :
               /\ u[1] = HashTab2(rec.key) /\ u[2][1] = HashRow(rec.key)
               /\ StoreOf(m, u) = NoRec /\ OneUid(m, m', u, rec)
StoreChanges == \E u \in Uids, n \in Nums :
                  StoreOf(m, u) \in Recs /\ OneUid(m, m', u, [StoreOf(m, u) EXCEPT !.n = n])
StoreDels == \E u \in Uids : StoreOf(m, u) # NoRec /\ OneUid(m, m', u, NoRec)

LEMMA KeptStore ==
  ASSUME Inv, m'.tabs = m.tabs, SameRecs(m, m')
  PROVE  StoreKept
BY QuietStore DEF Inv, StoreKept

LEMMA StoreStep ==
  ASSUME Inv, Next
  PROVE  /\ Inv'
         /\ \/ StoreKept \/ StorePuts \/ StoreChanges
            \/ StoreDels /\ \E p \in Procs, x \in Targets, ttl \in Nums : Del(p, x, ttl)
<1>1. Inv' /\ Base(m) /\ Homes(m) /\ Base(m')
  BY StepIs DEF Inv
<1>2. CASE Quiet(m, m') \/ (SameRecs(m, m') /\ m'.tabs = m.tabs)
  BY <1>1, <1>2, KeptStore DEF Quiet, SameTabs
<1>3. ASSUME NEW rec \in Puts, Gains(m, m', rec) PROVE StorePuts
  <2>1. rec \in Recs
    BY SizeAssumption DEF Recs
  <2>2. QED BY <1>1, <1>3, <2>1, GainsStore DEF StorePuts
<1>4. CASE Alters(m, m')
  BY <1>1, <1>4, AltersStore DEF StoreChanges
<1>5. CASE Loses(m, m') /\ \E p \in Procs, x \in Targets, ttl \in Nums : Del(p, x, ttl)
  BY <1>1, <1>5, LosesStore DEF StoreDels
<1>6. ASSUME NEW old \in Tabs, NEW new \in Tabs, old # new, Moved(m, m', old, new) PROVE StoreKept
  BY <1>1, <1>6, MovedStore DEF StoreKept
<1>7. QED BY <1>1, <1>2, <1>3, <1>4, <1>5, <1>6, StepIs

(* A step of a process that iterates, and one that changes nothing, leaves  *)
(* the store as it is.                                                      *)
LEMMA WalkStoreStep ==
  ASSUME WInv, WalkNext
  PROVE  /\ Inv /\ Inv'
         /\ \/ StoreKept \/ StorePuts \/ StoreChanges
            \/ StoreDels /\ \E p \in Procs, x \in Targets, ttl \in Nums : Del(p, x, ttl)
<1>1. Inv
  BY DEF WInv
<1>2. ASSUME NEW p \in Iterators, TabCopyIterate(p) PROVE Inv' /\ StoreKept
  BY <1>1, <1>2, WInvIterate, KeptStore DEF WInv, Quiet, SameTabs
<1>3. CASE Next
  BY <1>1, <1>3, StoreStep
<1>4. QED BY <1>1, <1>2, <1>3 DEF WalkNext

LEMMA StoredIn ==
  ASSUME Inv, NEW u \in Uids
  PROVE  StoreOf(m, u) \in Recs \cup {NoRec}
<1>1. u[2] \in Slots /\ m.tabs[u[1]] \in Tabs /\ m \in Wins /\ FilesOK(m)
  BY UidIs, TabIs DEF Inv, Base
<1>2. QED BY <1>1, HeldIs DEF StoreOf

LEMMA OnlyDelLoses ==
  ASSUME WInv, WalkNext, NEW u \in Uids, StoredAt(u) # NoRec, StoredAt(u)' = NoRec
  PROVE  \E p \in Procs, x \in Targets, ttl \in Nums : Del(p, x, ttl)
<1>1. Inv /\ Inv'
  BY WalkStoreStep
<1>2. StoreOf(m, u) # NoRec /\ StoreOf(m', u) = NoRec
  BY <1>1, StoredAtIs, StoredThenIs
<1>3. ~StoreKept
  BY <1>2 DEF StoreKept
<1>4. ~StorePuts
  <2> SUFFICES ASSUME NEW rec \in Puts, NEW z \in Uids, StoreOf(m, z) = NoRec, OneUid(m, m', z, rec) PROVE FALSE
    BY DEF StorePuts
  <2>1. rec \in Recs
    BY SizeAssumption DEF Recs
  <2>2. rec # NoRec
    BY <2>1, RecIs
  <2>3. QED BY <1>2, <2>2 DEF OneUid
<1>5. ~StoreChanges
  <2> SUFFICES ASSUME NEW z \in Uids, NEW n \in Nums, StoreOf(m, z) \in Recs,
                      OneUid(m, m', z, [StoreOf(m, z) EXCEPT !.n = n])
               PROVE FALSE
    BY DEF StoreChanges
  <2>1. PICK h : h = StoreOf(m, z)
    OBVIOUS
  <2>2. [h EXCEPT !.n = n] \in Recs
    BY <2>1 DEF Recs
  <2>3. [h EXCEPT !.n = n] # NoRec
    BY <2>2, RecIs
  <2>4. QED BY <1>2, <2>1, <2>3 DEF OneUid
<1>6. QED BY <1>3, <1>4, <1>5, WalkStoreStep

LEMMA PutAdds ==
  ASSUME Inv, NEW p \in Procs, NEW rec \in Puts, PutInRow(p, rec), Inv'
  PROVE  \E u \in Uids : StoredAt(u) = NoRec /\ StoredAt(u)' # NoRec
<1>1. rec \in Recs /\ rec # NoRec
  <2>1. rec \in Recs
    BY SizeAssumption DEF Recs
  <2>2. QED BY <2>1, RecIs
<1>2. Base(m) /\ Homes(m) /\ Base(m') /\ Gains(m, m', rec)
  BY PutInRowIs DEF Inv
<1>3. PICK u \in Uids : StoreOf(m, u) = NoRec /\ OneUid(m, m', u, rec)
  BY <1>1, <1>2, GainsStore
<1>4. StoredAt(u) = NoRec /\ StoredAt(u)' = rec
  BY <1>3, StoredAtIs, StoredThenIs DEF OneUid
<1>5. QED BY <1>1, <1>4

(* Whatever shrink or split a call of shf_put_*, shf_get_* or shf_upd_*     *)
(* triggers on its way, only a call of shf_del_* takes a record away, and a *)
(* put leaves one more than there were.                                     *)
THEOREM NothingDroppedOnTheWay == WalkSpec => RecordsLeaveByDelete
<1>1. ASSUME WInv, WInv', [WalkNext]_wvars
      PROVE  [/\ (\E u \in Uids : StoredAt(u) # NoRec /\ StoredAt(u)' = NoRec)
                   => \E p \in Procs, x \in Targets, ttl \in Nums : Del(p, x, ttl)
              /\ (\E p \in Procs, rec \in Puts : PutInRow(p, rec))
                   => \E u \in Uids : StoredAt(u) = NoRec /\ StoredAt(u)' # NoRec]_vars
  <2>1. CASE UNCHANGED wvars
    BY <2>1 DEF wvars
  <2>2. CASE WalkNext
    <3>1. Inv /\ Inv'
      BY <1>1 DEF WInv
    <3>2. (\E u \in Uids : StoredAt(u) # NoRec /\ StoredAt(u)' = NoRec)
            => \E p \in Procs, x \in Targets, ttl \in Nums : Del(p, x, ttl)
      BY <1>1, <2>2, OnlyDelLoses
    <3>3. (\E p \in Procs, rec \in Puts : PutInRow(p, rec))
            => \E u \in Uids : StoredAt(u) = NoRec /\ StoredAt(u)' # NoRec
      BY <3>1, PutAdds
    <3>4. QED BY <3>2, <3>3
  <2>3. QED BY <1>1, <2>1, <2>2
<1>2. QED BY <1>1, WalkInvariant, PTL DEF WalkSpec, RecordsLeaveByDelete

-----------------------------------------------------------------------------
(* The refinement. *)

StoreNow == [u \in Uids |-> StoredAt(u)]

LEMMA StoreInit ==
  ASSUME Init
  PROVE  Store_!Init
<1>1. Inv
  BY InvInit
<1>2. ASSUME NEW u \in Uids PROVE StoredAt(u) = NoRec
  <2>1. m.tabs[u[1]] \in Tabs /\ u[2] \in Slots
    BY <1>1, <1>2, TabIs, UidIs
  <2>2. Current(m.tabs[u[1]]) = NewFile
    BY <2>1, InodesAre DEF Init, Current
  <2>3. QED BY <2>1, <2>2 DEF StoredAt, NewFile, NoRef
<1>3. QED BY <1>2 DEF Store_!Init

LEMMA StoreNowIs ==
  ASSUME Inv, Inv'
  PROVE  /\ DOMAIN StoreNow = Uids /\ DOMAIN StoreNow' = Uids
         /\ \A u \in Uids : StoreNow[u] = StoreOf(m, u) /\ StoreNow'[u] = StoreOf(m', u)
BY StoredAtIs, StoredThenIs DEF StoreNow

LEMMA StoreOne ==
  ASSUME Inv, Inv', NEW u \in Uids, NEW rec, OneUid(m, m', u, rec)
  PROVE  StoreNow' = [StoreNow EXCEPT ![u] = rec]
<1>1. \A z \in Uids : StoreNow'[z] = [StoreNow EXCEPT ![u] = rec][z]
  BY StoreNowIs DEF OneUid, StoreNow
<1>2. QED BY <1>1 DEF StoreNow

LEMMA RefinesPut ==
  ASSUME Inv, Inv', StorePuts
  PROVE  Store_!Put
<1>1. PICK rec \in Puts, u \in Uids :
        /\ u[1] = HashTab2(rec.key) /\ u[2][1] = HashRow(rec.key)
        /\ StoreOf(m, u) = NoRec /\ OneUid(m, m', u, rec)
  BY DEF StorePuts
<1>2. rec.key \in Keys /\ rec.len \in Lens /\ rec.n \in Nums
      /\ rec = [key |-> rec.key, len |-> rec.len, n |-> rec.n]
  BY SizeAssumption
<1>3. StoreNow[u] = NoRec /\ StoreNow' = [StoreNow EXCEPT ![u] = rec]
  BY <1>1, StoreNowIs, StoreOne
<1>4. u \in {z \in Uids : z[1] = HashTab2(rec.key) /\ z[2][1] = HashRow(rec.key)}
  BY <1>1
<1>5. QED BY <1>2, <1>3, <1>4 DEF Store_!Put, StoreNow

LEMMA RefinesDel ==
  ASSUME Inv, Inv', StoreDels
  PROVE  Store_!Del
<1>1. PICK u \in Uids : StoreOf(m, u) # NoRec /\ OneUid(m, m', u, NoRec)
  BY DEF StoreDels
<1>2. StoreNow[u] # NoRec /\ StoreNow' = [StoreNow EXCEPT ![u] = NoRec]
  BY <1>1, StoreNowIs, StoreOne
<1>3. QED BY <1>2 DEF Store_!Del, StoreNow

LEMMA RefinesChange ==
  ASSUME Inv, Inv', StoreChanges
  PROVE  Store_!Change
<1>1. PICK u \in Uids, n \in Nums : StoreOf(m, u) \in Recs /\ OneUid(m, m', u, [StoreOf(m, u) EXCEPT !.n = n])
  BY DEF StoreChanges
<1>2. PICK h : h = StoreOf(m, u)
  OBVIOUS
<1>3. StoreNow[u] = h /\ h # NoRec /\ StoreNow' = [StoreNow EXCEPT ![u] = [h EXCEPT !.n = n]]
  BY <1>1, <1>2, StoreNowIs, StoreOne, RecIs
<1>4. StoreNow' = [StoreNow EXCEPT ![u].n = n]
  BY <1>3
<1>5. QED BY <1>3, <1>4 DEF Store_!Change, StoreNow

LEMMA RefinesStutter ==
  ASSUME Inv, Inv', StoreKept
  PROVE  StoreNow' = StoreNow
BY StoreNowIs DEF StoreKept, StoreNow

(* The window of tables, redirects, mappings and inodes is the store of     *)
(* KvStore: every step puts, deletes or changes one record, or is none of   *)
(* the store's; splits, shrinks and iterations are of that kind.            *)
THEOREM WindowIsStore == WalkSpec => ImplementsKvStore
<1>1. WalkInit => Store_!Init
  BY StoreInit DEF WalkInit
<1>2. ASSUME WInv, WInv', [WalkNext]_wvars
      PROVE  [Store_!Next]_StoreNow
  <2>1. CASE UNCHANGED wvars
    BY <2>1 DEF wvars, vars, StoreNow, StoredAt, Current
  <2>2. CASE WalkNext
    <3>1. Inv /\ Inv'
      BY <1>2 DEF WInv
    <3>2. QED
      BY <1>2, <2>2, <3>1, WalkStoreStep, RefinesPut, RefinesDel, RefinesChange, RefinesStutter DEF Store_!Next
  <2>3. QED BY <1>2, <2>1, <2>2
<1>3. QED BY <1>1, <1>2, WalkInvariant, PTL DEF WalkSpec, ImplementsKvStore, Store_!Spec, StoreNow

-----------------------------------------------------------------------------
(* Tables that run out. *)

LeadTo(w, t) == {u \in Tabs : w.tabs[u] = t}
Rank(w, t, u) == Cardinality({v \in Tabs : v < u /\ w.tabs[v] = t})

LEMMA RedirectAt ==
  ASSUME NEW w, NEW old, NEW new, NEW u \in Tabs
  PROVE  Redirect(w, old, new)[u] = IF w.tabs[u] = old /\ Rank(w, old, u) % 2 = 1 THEN new ELSE w.tabs[u]
BY DEF Redirect, Rank

LEMMA FirstLead ==
  ASSUME NEW w, NEW t, NEW a \in Tabs, w.tabs[a] = t
  PROVE  \E first \in LeadTo(w, t) : \A e \in LeadTo(w, t) : first <= e
<1>1. LeadTo(w, t) # {} /\ LeadTo(w, t) \subseteq Nat
  BY TabsAre DEF LeadTo
<1>2. QED BY <1>1, LeastOf

(* shf_tab_part leaves the old table the first redirect it had ...          *)
LEMMA RedirectOne ==
  ASSUME NEW w \in Wins, NEW old \in Tabs, NEW new \in Tabs, NEW d, d = Redirect(w, old, new),
         NEW a \in Tabs, w.tabs[a] = old
  PROVE  \E u \in Tabs : d[u] = old
<1>1. PICK first \in LeadTo(w, old) : \A e \in LeadTo(w, old) : first <= e
  BY FirstLead
<1>2. first \in Tabs /\ w.tabs[first] = old /\ first \in Nat
  BY TabsAre DEF LeadTo
<1>3. ASSUME NEW v \in Tabs, v < first PROVE w.tabs[v] # old
  BY <1>1, <1>2, <1>3, TabsAre DEF LeadTo
<1>4. {v \in Tabs : v < first /\ w.tabs[v] = old} = {}
  BY <1>3
<1>5. Rank(w, old, first) = 0
  BY <1>4, FS_EmptySet DEF Rank
<1>6. d[first] = old
  BY <1>2, <1>5, RedirectAt
<1>7. QED BY <1>2, <1>6

(* ... and gives the new one the second, if there was one.                  *)
LEMMA RedirectTwo ==
  ASSUME NEW w \in Wins, NEW old \in Tabs, NEW new \in Tabs, NEW d, d = Redirect(w, old, new),
         NEW a \in Tabs, w.tabs[a] = old, NEW b \in Tabs, w.tabs[b] = old, b # a
  PROVE  \E u \in Tabs : d[u] = new
<1>1. PICK first \in LeadTo(w, old) : \A e \in LeadTo(w, old) : first <= e
  BY FirstLead
<1>2. first \in Tabs /\ w.tabs[first] = old /\ first \in Nat
  BY TabsAre DEF LeadTo
<1>3. PICK second \in LeadTo(w, old) \ {first} : \A e \in LeadTo(w, old) \ {first} : second <= e
  <2>1. a \in LeadTo(w, old) /\ b \in LeadTo(w, old) /\ LeadTo(w, old) \subseteq Nat
    BY TabsAre DEF LeadTo
  <2>2. PICK T : T = LeadTo(w, old) \ {first}
    OBVIOUS
  <2>3. T # {} /\ T \subseteq Nat
    BY <2>1, <2>2
  <2>4. PICK e \in T : \A z \in T : e <= z
    BY <2>3, LeastOf
  <2>5. QED BY <2>2, <2>4
<1>4. second \in Tabs /\ w.tabs[second] = old /\ second \in Nat /\ second # first
  BY <1>3, TabsAre DEF LeadTo
<1>5. first < second
  BY <1>1, <1>2, <1>3, <1>4
<1>6. ASSUME NEW v \in Tabs PROVE (v < second /\ w.tabs[v] = old) <=> v = first
  BY <1>2, <1>3, <1>4, <1>5, <1>6, TabsAre DEF LeadTo
<1>7. {v \in Tabs : v < second /\ w.tabs[v] = old} = {first}
  BY <1>2, <1>6
<1>8. Rank(w, old, second) = 1
  BY <1>7, FS_Singleton DEF Rank
<1>9. d[second] = new
  BY <1>4, <1>8, RedirectAt
<1>10. QED BY <1>4, <1>9

(* A full row of a table that only one redirect leads to. *)
LEMMA FullRow ==
  ASSUME Inv, NEW p \in Procs, m.count_mmap[p] > 0, NEW rec \in Recs, NEW t, t = m.tabs[HashTab2(rec.key)],
         FreeRefs(File(GetTab(m, p, t), p, t), HashRow(rec.key)) = {},
         \A u, v \in Tabs : m.tabs[u] = t /\ m.tabs[v] = t => u = v
  PROVE  Overloaded
<1>1. t \in Tabs /\ t < m.tabs_used /\ HashRow(rec.key) \in 0 .. Rows - 1
  BY RecIs, TabIs
<1>2. PICK row : row = HashRow(rec.key)
  OBVIOUS
<1>3. PICK g : g = GetTab(m, p, t)
  OBVIOUS
<1>4. PICK f : f = g.ino[t][0]
  OBVIOUS
<1>5. /\ f \in Files /\ FileOK(f) /\ File(g, p, t) = f
      /\ \A s \in Slots : Holds(f, s) = Holds(m.ino[t][0], s)
  BY <1>1, <1>3, <1>4, EnterIs
<1>6. t \in Used
  <2>1. m.tabs_used \in Nat
    BY DEF Inv, Base, Wins
  <2>2. QED BY <1>1, <2>1, TabsAre DEF Used
<1>7. PICK c : c = Current(t)
  OBVIOUS
<1>8. c \in Files /\ FileOK(c) /\ c = m.ino[t][0]
  BY <1>6, <1>7, UsedIs
<1>9. ASSUME NEW r \in 0 .. RefsPerRow - 1, NEW s, s = <<row, r>>
      PROVE  c.row[s].pos # 0 /\ c.row[s].tab \in Tabs /\ m.tabs[c.row[s].tab] = t
  <2>1. s \in Slots
    BY <1>1, <1>2, <1>9 DEF Slots
  <2>2. f.row[s].pos # 0
    BY <1>2, <1>3, <1>5, <1>9 DEF FreeRefs
  <2>3. s \in Live(c)
    BY <1>5, <1>8, <2>1, <2>2, HoldsLive
  <2>4. c.row[s].pos # 0 /\ c.row[s].tab \in Tabs
    BY <1>8, <2>3, LiveRef DEF Live
  <2>5. Holds(c, s) # NoRec /\ HashTab2(Holds(c, s).key) = c.row[s].tab
    BY <1>8, <2>1, <2>3, HoldsLive
  <2>6. m.tabs[c.row[s].tab] = t
    BY <1>1, <1>8, <2>1, <2>5 DEF Inv, Homes, Home
  <2>7. QED BY <2>4, <2>6
<1>10. \A r, q \in 0 .. RefsPerRow - 1 :
         Current(t).row[<<row, r>>].pos # 0 /\ Current(t).row[<<row, r>>].tab = Current(t).row[<<row, q>>].tab
  BY <1>7, <1>9
<1>11. QED BY <1>1, <1>2, <1>6, <1>10 DEF Overloaded

LEMMA PartsWaste ==
  ASSUME Inv, ~Wasted, NEW p \in Procs, NEW rec \in Puts, PutParts(p, rec), Wasted'
  PROVE  Overloaded
<1>1. rec \in Recs
  BY SizeAssumption, Zenon DEF Recs
<1>2. PICK a \in Tabs : a = HashTab2(rec.key)
  BY <1>1, RecIs
<1>3. PICK old : old = m.tabs[a]
  OBVIOUS
<1>4. PICK new : new = m.tabs_used
  OBVIOUS
<1>5. PICK d : d = Redirect(m, old, new)
  OBVIOUS
<1>6. old \in Tabs /\ new \in Tabs /\ old # new /\ m'.tabs_used = m.tabs_used + 1 /\ m'.tabs = d
  BY <1>2, <1>3, <1>4, <1>5, PutPartsIs DEF Moved
<1>7. PICK t \in Used' : \A u \in Tabs : d[u] # t
  BY <1>6 DEF Wasted
<1>8. m.tabs_used \in Nat /\ m \in Wins
  BY DEF Inv, Base, Wins
<1>9. t \in Tabs /\ (t \in Used \/ t = new)
  BY <1>4, <1>6, <1>7, <1>8, TabsAre DEF Used
<1>10. m.tabs[a] = old /\ \E u \in Tabs : d[u] = old
  <2>1. m.tabs[a] = old
    BY <1>3
  <2>2. QED BY <1>5, <1>6, <1>8, <2>1, RedirectOne
<1>11. t # old
  BY <1>7, <1>10
<1>12. t = new
  <2> SUFFICES ASSUME t \in Used, t # new PROVE FALSE
    BY <1>9
  <2>1. PICK u \in Tabs : m.tabs[u] = t
    BY DEF Wasted
  <2>2. d[u] = t
    BY <1>5, <1>11, <2>1, RedirectAt
  <2>3. QED BY <1>7, <2>2
<1>13. ASSUME NEW b \in Tabs, m.tabs[b] = old, b # a PROVE FALSE
  <2>1. \E u \in Tabs : d[u] = new
    BY <1>5, <1>6, <1>8, <1>10, <1>13, RedirectTwo
  <2>2. QED BY <1>7, <1>12, <2>1
<1>14. m.count_mmap[p] > 0 /\ FreeRefs(File(GetTab(m, p, old), p, old), HashRow(rec.key)) = {}
  BY <1>2, <1>3 DEF PutParts, PutsNow
<1>15. QED BY <1>1, <1>2, <1>3, <1>13, <1>14, FullRow

(* With as many tables as redirects and no table wasted each table has one. *)
LEMMA OneEach ==
  ASSUME Inv, ~Wasted, m.tabs_used = TabsPerWin, NEW u \in Tabs, NEW v \in Tabs, m.tabs[u] = m.tabs[v]
  PROVE  u = v
<1>1. m.tabs \in [Tabs -> Tabs]
  BY DEF Inv, Base, Wins
<1>2. ASSUME NEW t \in Tabs PROVE \E z \in Tabs : m.tabs[z] = t
  <2>1. t \in Used
    BY SizeAssumption DEF Used, Tabs
  <2>2. QED BY <2>1 DEF Wasted
<1>3. m.tabs \in Surjection(Tabs, Tabs)
  BY <1>1, <1>2 DEF Surjection
<1>4. m.tabs \in Injection(Tabs, Tabs)
  BY <1>3, TabsAre, FS_SurjSameCardinalityImpliesInj
<1>5. QED BY <1>4 DEF Injection, IsInjective

LEMMA OverflowsWaste ==
  ASSUME Inv, ~Wasted, NEW p \in Procs, NEW rec \in Puts, PutOverflows(p, rec)
  PROVE  Overloaded
<1>1. rec \in Recs
  BY SizeAssumption, Zenon DEF Recs
<1>2. PICK t : t = m.tabs[HashTab2(rec.key)]
  OBVIOUS
<1>3. m.count_mmap[p] > 0 /\ m.tabs_used = TabsPerWin
      /\ FreeRefs(File(GetTab(m, p, t), p, t), HashRow(rec.key)) = {}
  BY <1>2 DEF PutOverflows, PutsNow
<1>4. \A u, v \in Tabs : m.tabs[u] = t /\ m.tabs[v] = t => u = v
  BY <1>3, OneEach
<1>5. QED BY <1>1, <1>2, <1>3, <1>4, FullRow

(* All other steps leave the redirects alone. *)
LEMMA OthersKeepTabs ==
  ASSUME Inv, Next, ~\E p \in Procs, rec \in Puts : PutParts(p, rec) \/ PutOverflows(p, rec)
  PROVE  SameTabs(m, m') /\ UNCHANGED stuck
<1>1. PICK p \in Procs :
        \/ Attach(p)
        \/ Detach(p)
        \/ \E rec \in Puts : PutInRow(p, rec)
        \/ \E x \in Targets :
             \/ GetAddr(p, x)
             \/ GetCopy(p, x)
             \/ \E n \in Nums : AddAtom(p, x, n) \/ Del(p, x, n) \/ \E len \in Lens : Upd(p, x, len, n)
  BY DEF Next
<1>2. \A x \in Targets : x \in AllTargets
  BY TargetsAssumption
<1>3. CASE Attach(p) \/ Detach(p)
  BY <1>3, AttachIs, DetachIs DEF Attach, Detach, Quiet
<1>4. ASSUME NEW rec \in Puts, PutInRow(p, rec) PROVE SameTabs(m, m') /\ UNCHANGED stuck
  BY <1>4, PutInRowIs DEF PutInRow, Gains
<1>5. ASSUME NEW x \in Targets, GetAddr(p, x) \/ GetCopy(p, x) PROVE SameTabs(m, m') /\ UNCHANGED stuck
  BY <1>2, <1>5, GetAddrIs, GetCopyIs DEF GetAddr, GetCopy, Find, Quiet
<1>6. ASSUME NEW x \in Targets, NEW n \in Nums, AddAtom(p, x, n) \/ Del(p, x, n)
      PROVE  SameTabs(m, m') /\ UNCHANGED stuck
  <2>1. Quiet(m, m') \/ Alters(m, m') \/ Loses(m, m')
    BY <1>2, <1>6, AddAtomIs, DelIs
  <2>2. UNCHANGED stuck
    BY <1>6 DEF AddAtom, Del, Find
  <2>3. QED BY <2>1, <2>2 DEF Quiet, Alters, Loses
<1>7. ASSUME NEW x \in Targets, NEW n \in Nums, NEW len \in Lens, Upd(p, x, len, n)
      PROVE  SameTabs(m, m') /\ UNCHANGED stuck
  <2>1. Quiet(m, m') \/ Alters(m, m')
    BY <1>2, <1>7, UpdIs
  <2>2. UNCHANGED stuck
    BY <1>7 DEF Upd, Find
  <2>3. QED BY <2>1, <2>2 DEF Quiet, Alters
<1>8. QED BY <1>1, <1>3, <1>4, <1>5, <1>6, <1>7

LEMMA SameWasted ==
  ASSUME SameTabs(m, m')
  PROVE  Wasted' <=> Wasted
BY DEF SameTabs, Wasted, Used

(* shf_put_key_val only runs out of tables, or splits one in vain, when a   *)
(* row is full of records of one redirect: every other split leaves both    *)
(* halves a redirect, so there are never more tables than redirects.        *)
THEOREM OverflowNeedsOverload == WalkSpec => OverflowOnlyWhenOverloaded
<1>1. ASSUME WInv, [WalkNext]_wvars
      PROVE  [~Wasted /\ (Wasted' \/ stuck' # stuck) => Overloaded]_vars
  <2>1. CASE UNCHANGED wvars
    BY <2>1 DEF wvars
  <2>2. CASE \E p \in Iterators : TabCopyIterate(p)
    <3>1. SameTabs(m, m') /\ UNCHANGED stuck
      BY <1>1, <2>2, WInvIterate DEF Quiet, TabCopyIterate
    <3>2. QED BY <3>1, SameWasted
  <2>3. CASE Next
    <3>1. Inv
      BY <1>1 DEF WInv
    <3>2. CASE \E p \in Procs, rec \in Puts : PutParts(p, rec)
      <4>1. UNCHANGED stuck
        BY <3>2 DEF PutParts
      <4>2. QED BY <3>1, <3>2, <4>1, PartsWaste
    <3>3. CASE \E p \in Procs, rec \in Puts : PutOverflows(p, rec)
      BY <3>1, <3>3, OverflowsWaste
    <3>4. CASE ~\E p \in Procs, rec \in Puts : PutParts(p, rec) \/ PutOverflows(p, rec)
      <4>1. SameTabs(m, m') /\ UNCHANGED stuck
        BY <2>3, <3>1, <3>4, OthersKeepTabs
      <4>2. QED BY <4>1, SameWasted
    <3>5. QED BY <3>2, <3>3, <3>4
  <2>4. QED BY <1>1, <2>1, <2>2, <2>3 DEF WalkNext
<1>2. QED BY <1>1, WalkInvariant, PTL DEF WalkSpec, OverflowOnlyWhenOverloaded
=============================================================================
