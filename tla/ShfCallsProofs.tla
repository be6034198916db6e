--------------------------- MODULE ShfCallsProofs ---------------------------
(***************************************************************************)
(* Proofs about the calls under the reader lock, for any number of         *)
(* processes, keys and refs and every size of a long: nothing is lost,     *)
(* gets find what is stored, and nobody ends of an assertion, provided     *)
(* that whoever makes get calls is alone under the reader lock             *)
(* (GetsAlone); and a reference count is deleted at zero, provided also    *)
(* that no two processes count the same key (CountsAlone).                 *)
(***************************************************************************)
EXTENDS ShfCalls, FiniteSetTheorems, NaturalsInduction, TLAPS

-----------------------------------------------------------------------------
(* Numbers: the least of a set, and remainders. *)

LEMMA LeastOf ==
  ASSUME NEW T, T \subseteq Nat, T # {}
  PROVE  \E d \in T : \A e \in T : d <= e
<1> DEFINE R == {e \in Nat \X Nat : e[1] < e[2]}
<1>1. IsWellFoundedOn(R, Nat)
  BY NatLessThanWellFounded DEF OpToRel
<1>2. PICK d \in T : \A e \in T : ~(<<e, d>> \in R)
  <2> HIDE DEF R
  <2> QED BY <1>1, WFMin
<1>3. \A e \in Nat, f \in Nat : e < f => <<e, f>> \in R
  OBVIOUS
<1> HIDE DEF R
<1>4. \A e \in T : ~(e < d)
  BY <1>2, <1>3, Zenon
<1>5. QED BY <1>4

LEMMA MinIn ==
  ASSUME NEW T, T \subseteq Nat, T # {}
  PROVE  Min(T) \in T
<1>1. PICK d \in T : \A e \in T : d <= e
  BY LeastOf
<1>2. QED BY <1>1 DEF Min

LEMMA LongModIs == LongMod \in Nat /\ LongMod > 0 /\ 0 \in Longs /\ Longs \subseteq Nat
BY CallsAssumption DEF Longs

LEMMA LongIsInt == \A x \in Longs : x \in Int
BY CallsAssumption DEF Longs

LEMMA Remainder ==
  ASSUME NEW a \in Int, NEW q \in Int, NEW r \in Longs, a = LongMod * q + r
  PROVE  r = a % LongMod
BY LongModIs DEF Longs

LEMMA NatQuotient ==
  ASSUME NEW a \in Nat
  PROVE  \E q \in Int, r \in Longs : a = LongMod * q + r
<1> DEFINE T == {n \in Nat : ~ \E q \in Int, r \in Longs : n = LongMod * q + r}
<1> SUFFICES ASSUME T # {} PROVE FALSE
  OBVIOUS
<1>1. T \subseteq Nat
  OBVIOUS
<1>2. PICK d \in T : \A e \in T : d <= e
  <2> HIDE DEF T
  <2> QED BY <1>1, LeastOf
<1>3. d # 0
  <2>1. 0 = LongMod * 0 + 0
    BY LongModIs
  <2>2. QED BY <2>1, LongModIs
<1>4. d - 1 \in Nat /\ d - 1 \notin T
  BY <1>2, <1>3
<1>5. PICK q \in Int, r \in Longs : d - 1 = LongMod * q + r
  BY <1>4
<1>6. CASE r + 1 < LongMod
  <2>1. r + 1 \in Longs /\ d = LongMod * q + (r + 1)
    BY <1>2, <1>5, <1>6, LongModIs DEF Longs
  <2>2. QED BY <2>1
<1>7. CASE r + 1 >= LongMod
  <2>1. r + 1 = LongMod
    BY <1>7, LongModIs DEF Longs
  <2>2. d = LongMod * q + LongMod
    BY <1>2, <1>5, <2>1, LongModIs
  <2>3. LongMod * (q + 1) = LongMod * q + LongMod
    BY LongModIs
  <2>4. d = LongMod * (q + 1) + 0
    BY <1>2, <2>2, <2>3, LongModIs
  <2>5. QED BY <2>4, LongModIs
<1>8. QED BY <1>6, <1>7, LongModIs DEF Longs

LEMMA Quotient ==
  ASSUME NEW a \in Int
  PROVE  \E q \in Int, r \in Longs : a = LongMod * q + r /\ r = a % LongMod
<1>1. \E q \in Int, r \in Longs : a = LongMod * q + r
  <2>1. CASE a \in Nat
    BY <2>1, NatQuotient
  <2>2. CASE a \notin Nat
    <3>1. 0 - a \in Nat
      BY <2>2
    <3>2. PICK q \in Int, r \in Longs : 0 - a = LongMod * q + r
      BY <3>1, NatQuotient
    <3>3. LongMod * (0 - q) = 0 - LongMod * q /\ LongMod * (0 - q - 1) = 0 - LongMod * q - LongMod
      BY LongModIs
    <3>4. CASE r = 0
      <4>1. a = LongMod * (0 - q) + 0
        BY <3>2, <3>3, <3>4, LongModIs
      <4>2. 0 - q \in Int /\ 0 \in Longs
        BY LongModIs
      <4>3. QED BY <4>1, <4>2
    <3>5. CASE r # 0
      <4>1. a = LongMod * (0 - q - 1) + (LongMod - r)
        BY <3>2, <3>3, LongModIs
      <4>2. LongMod - r \in Longs
        BY <3>5, LongModIs DEF Longs
      <4>3. QED BY <4>1, <4>2
    <3>6. QED BY <3>4, <3>5
  <2>3. QED BY <2>1, <2>2
<1>2. PICK q \in Int, r \in Longs : a = LongMod * q + r
  BY <1>1
<1>3. r = a % LongMod
  BY <1>2, Remainder
<1>4. QED BY <1>2, <1>3

(* Additions and subtractions may be reduced at any time. *)
LEMMA SameSum ==
  ASSUME NEW a \in Int, NEW b \in Int, NEW c \in Int, a % LongMod = b % LongMod
  PROVE  (a + c) % LongMod = (b + c) % LongMod
<1>1. PICK q \in Int, s \in Longs : a = LongMod * q + s /\ s = a % LongMod
  BY Quotient
<1>2. PICK u \in Int, z \in Longs : b = LongMod * u + z /\ z = b % LongMod
  BY Quotient
<1>3. a + c \in Int
  OBVIOUS
<1>4. PICK v \in Int, r \in Longs : a + c = LongMod * v + r /\ r = (a + c) % LongMod
  BY <1>3, Quotient
<1>5. s = z
  BY <1>1, <1>2
<1>6. PICK Q \in Int : Q = LongMod * q
  BY LongModIs
<1>7. PICK U \in Int : U = LongMod * u
  BY LongModIs
<1>8. PICK V \in Int : V = LongMod * v
  BY LongModIs
<1>9. a = Q + s /\ b = U + s /\ a + c = V + r
  BY <1>1, <1>2, <1>4, <1>5, <1>6, <1>7, <1>8
<1>10. b + c = (V + U - Q) + r
  BY <1>9, LongModIs
<1>11. LongMod * ((v + u) - q) = V + U - Q
  BY <1>6, <1>7, <1>8, LongModIs
<1>12. b + c = LongMod * ((v + u) - q) + r
  BY <1>10, <1>11
<1>13. r = (b + c) % LongMod
  BY <1>12, Remainder
<1>14. QED BY <1>4, <1>13

LEMMA ReduceOnce ==
  ASSUME NEW a \in Int
  PROVE  a % LongMod \in Longs /\ (a % LongMod) % LongMod = a % LongMod
<1>1. PICK q \in Int, r \in Longs : a = LongMod * q + r /\ r = a % LongMod
  BY Quotient
<1>3. r = LongMod * 0 + r
  BY LongModIs
<1>4. r = r % LongMod
  BY <1>3, LongModIs, Remainder
<1>5. QED BY <1>1, <1>4

-----------------------------------------------------------------------------
(* The sum of the values of a set of refs. *)

Pick(s) == CHOOSE x \in s : TRUE
Adds(r, h, s) == IF s = {} THEN 0 ELSE LET x == CHOOSE x \in s : TRUE IN r[x].n + h[s \ {x}]
Sums(r, S, h) == h = [s \in SUBSET S |-> Adds(r, h, s)]
SumOf(r, S) == LET h == CHOOSE h : Sums(r, S, h) IN h[S]

LEMMA SumIs ==
  ASSUME NEW f, NEW S
  PROVE  MapThenSumSet(LAMBDA s : f.row[s].n, S) = SumOf(f.row, S)
BY DEF MapThenSumSet, MapThenFoldSet, SumOf, Sums, Adds

LEMMA AddsIs ==
  /\ \A r, h : Adds(r, h, {}) = 0
  /\ \A r, h, s : s # {} => Pick(s) \in s /\ Adds(r, h, s) = r[Pick(s)].n + h[s \ {Pick(s)}]
BY DEF Adds, Pick

LEMMA LeastSet ==
  ASSUME NEW S, IsFiniteSet(S), NEW B, B \subseteq SUBSET S, B # {}
  PROVE  \E m \in B : \A e \in SUBSET S : Cardinality(e) < Cardinality(m) => e \notin B
<1> DEFINE T == {Cardinality(e) : e \in B}
<1>1. \A e \in SUBSET S : Cardinality(e) \in Nat
  BY FS_Subset, FS_CardinalityType
<1>2. T \subseteq Nat /\ T # {}
  BY <1>1
<1>3. PICK d \in T : \A e \in T : d <= e
  <2> HIDE DEF T
  <2> QED BY <1>2, LeastOf
<1>4. PICK m \in B : d = Cardinality(m)
  OBVIOUS
<1>5. ASSUME NEW e \in B PROVE ~(Cardinality(e) < Cardinality(m))
  <2>1. Cardinality(e) \in T /\ Cardinality(e) \in Nat /\ Cardinality(m) \in Nat
    BY <1>1
  <2>2. QED BY <1>3, <1>4, <2>1
<1>6. QED BY <1>5

(* A set without one of its elements is smaller. *)
LEMMA Smaller ==
  ASSUME NEW S, IsFiniteSet(S), NEW s \in SUBSET S, NEW x \in s
  PROVE  /\ s \ {x} \in SUBSET S /\ Cardinality(s \ {x}) < Cardinality(s)
         /\ Cardinality(s) \in Nat /\ Cardinality(s \ {x}) = Cardinality(s) - 1
<1>1. IsFiniteSet(s) /\ Cardinality(s) \in Nat
  BY FS_Subset, FS_CardinalityType
<1>2. Cardinality(s \ {x}) = Cardinality(s) - 1
  BY <1>1, FS_RemoveElement
<1>3. QED BY <1>1, <1>2

LEMMA SumsOnce ==
  ASSUME NEW r, NEW S, IsFiniteSet(S), NEW f, NEW g, Sums(r, S, f), Sums(r, S, g)
  PROVE  f = g
<1> DEFINE B == {s \in SUBSET S : f[s] # g[s]}
<1>1. CASE B = {}
  <2>1. \A s \in SUBSET S : f[s] = g[s]
    BY <1>1
  <2>2. f = [s \in SUBSET S |-> f[s]] /\ g = [s \in SUBSET S |-> g[s]]
    BY DEF Sums
  <2>3. QED BY <2>1, <2>2
<1>2. CASE B # {}
  <2>1. B \subseteq SUBSET S
    OBVIOUS
  <2>2. PICK m \in B : \A e \in SUBSET S : Cardinality(e) < Cardinality(m) => e \notin B
    <3> HIDE DEF B
    <3> QED BY <1>2, <2>1, LeastSet
  <2>3. m \in SUBSET S /\ f[m] # g[m] /\ f[m] = Adds(r, f, m) /\ g[m] = Adds(r, g, m)
    BY DEF Sums
  <2>4. m # {}
    BY <2>3, AddsIs
  <2>5. PICK x \in m : x = Pick(m)
    BY <2>4, AddsIs
  <2>6. m \ {x} \in SUBSET S /\ m \ {x} \notin B
    BY <2>2, <2>3, Smaller
  <2>7. f[m \ {x}] = g[m \ {x}]
    BY <2>6
  <2>8. f[m] = r[x].n + f[m \ {x}] /\ g[m] = r[x].n + g[m \ {x}]
    <3>1. Adds(r, f, m) = r[x].n + f[m \ {x}]
      BY ZenonT(40), <2>4, <2>5, AddsIs
    <3>2. Adds(r, g, m) = r[x].n + g[m \ {x}]
      BY <2>4, <2>5, AddsIs
    <3>3. QED BY <2>3, <3>1, <3>2
  <2>9. QED BY <2>3, <2>7, <2>8
<1>3. QED BY <1>1, <1>2

(* The same for the sets of at most n elements. *)
Few(S, n) == {s \in SUBSET S : Cardinality(s) <= n}
SumsFew(r, S, n, h) == h = [s \in Few(S, n) |-> Adds(r, h, s)]

LEMMA SumsExist ==
  ASSUME NEW r, NEW S, IsFiniteSet(S)
  PROVE  \E h : Sums(r, S, h)
<1>0. \A s \in SUBSET S : IsFiniteSet(s) /\ Cardinality(s) \in Nat /\ Cardinality(s) <= Cardinality(S)
  BY FS_Subset, FS_CardinalityType
<1> DEFINE T == {n \in Nat : ~ \E h : SumsFew(r, S, n, h)}
<1>1. T = {}
  <2> SUFFICES ASSUME T # {} PROVE FALSE
    OBVIOUS
  <2>1. T \subseteq Nat
    OBVIOUS
  <2>2. PICK d \in T : \A e \in T : d <= e
    <3> HIDE DEF T
    <3> QED BY <2>1, LeastOf
  <2>3. d # 0
    <3> SUFFICES ASSUME d = 0 PROVE FALSE
      OBVIOUS
    <3>1. PICK h : h = [s \in Few(S, 0) |-> 0]
      OBVIOUS
    <3>2. \A s \in Few(S, 0) : Adds(r, h, s) = 0
      <4> SUFFICES ASSUME NEW s \in Few(S, 0) PROVE Adds(r, h, s) = 0
        OBVIOUS
      <4>1. Cardinality(s) = 0 /\ IsFiniteSet(s)
        BY <1>0 DEF Few
      <4>2. s = {}
        BY <4>1, FS_EmptySet
      <4>3. QED BY <4>2, AddsIs
    <3>3. SumsFew(r, S, 0, h)
      BY <3>1, <3>2 DEF SumsFew
    <3>4. QED BY <3>3
  <2>4. d - 1 \in Nat /\ d - 1 \notin T
    BY <2>2, <2>3
  <2>5. PICK h : SumsFew(r, S, d - 1, h)
    BY <2>4
  <2>6. PICK g : g = [s \in Few(S, d) |-> Adds(r, h, s)]
    OBVIOUS
  <2>7. \A s \in Few(S, d - 1) : s \in Few(S, d) /\ g[s] = h[s]
    <3>1. \A s \in Few(S, d - 1) : s \in Few(S, d)
      BY <1>0, <2>4 DEF Few
    <3>2. QED BY <2>5, <2>6, <3>1 DEF SumsFew
  <2>8. \A s \in Few(S, d) : Adds(r, g, s) = Adds(r, h, s)
    <3> SUFFICES ASSUME NEW s \in Few(S, d), s # {} PROVE Adds(r, g, s) = Adds(r, h, s)
      BY AddsIs
    <3>1. PICK x \in s : x = Pick(s)
      BY AddsIs
    <3>2. s \in SUBSET S /\ Cardinality(s) <= d
      BY DEF Few
    <3>3. s \ {x} \in SUBSET S /\ Cardinality(s) \in Nat /\ Cardinality(s \ {x}) = Cardinality(s) - 1
      BY <3>2, Smaller
    <3>4. s \ {x} \in Few(S, d - 1)
      BY <2>4, <3>2, <3>3 DEF Few
    <3>5. g[s \ {x}] = h[s \ {x}]
      BY <2>7, <3>4
    <3>6. QED BY <3>1, <3>5, AddsIs
  <2>9. SumsFew(r, S, d, g)
    BY <2>6, <2>8 DEF SumsFew
  <2>10. QED BY <2>9
<1>2. Cardinality(S) \in Nat
  BY FS_CardinalityType
<1>3. PICK h : SumsFew(r, S, Cardinality(S), h)
  BY <1>1, <1>2
<1>4. Few(S, Cardinality(S)) = SUBSET S
  BY <1>0 DEF Few
<1>5. Sums(r, S, h)
  BY <1>3, <1>4 DEF SumsFew, Sums
<1>6. QED BY <1>5

(* What the sum of a part of S is, as the sum of S counts it. *)
LEMMA SumOfPart ==
  ASSUME NEW r, NEW S, IsFiniteSet(S), NEW h, Sums(r, S, h), NEW s \in SUBSET S
  PROVE  h[s] = SumOf(r, s)
<1>1. PICK g : g = [t \in SUBSET s |-> h[t]]
  OBVIOUS
<1>2. ASSUME NEW t \in SUBSET s PROVE g[t] = Adds(r, g, t)
  <2>1. g[t] = Adds(r, h, t)
    BY <1>1 DEF Sums
  <2>2. CASE t = {}
    BY <2>1, <2>2, AddsIs
  <2>3. CASE t # {}
    <3>1. PICK x \in t : x = Pick(t)
      BY <2>3, AddsIs
    <3>2. g[t \ {x}] = h[t \ {x}]
      BY <1>1
    <3>3. QED BY <2>1, <2>3, <3>1, <3>2, AddsIs
  <2>4. QED BY <2>2, <2>3
<1>3. Sums(r, s, g)
  BY <1>1, <1>2 DEF Sums
<1>4. PICK k : k = CHOOSE e : Sums(r, s, e)
  OBVIOUS
<1>5. Sums(r, s, k)
  BY <1>3, <1>4
<1>6. IsFiniteSet(s)
  BY FS_Subset
<1>7. k = g
  BY <1>3, <1>5, <1>6, SumsOnce
<1>8. SumOf(r, s) = k[s]
  BY <1>4 DEF SumOf
<1>9. QED BY <1>1, <1>7, <1>8

LEMMA SumStep ==
  ASSUME NEW r, NEW S, IsFiniteSet(S)
  PROVE  /\ SumOf(r, {}) = 0
         /\ S # {} => Pick(S) \in S /\ SumOf(r, S) = r[Pick(S)].n + SumOf(r, S \ {Pick(S)})
<1>1. PICK h : Sums(r, S, h)
  BY SumsExist
<1>2. \A s \in SUBSET S : h[s] = Adds(r, h, s) /\ h[s] = SumOf(r, s)
  <2>1. \A s \in SUBSET S : h[s] = Adds(r, h, s)
    BY <1>1 DEF Sums
  <2>2. \A s \in SUBSET S : h[s] = SumOf(r, s)
    BY <1>1, SumOfPart
  <2>3. QED BY <2>1, <2>2
<1>3. {} \in SUBSET S /\ S \in SUBSET S
  OBVIOUS
<1>4. SumOf(r, {}) = 0
  BY <1>2, <1>3, AddsIs
<1>5. ASSUME S # {} PROVE Pick(S) \in S /\ SumOf(r, S) = r[Pick(S)].n + SumOf(r, S \ {Pick(S)})
  <2>1. PICK x \in S : x = Pick(S)
    BY <1>5, AddsIs
  <2>2. S \ {x} \in SUBSET S
    OBVIOUS
  <2>3. h[S] = r[x].n + h[S \ {x}]
    <3>1. h[S] = Adds(r, h, S)
      BY <1>2, <1>3
    <3>2. Adds(r, h, S) = r[x].n + h[S \ {x}]
      BY ZenonT(40), <1>5, <2>1, AddsIs
    <3>3. QED BY <3>1, <3>2
  <2>4. QED BY <1>2, <1>3, <2>1, <2>2, <2>3
<1>6. QED BY <1>4, <1>5

LEMMA SumType ==
  ASSUME NEW r, NEW S, IsFiniteSet(S), \A x \in S : r[x].n \in Int
  PROVE  SumOf(r, S) \in Int
<1> DEFINE B == {s \in SUBSET S : SumOf(r, s) \notin Int}
<1> SUFFICES ASSUME B # {} PROVE FALSE
  OBVIOUS
<1>1. B \subseteq SUBSET S
  OBVIOUS
<1>2. PICK m \in B : \A e \in SUBSET S : Cardinality(e) < Cardinality(m) => e \notin B
  <2> HIDE DEF B
  <2> QED BY <1>1, LeastSet
<1>3. m \in SUBSET S /\ SumOf(r, m) \notin Int /\ IsFiniteSet(m)
  BY FS_Subset
<1>4. m # {}
  <2>1. SumOf(r, {}) = 0
    BY SumStep
  <2>2. QED BY <1>3, <2>1
<1>5. PICK x \in m : x = Pick(m) /\ SumOf(r, m) = r[x].n + SumOf(r, m \ {x})
  BY <1>3, <1>4, SumStep
<1>6. SumOf(r, m \ {x}) \in Int
  BY <1>2, <1>3, Smaller
<1>7. QED BY <1>3, <1>5, <1>6

LEMMA SumSame ==
  ASSUME NEW r, NEW r2, NEW S, IsFiniteSet(S), \A x \in S : r[x].n = r2[x].n
  PROVE  SumOf(r, S) = SumOf(r2, S)
<1> DEFINE B == {s \in SUBSET S : SumOf(r, s) # SumOf(r2, s)}
<1> SUFFICES ASSUME B # {} PROVE FALSE
  OBVIOUS
<1>1. B \subseteq SUBSET S
  OBVIOUS
<1>2. PICK m \in B : \A e \in SUBSET S : Cardinality(e) < Cardinality(m) => e \notin B
  <2> HIDE DEF B
  <2> QED BY <1>1, LeastSet
<1>3. m \in SUBSET S /\ SumOf(r, m) # SumOf(r2, m) /\ IsFiniteSet(m)
  BY FS_Subset
<1>4. m # {}
  BY <1>3, SumStep
<1>5. PICK x \in m : x = Pick(m)
  BY <1>4, AddsIs
<1>6. SumOf(r, m) = r[x].n + SumOf(r, m \ {x}) /\ SumOf(r2, m) = r2[x].n + SumOf(r2, m \ {x})
  BY <1>3, <1>4, <1>5, SumStep
<1>7. SumOf(r, m \ {x}) = SumOf(r2, m \ {x})
  BY <1>2, <1>3, Smaller
<1>8. r[x].n = r2[x].n
  BY <1>3
<1>9. QED BY <1>3, <1>6, <1>7, <1>8

(* It does not matter which element comes first. *)
LEMMA SumWithout ==
  ASSUME NEW r, NEW S, IsFiniteSet(S), \A x \in S : r[x].n \in Int, NEW y \in S
  PROVE  SumOf(r, S) = r[y].n + SumOf(r, S \ {y})
<1> DEFINE B == {s \in SUBSET S : \E z \in s : SumOf(r, s) # r[z].n + SumOf(r, s \ {z})}
<1> SUFFICES ASSUME B # {} PROVE FALSE
  OBVIOUS
<1>1. B \subseteq SUBSET S
  OBVIOUS
<1>2. PICK m \in B : \A e \in SUBSET S : Cardinality(e) < Cardinality(m) => e \notin B
  <2> HIDE DEF B
  <2> QED BY <1>1, LeastSet
<1>3. m \in SUBSET S /\ IsFiniteSet(m)
  BY FS_Subset
<1>4. PICK z \in m : SumOf(r, m) # r[z].n + SumOf(r, m \ {z})
  OBVIOUS
<1>5. PICK x \in m : x = Pick(m) /\ SumOf(r, m) = r[x].n + SumOf(r, m \ {x})
  BY <1>3, SumStep
<1>6. x # z
  BY <1>4, <1>5
<1>7. m \ {x} \in SUBSET S /\ m \ {x} \notin B /\ m \ {z} \in SUBSET S /\ m \ {z} \notin B
  BY <1>2, <1>3, Smaller
<1>8. PICK u : u = m \ {x, z}
  OBVIOUS
<1>9. (m \ {x}) \ {z} = u /\ (m \ {z}) \ {x} = u /\ z \in m \ {x} /\ x \in m \ {z}
  BY <1>6, <1>8
<1>10. SumOf(r, m \ {x}) = r[z].n + SumOf(r, u) /\ SumOf(r, m \ {z}) = r[x].n + SumOf(r, u)
  BY <1>7, <1>9
<1>11. u \in SUBSET S /\ IsFiniteSet(u)
  BY <1>3, <1>8, FS_Subset
<1>12. SumOf(r, u) \in Int /\ r[x].n \in Int /\ r[z].n \in Int
  BY <1>3, <1>11, SumType
<1>13. QED BY <1>4, <1>5, <1>10, <1>12

-----------------------------------------------------------------------------
(* A row of refs and what it amounts to. *)

Recs == [key : Keys \cup {"none"}, n : Longs, on : BOOLEAN]
Rows == [Refs -> Recs]
InRow(R, k) == {s \in Refs : R[s].on /\ R[s].key = k}

Tallied(R, lv, sm) ==
  \A k \in Keys : Cardinality(InRow(R, k)) = lv[k] /\ SumOf(R, InRow(R, k)) % LongMod = sm[k]

LEMMA ModSum ==
  ASSUME NEW a \in Int, NEW b, b = a % LongMod, NEW c \in Int
  PROVE  (b + c) % LongMod = (a + c) % LongMod /\ b \in Longs
<1>1. b \in Longs /\ b % LongMod = a % LongMod
  BY ReduceOnce
<1>2. b \in Int
  BY <1>1, LongModIs
<1>3. QED BY <1>1, <1>2, SameSum

LEMMA RowFinite ==
  ASSUME NEW R \in Rows, NEW k
  PROVE  /\ InRow(R, k) \subseteq Refs /\ IsFiniteSet(InRow(R, k)) /\ Cardinality(InRow(R, k)) \in Nat
         /\ \A s \in InRow(R, k) : R[s].n \in Int
         /\ SumOf(R, InRow(R, k)) \in Int
<1>1. IsFiniteSet(Refs)
  BY CallsAssumption, FS_Interval DEF Refs
<1>2. InRow(R, k) \subseteq Refs
  BY DEF InRow
<1>3. IsFiniteSet(InRow(R, k)) /\ Cardinality(InRow(R, k)) \in Nat
  BY <1>1, <1>2, FS_Subset, FS_CardinalityType
<1>4. \A s \in InRow(R, k) : R[s].n \in Int
  <2> SUFFICES ASSUME NEW s \in InRow(R, k) PROVE R[s].n \in Int
    OBVIOUS
  <2>1. R[s] \in Recs
    BY <1>2 DEF Rows
  <2>2. R[s].n \in Longs
    BY <2>1 DEF Recs
  <2>3. QED BY <2>2, LongIsInt
<1>5. QED BY <1>2, <1>3, <1>4, SumType

(* One ref changes: a key that it neither had nor gets does not notice. *)
Differ(R, R2, s) == \A x \in Refs : x # s => R2[x] = R[x]

LEMMA OtherKeys ==
  ASSUME NEW R \in Rows, NEW R2 \in Rows, NEW s \in Refs, Differ(R, R2, s), NEW k,
         s \notin InRow(R, k), s \notin InRow(R2, k)
  PROVE  InRow(R2, k) = InRow(R, k) /\ SumOf(R2, InRow(R2, k)) = SumOf(R, InRow(R, k))
<1>1. InRow(R2, k) = InRow(R, k)
  BY DEF InRow, Differ
<1>2. \A x \in InRow(R, k) : R[x].n = R2[x].n
  BY RowFinite DEF Differ
<1>3. IsFiniteSet(InRow(R, k))
  BY RowFinite
<1>4. QED BY <1>1, <1>2, <1>3, SumSame

LEMMA TallyPut ==
  ASSUME NEW R \in Rows, NEW R2 \in Rows, NEW s \in Refs, Differ(R, R2, s), ~ R[s].on,
         NEW k \in Keys, NEW n \in Longs, R2[s] = [key |-> k, n |-> n, on |-> TRUE],
         NEW lv \in [Keys -> Nat], NEW sm \in [Keys -> Longs], Tallied(R, lv, sm)
  PROVE  Tallied(R2, [lv EXCEPT ![k] = @ + 1], [sm EXCEPT ![k] = (@ + n) % LongMod])
<1>1. PICK S : S = InRow(R, k)
  OBVIOUS
<1>2. IsFiniteSet(S) /\ Cardinality(S) \in Nat /\ SumOf(R, S) \in Int /\ S \subseteq Refs
  BY <1>1, RowFinite
<1>3. s \notin S /\ InRow(R2, k) = S \cup {s}
  BY <1>1 DEF InRow, Differ
<1>4. Cardinality(S \cup {s}) = Cardinality(S) + 1 /\ IsFiniteSet(S \cup {s})
  BY <1>2, <1>3, FS_AddElement
<1>5. \A x \in S \cup {s} : R2[x].n \in Int
  BY <1>3, RowFinite
<1>6. SumOf(R2, S \cup {s}) = R2[s].n + SumOf(R2, (S \cup {s}) \ {s})
  BY <1>4, <1>5, SumWithout
<1>7. (S \cup {s}) \ {s} = S /\ R2[s].n = n /\ n \in Int
  BY <1>3, LongModIs
<1>8. SumOf(R2, S) = SumOf(R, S)
  <2>1. \A x \in S : R2[x].n = R[x].n
    BY <1>2, <1>3 DEF Differ
  <2>2. QED BY <1>2, <2>1, SumSame
<1>9. SumOf(R2, S \cup {s}) = SumOf(R, S) + n
  <2>1. SumOf(R2, S \cup {s}) = n + SumOf(R, S)
    BY <1>6, <1>7, <1>8
  <2>2. PICK e \in Int : e = SumOf(R, S)
    BY <1>2
  <2>3. QED BY <1>7, <2>1, <2>2
<1>10. lv[k] = Cardinality(S) /\ sm[k] = SumOf(R, S) % LongMod
  BY <1>1 DEF Tallied
<1>11. (sm[k] + n) % LongMod = (SumOf(R, S) + n) % LongMod
  BY <1>2, <1>7, <1>10, ModSum
<1>12. ASSUME NEW o \in Keys, o # k
       PROVE  Cardinality(InRow(R2, o)) = lv[o] /\ SumOf(R2, InRow(R2, o)) % LongMod = sm[o]
  <2>1. s \notin InRow(R, o) /\ s \notin InRow(R2, o)
    BY <1>12 DEF InRow
  <2>2. QED BY <2>1, OtherKeys DEF Tallied
<1>13. PICK lv2 : lv2 = [lv EXCEPT ![k] = @ + 1]
  OBVIOUS
<1>14. PICK sm2 : sm2 = [sm EXCEPT ![k] = (@ + n) % LongMod]
  OBVIOUS
<1>15. /\ lv2[k] = lv[k] + 1 /\ sm2[k] = (sm[k] + n) % LongMod
       /\ \A o \in Keys : o # k => lv2[o] = lv[o] /\ sm2[o] = sm[o]
  BY <1>13, <1>14
<1>16. Cardinality(InRow(R2, k)) = lv2[k] /\ SumOf(R2, InRow(R2, k)) % LongMod = sm2[k]
  BY <1>3, <1>4, <1>9, <1>10, <1>11, <1>15
<1>17. Tallied(R2, lv2, sm2)
  BY <1>12, <1>15, <1>16 DEF Tallied
<1>18. QED BY <1>13, <1>14, <1>17

LEMMA TallyDel ==
  ASSUME NEW R \in Rows, NEW R2 \in Rows, NEW s \in Refs, Differ(R, R2, s),
         NEW k \in Keys, R[s].on, R[s].key = k, ~ R2[s].on,
         NEW lv \in [Keys -> Nat], NEW sm \in [Keys -> Longs], Tallied(R, lv, sm)
  PROVE  /\ Tallied(R2, [lv EXCEPT ![k] = @ - 1], [sm EXCEPT ![k] = (@ - R[s].n) % LongMod])
         /\ lv[k] - 1 \in Nat
<1>1. PICK S : S = InRow(R, k)
  OBVIOUS
<1>2. /\ IsFiniteSet(S) /\ Cardinality(S) \in Nat /\ SumOf(R, S) \in Int /\ S \subseteq Refs
      /\ \A x \in S : R[x].n \in Int
  BY <1>1, RowFinite
<1>3. s \in S /\ InRow(R2, k) = S \ {s}
  BY <1>1 DEF InRow, Differ
<1>4. Cardinality(S \ {s}) = Cardinality(S) - 1 /\ IsFiniteSet(S \ {s}) /\ Cardinality(S \ {s}) \in Nat
  BY <1>2, <1>3, FS_RemoveElement, FS_CardinalityType
<1>5. SumOf(R, S) = R[s].n + SumOf(R, S \ {s})
  BY <1>2, <1>3, SumWithout
<1>6. SumOf(R2, S \ {s}) = SumOf(R, S \ {s})
  <2>1. \A x \in S \ {s} : R2[x].n = R[x].n
    BY <1>2, <1>3 DEF Differ
  <2>2. QED BY <1>4, <2>1, SumSame
<1>7. SumOf(R, S \ {s}) \in Int
  BY <1>2, <1>4, SumType
<1>8. PICK d \in Int : d = 0 - R[s].n
  BY <1>2, <1>3
<1>9. SumOf(R2, S \ {s}) = SumOf(R, S) + d
  BY <1>2, <1>3, <1>5, <1>6, <1>7, <1>8
<1>10. lv[k] = Cardinality(S) /\ sm[k] = SumOf(R, S) % LongMod
  BY <1>1 DEF Tallied
<1>11. (sm[k] + d) % LongMod = (SumOf(R, S) + d) % LongMod /\ sm[k] \in Longs
  BY <1>2, <1>10, ModSum
<1>12. sm[k] - R[s].n = sm[k] + d
  <2>1. PICK e \in Int : e = sm[k]
    BY <1>11, LongIsInt
  <2>2. PICK g \in Int : g = R[s].n
    BY <1>2, <1>3
  <2>3. QED BY <1>8, <2>1, <2>2
<1>13. ASSUME NEW o \in Keys, o # k
       PROVE  Cardinality(InRow(R2, o)) = lv[o] /\ SumOf(R2, InRow(R2, o)) % LongMod = sm[o]
  <2>1. s \notin InRow(R, o) /\ s \notin InRow(R2, o)
    BY <1>13 DEF InRow
  <2>2. QED BY <2>1, OtherKeys DEF Tallied
<1>14. PICK lv2 : lv2 = [lv EXCEPT ![k] = @ - 1]
  OBVIOUS
<1>15. PICK sm2 : sm2 = [sm EXCEPT ![k] = (@ - R[s].n) % LongMod]
  OBVIOUS
<1>16. /\ lv2[k] = lv[k] - 1 /\ sm2[k] = (sm[k] - R[s].n) % LongMod
       /\ \A o \in Keys : o # k => lv2[o] = lv[o] /\ sm2[o] = sm[o]
  BY <1>14, <1>15
<1>17. Cardinality(InRow(R2, k)) = lv2[k] /\ SumOf(R2, InRow(R2, k)) % LongMod = sm2[k]
  BY <1>3, <1>4, <1>9, <1>10, <1>11, <1>12, <1>16
<1>18. Tallied(R2, lv2, sm2)
  BY <1>13, <1>16, <1>17 DEF Tallied
<1>19. QED BY <1>4, <1>10, <1>14, <1>15, <1>18

LEMMA TallyAdd ==
  ASSUME NEW R \in Rows, NEW R2 \in Rows, NEW s \in Refs, Differ(R, R2, s),
         NEW k \in Keys, R[s].on, R[s].key = k, NEW c \in Longs,
         R2[s].on, R2[s].key = k, R2[s].n = (R[s].n + c) % LongMod,
         NEW lv \in [Keys -> Nat], NEW sm \in [Keys -> Longs], Tallied(R, lv, sm)
  PROVE  Tallied(R2, lv, [sm EXCEPT ![k] = (@ + c) % LongMod])
<1>1. PICK S : S = InRow(R, k)
  OBVIOUS
<1>2. /\ IsFiniteSet(S) /\ Cardinality(S) \in Nat /\ SumOf(R, S) \in Int /\ S \subseteq Refs
      /\ \A x \in S : R[x].n \in Int
  BY <1>1, RowFinite
<1>3. s \in S /\ InRow(R2, k) = S
  BY <1>1 DEF InRow, Differ
<1>4. IsFiniteSet(S \ {s}) /\ \A x \in S : R2[x].n \in Int
  BY <1>2, <1>3, FS_RemoveElement, RowFinite
<1>5. /\ SumOf(R, S) = R[s].n + SumOf(R, S \ {s})
      /\ SumOf(R2, S) = R2[s].n + SumOf(R2, S \ {s})
  BY <1>2, <1>3, <1>4, SumWithout
<1>6. SumOf(R2, S \ {s}) = SumOf(R, S \ {s})
  <2>1. \A x \in S \ {s} : R2[x].n = R[x].n
    BY <1>2, <1>3 DEF Differ
  <2>2. QED BY <1>4, <2>1, SumSame
<1>7. PICK rest \in Int : rest = SumOf(R, S \ {s})
  BY <1>2, <1>4, SumType
<1>8. R[s].n + c \in Int /\ c \in Int /\ R[s].n \in Int
  BY <1>2, <1>3, LongModIs
<1>9. (R2[s].n + rest) % LongMod = ((R[s].n + c) + rest) % LongMod
  <2>1. PICK e \in Int : e = R[s].n + c
    BY <1>8
  <2>2. PICK g : g = R2[s].n
    OBVIOUS
  <2>3. g = e % LongMod
    BY <2>1, <2>2
  <2>4. (g + rest) % LongMod = (e + rest) % LongMod
    BY <2>3, ModSum
  <2>5. QED BY <2>1, <2>2, <2>4
<1>10. (R[s].n + c) + rest = SumOf(R, S) + c
  BY <1>5, <1>7, <1>8
<1>11. SumOf(R2, S) % LongMod = (SumOf(R, S) + c) % LongMod
  BY <1>5, <1>6, <1>7, <1>9, <1>10
<1>12. lv[k] = Cardinality(S) /\ sm[k] = SumOf(R, S) % LongMod
  BY <1>1 DEF Tallied
<1>13. (sm[k] + c) % LongMod = (SumOf(R, S) + c) % LongMod
  BY <1>2, <1>8, <1>12, ModSum
<1>14. ASSUME NEW o \in Keys, o # k
       PROVE  Cardinality(InRow(R2, o)) = lv[o] /\ SumOf(R2, InRow(R2, o)) % LongMod = sm[o]
  <2>1. s \notin InRow(R, o) /\ s \notin InRow(R2, o)
    BY <1>14 DEF InRow
  <2>2. QED BY <2>1, OtherKeys DEF Tallied
<1>15. PICK sm2 : sm2 = [sm EXCEPT ![k] = (@ + c) % LongMod]
  OBVIOUS
<1>16. sm2[k] = (sm[k] + c) % LongMod /\ \A o \in Keys : o # k => sm2[o] = sm[o]
  BY <1>15
<1>17. Cardinality(InRow(R2, k)) = lv[k] /\ SumOf(R2, InRow(R2, k)) % LongMod = sm2[k]
  BY <1>3, <1>11, <1>12, <1>13, <1>16
<1>18. Tallied(R2, lv, sm2)
  BY <1>14, <1>16, <1>17 DEF Tallied
<1>19. QED BY <1>15, <1>18

-----------------------------------------------------------------------------
(* The inductive invariant. *)

Inside == {"map", "look", "act", "unlock", "unlink", "create", "remap", "move"}
Shrinking == {"create", "remap", "move"}
ReaderOps == {"get", "atom", "add"}
Files == [row : Rows, free : Nat, reload : BOOLEAN]

(* If somebody makes get calls, nobody else makes calls under the reader   *)
(* lock: a get may run shf_tab_shrink, which unlinks and moves under that  *)
(* lock.  Any number of processes may put, delete, add and count.          *)
GetsAlone ==
  \A p, q \in Procs : p # q /\ (\E c \in Calls(p) : c.op = "get")
                        => \A c \in Calls(q) : c.op \notin ReaderOps

Types ==
  /\ readers \subseteq Procs /\ name \in Inodes \cup {0}
  /\ file \in [Inodes -> Files]
  /\ map \in [Procs -> Inodes \cup {0}] /\ old \in [Procs -> Inodes \cup {0}]
  /\ slot \in [Procs -> Refs \cup {0}] /\ val \in [Procs -> Longs]
  /\ pc \in [Procs -> {"idle", "map", "look", "act", "unlock", "unlink", "create", "remap",
                       "move", "refput", "refdel", "dead"}]
  /\ call \in [Procs -> {Idle} \cup UNION {Calls(p) : p \in Procs}]
  /\ live \in [Keys -> Nat] /\ sum \in [Keys -> Longs]

(* Where a process can be, and with which call. *)
Where ==
  \A p \in Procs :
    /\ pc[p] # "dead"
    /\ p \in readers <=> pc[p] \in Inside
    /\ pc[p] \in Inside => call[p] \in Calls(p) /\ call[p].op \in ReaderOps
    /\ pc[p] \in Shrinking \cup {"unlink"} => call[p].op = "get"
    /\ pc[p] \in {"refput", "refdel"} => call[p] \in Calls(p)
    /\ old[p] # 0 <=> pc[p] \in Shrinking

(* A mapping that is not of the current file can be told from it. *)
Maps ==
  /\ name = 0 <=> \E p \in Procs : pc[p] = "create"
  /\ name # 0 => ~ file[name].reload
  /\ \A p \in Procs :
       /\ old[p] # 0 => old[p] # name
       /\ map[p] # 0 => map[p] = name \/ file[map[p]].reload \/ \E q \in Procs : old[q] = map[p]
       /\ pc[p] \in {"look", "act", "unlink", "move"} => map[p] = name
       /\ pc[p] \in {"create", "remap"} => map[p] = 0

Found ==
  \A p \in Procs :
    /\ pc[p] \in {"act", "unlock", "unlink"} \cup Shrinking => (slot[p] = 0 <=> live[call[p].key] = 0)
    /\ pc[p] = "act" => slot[p] \in Matches(file[map[p]], call[p].key)

(* The records are those of a row R, each of them in one of the files C.   *)
Rep(F, C, R) ==
  /\ R \in Rows
  /\ \A i \in C, s \in Refs : F[i].row[s].on => R[s] = F[i].row[s]
  /\ \A s \in Refs : R[s].on => \E i \in C : F[i].row[s].on
  /\ \A i, j \in C, s \in Refs : F[i].row[s].on /\ F[j].row[s].on => i = j

Cur == ({name} \cup {old[p] : p \in Procs}) \ {0}
Held == \E R : Rep(file, Cur, R) /\ Tallied(R, live, sum)

CallsInv == Types /\ Where /\ Maps /\ Found /\ Held

(* Steps that keep all records, and writes that keep those of other keys.  *)
Stays == \E R : Rep(file, Cur, R) /\ Rep(file', Cur', R)

SameBut(R, R2, k) ==
  \A o : o # k => InRow(R2, o) = InRow(R, o) /\ \A x \in InRow(R, o) : R2[x] = R[x]

Writes(k) ==
  \E R, R2 : Rep(file, {name}, R) /\ Rep(file', {name'}, R2) /\ SameBut(R, R2, k)

(* What an atomic add does to the record it has found. *)
Adding(p) ==
  \E R, R2, s : /\ Rep(file, {name}, R) /\ Rep(file', {name}, R2) /\ Differ(R, R2, s)
                /\ s = slot[p] /\ s \in InRow(R, call[p].key) /\ s \in InRow(R2, call[p].key)
                /\ R2[s].n = val'[p]

LEMMA CallIs ==
  ASSUME NEW p \in Procs, NEW c \in Calls(p)
  PROVE  /\ c.key \in Keys /\ c.n \in Longs /\ c.op \in {"get", "atom", "add", "put", "del"}
         /\ c \in UNION {Calls(q) : q \in Procs}
BY CallsAssumption DEF Longs

LEMMA InodesAre == 0 \notin Inodes /\ Inodes \subseteq Nat /\ 1 \in Inodes
<1>1. Cardinality(Procs) \in Nat
  BY CallsAssumption, FS_CardinalityType
<1>2. QED BY <1>1 DEF Inodes

LEMMA RefsAre == 0 \notin Refs /\ Refs \subseteq Nat
BY CallsAssumption DEF Refs

(* Whoever is about to shrink or shrinking is alone in the window. *)
LEMMA Alone ==
  ASSUME GetsAlone, Types, Where, NEW p \in Procs, pc[p] \in Shrinking \cup {"unlink"}
  PROVE  \A q \in Procs : q # p => pc[q] \notin Inside /\ old[q] = 0
<1> SUFFICES ASSUME NEW q \in Procs, q # p PROVE pc[q] \notin Inside /\ old[q] = 0
  OBVIOUS
<1>1. pc[p] \in Inside /\ call[p] \in Calls(p) /\ call[p].op = "get"
  BY DEF Where, Inside, Shrinking
<1>2. \A c \in Calls(q) : c.op \notin ReaderOps
  BY <1>1 DEF GetsAlone
<1>3. pc[q] \notin Inside
  BY <1>2 DEF Where
<1>4. QED BY <1>3 DEF Where, Inside, Shrinking

(* Nobody shrinks. *)
Quiet == \A q \in Procs : pc[q] \notin Shrinking

LEMMA QuietInside ==
  ASSUME GetsAlone, Types, Where, NEW p \in Procs, pc[p] \in Inside, pc[p] \notin Shrinking
  PROVE  Quiet
<1> SUFFICES ASSUME NEW q \in Procs, pc[q] \in Shrinking PROVE FALSE
  BY DEF Quiet
<1>1. q # p
  OBVIOUS
<1>2. QED BY <1>1, Alone

LEMMA QuietOut ==
  ASSUME Types, Where, readers = {}
  PROVE  Quiet /\ \A q \in Procs : pc[q] \notin Inside
BY DEF Where, Quiet, Inside, Shrinking

LEMMA QuietTab ==
  ASSUME Types, Where, Maps, Quiet
  PROVE  /\ name \in Inodes /\ Cur = {name} /\ \A q \in Procs : old[q] = 0
         /\ \A p \in Procs : GetTab(p) = name
<1>1. \A q \in Procs : old[q] = 0
  BY DEF Quiet, Where
<1>2. name # 0
  BY DEF Quiet, Maps, Shrinking
<1>3. name \in Inodes
  BY <1>2 DEF Types
<1>4. Cur = {name}
  BY <1>1, <1>2 DEF Cur
<1>5. ASSUME NEW p \in Procs PROVE GetTab(p) = name
  <2>1. CASE map[p] = 0
    BY <2>1 DEF GetTab
  <2>2. CASE map[p] # 0
    <3>1. map[p] = name \/ file[map[p]].reload
      BY <1>1, <2>2 DEF Maps
    <3>2. QED BY <3>1 DEF GetTab
  <2>3. QED BY <2>1, <2>2
<1>6. QED BY <1>1, <1>3, <1>4, <1>5

(* The current file shows all the records. *)
LEMMA QuietRow ==
  ASSUME Types, NEW i \in Inodes, NEW R, Rep(file, {i}, R), NEW k
  PROVE  /\ Matches(file[i], k) = InRow(R, k)
         /\ \A s \in Refs : file[i].row[s].on => R[s] = file[i].row[s]
         /\ \A s \in Refs : R[s].on <=> file[i].row[s].on
<1>1. \A s \in Refs : file[i].row[s].on => R[s] = file[i].row[s]
  BY DEF Rep
<1>2. \A s \in Refs : R[s].on => file[i].row[s].on
  BY DEF Rep
<1>3. QED BY <1>1, <1>2 DEF Matches, On, InRow

(* A search finds a record if there is one. *)
LEMMA FirstIs ==
  ASSUME NEW f, NEW k
  PROVE  /\ FirstMatch(f, k) = 0 <=> Matches(f, k) = {}
         /\ FirstMatch(f, k) # 0 => FirstMatch(f, k) \in Matches(f, k)
         /\ Matches(f, k) \subseteq Refs /\ FirstMatch(f, k) \in Refs \cup {0}
<1>1. Matches(f, k) \subseteq Refs /\ Matches(f, k) \subseteq Nat /\ 0 \notin Matches(f, k)
  BY RefsAre DEF Matches, On
<1>2. Matches(f, k) # {} => Min(Matches(f, k)) \in Matches(f, k)
  BY <1>1, MinIn
<1>3. QED BY <1>1, <1>2 DEF FirstMatch

LEMMA NoneLive ==
  ASSUME Types, NEW i \in Inodes, NEW R, Rep(file, {i}, R), Tallied(R, live, sum), NEW k \in Keys
  PROVE  live[k] = 0 <=> Matches(file[i], k) = {}
<1>1. Matches(file[i], k) = InRow(R, k) /\ R \in Rows
  BY QuietRow DEF Rep
<1>2. IsFiniteSet(InRow(R, k)) /\ live[k] = Cardinality(InRow(R, k))
  BY <1>1, RowFinite DEF Tallied
<1>3. QED BY <1>1, <1>2, FS_EmptySet

-----------------------------------------------------------------------------
(* The steps that leave the files. *)

LEMMA HeldKept ==
  ASSUME Held, UNCHANGED <<file, live, sum>>, Cur' = Cur
  PROVE  Held'
BY DEF Held

LEMMA CurKept ==
  ASSUME UNCHANGED <<name, old>>
  PROVE  Cur' = Cur
BY DEF Cur

LEMMA LockReaderInv ==
  ASSUME CallsInv, NEW p \in Procs, NEW c \in Calls(p), LockReader(p, c)
  PROVE  CallsInv'
<1>1. /\ pc[p] = "idle" /\ c.op \in ReaderOps /\ readers' = readers \cup {p}
      /\ pc' = [pc EXCEPT ![p] = "map"] /\ call' = [call EXCEPT ![p] = c]
      /\ UNCHANGED <<name, file, map, slot, old, val, live, sum>>
  BY DEF LockReader, ReaderOps
<1>2. Types'
  BY <1>1, CallIs DEF CallsInv, Types
<1>3. /\ pc'[p] = "map" /\ call'[p] = c
      /\ \A q \in Procs : q # p => pc'[q] = pc[q] /\ call'[q] = call[q] /\ (q \in readers' <=> q \in readers)
  BY <1>1 DEF CallsInv, Types
<1>4. Where'
  BY <1>1, <1>3 DEF CallsInv, Where, Inside, Shrinking
<1>5. Maps'
  BY <1>1, <1>3 DEF CallsInv, Maps
<1>6. Found'
  BY <1>1, <1>3 DEF CallsInv, Found, Shrinking
<1>7. Held'
  BY <1>1, CurKept, HeldKept DEF CallsInv
<1>8. QED BY <1>2, <1>4, <1>5, <1>6, <1>7 DEF CallsInv

LEMMA MapInv ==
  ASSUME CallsInv, GetsAlone, NEW p \in Procs, Map(p)
  PROVE  CallsInv'
<1>0. pc[p] = "map" /\ Quiet
  <2>1. pc[p] = "map" /\ pc[p] \in Inside /\ pc[p] \notin Shrinking
    BY DEF Map, Inside, Shrinking
  <2>2. QED BY <2>1, QuietInside DEF CallsInv
<1>1. GetTab(p) = name /\ name \in Inodes /\ name # 0
  BY <1>0, QuietTab, InodesAre DEF CallsInv
<1>2. /\ map' = [map EXCEPT ![p] = name] /\ pc' = [pc EXCEPT ![p] = "look"]
      /\ UNCHANGED <<readers, name, file, call, slot, old, val, live, sum>>
  BY <1>1 DEF Map, GoOrDie
<1>3. Types'
  BY <1>1, <1>2 DEF CallsInv, Types
<1>4. /\ pc'[p] = "look" /\ map'[p] = name
      /\ \A q \in Procs : q # p => pc'[q] = pc[q] /\ map'[q] = map[q]
  BY <1>2 DEF CallsInv, Types
<1>5. Where'
  BY <1>0, <1>2, <1>4 DEF CallsInv, Where, Inside, Shrinking
<1>6. Maps'
  BY <1>0, <1>1, <1>2, <1>4 DEF CallsInv, Maps
<1>7. Found'
  BY <1>2, <1>4 DEF CallsInv, Found, Shrinking
<1>8. Held'
  BY <1>2, CurKept, HeldKept DEF CallsInv
<1>9. QED BY <1>3, <1>5, <1>6, <1>7, <1>8 DEF CallsInv

LEMMA LookInv ==
  ASSUME CallsInv, GetsAlone, NEW p \in Procs, Look(p)
  PROVE  CallsInv'
<1>0. pc[p] = "look" /\ Quiet /\ call[p] \in Calls(p)
  <2>1. pc[p] = "look" /\ pc[p] \in Inside /\ pc[p] \notin Shrinking
    BY DEF Look, Inside, Shrinking
  <2>2. QED BY <2>1, QuietInside DEF CallsInv, Where
<1>1. name \in Inodes /\ map[p] = name /\ Cur = {name}
  BY <1>0, QuietTab DEF CallsInv, Maps
<1>2. PICK k \in Keys : k = call[p].key
  BY <1>0, CallIs
<1>3. PICK s : s = FirstMatch(file[name], k)
  OBVIOUS
<1>4. /\ slot' = [slot EXCEPT ![p] = s] /\ pc' = [pc EXCEPT ![p] = IF s = 0 THEN "unlock" ELSE "act"]
      /\ UNCHANGED <<readers, name, file, map, call, old, val, live, sum>>
  BY <1>1, <1>2, <1>3 DEF Look
<1>5. /\ s = 0 <=> live[k] = 0
      /\ s # 0 => s \in Matches(file[name], k)
      /\ s \in Refs \cup {0}
  <2>1. PICK R : Rep(file, {name}, R) /\ Tallied(R, live, sum)
    BY <1>1 DEF CallsInv, Held
  <2>2. live[k] = 0 <=> Matches(file[name], k) = {}
    BY <1>1, <2>1, NoneLive DEF CallsInv
  <2>3. QED BY <1>3, <2>2, FirstIs
<1>6. Types'
  BY <1>4, <1>5 DEF CallsInv, Types
<1>7. /\ pc'[p] = (IF s = 0 THEN "unlock" ELSE "act") /\ slot'[p] = s
      /\ \A q \in Procs : q # p => pc'[q] = pc[q] /\ slot'[q] = slot[q]
  BY <1>4 DEF CallsInv, Types
<1>8. Where'
  BY <1>0, <1>4, <1>7 DEF CallsInv, Where, Inside, Shrinking
<1>9. Maps'
  BY <1>0, <1>1, <1>4, <1>7 DEF CallsInv, Maps
<1>10. Found'
  BY <1>1, <1>2, <1>4, <1>5, <1>7 DEF CallsInv, Found
<1>11. Held'
  BY <1>4, CurKept, HeldKept DEF CallsInv
<1>12. QED BY <1>6, <1>8, <1>9, <1>10, <1>11 DEF CallsInv

LEMMA CopyValInv ==
  ASSUME CallsInv, GetsAlone, NEW p \in Procs, CopyVal(p)
  PROVE  CallsInv'
<1>1. PICK l \in {"unlink", "unlock"} : pc' = [pc EXCEPT ![p] = l]
  BY DEF CopyVal
<1>2. PICK n : n = file[map[p]].row[slot[p]].n
  OBVIOUS
<1>3. /\ pc[p] = "act" /\ call[p].op = "get" /\ val' = [val EXCEPT ![p] = n]
      /\ UNCHANGED <<readers, name, file, map, call, slot, old, live, sum>>
  BY <1>2 DEF CopyVal
<1>4. map[p] = name /\ name \in Inodes
  <2>1. pc[p] \in Inside /\ pc[p] \notin Shrinking
    BY <1>3 DEF Inside, Shrinking
  <2>2. Quiet
    BY <2>1, QuietInside DEF CallsInv
  <2>3. QED BY <1>3, <2>2, QuietTab DEF CallsInv, Maps
<1>5. n \in Longs
  <2>1. slot[p] \in Refs
    BY <1>3, FirstIs DEF CallsInv, Found
  <2>2. file[map[p]] \in Files
    BY <1>4 DEF CallsInv, Types
  <2>3. QED BY <1>2, <2>1, <2>2 DEF Files, Rows, Recs
<1>6. Types'
  BY <1>1, <1>3, <1>5 DEF CallsInv, Types
<1>7. /\ pc'[p] = l /\ \A q \in Procs : q # p => pc'[q] = pc[q]
  BY <1>1 DEF CallsInv, Types
<1>8. Where'
  BY <1>3, <1>7 DEF CallsInv, Where, Inside, Shrinking
<1>9. Maps'
  BY <1>3, <1>7 DEF CallsInv, Maps
<1>10. Found'
  BY <1>3, <1>7 DEF CallsInv, Found, Shrinking
<1>11. Held'
  BY <1>3, CurKept, HeldKept DEF CallsInv
<1>12. QED BY <1>6, <1>8, <1>9, <1>10, <1>11 DEF CallsInv

LEMMA UnlockReaderInv ==
  ASSUME CallsInv, NEW p \in Procs, UnlockReader(p)
  PROVE  CallsInv'
<1>1. PICK l : l = CASE call[p].op = "add" /\ slot[p] = 0 -> "refput"
                     [] call[p].op = "add" /\ slot[p] # 0 /\ val[p] = 0 -> "refdel"
                     [] OTHER -> "idle"
  OBVIOUS
<1>2. l \in {"refput", "refdel", "idle"}
  BY <1>1
<1>3. /\ pc[p] = "unlock" /\ readers' = readers \ {p} /\ pc' = [pc EXCEPT ![p] = l]
      /\ call' = [call EXCEPT ![p] = IF l = "idle" THEN Idle ELSE call[p]]
      /\ slot' = [slot EXCEPT ![p] = 0] /\ val' = [val EXCEPT ![p] = 0]
      /\ UNCHANGED <<name, file, map, old, live, sum>>
  BY <1>1 DEF UnlockReader
<1>4. Types'
  BY <1>2, <1>3, LongModIs DEF CallsInv, Types
<1>5. /\ pc'[p] = l /\ (l # "idle" => call'[p] = call[p])
      /\ \A q \in Procs : q # p => pc'[q] = pc[q] /\ call'[q] = call[q] /\ slot'[q] = slot[q]
                                   /\ (q \in readers' <=> q \in readers)
  BY <1>3 DEF CallsInv, Types
<1>6. Where'
  BY <1>2, <1>3, <1>5 DEF CallsInv, Where, Inside, Shrinking
<1>7. Maps'
  BY <1>2, <1>3, <1>5 DEF CallsInv, Maps
<1>8. Found'
  BY <1>2, <1>3, <1>5 DEF CallsInv, Found, Shrinking
<1>9. Held'
  BY <1>3, CurKept, HeldKept DEF CallsInv
<1>10. QED BY <1>4, <1>6, <1>7, <1>8, <1>9 DEF CallsInv

LEMMA UnlinkInv ==
  ASSUME CallsInv, GetsAlone, NEW p \in Procs, Unlink(p)
  PROVE  CallsInv' /\ Stays
<1>0. pc[p] = "unlink" /\ Quiet /\ \A q \in Procs : q # p => pc[q] \notin Inside /\ old[q] = 0
  <2>1. pc[p] = "unlink" /\ pc[p] \in Inside /\ pc[p] \notin Shrinking
    BY DEF Unlink, Inside, Shrinking
  <2>2. QED BY <2>1, QuietInside, Alone DEF CallsInv
<1>1. /\ name \in Inodes /\ name # 0 /\ Cur = {name} /\ GetTab(p) = name
      /\ \A q \in Procs : old[q] = 0
  BY <1>0, QuietTab, InodesAre DEF CallsInv
<1>2. /\ pc' = [pc EXCEPT ![p] = "create"] /\ old' = [old EXCEPT ![p] = name]
      /\ map' = [map EXCEPT ![p] = 0] /\ name' = 0
      /\ UNCHANGED <<readers, file, call, slot, val, live, sum>>
  BY <1>1 DEF Unlink, GoOrDie
<1>3. Types'
  BY <1>1, <1>2 DEF CallsInv, Types
<1>4. /\ pc'[p] = "create" /\ old'[p] = name /\ map'[p] = 0
      /\ \A q \in Procs : q # p => pc'[q] = pc[q] /\ old'[q] = 0 /\ map'[q] = map[q]
  BY <1>0, <1>2 DEF CallsInv, Types
<1>5. Where'
  <2> SUFFICES ASSUME NEW q \in Procs
               PROVE  /\ pc'[q] # "dead"
                      /\ q \in readers' <=> pc'[q] \in Inside
                      /\ pc'[q] \in Inside => call'[q] \in Calls(q) /\ call'[q].op \in ReaderOps
                      /\ pc'[q] \in Shrinking \cup {"unlink"} => call'[q].op = "get"
                      /\ pc'[q] \in {"refput", "refdel"} => call'[q] \in Calls(q)
                      /\ old'[q] # 0 <=> pc'[q] \in Shrinking
    BY DEF Where
  <2>1. CASE q = p
    BY <1>0, <1>1, <1>2, <1>4, <2>1 DEF CallsInv, Where, Inside, Shrinking
  <2>2. CASE q # p
    BY <1>0, <1>2, <1>4, <2>2 DEF CallsInv, Where, Inside, Shrinking
  <2>3. QED BY <2>1, <2>2
<1>6. Maps'
  <2>1. \A q \in Procs : q # p => pc'[q] \notin Inside
    BY <1>0, <1>4
  <2>2. \A q \in Procs : map'[q] # 0 => map[q] # 0 /\ (map[q] = name \/ file[map[q]].reload) /\ map'[q] = map[q]
    BY <1>1, <1>4 DEF CallsInv, Maps
  <2>3. QED BY <1>1, <1>2, <1>4, <2>1, <2>2 DEF Maps, Inside
<1>7. Found'
  <2>1. \A q \in Procs : q # p => pc'[q] \notin Inside
    BY <1>0, <1>4
  <2>2. QED BY <1>0, <1>2, <1>4, <2>1 DEF CallsInv, Found, Inside, Shrinking
<1>8. Held' /\ Stays
  <2>1. Cur' = Cur
    BY <1>1, <1>2, <1>4 DEF Cur
  <2>2. Held'
    BY <1>2, <2>1, HeldKept DEF CallsInv
  <2>3. QED BY <1>2, <2>1, <2>2 DEF CallsInv, Held, Stays
<1>9. QED BY <1>3, <1>5, <1>6, <1>7, <1>8 DEF CallsInv

LEMMA RemapInv ==
  ASSUME CallsInv, GetsAlone, NEW p \in Procs, Remap(p)
  PROVE  CallsInv'
<1>0. pc[p] = "remap" /\ \A q \in Procs : q # p => pc[q] \notin Inside /\ old[q] = 0
  <2>1. pc[p] = "remap" /\ pc[p] \in Shrinking \cup {"unlink"}
    BY DEF Remap, Shrinking
  <2>2. QED BY <2>1, Alone DEF CallsInv
<1>1. map[p] = 0 /\ name # 0 /\ name \in Inodes /\ GetTab(p) = name
  <2>1. map[p] = 0
    BY <1>0 DEF CallsInv, Maps
  <2>2. name # 0
    BY <1>0 DEF CallsInv, Maps, Inside
  <2>3. QED BY <2>1, <2>2 DEF CallsInv, Types, GetTab
<1>2. /\ map' = [map EXCEPT ![p] = name] /\ pc' = [pc EXCEPT ![p] = "move"]
      /\ UNCHANGED <<readers, name, file, call, slot, old, val, live, sum>>
  BY <1>1 DEF Remap, GoOrDie
<1>3. Types'
  BY <1>1, <1>2 DEF CallsInv, Types
<1>4. /\ pc'[p] = "move" /\ map'[p] = name
      /\ \A q \in Procs : q # p => pc'[q] = pc[q] /\ map'[q] = map[q]
  BY <1>2 DEF CallsInv, Types
<1>5. Where'
  BY <1>0, <1>2, <1>4 DEF CallsInv, Where, Inside, Shrinking
<1>6. Maps'
  BY <1>0, <1>1, <1>2, <1>4 DEF CallsInv, Maps
<1>7. Found'
  BY <1>0, <1>2, <1>4 DEF CallsInv, Found, Shrinking
<1>8. Held'
  BY <1>2, CurKept, HeldKept DEF CallsInv
<1>9. QED BY <1>3, <1>5, <1>6, <1>7, <1>8 DEF CallsInv

-----------------------------------------------------------------------------
(* The steps that change a file. *)

LEMMA NewFileIs ==
  /\ NoRec \in Recs /\ ~ NoRec.on /\ NewFile \in Files /\ ~ NewFile.reload
  /\ \A s \in Refs : NewFile.row[s] = NoRec /\ ~ NewFile.row[s].on
<1>1. NoRec \in Recs /\ NoRec.on = FALSE
  BY LongModIs DEF NoRec, Recs
<1>2. NewFile \in Files /\ NewFile.reload = FALSE /\ \A s \in Refs : NewFile.row[s] = NoRec
  BY <1>1 DEF NewFile, Files, Rows
<1>3. QED BY <1>1, <1>2

(* A file with another record in one of its refs. *)
SetRec(f, s, rec) == [f EXCEPT !.row[s] = rec]

LEMMA WithRec ==
  ASSUME NEW f \in Files, NEW s \in Refs, NEW rec \in Recs, NEW f2, f2 = SetRec(f, s, rec)
  PROVE  /\ f2 \in Files /\ f2.row \in Rows /\ f2.row[s] = rec /\ f2.free = f.free /\ f2.reload = f.reload
         /\ \A x \in Refs : x # s => f2.row[x] = f.row[x]
<1>1. f.row \in Rows /\ f = [row |-> f.row, free |-> f.free, reload |-> f.reload]
      /\ f.free \in Nat /\ f.reload \in BOOLEAN
  BY DEF Files
<1>2. f2 = [row |-> [f.row EXCEPT ![s] = rec], free |-> f.free, reload |-> f.reload]
  BY <1>1 DEF SetRec
<1>3. [f.row EXCEPT ![s] = rec] \in Rows
  BY <1>1 DEF Rows
<1>4. QED BY <1>1, <1>2, <1>3 DEF Files, Rows

LEMMA AtomAddInv ==
  ASSUME CallsInv, GetsAlone, NEW p \in Procs, AtomAdd(p)
  PROVE  CallsInv' /\ Adding(p)
<1>0. pc[p] = "act" /\ Quiet /\ call[p] \in Calls(p)
  <2>1. pc[p] = "act" /\ pc[p] \in Inside /\ pc[p] \notin Shrinking
    BY DEF AtomAdd, Inside, Shrinking
  <2>2. QED BY <2>1, QuietInside DEF CallsInv, Where
<1>1. name \in Inodes /\ map[p] = name /\ Cur = {name} /\ file[name] \in Files
  BY <1>0, QuietTab DEF CallsInv, Maps, Types
<1>2. PICK k \in Keys : k = call[p].key
  BY <1>0, CallIs
<1>3. PICK c \in Longs : c = call[p].n
  BY <1>0, CallIs
<1>4. PICK s \in Refs : s = slot[p] /\ s \in Matches(file[name], k)
  BY <1>0, <1>1, <1>2, FirstIs DEF CallsInv, Found
<1>5. PICK old_rec \in Recs : old_rec = file[name].row[s]
  BY <1>1 DEF Files, Rows
<1>6. old_rec.on /\ old_rec.key = k /\ old_rec.n \in Longs
  BY <1>4, <1>5 DEF Matches, On, Recs
<1>7. PICK n \in Longs : n = (old_rec.n + c) % LongMod
  <2>1. old_rec.n + c \in Int
    BY <1>6, LongIsInt
  <2>2. QED BY <2>1, ReduceOnce
<1>8. PICK new_rec : new_rec = [key |-> k, n |-> n, on |-> TRUE]
  OBVIOUS
<1>9. PICK f2 : f2 = SetRec(file[name], s, new_rec)
  OBVIOUS
<1>10. /\ file' = [file EXCEPT ![name] = f2] /\ val' = [val EXCEPT ![p] = n]
       /\ sum' = [sum EXCEPT ![k] = (@ + c) % LongMod] /\ pc' = [pc EXCEPT ![p] = "unlock"]
       /\ UNCHANGED <<readers, name, map, call, slot, old, live>>
  <2>1. /\ file' = [file EXCEPT ![name].row[s].n = n] /\ val' = [val EXCEPT ![p] = n]
        /\ sum' = [sum EXCEPT ![k] = (@ + c) % LongMod] /\ pc' = [pc EXCEPT ![p] = "unlock"]
        /\ UNCHANGED <<readers, name, map, call, slot, old, live>>
    BY <1>1, <1>2, <1>3, <1>4, <1>5, <1>7 DEF AtomAdd
  <2>2. [old_rec EXCEPT !.n = n] = new_rec
    <3>1. old_rec.on \in BOOLEAN /\ old_rec = [key |-> old_rec.key, n |-> old_rec.n, on |-> old_rec.on]
      BY <1>5 DEF Recs
    <3>2. old_rec.on = TRUE
      BY <1>6, <3>1, Zenon
    <3>3. [old_rec EXCEPT !.n = n] = [key |-> old_rec.key, n |-> n, on |-> old_rec.on]
      BY <3>1
    <3>4. QED BY <1>6, <1>8, <3>2, <3>3
  <2>3. [file[name] EXCEPT !.row[s].n = n] = f2
    BY <1>5, <1>9, <2>2 DEF SetRec
  <2>4. QED BY <2>1, <2>3
<1>11. new_rec \in Recs
  BY <1>8 DEF Recs
<1>12. /\ f2 \in Files /\ f2.row[s] = new_rec /\ f2.reload = file[name].reload
       /\ \A x \in Refs : x # s => f2.row[x] = file[name].row[x]
  <2>1. PICK f \in Files : f = file[name]
    BY <1>1
  <2>2. f2 = SetRec(f, s, new_rec)
    BY <1>9, <2>1
  <2>3. /\ f2 \in Files /\ f2.row \in Rows /\ f2.row[s] = new_rec /\ f2.free = f.free /\ f2.reload = f.reload
        /\ \A x \in Refs : x # s => f2.row[x] = f.row[x]
    BY SMTT(40), <1>4, <1>11, <2>1, <2>2, WithRec
  <2>4. QED BY <2>1, <2>3
<1>13. /\ file' \in [Inodes -> Files] /\ file'[name] = f2 /\ \A i \in Inodes : i # name => file'[i] = file[i]
  BY <1>1, <1>10, <1>12 DEF CallsInv, Types
<1>14. (sum[k] + c) % LongMod \in Longs
  <2>1. sum[k] + c \in Int
    BY LongIsInt DEF CallsInv, Types
  <2>2. QED BY <2>1, ReduceOnce
<1>15. Types'
  BY <1>10, <1>13, <1>14 DEF CallsInv, Types
<1>16. pc'[p] = "unlock" /\ \A q \in Procs : q # p => pc'[q] = pc[q]
  BY <1>10 DEF CallsInv, Types
<1>17. Where'
  BY <1>0, <1>10, <1>16 DEF CallsInv, Where, Inside, Shrinking
<1>18. \A i \in Inodes : file'[i].reload = file[i].reload
  BY <1>12, <1>13
<1>19. Maps'
  <2>1. \A q \in Procs : map[q] # 0 => map[q] \in Inodes
    BY DEF CallsInv, Types
  <2>2. QED BY <1>0, <1>1, <1>10, <1>16, <1>18, <2>1 DEF CallsInv, Maps
<1>20. \A o : Matches(file'[name], o) = Matches(file[name], o)
  BY <1>5, <1>6, <1>8, <1>12, <1>13 DEF Matches, On
<1>21. Found'
  <2> SUFFICES ASSUME NEW q \in Procs
               PROVE  /\ pc'[q] \in {"act", "unlock", "unlink"} \cup Shrinking
                           => (slot'[q] = 0 <=> live'[call'[q].key] = 0)
                      /\ pc'[q] = "act" => slot'[q] \in Matches(file'[map'[q]], call'[q].key)
    BY DEF Found
  <2>1. CASE q = p
    BY <1>0, <1>10, <1>16, <2>1 DEF CallsInv, Found
  <2>2. CASE q # p
    <3>1. pc[q] = "act" => map[q] = name
      BY DEF CallsInv, Maps
    <3>2. QED BY <1>10, <1>16, <1>20, <2>2, <3>1 DEF CallsInv, Found
  <2>3. QED BY <2>1, <2>2
<1>22. Held' /\ Adding(p)
  <2>1. PICK R : Rep(file, {name}, R) /\ Tallied(R, live, sum)
    BY <1>1 DEF CallsInv, Held
  <2>2. /\ R \in Rows /\ R[s] = old_rec
        /\ \A x \in Refs : file[name].row[x].on => R[x] = file[name].row[x]
        /\ \A x \in Refs : R[x].on => file[name].row[x].on
    BY <1>5, <1>6, <2>1 DEF Rep
  <2>3. PICK R2 : R2 = [R EXCEPT ![s] = new_rec]
    OBVIOUS
  <2>4. R2 \in Rows /\ R2[s] = new_rec /\ Differ(R, R2, s)
    BY <1>11, <2>2, <2>3 DEF Rows, Differ
  <2>5. Rep(file', {name}, R2)
    <3>1. \A x \in Refs : f2.row[x].on => R2[x] = f2.row[x]
      BY <1>12, <2>2, <2>4 DEF Differ
    <3>2. \A x \in Refs : R2[x].on => f2.row[x].on
      BY <1>8, <1>12, <2>2, <2>4 DEF Differ
    <3>3. QED BY <1>13, <2>4, <3>1, <3>2 DEF Rep
  <2>6. Tallied(R2, live, [sum EXCEPT ![k] = (@ + c) % LongMod])
    <3>1. R2[s].on /\ R2[s].key = k /\ R2[s].n = (R[s].n + c) % LongMod /\ R[s].on /\ R[s].key = k
      BY <1>6, <1>7, <1>8, <2>2, <2>4
    <3>2. live \in [Keys -> Nat] /\ sum \in [Keys -> Longs]
      BY DEF CallsInv, Types
    <3>3. QED BY <2>1, <2>2, <2>4, <3>1, <3>2, TallyAdd
  <2>7. Cur' = {name}
    BY <1>1, <1>10, CurKept
  <2>8. s \in InRow(R, k) /\ s \in InRow(R2, k) /\ R2[s].n = n
    BY <1>6, <1>8, <2>2, <2>4 DEF InRow
  <2>9. val'[p] = n
    BY <1>10 DEF CallsInv, Types
  <2>10. Adding(p)
    BY <1>2, <1>4, <2>1, <2>4, <2>5, <2>8, <2>9 DEF Adding
  <2>11. QED BY <1>10, <2>5, <2>6, <2>7, <2>10 DEF Held
<1>23. QED BY <1>15, <1>17, <1>19, <1>21, <1>22 DEF CallsInv

(* There is an inode for a new file. *)
LEMMA FreshIs ==
  ASSUME Types, NEW e, InUse \subseteq {0, e} \cup {map[q] : q \in Procs}, Procs # {}
  PROVE  Fresh \in Inodes /\ Fresh \notin InUse
<1>1. PICK n \in Nat : n = Cardinality(Procs)
  BY CallsAssumption, FS_CardinalityType
<1>2. n # 0
  BY <1>1, CallsAssumption, FS_EmptySet
<1>3. PICK I : I = {map[q] : q \in Procs}
  OBVIOUS
<1>4. IsFiniteSet(I) /\ Cardinality(I) <= n
  <2>1. map \in Surjection(Procs, I)
    BY <1>3 DEF Types, Surjection
  <2>2. QED BY <1>1, <2>1, CallsAssumption, FS_Surjection
<1>5. IsFiniteSet(I \cup {e}) /\ Cardinality(I \cup {e}) <= n + 1 /\ Cardinality(I \cup {e}) \in Nat
  <2>1. IsFiniteSet(I \cup {e}) /\ Cardinality(I \cup {e}) \in Nat /\ Cardinality(I) \in Nat
    BY <1>4, FS_AddElement, FS_CardinalityType
  <2>2. CASE e \in I
    <3>1. I \cup {e} = I
      BY <2>2
    <3>2. QED BY <1>4, <2>1, <3>1
  <2>3. CASE e \notin I
    <3>1. Cardinality(I \cup {e}) = Cardinality(I) + 1
      BY <1>4, <2>3, FS_AddElement
    <3>2. QED BY <1>4, <2>1, <3>1
  <2>4. QED BY <2>2, <2>3
<1>6. IsFiniteSet(Inodes) /\ Cardinality(Inodes) = 2 * n + 1
  <2>1. 2 * n + 1 \in Nat /\ 1 <= 2 * n + 1
    OBVIOUS
  <2>2. QED BY <1>1, <2>1, FS_Interval DEF Inodes
<1>7. ~(Inodes \subseteq I \cup {e})
  <2> SUFFICES ASSUME Inodes \subseteq I \cup {e} PROVE FALSE
    OBVIOUS
  <2>1. Cardinality(Inodes) <= Cardinality(I \cup {e})
    BY <1>5, FS_Subset
  <2>2. QED BY <1>2, <1>5, <1>6, <2>1
<1>8. PICK i \in Inodes : i \notin I \cup {e}
  BY <1>7
<1>9. i \notin InUse
  BY <1>3, <1>8, InodesAre
<1>10. Inodes \ InUse \subseteq Nat /\ Inodes \ InUse # {}
  BY <1>9, InodesAre
<1>11. QED BY <1>10, MinIn DEF Fresh

LEMMA CreateInv ==
  ASSUME CallsInv, GetsAlone, NEW p \in Procs, Create(p)
  PROVE  CallsInv' /\ Stays
<1>0. pc[p] = "create" /\ \A q \in Procs : q # p => pc[q] \notin Inside /\ old[q] = 0
  <2>1. pc[p] = "create" /\ pc[p] \in Shrinking \cup {"unlink"}
    BY DEF Create, Shrinking
  <2>2. QED BY <2>1, Alone DEF CallsInv
<1>1. name = 0 /\ map[p] = 0 /\ old[p] \in Inodes
  BY <1>0 DEF CallsInv, Maps, Where, Types, Shrinking
<1>2. PICK i \in Inodes : i = Fresh /\ i \notin InUse
  <2>1. InUse \subseteq {0, old[p]} \cup {map[q] : q \in Procs}
    BY <1>0, <1>1 DEF InUse
  <2>2. QED BY <2>1, FreshIs DEF CallsInv
<1>3. i # 0 /\ i # old[p] /\ \A q \in Procs : map[q] # i /\ old[q] # i
  BY <1>2, InodesAre DEF InUse
<1>4. /\ name' = i /\ file' = [file EXCEPT ![i] = NewFile] /\ pc' = [pc EXCEPT ![p] = "remap"]
      /\ UNCHANGED <<readers, map, call, slot, old, val, live, sum>>
  BY <1>1, <1>2 DEF Create
<1>5. /\ file' \in [Inodes -> Files] /\ file'[i] = NewFile /\ \A j \in Inodes : j # i => file'[j] = file[j]
  BY <1>4, NewFileIs DEF CallsInv, Types
<1>6. Types'
  BY <1>4, <1>5 DEF CallsInv, Types
<1>7. pc'[p] = "remap" /\ \A q \in Procs : q # p => pc'[q] = pc[q] /\ pc'[q] \notin Inside
  BY <1>0, <1>4 DEF CallsInv, Types
<1>8. Where'
  BY <1>0, <1>4, <1>7 DEF CallsInv, Where, Inside, Shrinking
<1>9. Maps'
  <2>1. \A q \in Procs : map[q] # 0 => map[q] \in Inodes /\ map[q] # i /\ file'[map[q]] = file[map[q]]
    BY <1>3, <1>5 DEF CallsInv, Types
  <2>2. ~ file'[i].reload
    BY <1>5, NewFileIs
  <2>3. \A q \in Procs : map[q] # 0 => file'[map[q]].reload \/ \E o \in Procs : old[o] = map[q]
    BY <1>1, <2>1 DEF CallsInv, Maps
  <2>4. \A q \in Procs : pc'[q] # "create" /\ (pc'[q] \in {"look", "act", "unlink", "move", "create", "remap"} => q = p)
    BY <1>7 DEF Inside
  <2>5. QED BY <1>1, <1>3, <1>4, <1>7, <2>2, <2>3, <2>4 DEF Maps
<1>10. Found'
  BY <1>0, <1>4, <1>7 DEF CallsInv, Found, Inside, Shrinking
<1>11. Held' /\ Stays
  <2>1. PICK R : Rep(file, Cur, R) /\ Tallied(R, live, sum)
    BY DEF CallsInv, Held
  <2>2. Cur' = Cur \cup {i} /\ i \notin Cur /\ Cur \subseteq Inodes
    <3>1. Cur = {old[p]}
      BY <1>0, <1>1, InodesAre DEF Cur
    <3>2. Cur' = {i, old[p]}
      BY <1>0, <1>1, <1>3, <1>4, InodesAre DEF Cur
    <3>3. QED BY <1>1, <1>3, <3>1, <3>2
  <2>3. \A s \in Refs : ~ file'[i].row[s].on
    BY <1>5, NewFileIs
  <2>4. \A j \in Cur : file'[j] = file[j]
    BY <1>5, <2>2
  <2>5. Rep(file', Cur \cup {i}, R)
    <3>1. R \in Rows
      BY <2>1 DEF Rep
    <3>2. \A j \in Cur \cup {i}, s \in Refs : file'[j].row[s].on => j \in Cur /\ file[j].row[s].on /\ file'[j] = file[j]
      BY <2>3, <2>4
    <3>3. \A s \in Refs : R[s].on => \E j \in Cur \cup {i} : file'[j].row[s].on
      BY <2>1, <2>4 DEF Rep
    <3>4. QED BY <2>1, <3>1, <3>2, <3>3 DEF Rep
  <2>6. QED BY <1>4, <2>1, <2>2, <2>5 DEF Held, Stays
<1>12. QED BY <1>6, <1>8, <1>9, <1>10, <1>11 DEF CallsInv

(* A file whose ref s is marked deleted, or that is marked for reload. *)
LEMMA Marked ==
  ASSUME NEW f \in Files, NEW s \in Refs, NEW f2, f2 = MarkDeleted(f, s)
  PROVE  /\ f2 \in Files /\ f2.row \in Rows /\ ~ f2.row[s].on /\ f2.reload = f.reload
         /\ \A x \in Refs : x # s => f2.row[x] = f.row[x]
<1>1. f.row \in Rows /\ f = [row |-> f.row, free |-> f.free, reload |-> f.reload]
      /\ f.free \in Nat /\ f.reload \in BOOLEAN
  BY DEF Files
<1>2. PICK rec : rec = [f.row[s] EXCEPT !.on = FALSE]
  OBVIOUS
<1>3. rec \in Recs /\ rec.on = FALSE
  <2>1. f.row[s] \in Recs
    BY <1>1 DEF Rows
  <2>2. QED BY <1>2, <2>1 DEF Recs
<1>4. PICK r2 : r2 = [f.row EXCEPT ![s] = rec]
  OBVIOUS
<1>5. r2 \in Rows /\ r2[s] = rec /\ \A x \in Refs : x # s => r2[x] = f.row[x]
  BY <1>1, <1>3, <1>4 DEF Rows
<1>6. f2 = [row |-> r2, free |-> f.free + 1, reload |-> f.reload]
  <2>1. [f.row EXCEPT ![s].on = FALSE] = r2
    BY <1>2, <1>4
  <2>2. f2 = [row |-> [f.row EXCEPT ![s].on = FALSE], free |-> f.free + 1, reload |-> f.reload]
    BY <1>1 DEF MarkDeleted
  <2>3. QED BY <2>1, <2>2
<1>7. f.free + 1 \in Nat
  BY <1>1
<1>8. QED BY <1>1, <1>3, <1>5, <1>6, <1>7 DEF Files

SetReload(f) == [f EXCEPT !.reload = TRUE]

LEMMA Reloaded ==
  ASSUME NEW f \in Files, NEW f2, f2 = SetReload(f)
  PROVE  f2 \in Files /\ f2.row = f.row /\ f2.reload
<1>1. f.row \in Rows /\ f = [row |-> f.row, free |-> f.free, reload |-> f.reload] /\ f.free \in Nat
  BY DEF Files
<1>2. f2 = [row |-> f.row, free |-> f.free, reload |-> TRUE]
  BY <1>1 DEF SetReload
<1>3. f2.reload = TRUE /\ f2.row = f.row /\ f2 \in Files
  BY <1>1, <1>2 DEF Files
<1>4. QED BY <1>3

LEMMA KeptIs ==
  ASSUME NEW G \in [Inodes -> Files], NEW used, NEW F, F = Kept(G, used)
  PROVE  F \in [Inodes -> Files] /\ \A i \in Inodes : i \in used => F[i] = G[i]
BY NewFileIs DEF Kept

LEMMA MoveInv ==
  ASSUME CallsInv, GetsAlone, NEW p \in Procs, Move(p)
  PROVE  CallsInv' /\ Stays
<1>0. pc[p] = "move" /\ \A q \in Procs : q # p => pc[q] \notin Inside /\ old[q] = 0
  <2>1. pc[p] = "move" /\ pc[p] \in Shrinking \cup {"unlink"}
    BY DEF Move, Shrinking
  <2>2. QED BY <2>1, Alone DEF CallsInv
<1>1. PICK o \in Inodes : o = old[p]
  BY <1>0 DEF CallsInv, Where, Types, Shrinking
<1>2. map[p] = name /\ name \in Inodes /\ name # o
  <2>1. map[p] = name
    BY <1>0 DEF CallsInv, Maps
  <2>2. name # 0
    BY <1>0 DEF CallsInv, Maps, Inside
  <2>3. o # name
    BY <1>1, InodesAre DEF CallsInv, Maps
  <2>4. QED BY <2>1, <2>2, <2>3 DEF CallsInv, Types
<1>3. PICK s \in Refs : s = Min(On(file[o])) /\ s \in On(file[o])
  <2>1. On(file[o]) # {} /\ On(file[o]) \subseteq Nat /\ On(file[o]) \subseteq Refs
    BY <1>1, RefsAre DEF Move, On
  <2>2. QED BY <2>1, MinIn
<1>4. PICK fo \in Files : fo = file[o]
  BY <1>1 DEF CallsInv, Types
<1>5. PICK fn \in Files : fn = file[name]
  BY <1>2 DEF CallsInv, Types
<1>6. PICK rec \in Recs : rec = fo.row[s]
  BY <1>3, <1>4 DEF Files, Rows
<1>7. PICK n2 : n2 = SetRec(fn, s, rec)
  OBVIOUS
<1>8. PICK o2 : o2 = MarkDeleted(fo, s)
  OBVIOUS
<1>9. /\ n2 \in Files /\ n2.row[s] = rec /\ n2.reload = fn.reload
      /\ \A x \in Refs : x # s => n2.row[x] = fn.row[x]
  BY <1>3, <1>5, <1>6, <1>7, WithRec
<1>10. /\ o2 \in Files /\ ~ o2.row[s].on /\ o2.reload = fo.reload
       /\ \A x \in Refs : x # s => o2.row[x] = fo.row[x]
  BY <1>3, <1>4, <1>8, Marked
<1>11. /\ file' = [file EXCEPT ![name] = n2, ![o] = o2]
       /\ UNCHANGED <<readers, name, map, pc, call, slot, old, val, live, sum>>
  <2>1. /\ file' = [file EXCEPT ![name].row[s] = rec, ![o] = MarkDeleted(@, s)]
        /\ UNCHANGED <<readers, name, map, pc, call, slot, old, val, live, sum>>
    BY <1>1, <1>2, <1>3, <1>4, <1>6 DEF Move
  <2>2. [file EXCEPT ![name].row[s] = rec, ![o] = MarkDeleted(@, s)]
          = [file EXCEPT ![name] = [fn EXCEPT !.row[s] = rec], ![o] = MarkDeleted(fo, s)]
    BY <1>1, <1>2, <1>4, <1>5 DEF CallsInv, Types
  <2>3. QED BY <1>7, <1>8, <2>1, <2>2 DEF SetRec
<1>12. /\ file' \in [Inodes -> Files] /\ file'[name] = n2 /\ file'[o] = o2
       /\ \A i \in Inodes : i # name /\ i # o => file'[i] = file[i]
  BY <1>1, <1>2, <1>9, <1>10, <1>11 DEF CallsInv, Types
<1>13. Types'
  BY <1>11, <1>12 DEF CallsInv, Types
<1>14. Where'
  BY <1>11 DEF CallsInv, Where
<1>15. \A i \in Inodes : file'[i].reload = file[i].reload
  BY <1>4, <1>5, <1>9, <1>10, <1>12
<1>16. Maps'
  <2>1. \A q \in Procs : map[q] # 0 => map[q] \in Inodes
    BY DEF CallsInv, Types
  <2>2. QED BY ZenonT(40), <1>2, <1>11, <1>15, <2>1 DEF CallsInv, Maps
<1>17. Found'
  <2>1. \A q \in Procs : pc[q] # "act"
    BY <1>0 DEF Inside
  <2>2. QED BY <1>11, <2>1 DEF CallsInv, Found
<1>18. Held' /\ Stays
  <2>1. Cur = {name, o} /\ Cur' = {name, o}
    <3>1. Cur = {name, o}
      BY <1>0, <1>1, <1>2, InodesAre DEF Cur
    <3>2. QED BY <1>11, <3>1, CurKept
  <2>2. PICK R : Rep(file, {name, o}, R) /\ Tallied(R, live, sum)
    BY <2>1 DEF CallsInv, Held
  <2>3. R \in Rows /\ R[s] = rec /\ fo.row[s].on /\ rec.on /\ ~ fn.row[s].on
    <3>1. fo.row[s].on /\ rec.on
      BY <1>3, <1>4, <1>6 DEF On
    <3>2. QED BY <1>2, <1>4, <1>5, <1>6, <2>2, <3>1 DEF Rep
  <2>4. \A i \in {name, o}, x \in Refs : x # s => file'[i].row[x] = file[i].row[x]
    BY <1>4, <1>5, <1>9, <1>10, <1>12
  <2>5. \A i \in {name, o} : file'[i].row[s].on => i = name /\ file'[i].row[s] = R[s]
    BY <1>9, <1>10, <1>12, <2>3
  <2>6. \E i \in {name, o} : file'[i].row[s].on
    BY <1>9, <1>12, <2>3
  <2>7. Rep(file', {name, o}, R)
    <3>1. \A i \in {name, o}, x \in Refs : file'[i].row[x].on => R[x] = file'[i].row[x]
      BY <2>2, <2>4, <2>5 DEF Rep
    <3>2. \A x \in Refs : R[x].on => \E i \in {name, o} : file'[i].row[x].on
      <4> SUFFICES ASSUME NEW x \in Refs, R[x].on PROVE \E i \in {name, o} : file'[i].row[x].on
        OBVIOUS
      <4>1. CASE x = s
        BY <2>6, <4>1
      <4>2. CASE x # s
        BY <2>2, <2>4, <4>2 DEF Rep
      <4>3. QED BY <4>1, <4>2
    <3>3. \A i, j \in {name, o}, x \in Refs : file'[i].row[x].on /\ file'[j].row[x].on => i = j
      BY <2>2, <2>4, <2>5 DEF Rep
    <3>4. QED BY <2>3, <3>1, <3>2, <3>3 DEF Rep
  <2>8. QED BY <1>11, <2>1, <2>2, <2>7 DEF Held, Stays
<1>19. QED BY <1>13, <1>14, <1>16, <1>17, <1>18 DEF CallsInv

LEMMA EndShrinkInv ==
  ASSUME CallsInv, GetsAlone, NEW p \in Procs, EndShrink(p)
  PROVE  CallsInv' /\ Stays
<1>0. pc[p] = "move" /\ \A q \in Procs : q # p => pc[q] \notin Inside /\ old[q] = 0
  <2>1. pc[p] = "move" /\ pc[p] \in Shrinking \cup {"unlink"}
    BY DEF EndShrink, Shrinking
  <2>2. QED BY <2>1, Alone DEF CallsInv
<1>1. PICK o \in Inodes : o = old[p]
  BY <1>0 DEF CallsInv, Where, Types, Shrinking
<1>2. map[p] = name /\ name \in Inodes /\ name # o /\ On(file[o]) = {}
  <2>1. map[p] = name
    BY <1>0 DEF CallsInv, Maps
  <2>2. name # 0
    BY <1>0 DEF CallsInv, Maps, Inside
  <2>3. o # name
    BY <1>1, InodesAre DEF CallsInv, Maps
  <2>4. QED BY <1>1, <2>1, <2>2, <2>3 DEF CallsInv, Types, EndShrink
<1>3. PICK fo \in Files : fo = file[o]
  BY <1>1 DEF CallsInv, Types
<1>4. PICK o2 : o2 = SetReload(fo)
  OBVIOUS
<1>5. o2 \in Files /\ o2.row = fo.row /\ o2.reload
  BY <1>3, <1>4, Reloaded
<1>6. PICK G : G = [file EXCEPT ![o] = o2]
  OBVIOUS
<1>7. G \in [Inodes -> Files] /\ G[o] = o2 /\ \A i \in Inodes : i # o => G[i] = file[i]
  BY <1>5, <1>6 DEF CallsInv, Types
<1>8. PICK used : used = {name} \cup {map[q] : q \in Procs} \cup {old[q] : q \in Procs \ {p}}
  OBVIOUS
<1>9. /\ file' = Kept(G, used) /\ old' = [old EXCEPT ![p] = 0] /\ pc' = [pc EXCEPT ![p] = "unlock"]
      /\ UNCHANGED <<readers, name, map, call, slot, val, live, sum>>
  <2>1. [file EXCEPT ![o].reload = TRUE] = G
    BY <1>3, <1>4, <1>6 DEF SetReload
  <2>2. QED BY <1>1, <1>8, <2>1 DEF EndShrink
<1>10. file' \in [Inodes -> Files] /\ \A i \in Inodes : i \in used => file'[i] = G[i]
  BY <1>7, <1>9, KeptIs
<1>11. Types'
  BY <1>9, <1>10 DEF CallsInv, Types
<1>12. /\ pc'[p] = "unlock" /\ old'[p] = 0
       /\ \A q \in Procs : q # p => pc'[q] = pc[q] /\ old'[q] = old[q]
  BY <1>9 DEF CallsInv, Types
<1>13. Where'
  BY <1>0, <1>9, <1>12 DEF CallsInv, Where, Inside, Shrinking
<1>14. file'[name] = file[name]
  BY <1>2, <1>7, <1>8, <1>10
<1>15. Maps'
  <2>1. ASSUME NEW q \in Procs, map[q] # 0
        PROVE  map[q] = name \/ file'[map[q]].reload
    <3>1. map[q] \in Inodes /\ file'[map[q]] = G[map[q]]
      BY <1>8, <1>10, <2>1 DEF CallsInv, Types
    <3>2. CASE map[q] = o
      BY <1>5, <1>7, <3>1, <3>2
    <3>3. CASE map[q] # o
      <4>1. \A r \in Procs : old[r] # map[q]
        BY <1>0, <1>1, <2>1, <3>3
      <4>2. QED BY <1>7, <2>1, <3>1, <3>3, <4>1 DEF CallsInv, Maps
    <3>4. QED BY <3>2, <3>3
  <2>2. \A q \in Procs : old'[q] = 0
    BY <1>0, <1>12
  <2>3. \A q \in Procs : pc'[q] \notin {"look", "act", "unlink", "move", "create", "remap"}
    BY <1>0, <1>12 DEF Inside
  <2>4. QED BY <1>2, <1>9, <1>14, <2>1, <2>2, <2>3, InodesAre DEF CallsInv, Maps
<1>16. Found'
  BY <1>0, <1>9, <1>12 DEF CallsInv, Found, Inside, Shrinking
<1>17. Held' /\ Stays
  <2>1. Cur = {name, o}
    BY <1>0, <1>1, <1>2, InodesAre DEF Cur
  <2>2. Cur' = {name}
    <3>1. \A q \in Procs : old'[q] = 0
      BY <1>0, <1>12
    <3>2. QED BY <1>2, <1>9, <3>1, InodesAre DEF Cur
  <2>3. PICK R : Rep(file, {name, o}, R) /\ Tallied(R, live, sum)
    BY <2>1 DEF CallsInv, Held
  <2>4. \A s \in Refs : ~ file[o].row[s].on
    BY <1>2 DEF On
  <2>5. Rep(file', {name}, R)
    BY <1>14, <2>3, <2>4 DEF Rep
  <2>6. QED BY <1>9, <2>1, <2>2, <2>3, <2>5 DEF Held, Stays
<1>18. QED BY <1>11, <1>13, <1>15, <1>16, <1>17 DEF CallsInv

-----------------------------------------------------------------------------
(* Puts and deletes, alone in the window. *)

(* The window when nobody is in it. *)
Settled ==
  /\ name \in Inodes /\ file \in [Inodes -> Files] /\ map \in [Procs -> Inodes \cup {0}]
  /\ live \in [Keys -> Nat] /\ sum \in [Keys -> Longs]
  /\ ~ file[name].reload
  /\ \A q \in Procs : map[q] # 0 => map[q] = name \/ file[map[q]].reload
  /\ \E R : Rep(file, {name}, R) /\ Tallied(R, live, sum)

LEMMA SettledOut ==
  ASSUME CallsInv, readers = {}
  PROVE  Settled /\ \A p \in Procs : GetTab(p) = name
<1>1. Quiet
  BY QuietOut DEF CallsInv
<1>2. name \in Inodes /\ Cur = {name} /\ (\A q \in Procs : old[q] = 0) /\ \A p \in Procs : GetTab(p) = name
  BY <1>1, QuietTab DEF CallsInv
<1>3. \E R : Rep(file, {name}, R) /\ Tallied(R, live, sum)
  BY <1>2 DEF CallsInv, Held
<1>4. ~ file[name].reload /\ \A q \in Procs : map[q] # 0 => map[q] = name \/ file[map[q]].reload
  BY <1>2, InodesAre DEF CallsInv, Maps
<1>5. QED BY <1>2, <1>3, <1>4 DEF CallsInv, Types, Settled

(* What puts and deletes leave alone. *)
Outside(p) ==
  /\ UNCHANGED <<readers, slot, old, val>>
  /\ \/ UNCHANGED <<pc, call>>
     \/ pc' = [pc EXCEPT ![p] = "idle"] /\ call' = [call EXCEPT ![p] = Idle]

LEMMA SettledInv ==
  ASSUME CallsInv, readers = {}, NEW p \in Procs, Outside(p), Settled'
  PROVE  CallsInv'
<1>1. \A q \in Procs : pc[q] \notin Inside /\ old[q] = 0
  <2>1. \A q \in Procs : pc[q] \notin Inside
    BY QuietOut DEF CallsInv
  <2>2. QED BY <2>1 DEF CallsInv, Where, Inside, Shrinking
<1>2. \A q \in Procs : \/ pc'[q] = pc[q] /\ call'[q] = call[q]
                       \/ pc'[q] = "idle" /\ call'[q] = Idle
  BY DEF Outside, CallsInv, Types
<1>3. UNCHANGED <<readers, slot, old, val>>
  BY DEF Outside
<1>4. \A q \in Procs : pc'[q] \notin Inside /\ old'[q] = 0
  BY <1>1, <1>2, <1>3 DEF Inside
<1>5. Types'
  <2>1. /\ pc' \in [Procs -> {"idle", "map", "look", "act", "unlock", "unlink", "create", "remap",
                              "move", "refput", "refdel", "dead"}]
        /\ call' \in [Procs -> {Idle} \cup UNION {Calls(q) : q \in Procs}]
    BY DEF Outside, CallsInv, Types
  <2>2. QED BY <1>3, <2>1 DEF CallsInv, Types, Settled
<1>6. Where'
  BY <1>1, <1>2, <1>3, <1>4 DEF CallsInv, Where, Inside, Shrinking
<1>7. Maps'
  <2>1. \A q \in Procs : pc'[q] \notin {"look", "act", "unlink", "move", "create", "remap"}
    BY <1>4 DEF Inside
  <2>2. name' # 0
    BY InodesAre DEF Settled
  <2>3. QED BY <1>4, <2>1, <2>2 DEF Settled, Maps
<1>8. Found'
  BY <1>4 DEF Found, Inside, Shrinking
<1>9. Held'
  <2>1. Cur' = {name'}
    BY <1>4, InodesAre DEF Cur, Settled
  <2>2. QED BY <2>1 DEF Held, Settled
<1>10. QED BY <1>5, <1>6, <1>7, <1>8, <1>9 DEF CallsInv

LEMMA PutRecSettled ==
  ASSUME CallsInv, NEW p \in Procs, NEW k \in Keys, NEW n \in Longs, PutRec(p, k, n)
  PROVE  Settled' /\ Writes(k)
<1>1. readers = {}
  BY DEF PutRec
<1>2. Settled /\ GetTab(p) = name
  BY <1>1, SettledOut
<1>3. PICK fn \in Files : fn = file[name]
  BY <1>2 DEF Settled
<1>4. PICK s \in Refs : s = Min(Refs \ On(fn)) /\ s \notin On(fn)
  <2>1. On(fn) # Refs
    BY <1>2, <1>3 DEF PutRec
  <2>2. Refs \ On(fn) # {} /\ Refs \ On(fn) \subseteq Nat
    BY <2>1, RefsAre DEF On
  <2>3. QED BY <2>2, MinIn
<1>5. PICK rec : rec = [key |-> k, n |-> n, on |-> TRUE]
  OBVIOUS
<1>6. rec \in Recs /\ rec.on
  BY <1>5 DEF Recs
<1>7. PICK f : f = SetRec(fn, s, rec)
  OBVIOUS
<1>8. /\ f \in Files /\ f.row \in Rows /\ f.row[s] = rec /\ f.reload = fn.reload
      /\ \A x \in Refs : x # s => f.row[x] = fn.row[x]
  <2>1. rec \in Recs
    BY <1>6
  <2>2. s \in Refs /\ fn \in Files
    BY <1>3, <1>4
  <2>3. QED BY <1>7, <2>1, <2>2, WithRec
<1>9. PICK R : Rep(file, {name}, R) /\ Tallied(R, live, sum)
  BY <1>2 DEF Settled
<1>10. /\ R \in Rows /\ (\A x \in Refs : fn.row[x].on => R[x] = fn.row[x])
       /\ \A x \in Refs : R[x].on => fn.row[x].on
  BY <1>3, <1>9 DEF Rep
<1>11. ~ fn.row[s].on /\ ~ R[s].on
  BY <1>4, <1>10 DEF On
<1>12. PICK R2 : R2 = [R EXCEPT ![s] = rec]
  OBVIOUS
<1>13. R2 \in Rows /\ R2[s] = rec /\ Differ(R, R2, s)
  BY <1>4, <1>6, <1>10, <1>12 DEF Rows, Differ
<1>14. /\ \A x \in Refs : f.row[x].on => R2[x] = f.row[x]
       /\ \A x \in Refs : R2[x].on => f.row[x].on
  BY <1>6, <1>8, <1>10, <1>13 DEF Differ
<1>15. live' = [live EXCEPT ![k] = @ + 1] /\ sum' = [sum EXCEPT ![k] = (@ + n) % LongMod]
  BY DEF PutRec
<1>16. live' \in [Keys -> Nat] /\ sum' \in [Keys -> Longs]
  <2>1. live[k] + 1 \in Nat
    BY <1>2 DEF Settled
  <2>2. sum[k] + n \in Int
    BY <1>2, LongIsInt DEF Settled
  <2>3. (sum[k] + n) % LongMod \in Longs
    BY <2>2, ReduceOnce
  <2>4. QED BY <1>2, <1>15, <2>1, <2>3 DEF Settled
<1>17. Tallied(R2, live', sum')
  <2>1. live \in [Keys -> Nat] /\ sum \in [Keys -> Longs]
    BY <1>2 DEF Settled
  <2>2. Tallied(R2, [live EXCEPT ![k] = @ + 1], [sum EXCEPT ![k] = (@ + n) % LongMod])
    BY ZenonT(40), <1>4, <1>5, <1>9, <1>10, <1>11, <1>13, <2>1, TallyPut
  <2>3. QED BY <1>15, <2>2
<1>0. SameBut(R, R2, k)
  BY <1>5, <1>11, <1>13 DEF SameBut, InRow, Differ
<1>18. CASE 5 * f.free > Cardinality(On(f))
  <2>1. PICK j \in Inodes : j = Fresh /\ j \notin InUse
    <3>1. \A q \in Procs : old[q] = 0
      BY <1>1, QuietOut, QuietTab DEF CallsInv
    <3>2. InUse \subseteq {0, name} \cup {map[q] : q \in Procs}
      BY <3>1 DEF InUse
    <3>3. QED BY <3>2, FreshIs DEF CallsInv
  <2>2. j # name /\ \A q \in Procs : map[q] # j
    BY <2>1 DEF InUse
  <2>3. PICK g : g = [f EXCEPT !.reload = (5 * f.free > Cardinality(On(f))) \/ @]
    OBVIOUS
  <2>4. g \in Files /\ g.reload
    <3>1. f = [row |-> f.row, free |-> f.free, reload |-> f.reload] /\ f.free \in Nat
      BY <1>8 DEF Files
    <3>2. g = [row |-> f.row, free |-> f.free, reload |-> TRUE]
      BY <1>18, <2>3, <3>1
    <3>3. g \in Files /\ g.reload = TRUE
      BY <1>8, <3>1, <3>2 DEF Files
    <3>4. QED BY <3>3
  <2>5. PICK h : h = Shrunk(f)
    OBVIOUS
  <2>6. /\ h \in Files /\ ~ h.reload
        /\ \A x \in Refs : h.row[x] = IF f.row[x].on THEN f.row[x] ELSE NoRec
    <3>1. PICK hr : hr = [x \in Refs |-> IF f.row[x].on THEN f.row[x] ELSE NoRec]
      OBVIOUS
    <3>2. hr \in Rows
      BY <1>8, <3>1, NewFileIs DEF Rows
    <3>3. h = [row |-> hr, free |-> 0, reload |-> FALSE]
      BY <2>5, <3>1 DEF Shrunk, NewFile
    <3>4. h \in Files /\ h.reload = FALSE /\ h.row = hr
      BY <3>2, <3>3 DEF Files
    <3>5. QED BY <3>1, <3>4
  <2>7. PICK G : G = [file EXCEPT ![name] = g, ![j] = h]
    OBVIOUS
  <2>8. /\ G \in [Inodes -> Files] /\ G[name] = g /\ G[j] = h
        /\ \A i \in Inodes : i # name /\ i # j => G[i] = file[i]
    BY <1>2, <2>1, <2>2, <2>4, <2>6, <2>7 DEF Settled
  <2>9. PICK used : used = {j} \cup {map[q] : q \in Procs \ {p}}
    OBVIOUS
  <2>10. name' = j /\ map' = [map EXCEPT ![p] = j] /\ file' = Kept(G, used)
    BY <1>2, <1>3, <1>4, <1>5, <1>7, <1>18, <2>1, <2>3, <2>5, <2>7, <2>9 DEF PutRec, SetRec
  <2>11. file' \in [Inodes -> Files] /\ \A i \in Inodes : i \in used => file'[i] = G[i]
    BY <2>8, <2>10, KeptIs
  <2>12. file'[j] = h
    BY <2>1, <2>8, <2>9, <2>11
  <2>13. map' \in [Procs -> Inodes \cup {0}] /\ map'[p] = j /\ \A q \in Procs : q # p => map'[q] = map[q]
    BY <1>2, <2>1, <2>10 DEF Settled
  <2>14. ASSUME NEW q \in Procs, map'[q] # 0 PROVE map'[q] = j \/ file'[map'[q]].reload
    <3>1. CASE q = p
      BY <2>13, <3>1
    <3>2. CASE q # p
      <4>1. PICK i \in Inodes : i = map[q]
        BY <2>13, <2>14, <3>2 DEF CallsInv, Types
      <4>2. i # j /\ map'[q] = i /\ file'[i] = G[i]
        BY <2>2, <2>9, <2>11, <2>13, <3>2, <4>1
      <4>3. i = name \/ file[i].reload
        BY <1>2, <4>1, InodesAre DEF Settled
      <4>4. file'[i].reload
        BY <2>4, <2>8, <4>2, <4>3
      <4>5. QED BY <4>2, <4>4
    <3>3. QED BY <3>1, <3>2
  <2>15. Rep(file', {j}, R2)
    <3>1. /\ \A x \in Refs : h.row[x].on => R2[x] = h.row[x]
          /\ \A x \in Refs : R2[x].on => h.row[x].on
      BY <1>14, <2>6, NewFileIs
    <3>2. QED BY <1>13, <2>12, <3>1 DEF Rep
  <2>16. QED BY <1>16, <1>17, <2>1, <2>6, <2>10, <2>11, <2>12, <2>13, <2>14, <2>15, <1>0, <1>9 DEF Settled, Writes
<1>19. CASE ~(5 * f.free > Cardinality(On(f)))
  <2>1. PICK g : g = [f EXCEPT !.reload = (5 * f.free > Cardinality(On(f))) \/ @]
    OBVIOUS
  <2>2. PICK used : used = {name} \cup {map[q] : q \in Procs \ {p}}
    OBVIOUS
  <2>3. PICK G : G = [file EXCEPT ![name] = f]
    OBVIOUS
  <2>4. name' = name /\ map' = [map EXCEPT ![p] = name] /\ file' = Kept(G, used)
    <3>1. /\ name' = name /\ map' = [map EXCEPT ![p] = name]
          /\ file' = Kept([file EXCEPT ![name] = g, ![name] = f], used)
      BY <1>2, <1>3, <1>4, <1>5, <1>7, <1>19, <2>1, <2>2 DEF PutRec, SetRec
    <3>2. [file EXCEPT ![name] = g, ![name] = f] = G
      BY <2>3
    <3>3. QED BY <3>1, <3>2
  <2>5. /\ G \in [Inodes -> Files] /\ G[name] = f /\ \A i \in Inodes : i # name => G[i] = file[i]
    BY <1>2, <1>8, <2>3 DEF Settled
  <2>6. file' \in [Inodes -> Files] /\ \A i \in Inodes : i \in used => file'[i] = G[i]
    BY <2>4, <2>5, KeptIs
  <2>7. file'[name] = f
    BY <1>2, <2>2, <2>5, <2>6 DEF Settled
  <2>8. map' \in [Procs -> Inodes \cup {0}] /\ map'[p] = name /\ \A q \in Procs : q # p => map'[q] = map[q]
    BY <1>2, <2>4 DEF Settled
  <2>9. ASSUME NEW q \in Procs, map'[q] # 0 PROVE map'[q] = name \/ file'[map'[q]].reload
    <3>1. CASE q = p
      BY <2>8, <3>1
    <3>2. CASE q # p
      <4>1. PICK i \in Inodes : i = map[q]
        BY <2>8, <2>9, <3>2 DEF CallsInv, Types
      <4>2. map'[q] = i /\ file'[i] = G[i]
        BY <2>2, <2>6, <2>8, <3>2, <4>1
      <4>3. i = name \/ file[i].reload
        BY <1>2, <4>1, InodesAre DEF Settled
      <4>4. QED BY <2>5, <4>2, <4>3
    <3>3. QED BY <3>1, <3>2
  <2>10. Rep(file', {name}, R2)
    BY <1>13, <1>14, <2>7 DEF Rep
  <2>11. ~ file'[name].reload
    BY <1>2, <1>3, <1>8, <2>7 DEF Settled
  <2>12. QED BY <1>0, <1>2, <1>9, <1>16, <1>17, <2>4, <2>6, <2>8, <2>9, <2>10, <2>11 DEF Settled, Writes
<1>20. QED BY <1>18, <1>19

LEMMA DelRecSettled ==
  ASSUME CallsInv, NEW p \in Procs, NEW k \in Keys, DelRec(p, k)
  PROVE  Settled' /\ Writes(k)
<1>1. readers = {} /\ name' = name
  BY DEF DelRec
<1>2. Settled /\ GetTab(p) = name /\ name \in Inodes
  BY <1>1, SettledOut DEF Settled
<1>3. PICK fn \in Files : fn = file[name]
  BY <1>2 DEF Settled
<1>4. map' = [map EXCEPT ![p] = name]
  BY <1>2 DEF DelRec
<1>5. map' \in [Procs -> Inodes \cup {0}] /\ map'[p] = name /\ \A q \in Procs : q # p => map'[q] = map[q]
  BY <1>2, <1>4 DEF Settled
<1>6. \A q \in Procs : map'[q] # 0 => map'[q] = name \/ file[map'[q]].reload
  BY <1>2, <1>5 DEF Settled
<1>7. CASE FirstMatch(fn, k) = 0
  <2>1. UNCHANGED <<file, live, sum>>
    BY <1>2, <1>3, <1>7 DEF DelRec
  <2>2. Writes(k)
    BY <1>1, <1>2, <2>1 DEF Settled, Writes, SameBut
  <2>3. QED BY <1>1, <1>2, <1>5, <1>6, <2>1, <2>2 DEF Settled
<1>8. CASE FirstMatch(fn, k) # 0
  <2>1. PICK s \in Refs : s = FirstMatch(fn, k) /\ s \in Matches(fn, k)
    BY <1>8, FirstIs
  <2>2. fn.row[s].on /\ fn.row[s].key = k
    BY <2>1 DEF Matches, On
  <2>3. PICK m : m = MarkDeleted(fn, s)
    OBVIOUS
  <2>4. PICK f : f = SetRec(m, s, NoRec)
    OBVIOUS
  <2>5. /\ m \in Files /\ m.row \in Rows /\ ~ m.row[s].on /\ m.reload = fn.reload
        /\ \A x \in Refs : x # s => m.row[x] = fn.row[x]
    BY <1>3, <2>1, <2>3, Marked
  <2>6. /\ f \in Files /\ f.row \in Rows /\ f.row[s] = NoRec /\ f.free = m.free /\ f.reload = m.reload
        /\ \A x \in Refs : x # s => f.row[x] = m.row[x]
    <3>1. m \in Files /\ s \in Refs /\ NoRec \in Recs
      BY <2>1, <2>5, NewFileIs
    <3>2. QED BY <2>4, <3>1, WithRec
  <2>7. PICK G : G = [file EXCEPT ![name] = f]
    OBVIOUS
  <2>8. PICK used : used = {name} \cup {map'[q] : q \in Procs}
    OBVIOUS
  <2>9. /\ file' = Kept(G, used) /\ live' = [live EXCEPT ![k] = @ - 1]
        /\ sum' = [sum EXCEPT ![k] = (@ - fn.row[s].n) % LongMod]
    <3>1. /\ file' = Kept([file EXCEPT ![name] = [MarkDeleted(@, s) EXCEPT !.row[s] = NoRec]], used)
          /\ live' = [live EXCEPT ![k] = @ - 1]
          /\ sum' = [sum EXCEPT ![k] = (@ - fn.row[s].n) % LongMod]
      BY <1>2, <1>3, <1>8, <2>1, <2>8 DEF DelRec
    <3>2. [file EXCEPT ![name] = [MarkDeleted(@, s) EXCEPT !.row[s] = NoRec]] = G
      BY <1>2, <1>3, <2>3, <2>4, <2>7 DEF SetRec, Settled
    <3>3. QED BY <3>1, <3>2
  <2>10. G \in [Inodes -> Files] /\ G[name] = f /\ \A i \in Inodes : i # name => G[i] = file[i]
    BY <1>2, <2>6, <2>7 DEF Settled
  <2>11. file' \in [Inodes -> Files] /\ \A i \in Inodes : i \in used => file'[i] = G[i]
    BY <2>9, <2>10, KeptIs
  <2>12. file'[name] = f
    BY <1>2, <2>8, <2>10, <2>11
  <2>13. \A q \in Procs : map'[q] # 0 => map'[q] = name \/ file'[map'[q]].reload
    <3> SUFFICES ASSUME NEW q \in Procs, map'[q] # 0, map'[q] # name PROVE file'[map'[q]].reload
      OBVIOUS
    <3>1. PICK i \in Inodes : i = map'[q]
      BY <1>5
    <3>2. i # name /\ i \in used /\ file[i].reload
      BY <1>6, <2>8, <3>1
    <3>3. QED BY <2>10, <2>11, <3>1, <3>2
  <2>14. PICK R : Rep(file, {name}, R) /\ Tallied(R, live, sum)
    BY <1>2 DEF Settled
  <2>15. /\ R \in Rows /\ (\A x \in Refs : fn.row[x].on => R[x] = fn.row[x])
         /\ \A x \in Refs : R[x].on => fn.row[x].on
    BY <1>3, <2>14 DEF Rep
  <2>16. R[s] = fn.row[s] /\ R[s].on /\ R[s].key = k
    BY <2>1, <2>2, <2>15
  <2>17. PICK R2 : R2 = [R EXCEPT ![s] = NoRec]
    OBVIOUS
  <2>18. R2 \in Rows /\ R2[s] = NoRec /\ ~ R2[s].on /\ Differ(R, R2, s)
    BY <2>1, <2>15, <2>17, NewFileIs DEF Rows, Differ
  <2>19. Rep(file', {name}, R2)
    <3>1. \A x \in Refs : f.row[x].on => R2[x] = f.row[x]
      BY <2>5, <2>6, <2>15, <2>18 DEF Differ
    <3>2. \A x \in Refs : R2[x].on => f.row[x].on
      BY <2>5, <2>6, <2>15, <2>18 DEF Differ
    <3>3. QED BY <2>12, <2>18, <3>1, <3>2 DEF Rep
  <2>20. live \in [Keys -> Nat] /\ sum \in [Keys -> Longs]
    BY <1>2 DEF Settled
  <2>21. /\ Tallied(R2, [live EXCEPT ![k] = @ - 1], [sum EXCEPT ![k] = (@ - R[s].n) % LongMod])
         /\ live[k] - 1 \in Nat
    BY <2>1, <2>14, <2>15, <2>16, <2>18, <2>20, TallyDel
  <2>22. live' \in [Keys -> Nat] /\ sum' \in [Keys -> Longs] /\ Tallied(R2, live', sum')
    <3>1. fn.row[s].n \in Longs
      BY <1>3, <2>1 DEF Files, Rows, Recs
    <3>2. sum[k] - fn.row[s].n \in Int
      BY <2>20, <3>1, LongIsInt
    <3>3. (sum[k] - fn.row[s].n) % LongMod \in Longs
      BY <3>2, ReduceOnce
    <3>4. QED BY <2>9, <2>16, <2>20, <2>21, <3>3
  <2>23. ~ file'[name].reload
    BY <1>2, <1>3, <2>5, <2>6, <2>12 DEF Settled
  <2>24. Writes(k)
    <3>1. SameBut(R, R2, k)
      BY <2>16, <2>18 DEF SameBut, InRow, Differ
    <3>2. QED BY <1>1, <2>14, <2>19, <3>1 DEF Writes
  <2>25. QED BY <1>1, <1>2, <1>5, <2>11, <2>13, <2>19, <2>22, <2>23, <2>24 DEF Settled
<1>9. QED BY <1>7, <1>8

LEMMA WriterInv ==
  ASSUME CallsInv, NEW p \in Procs
  PROVE  /\ \A c \in Calls(p) : Put(p, c) \/ Del(p, c) => CallsInv'
         /\ RefPut(p) \/ RefDel(p) => CallsInv'
<1>1. ASSUME NEW k \in Keys, NEW n \in Longs, PutRec(p, k, n) \/ DelRec(p, k), Outside(p)
      PROVE  CallsInv'
  <2>1. readers = {}
    BY <1>1 DEF PutRec, DelRec
  <2>2. Settled'
    BY <1>1, PutRecSettled, DelRecSettled
  <2>3. QED BY <1>1, <2>1, <2>2, SettledInv
<1>2. ASSUME NEW c \in Calls(p), Put(p, c) \/ Del(p, c) PROVE CallsInv'
  <2>1. c.key \in Keys /\ c.n \in Longs
    BY CallIs
  <2>2. (PutRec(p, c.key, c.n) \/ DelRec(p, c.key)) /\ Outside(p)
    BY <1>2 DEF Put, Del, Outside
  <2>3. QED BY <1>1, <2>1, <2>2
<1>3. ASSUME RefPut(p) \/ RefDel(p) PROVE CallsInv'
  <2>1. call[p] \in Calls(p)
    BY <1>3 DEF RefPut, RefDel, CallsInv, Where
  <2>2. call[p].key \in Keys /\ call[p].n \in Longs
    BY <2>1, CallIs
  <2>3. PICK k \in Keys : k = call[p].key
    BY <2>2
  <2>4. PICK n \in Longs : n = call[p].n
    BY <2>2
  <2>5. (PutRec(p, k, n) \/ DelRec(p, k)) /\ Outside(p)
    BY <1>3, <2>3, <2>4 DEF RefPut, RefDel, Done, Outside
  <2>6. QED BY <1>1, <2>3, <2>4, <2>5
<1>4. QED BY <1>2, <1>3

-----------------------------------------------------------------------------
(* The theorems. *)

LEMMA CallsInit ==
  ASSUME Init
  PROVE  CallsInv
<1>1. /\ readers = {} /\ name = 1 /\ 1 \in Inodes
      /\ file \in [Inodes -> Files] /\ (\A i \in Inodes : file[i] = NewFile)
      /\ \A p \in Procs : map[p] = 0 /\ old[p] = 0 /\ slot[p] = 0 /\ pc[p] = "idle" /\ call[p] = Idle
  BY NewFileIs, InodesAre DEF Init
<1>2. Types
  BY <1>1, InodesAre, LongModIs DEF Init, Types
<1>3. Where
  BY <1>1 DEF Where, Inside, Shrinking
<1>4. Maps
  <2>1. ~ file[1].reload
    BY <1>1, NewFileIs
  <2>2. QED BY <1>1, <2>1 DEF Maps
<1>5. Found
  BY <1>1 DEF Found, Shrinking
<1>6. Held
  <2>1. Cur = {1}
    BY <1>1 DEF Cur
  <2>2. PICK R : R = [s \in Refs |-> NoRec]
    OBVIOUS
  <2>3. R \in Rows /\ \A s \in Refs : ~ R[s].on
    BY <2>2, NewFileIs DEF Rows
  <2>4. \A s \in Refs : ~ file[1].row[s].on
    BY <1>1, NewFileIs
  <2>5. Rep(file, {1}, R)
    BY <2>3, <2>4 DEF Rep
  <2>6. ASSUME NEW k \in Keys
        PROVE  Cardinality(InRow(R, k)) = live[k] /\ SumOf(R, InRow(R, k)) % LongMod = sum[k]
    <3>1. InRow(R, k) = {} /\ live[k] = 0 /\ sum[k] = 0
      BY <2>3 DEF InRow, Init
    <3>2. Cardinality({}) = 0 /\ SumOf(R, {}) = 0
      BY FS_EmptySet, SumStep
    <3>3. 0 % LongMod = 0
      BY LongModIs
    <3>4. QED BY <3>1, <3>2, <3>3
  <2>7. QED BY <2>1, <2>5, <2>6 DEF Held, Tallied
<1>7. QED BY <1>2, <1>3, <1>4, <1>5, <1>6 DEF CallsInv

LEMMA CallsStep ==
  ASSUME GetsAlone, CallsInv, [Next]_vars
  PROVE  CallsInv'
<1>1. CASE UNCHANGED vars
  <2>1. /\ UNCHANGED <<readers, name, file, map, pc, call>>
        /\ UNCHANGED <<slot, old, val, live, sum>>
    BY <1>1 DEF vars
  <2>2. Types' /\ Where' /\ Found'
    BY <2>1 DEF CallsInv, Types, Where, Found
  <2>3. Maps'
    BY <2>1 DEF CallsInv, Maps
  <2>4. Held'
    BY <2>1, CurKept, HeldKept DEF CallsInv
  <2>5. QED BY <2>2, <2>3, <2>4 DEF CallsInv
<1>2. CASE Next
  <2>1. PICK p \in Procs :
          \/ \E c \in Calls(p) : LockReader(p, c) \/ Put(p, c) \/ Del(p, c)
          \/ Map(p) \/ Look(p) \/ CopyVal(p) \/ AtomAdd(p) \/ UnlockReader(p)
          \/ Unlink(p) \/ Create(p) \/ Remap(p) \/ Move(p) \/ EndShrink(p)
          \/ RefPut(p) \/ RefDel(p)
    BY <1>2 DEF Next
  <2>2. CASE \E c \in Calls(p) : LockReader(p, c) \/ Put(p, c) \/ Del(p, c)
    BY <2>2, LockReaderInv, WriterInv
  <2>3. CASE Map(p) \/ Look(p) \/ CopyVal(p)
    BY <2>3, MapInv, LookInv, CopyValInv
  <2>4. CASE AtomAdd(p) \/ UnlockReader(p)
    BY <2>4, AtomAddInv, UnlockReaderInv
  <2>5. CASE Unlink(p) \/ Create(p) \/ Remap(p)
    BY <2>5, UnlinkInv, CreateInv, RemapInv
  <2>6. CASE Move(p) \/ EndShrink(p)
    BY <2>6, MoveInv, EndShrinkInv
  <2>7. CASE RefPut(p) \/ RefDel(p)
    BY <2>7, WriterInv
  <2>8. QED BY <2>1, <2>2, <2>3, <2>4, <2>5, <2>6, <2>7
<1>3. QED BY <1>1, <1>2

(* The inductive invariant of the calls under the reader lock: the records *)
(* of a row are spread over the current file and the one that              *)
(* shf_tab_shrink takes them from, each record in one of the two, and a    *)
(* mapping of any other file sees the tab_size of 1.                       *)
THEOREM CallsInvariant == GetsAlone => (Spec => []CallsInv)
<1> SUFFICES ASSUME GetsAlone PROVE Spec => []CallsInv
  OBVIOUS
<1>1. Init => CallsInv
  BY CallsInit
<1>2. CallsInv /\ [Next]_vars => CallsInv'
  BY CallsStep
<1>3. QED BY <1>1, <1>2, PTL DEF Spec

(* No assertion of SHF_GET_TAB_MMAP or of shf_tab_shrink fails: whoever    *)
(* maps the table finds its file under its name.                           *)
THEOREM CallsNobodyDies == GetsAlone => (Spec => []NobodyDies)
<1> SUFFICES ASSUME GetsAlone PROVE Spec => []NobodyDies
  OBVIOUS
<1>1. CallsInv => NobodyDies
  BY DEF CallsInv, Where, NobodyDies
<1>2. Spec => []CallsInv
  BY CallsInvariant
<1>3. QED BY <1>1, <1>2, PTL

(* shf_find_key_internal under the reader lock finds a key if and only if  *)
(* a record of it is stored, when it leaves the lock as much as when it    *)
(* looked.                                                                 *)
THEOREM CallsGetsFindStored == GetsAlone => (Spec => []GetsFindStored)
<1> SUFFICES ASSUME GetsAlone PROVE Spec => []GetsFindStored
  OBVIOUS
<1>1. CallsInv => GetsFindStored
  BY DEF CallsInv, Found, GetsFindStored
<1>2. Spec => []CallsInv
  BY CallsInvariant
<1>3. QED BY <1>1, <1>2, PTL

(* No put, delete, atomic add or shrink loses a record or an addend: the   *)
(* table holds for every key what the calls amount to, modulo 2^64.        *)
THEOREM CallsNothingLost == GetsAlone => (Spec => []NothingLost)
<1> SUFFICES ASSUME GetsAlone PROVE Spec => []NothingLost
  OBVIOUS
<1>1. ASSUME CallsInv PROVE NothingLost
  <2> SUFFICES ASSUME \A p \in Procs : pc[p] \notin {"create", "remap", "move", "dead"}, NEW k \in Keys
               PROVE  /\ Cardinality(Matches(file[name], k)) = live[k]
                      /\ MapThenSumSet(LAMBDA s : file[name].row[s].n, Matches(file[name], k)) % LongMod
                           = sum[k]
    BY DEF NothingLost
  <2>1. Quiet
    BY DEF Quiet, Shrinking
  <2>2. name \in Inodes /\ Cur = {name}
    BY <1>1, <2>1, QuietTab DEF CallsInv
  <2>3. PICK R : Rep(file, {name}, R) /\ Tallied(R, live, sum)
    BY <1>1, <2>2 DEF CallsInv, Held
  <2>4. PICK S : S = InRow(R, k)
    OBVIOUS
  <2>5. /\ Matches(file[name], k) = S /\ R \in Rows
        /\ \A s \in Refs : file[name].row[s].on => R[s] = file[name].row[s]
        /\ \A s \in Refs : R[s].on <=> file[name].row[s].on
    BY <1>1, <2>2, <2>3, <2>4, QuietRow DEF CallsInv, Rep
  <2>6. IsFiniteSet(S) /\ S \subseteq Refs
    BY <2>4, <2>5, RowFinite
  <2>7. \A s \in S : file[name].row[s].n = R[s].n
    BY <2>4, <2>5 DEF InRow
  <2>8. PICK f : f = file[name]
    OBVIOUS
  <2>9. SumOf(f.row, S) = SumOf(R, S)
    <3>1. PICK r : r = f.row
      OBVIOUS
    <3>2. \A s \in S : r[s].n = R[s].n
      BY <2>7, <2>8, <3>1
    <3>3. QED BY <2>6, <3>1, <3>2, SumSame
  <2>10. MapThenSumSet(LAMBDA s : f.row[s].n, S) = SumOf(R, S)
    BY <2>9, SumIs
  <2>11. Cardinality(S) = live[k] /\ SumOf(R, S) % LongMod = sum[k]
    BY <2>3, <2>4 DEF Tallied
  <2>12. QED BY <2>5, <2>8, <2>10, <2>11
<1>2. Spec => []CallsInv
  BY CallsInvariant
<1>3. QED BY <1>1, <1>2, PTL

-----------------------------------------------------------------------------
(* Counts of references (shf_add_key_val). *)

(* A key that a process counts is changed by no other process. *)
CountsAlone ==
  \A p, q \in Procs : p # q =>
    \A c \in Calls(p), d \in Calls(q) : c.op = "add" /\ d.key = c.key => d.op = "get"

(* The ref that a search for k comes across first. *)
First(s, k, R) == s \in InRow(R, k) /\ \A x \in InRow(R, k) : s <= x

(* p has counted down to zero, and has not deleted the key yet. *)
Due(p) ==
  \/ pc[p] = "refdel"
  \/ pc[p] = "unlock" /\ call[p].op = "add" /\ slot[p] # 0 /\ val[p] = 0

(* The record p has counted is the one that its delete will find.          *)
ZeroAt(p, R) ==
  /\ pc[p] = "act" /\ call[p].op = "add" => First(slot[p], call[p].key, R)
  /\ Due(p) => \E s : First(s, call[p].key, R) /\ R[s].n = 0

ZeroInv ==
  \A p \in Procs :
    /\ pc[p] \in {"refput", "refdel"} => call[p].op = "add"
    /\ \A R : Rep(file, Cur, R) => ZeroAt(p, R)

LEMMA MinLeast ==
  ASSUME NEW T, T \subseteq Nat, NEW d \in T, \A e \in T : d <= e
  PROVE  Min(T) = d
<1>1. Min(T) \in T /\ \A e \in T : Min(T) <= e
  BY DEF Min
<1>2. Min(T) <= d /\ d <= Min(T) /\ Min(T) \in Nat /\ d \in Nat
  BY <1>1
<1>3. QED BY <1>2

(* All rows that stand for the same records have them in the same refs.    *)
LEMMA RepOnce ==
  ASSUME NEW F, NEW C, NEW R, NEW R2, Rep(F, C, R), Rep(F, C, R2), NEW k
  PROVE  InRow(R2, k) = InRow(R, k) /\ \A x \in InRow(R, k) : R2[x] = R[x]
<1>1. ASSUME NEW x \in Refs, R[x].on PROVE R2[x] = R[x]
  BY <1>1 DEF Rep
<1>2. ASSUME NEW x \in Refs, R2[x].on PROVE R2[x] = R[x]
  BY <1>2 DEF Rep
<1>3. QED BY <1>1, <1>2 DEF InRow

LEMMA ZeroSame ==
  ASSUME NEW R, NEW R2, NEW p \in Procs, ZeroAt(p, R),
         pc'[p] = "act" => pc[p] = "act" /\ slot'[p] = slot[p],
         Due(p)' => Due(p), pc'[p] = "act" \/ Due(p)' => call'[p] = call[p],
         InRow(R2, call[p].key) = InRow(R, call[p].key),
         \A x \in InRow(R, call[p].key) : R2[x] = R[x]
  PROVE  ZeroAt(p, R2)'
<1>1. \A s : First(s, call[p].key, R) => First(s, call[p].key, R2) /\ R2[s] = R[s]
  BY DEF First
<1>2. pc'[p] = "act" /\ call'[p].op = "add" => First(slot'[p], call'[p].key, R2)
  BY <1>1 DEF ZeroAt
<1>3. Due(p)' => \E s : First(s, call'[p].key, R2) /\ R2[s].n = 0
  BY <1>1 DEF ZeroAt
<1>4. QED BY <1>2, <1>3 DEF ZeroAt, First

(* What a step is for a process that is not the one that writes.           *)
Passive(p) ==
  /\ pc'[p] = "act" => pc[p] = "act" /\ slot'[p] = slot[p]
  /\ Due(p)' => Due(p)
  /\ pc'[p] = "act" \/ Due(p)' => call'[p] = call[p]
  /\ pc'[p] \in {"refput", "refdel"} => call'[p].op = "add"

LEMMA StaysZero ==
  ASSUME ZeroInv, Stays, \A p \in Procs : Passive(p)
  PROVE  ZeroInv'
<1> SUFFICES ASSUME NEW p \in Procs, NEW R2, Rep(file', Cur', R2) PROVE ZeroAt(p, R2)'
  BY DEF ZeroInv, Passive
<1>1. PICK R : Rep(file, Cur, R) /\ Rep(file', Cur', R)
  BY DEF Stays
<1>2. InRow(R2, call[p].key) = InRow(R, call[p].key) /\ \A x \in InRow(R, call[p].key) : R2[x] = R[x]
  BY <1>1, RepOnce
<1>3. ZeroAt(p, R)
  BY <1>1 DEF ZeroInv
<1>4. QED BY <1>2, <1>3, ZeroSame DEF Passive

LEMMA Bystanders ==
  ASSUME CallsInv, ZeroInv, NEW p \in Procs,
         \A q \in Procs : q # p => /\ pc'[q] = pc[q] /\ call'[q] = call[q]
                                   /\ slot'[q] = slot[q] /\ val'[q] = val[q]
  PROVE  \A q \in Procs : q # p => Passive(q)
BY DEF Passive, Due, ZeroInv

(* The steps of reading, shrinking and leaving the lock write no count.    *)
LEMMA ReadZero ==
  ASSUME CallsInv, ZeroInv, NEW p \in Procs,
         \/ \E c \in Calls(p) : LockReader(p, c)
         \/ Map(p) \/ CopyVal(p) \/ UnlockReader(p) \/ Remap(p)
  PROVE  Stays /\ \A q \in Procs : Passive(q)
<1>1. UNCHANGED <<name, file, old>>
  BY DEF LockReader, Map, CopyVal, UnlockReader, Remap
<1>2. Stays
  <2>1. PICK R : Rep(file, Cur, R)
    BY DEF CallsInv, Held
  <2>2. Cur' = Cur
    BY <1>1, CurKept
  <2>3. QED BY <1>1, <2>1, <2>2 DEF Stays
<1>3. \A q \in Procs : q # p => pc'[q] = pc[q] /\ call'[q] = call[q] /\ slot'[q] = slot[q] /\ val'[q] = val[q]
  BY DEF LockReader, Map, CopyVal, UnlockReader, Remap, GoOrDie, CallsInv, Types
<1>4. Passive(p)
  <2>1. CASE \E c \in Calls(p) : LockReader(p, c)
    BY <2>1 DEF LockReader, Passive, Due, CallsInv, Types
  <2>2. CASE Map(p) \/ Remap(p)
    BY <2>2 DEF Map, Remap, GoOrDie, Passive, Due, CallsInv, Types
  <2>3. CASE CopyVal(p)
    <3>1. pc'[p] \in {"unlink", "unlock"} /\ call'[p].op = "get"
      BY <2>3 DEF CopyVal, CallsInv, Types
    <3>2. QED BY <3>1 DEF Passive, Due
  <2>4. CASE UnlockReader(p)
    <3>1. PICK l : l = CASE call[p].op = "add" /\ slot[p] = 0 -> "refput"
                         [] call[p].op = "add" /\ slot[p] # 0 /\ val[p] = 0 -> "refdel"
                         [] OTHER -> "idle"
      OBVIOUS
    <3>2. /\ l \in {"refput", "refdel", "idle"}
          /\ l = "refdel" => slot[p] # 0 /\ val[p] = 0
          /\ l # "idle" => call[p].op = "add"
      BY <3>1
    <3>3. /\ pc[p] = "unlock" /\ pc' = [pc EXCEPT ![p] = l]
          /\ call' = [call EXCEPT ![p] = IF l = "idle" THEN Idle ELSE call[p]]
      BY <2>4, <3>1 DEF UnlockReader
    <3>4. pc'[p] = l /\ (l # "idle" => call'[p] = call[p])
      BY <3>3 DEF CallsInv, Types
    <3>5. QED BY <3>2, <3>3, <3>4 DEF Passive, Due
  <2>5. QED BY <2>1, <2>2, <2>3, <2>4
<1>5. QED BY <1>2, <1>3, <1>4, Bystanders

LEMMA ShrinkZero ==
  ASSUME CallsInv, ZeroInv, GetsAlone, NEW p \in Procs,
         Unlink(p) \/ Create(p) \/ Move(p) \/ EndShrink(p)
  PROVE  Stays /\ \A q \in Procs : Passive(q)
<1>1. Stays
  BY UnlinkInv, CreateInv, MoveInv, EndShrinkInv
<1>2. \A q \in Procs : q # p => pc'[q] = pc[q] /\ call'[q] = call[q] /\ slot'[q] = slot[q] /\ val'[q] = val[q]
  BY DEF Unlink, Create, Move, EndShrink, GoOrDie, CallsInv, Types
<1>3. pc'[p] \in Shrinking \cup {"unlock", "dead"} /\ call'[p] = call[p] /\ call[p].op = "get"
  BY DEF Unlink, Create, Move, EndShrink, GoOrDie, CallsInv, Types, Where, Shrinking
<1>4. Passive(p)
  BY <1>3 DEF Passive, Due, Shrinking
<1>5. QED BY <1>1, <1>2, <1>4, Bystanders

(* A search finds the first one. *)
LEMMA LookZero ==
  ASSUME CallsInv, ZeroInv, GetsAlone, NEW p \in Procs, Look(p)
  PROVE  ZeroInv'
<1>0. pc[p] = "look" /\ Quiet
  <2>1. pc[p] = "look" /\ pc[p] \in Inside /\ pc[p] \notin Shrinking
    BY DEF Look, Inside, Shrinking
  <2>2. QED BY <2>1, QuietInside DEF CallsInv
<1>1. name \in Inodes /\ map[p] = name /\ Cur = {name}
  BY <1>0, QuietTab DEF CallsInv, Maps
<1>2. PICK k : k = call[p].key
  OBVIOUS
<1>3. PICK s : s = FirstMatch(file[name], k)
  OBVIOUS
<1>4. /\ slot' = [slot EXCEPT ![p] = s] /\ pc' = [pc EXCEPT ![p] = IF s = 0 THEN "unlock" ELSE "act"]
      /\ UNCHANGED <<readers, name, file, map, call, old, val, live, sum>>
  BY <1>1, <1>2, <1>3 DEF Look
<1>5. /\ pc'[p] = (IF s = 0 THEN "unlock" ELSE "act") /\ slot'[p] = s
      /\ \A q \in Procs : q # p => pc'[q] = pc[q] /\ slot'[q] = slot[q]
  BY <1>4 DEF CallsInv, Types
<1>6. Cur' = Cur
  BY <1>4, CurKept
<1> SUFFICES ASSUME NEW q \in Procs, NEW R, Rep(file, Cur, R)
             PROVE  (pc'[q] \in {"refput", "refdel"} => call'[q].op = "add") /\ ZeroAt(q, R)'
  BY <1>4, <1>6 DEF ZeroInv
<1>7. CASE q = p
  <2>1. ~ Due(p)'
    BY <1>4, <1>5 DEF Due
  <2>2. ASSUME s # 0 PROVE First(s, k, R)
    <3>1. Matches(file[name], k) = InRow(R, k)
      BY <1>1, QuietRow DEF CallsInv
    <3>2. InRow(R, k) \subseteq Nat /\ s = Min(InRow(R, k)) /\ InRow(R, k) # {}
      BY <1>3, <2>2, <3>1, RefsAre DEF FirstMatch, InRow
    <3>3. s \in InRow(R, k)
      BY <3>2, MinIn
    <3>4. \A x \in InRow(R, k) : s <= x
      BY <3>2, LeastOf DEF Min
    <3>5. QED BY <3>3, <3>4 DEF First
  <2>3. pc'[p] = "act" => First(slot'[p], call'[p].key, R)
    BY <1>2, <1>4, <1>5, <2>2
  <2>4. QED BY <1>5, <1>7, <2>1, <2>3 DEF ZeroAt, First
<1>8. CASE q # p
  <2>1. Passive(q)
    BY <1>4, <1>5, <1>8, Bystanders
  <2>2. ZeroAt(q, R)
    BY DEF ZeroInv
  <2>3. QED BY <2>1, <2>2, ZeroSame DEF Passive
<1>9. QED BY <1>7, <1>8

(* Who counts down to zero has the key's first record before it. *)
LEMMA AtomAddZero ==
  ASSUME CallsInv, ZeroInv, GetsAlone, CountsAlone, NEW p \in Procs, AtomAdd(p)
  PROVE  ZeroInv'
<1>0. pc[p] = "act" /\ Quiet /\ call[p] \in Calls(p) /\ call[p].op \in {"atom", "add"}
  <2>1. pc[p] = "act" /\ pc[p] \in Inside /\ pc[p] \notin Shrinking /\ call[p].op \in {"atom", "add"}
    BY DEF AtomAdd, Inside, Shrinking
  <2>2. QED BY <2>1, QuietInside DEF CallsInv, Where
<1>1. name \in Inodes /\ Cur = {name}
  BY <1>0, QuietTab DEF CallsInv
<1>2. PICK k : k = call[p].key
  OBVIOUS
<1>3. PICK R, R2, s : /\ Rep(file, {name}, R) /\ Rep(file', {name}, R2) /\ Differ(R, R2, s)
                      /\ s = slot[p] /\ s \in InRow(R, k) /\ s \in InRow(R2, k)
                      /\ R2[s].n = val'[p]
  BY <1>2, AtomAddInv DEF Adding
<1>4. /\ UNCHANGED <<name, call, slot, old>> /\ pc'[p] = "unlock"
      /\ \A q \in Procs : q # p => pc'[q] = pc[q] /\ val'[q] = val[q]
  BY DEF AtomAdd, CallsInv, Types
<1>5. Cur' = {name}
  BY <1>1, <1>4, CurKept
<1>6. \A o : InRow(R2, o) = InRow(R, o)
  BY <1>3 DEF InRow, Differ
<1>7. ASSUME NEW q \in Procs PROVE (pc'[q] \in {"refput", "refdel"} => call'[q].op = "add") /\ ZeroAt(q, R2)'
  <2>1. CASE q = p
    <3>1. Due(p)' => First(s, k, R2) /\ R2[s].n = 0
      <4>1. SUFFICES ASSUME Due(p)' PROVE First(s, k, R2) /\ R2[s].n = 0
        OBVIOUS
      <4>2. call[p].op = "add" /\ val'[p] = 0
        BY <1>4, <4>1 DEF Due
      <4>3. First(s, k, R)
        BY <1>0, <1>1, <1>2, <1>3, <4>2 DEF ZeroInv, ZeroAt
      <4>4. First(s, k, R2)
        BY <1>6, <4>3 DEF First
      <4>5. QED BY <1>3, <4>2, <4>4
    <3>2. QED BY <1>2, <1>4, <2>1, <3>1 DEF ZeroAt, First
  <2>2. CASE q # p
    <3>1. Passive(q)
      BY <1>4, <2>2, Bystanders
    <3>2. ZeroAt(q, R)
      BY <1>1, <1>3 DEF ZeroInv
    <3>3. CASE (pc'[q] = "act" /\ call'[q].op = "add") \/ Due(q)'
      <4>1. call[q].op = "add" /\ call[q] \in Calls(q)
        BY <1>4, <2>2, <3>1, <3>3 DEF Passive, Due, ZeroInv, CallsInv, Where, Inside
      <4>2. call[q].key # k
        BY <1>0, <1>2, <2>2, <4>1 DEF CountsAlone
      <4>3. \A x \in InRow(R, call[q].key) : R2[x] = R[x]
        BY <1>3, <4>2 DEF InRow, Differ
      <4>4. QED BY <1>6, <3>1, <3>2, <4>3, ZeroSame DEF Passive
    <3>4. CASE ~((pc'[q] = "act" /\ call'[q].op = "add") \/ Due(q)')
      BY <3>1, <3>4 DEF ZeroAt, Passive
    <3>5. QED BY <3>3, <3>4
  <2>3. QED BY <2>1, <2>2
<1>8. ASSUME NEW q \in Procs, NEW R3, Rep(file', Cur', R3) PROVE ZeroAt(q, R3)'
  <2>1. \A o : InRow(R3, o) = InRow(R2, o) /\ \A x \in InRow(R2, o) : R3[x] = R2[x]
    BY <1>3, <1>5, <1>8, RepOnce
  <2>2. QED BY <1>7, <2>1 DEF ZeroAt, First
<1>9. QED BY <1>7, <1>8 DEF ZeroInv

(* Puts and deletes of one process, of keys that others do not count.      *)
LEMMA WriteZero ==
  ASSUME CallsInv, CallsInv', ZeroInv, NEW p \in Procs, NEW k, readers = {}, Writes(k), Outside(p),
         pc'[p] = "idle",
         \A q \in Procs : q # p => \A c \in Calls(q) : c.op = "add" => c.key # k
  PROVE  ZeroInv'
<1>1. /\ Quiet /\ (\A q \in Procs : pc[q] \notin Inside) /\ Cur = {name}
      /\ \A q \in Procs : old[q] = 0
  BY QuietOut, QuietTab DEF CallsInv
<1>2. /\ \A q \in Procs : q # p => pc'[q] = pc[q] /\ call'[q] = call[q]
      /\ UNCHANGED <<slot, old, val>>
  BY DEF Outside, CallsInv, Types
<1>3. Cur' = {name'}
  <2>1. \A q \in Procs : old'[q] = 0 /\ pc'[q] # "create"
    BY <1>1, <1>2 DEF Inside
  <2>2. name' # 0
    BY <2>1 DEF CallsInv, Maps
  <2>3. QED BY <2>1, <2>2 DEF Cur
<1>4. PICK R, R2 : Rep(file, Cur, R) /\ Rep(file', Cur', R2) /\ SameBut(R, R2, k)
  BY <1>1, <1>3 DEF Writes
<1>5. ASSUME NEW q \in Procs PROVE (pc'[q] \in {"refput", "refdel"} => call'[q].op = "add") /\ ZeroAt(q, R2)'
  <2>1. CASE q = p
    BY <2>1 DEF ZeroAt, Due
  <2>2. CASE q # p
    <3>1. Passive(q) /\ pc'[q] = pc[q] /\ pc'[q] \notin Inside
      BY <1>1, <1>2, <2>2, Bystanders
    <3>2. ZeroAt(q, R)
      BY <1>4 DEF ZeroInv
    <3>3. CASE pc'[q] = "refdel"
      <4>1. call[q].op = "add" /\ call[q] \in Calls(q)
        <5>1. pc[q] = "refdel"
          BY <3>1, <3>3
        <5>2. QED BY <5>1 DEF ZeroInv, CallsInv, Where
      <4>2. call[q].key # k
        BY <2>2, <4>1
      <4>3. /\ InRow(R2, call[q].key) = InRow(R, call[q].key)
            /\ \A x \in InRow(R, call[q].key) : R2[x] = R[x]
        BY <1>4, <4>2 DEF SameBut
      <4>4. QED BY <3>1, <3>2, <4>3, ZeroSame DEF Passive
    <3>4. CASE pc'[q] # "refdel"
      <4>1. ZeroAt(q, R2)'
        BY <3>1, <3>4 DEF ZeroAt, Due, Inside
      <4>2. QED BY <3>1, <4>1 DEF Passive
    <3>5. QED BY <3>3, <3>4
  <2>3. QED BY <2>1, <2>2
<1>6. ASSUME NEW q \in Procs, NEW R3, Rep(file', Cur', R3) PROVE ZeroAt(q, R3)'
  <2>1. \A o : InRow(R3, o) = InRow(R2, o) /\ \A x \in InRow(R2, o) : R3[x] = R2[x]
    BY <1>4, <1>6, RepOnce
  <2>2. QED BY <1>5, <2>1 DEF ZeroAt, First
<1>7. QED BY <1>5, <1>6 DEF ZeroInv

LEMMA WriterZero ==
  ASSUME CallsInv, ZeroInv, GetsAlone, CountsAlone, NEW p \in Procs,
         \/ \E c \in Calls(p) : Put(p, c) \/ Del(p, c)
         \/ RefPut(p) \/ RefDel(p)
  PROVE  ZeroInv'
<1>1. CallsInv'
  BY WriterInv
<1>2. ASSUME NEW c \in Calls(p), c.op # "get", NEW k \in Keys, k = c.key, NEW n \in Longs,
             PutRec(p, k, n) \/ DelRec(p, k), Outside(p), pc'[p] = "idle"
      PROVE  ZeroInv'
  <2>1. readers = {} /\ Writes(k)
    BY <1>2, PutRecSettled, DelRecSettled DEF PutRec, DelRec
  <2>2. \A q \in Procs : q # p => \A d \in Calls(q) : d.op = "add" => d.key # k
    BY <1>2 DEF CountsAlone
  <2>3. QED BY <1>1, <1>2, <2>1, <2>2, WriteZero
<1>3. ASSUME NEW c \in Calls(p), Put(p, c) \/ Del(p, c) PROVE ZeroInv'
  <2>1. c.op # "get" /\ c.key \in Keys /\ c.n \in Longs /\ pc[p] = "idle" /\ pc' = pc
    BY <1>3, CallIs DEF Put, Del
  <2>2. (PutRec(p, c.key, c.n) \/ DelRec(p, c.key)) /\ Outside(p)
    BY <1>3 DEF Put, Del, Outside
  <2>3. QED BY <1>2, <2>1, <2>2
<1>4. ASSUME RefPut(p) \/ RefDel(p) PROVE ZeroInv'
  <2>1. call[p] \in Calls(p) /\ pc'[p] = "idle"
    BY <1>4 DEF RefPut, RefDel, Done, CallsInv, Where, Types
  <2>2. call[p].key \in Keys /\ call[p].n \in Longs
    BY <2>1, CallIs
  <2>3. (PutRec(p, call[p].key, call[p].n) \/ DelRec(p, call[p].key)) /\ Outside(p)
    BY <1>4 DEF RefPut, RefDel, Done, Outside
  <2>4. call[p].op # "get"
    BY <1>4 DEF RefPut, RefDel, ZeroInv
  <2>5. QED BY <1>2, <2>1, <2>2, <2>3, <2>4
<1>5. QED BY <1>3, <1>4

LEMMA ZeroStep ==
  ASSUME GetsAlone, CountsAlone, CallsInv, ZeroInv, [Next]_vars
  PROVE  ZeroInv'
<1>1. CASE UNCHANGED vars
  <2>1. UNCHANGED <<name, file, pc, call, slot, old, val>>
    BY <1>1 DEF vars
  <2>2. PICK R : Rep(file, Cur, R)
    BY DEF CallsInv, Held
  <2>3. Cur' = Cur
    BY <2>1, CurKept
  <2>4. Stays
    BY <2>1, <2>2, <2>3 DEF Stays
  <2>5. \A p \in Procs : Passive(p)
    BY <2>1 DEF Passive, Due, ZeroInv
  <2>6. QED BY <2>4, <2>5, StaysZero
<1>2. CASE Next
  <2>1. PICK p \in Procs :
          \/ \E c \in Calls(p) : LockReader(p, c) \/ Put(p, c) \/ Del(p, c)
          \/ Map(p) \/ Look(p) \/ CopyVal(p) \/ AtomAdd(p) \/ UnlockReader(p)
          \/ Unlink(p) \/ Create(p) \/ Remap(p) \/ Move(p) \/ EndShrink(p)
          \/ RefPut(p) \/ RefDel(p)
    BY <1>2 DEF Next
  <2>2. CASE \/ \E c \in Calls(p) : LockReader(p, c)
             \/ Map(p) \/ CopyVal(p) \/ UnlockReader(p) \/ Remap(p)
    BY <2>2, ReadZero, StaysZero
  <2>3. CASE Unlink(p) \/ Create(p) \/ Move(p) \/ EndShrink(p)
    BY <2>3, ShrinkZero, StaysZero
  <2>4. CASE Look(p) \/ AtomAdd(p)
    BY <2>4, LookZero, AtomAddZero
  <2>5. CASE \/ \E c \in Calls(p) : Put(p, c) \/ Del(p, c)
             \/ RefPut(p) \/ RefDel(p)
    BY <2>5, WriterZero
  <2>6. QED BY <2>1, <2>2, <2>3, <2>4, <2>5
<1>3. QED BY <1>1, <1>2

(* The delete that a count of zero leads to finds that record. *)
LEMMA RefDelAtZero ==
  ASSUME CallsInv, ZeroInv, NEW p \in Procs, RefDel(p)
  PROVE  sum' = sum
<1>1. pc[p] = "refdel" /\ DelRec(p, call[p].key) /\ readers = {} /\ call[p] \in Calls(p)
  BY DEF RefDel, DelRec, CallsInv, Where
<1>2. PICK k \in Keys : k = call[p].key
  BY <1>1, CallIs
<1>3. name \in Inodes /\ Cur = {name} /\ GetTab(p) = name
  BY <1>1, QuietOut, QuietTab DEF CallsInv
<1>4. PICK R : Rep(file, {name}, R)
  BY <1>3 DEF CallsInv, Held
<1>5. PICK s : First(s, k, R) /\ R[s].n = 0
  BY <1>1, <1>2, <1>3, <1>4 DEF ZeroInv, ZeroAt, Due
<1>6. Matches(file[name], k) = InRow(R, k) /\ \A x \in InRow(R, k) : R[x] = file[name].row[x]
  <2>1. /\ Matches(file[name], k) = InRow(R, k)
        /\ \A x \in Refs : file[name].row[x].on => R[x] = file[name].row[x]
        /\ \A x \in Refs : R[x].on <=> file[name].row[x].on
    BY <1>3, <1>4, QuietRow DEF CallsInv
  <2>2. QED BY <2>1 DEF InRow
<1>7. FirstMatch(file[name], k) = s /\ s # 0
  <2>1. InRow(R, k) \subseteq Nat /\ s \in InRow(R, k) /\ \A x \in InRow(R, k) : s <= x
    BY <1>5, RefsAre DEF First, InRow
  <2>2. Min(InRow(R, k)) = s
    BY <2>1, MinLeast
  <2>3. s # 0
    BY <2>1, RefsAre DEF InRow
  <2>4. QED BY <1>6, <2>1, <2>2, <2>3 DEF FirstMatch
<1>8. file[name].row[s].n = 0
  BY <1>5, <1>6 DEF First
<1>9. sum' = [sum EXCEPT ![k] = (@ - 0) % LongMod]
  BY <1>1, <1>2, <1>3, <1>7, <1>8 DEF DelRec
<1>10. (sum[k] - 0) % LongMod = sum[k]
  <2>1. sum[k] \in Longs
    BY DEF CallsInv, Types
  <2>2. PICK x \in Longs : x = sum[k]
    BY <2>1
  <2>3. x \in Int /\ x - 0 \in Int
    BY LongIsInt
  <2>4. LongMod * 0 = 0
    BY LongModIs
  <2>5. x - 0 = LongMod * 0 + x
    BY <2>3, <2>4
  <2>6. 0 \in Int
    OBVIOUS
  <2>7. (x - 0) % LongMod = x
    BY <2>3, <2>5, <2>6, Remainder
  <2>8. QED BY <2>2, <2>7
<1>11. QED BY <1>9, <1>10 DEF CallsInv, Types

(* "come here if new reference count is zero, so delete key": what         *)
(* shf_add_key_val deletes has a count of zero, for any number of          *)
(* processes that count keys of their own.                                 *)
THEOREM CallsDeleteAtZero == GetsAlone /\ CountsAlone => (Spec => DeletesAtZero)
<1> SUFFICES ASSUME GetsAlone, CountsAlone PROVE Spec => DeletesAtZero
  OBVIOUS
<1>1. Init => ZeroInv
  BY DEF Init, ZeroInv, ZeroAt, Due
<1>2. CallsInv /\ ZeroInv /\ [Next]_vars => ZeroInv'
  BY ZeroStep
<1>3. ASSUME CallsInv, ZeroInv, [Next]_vars
      PROVE  [\A p \in Procs : pc[p] = "refdel" /\ pc'[p] = "idle" /\ live' # live => sum' = sum]_vars
  <2> SUFFICES ASSUME Next, NEW p \in Procs, pc[p] = "refdel", pc'[p] = "idle", live' # live
               PROVE  sum' = sum
    BY <1>3
  <2>1. PICK q \in Procs :
          \/ \E c \in Calls(q) : LockReader(q, c) \/ Put(q, c) \/ Del(q, c)
          \/ Map(q) \/ Look(q) \/ CopyVal(q) \/ AtomAdd(q) \/ UnlockReader(q)
          \/ Unlink(q) \/ Create(q) \/ Remap(q) \/ Move(q) \/ EndShrink(q)
          \/ RefPut(q) \/ RefDel(q)
    BY DEF Next
  <2>2. CASE \/ \E c \in Calls(q) : LockReader(q, c)
             \/ Map(q) \/ Look(q) \/ CopyVal(q) \/ AtomAdd(q) \/ UnlockReader(q)
             \/ Unlink(q) \/ Create(q) \/ Remap(q) \/ Move(q) \/ EndShrink(q)
    BY <2>2 DEF LockReader, Map, Look, CopyVal, AtomAdd, UnlockReader, Unlink, Create, Remap,
                Move, EndShrink
  <2>3. CASE \E c \in Calls(q) : Put(q, c) \/ Del(q, c)
    BY <2>3 DEF Put, Del
  <2>4. CASE RefPut(q)
    <3>1. q # p /\ pc' = [pc EXCEPT ![q] = "idle"]
      BY <2>4 DEF RefPut, Done
    <3>2. QED BY <3>1 DEF CallsInv, Types
  <2>5. CASE RefDel(q)
    BY <1>3, <2>5, RefDelAtZero
  <2>6. QED BY <2>1, <2>2, <2>3, <2>4, <2>5
<1>4. Spec => []CallsInv
  BY CallsInvariant
<1>5. QED BY <1>1, <1>2, <1>3, <1>4, PTL DEF Spec, DeletesAtZero
=============================================================================
