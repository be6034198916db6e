--------------------------- MODULE ShfQueueProofs ---------------------------
(***************************************************************************)
(* Proofs about the zero-copy queues, for any number of processes, queues  *)
(* and items and any sizes of the batches: every list can be walked from   *)
(* its tail to its head, no item is in two places, and read along their    *)
(* links the lists are the sequences of BatchQueue.                        *)
(***************************************************************************)
EXTENDS ShfQueue, FiniteSetTheorems, NaturalsInduction, SequenceTheorems, TLAPS

Links == [Items -> [last : Items \cup {None}, next : Items \cup {None}]]
ListRec == [head : Items \cup {None}, tail : Items \cup {None}, size : Nat]

-----------------------------------------------------------------------------
(* Lists and the sequences they stand for. *)

ItemsOf(w) == {w[n] : n \in 1 .. Len(w)}
Once(w) == \A n, k \in 1 .. Len(w) : w[n] = w[k] => n = k
Leads(links, w) == \A n \in 1 .. Len(w) - 1 : links[w[n]].next = w[n + 1]

(* The links lead through the items w of the list l, from tail to head.    *)
Holds(links, l, w) ==
  /\ l \in ListRec /\ w \in Seq(Items) /\ Len(w) = l.size
  /\ Once(w) /\ Leads(links, w)
  /\ l.size = 0 => l = Empty
  /\ l.size > 0 => l.tail = w[1] /\ l.head = w[l.size] /\ links[l.head].next = None

(* What Walk does, with any links. *)
Follows(links, l, f) ==
  f = [n \in 1 .. l.size |-> IF n = 1 THEN l.tail ELSE links[f[n - 1]].next]

WalkIn(links, l) ==
  LET item == CHOOSE f : Follows(links, l, f) IN [n \in 1 .. l.size |-> item[n]]

LEMMA WalkUses ==
  ASSUME NEW l
  PROVE  Walk(l) = WalkIn(qiids, l)
BY DEF Walk, WalkIn, Follows

LEMMA NoneIsNoItem == None \notin Items /\ Items \subseteq Nat
BY QueueAssumption DEF None, Items

(* Of the numbers of a set there is a least one. *)
LEMMA LeastOf ==
  ASSUME NEW T, T \subseteq Nat, T # {}
  PROVE  \E d \in T : \A e \in T : d <= e
<1> DEFINE R == {e \in Nat \X Nat : e[1] < e[2]}
<1>1. IsWellFoundedOn(R, Nat)
  BY NatLessThanWellFounded DEF OpToRel
<1>2. PICK d \in T : \A e \in T : ~(<<e, d>> \in R)
  <2> HIDE DEF R
  <2> QED BY <1>1, WFMin
<1>3. \A e \in Nat, f \in Nat : e < f => <<e, f>> \in R
  OBVIOUS
<1> HIDE DEF R
<1>4. \A e \in T : ~(e < d)
  BY <1>2, <1>3, Zenon
<1>5. QED BY <1>4

LEMMA FollowsOnce ==
  ASSUME NEW links, NEW l, l.size \in Nat, NEW f, NEW g, Follows(links, l, f), Follows(links, l, g)
  PROVE  f = g
<1> DEFINE T == {n \in 1 .. l.size : f[n] # g[n]}
<1>1. CASE T = {}
  <2>1. \A n \in 1 .. l.size : f[n] = g[n]
    BY <1>1
  <2>2. f = [n \in 1 .. l.size |-> f[n]] /\ g = [n \in 1 .. l.size |-> g[n]]
    BY DEF Follows
  <2>3. QED BY <2>1, <2>2
<1>2. CASE T # {}
  <2>1. T \subseteq Nat
    OBVIOUS
  <2>2. PICK d \in T : \A e \in T : d <= e
    <3> HIDE DEF T
    <3> QED BY <1>2, <2>1, LeastOf
  <2>3. d \in 1 .. l.size /\ f[d] # g[d]
    OBVIOUS
  <2>4. d # 1
    BY <2>3 DEF Follows
  <2>5. d - 1 \in 1 .. l.size /\ d - 1 \notin T
    BY <2>2, <2>3, <2>4
  <2>6. f[d - 1] = g[d - 1]
    BY <2>5
  <2>7. f[d] = links[f[d - 1]].next /\ g[d] = links[g[d - 1]].next
    BY <2>3, <2>4 DEF Follows
  <2>8. QED BY <2>3, <2>6, <2>7
<1>3. QED BY <1>1, <1>2

LEMMA WalkIs ==
  ASSUME NEW links, NEW l, NEW w, Holds(links, l, w)
  PROVE  WalkIn(links, l) = w
<1>1. l.size \in Nat /\ w \in Seq(Items) /\ Len(w) = l.size
  BY DEF Holds, ListRec
<1>2. w = [n \in 1 .. l.size |-> w[n]]
  BY <1>1, LenProperties
<1>3. ASSUME NEW n \in 1 .. l.size
      PROVE  w[n] = IF n = 1 THEN l.tail ELSE links[w[n - 1]].next
  <2>1. CASE n = 1
    BY <1>1, <2>1 DEF Holds
  <2>2. CASE n # 1
    <3>1. n - 1 \in 1 .. Len(w) - 1 /\ (n - 1) + 1 = n
      BY <1>1, <2>2
    <3>2. QED BY <2>2, <3>1 DEF Holds, Leads
  <2>3. QED BY <2>1, <2>2
<1>4. Follows(links, l, w)
  BY <1>2, <1>3 DEF Follows
<1>5. PICK item : item = CHOOSE f : Follows(links, l, f)
  OBVIOUS
<1>6. Follows(links, l, item)
  BY <1>4, <1>5
<1>7. item = w
  BY <1>1, <1>4, <1>6, FollowsOnce
<1>8. QED BY <1>2, <1>5, <1>7 DEF WalkIn

LEMMA ItemsConcat ==
  ASSUME NEW w \in Seq(Items), NEW v \in Seq(Items)
  PROVE  ItemsOf(w \o v) = ItemsOf(w) \cup ItemsOf(v)
<1>1. ItemsOf(w) = Range(w) /\ ItemsOf(v) = Range(v)
  BY RangeEquality DEF ItemsOf
<1>2. w \o v \in Seq(Items)
  BY ConcatProperties
<1>3. ItemsOf(w \o v) = Range(w \o v)
  BY <1>2, RangeEquality DEF ItemsOf
<1>4. QED BY <1>1, <1>3, RangeConcatenation

(* What is written elsewhere leaves a list alone. *)
LEMMA HoldsKept ==
  ASSUME NEW links, NEW links2, NEW l, NEW w, Holds(links, l, w),
         \A i \in ItemsOf(w) : links2[i].next = links[i].next
  PROVE  Holds(links2, l, w)
<1>1. w \in Seq(Items) /\ Len(w) = l.size /\ l.size \in Nat
  BY DEF Holds, ListRec
<1>2. Leads(links2, w)
  <2>1. ASSUME NEW n \in 1 .. Len(w) - 1 PROVE links2[w[n]].next = w[n + 1]
    <3>1. w[n] \in ItemsOf(w)
      BY <1>1 DEF ItemsOf
    <3>2. QED BY <3>1 DEF Holds, Leads
  <2>2. QED BY <2>1 DEF Leads
<1>3. l.size > 0 => l.head \in ItemsOf(w)
  BY <1>1 DEF Holds, ItemsOf
<1>4. QED BY <1>2, <1>3 DEF Holds

LEMMA SpliceHolds ==
  ASSUME NEW links \in Links, NEW l, NEW w, Holds(links, l, w),
         NEW v \in Seq(Items), Len(v) > 0, Once(v), Leads(links, v),
         ItemsOf(v) \cap ItemsOf(w) = {},
         NEW x, x = Splice([l |-> l, links |-> links], v[1], v[Len(v)], Len(v))
  PROVE  /\ x.links \in Links
         /\ Holds(x.links, x.l, w \o v)
         /\ \A i \in Items : i \notin ItemsOf(v) /\ i \notin ItemsOf(w) => x.links[i].next = links[i].next
<1>1. PICK N \in Nat : N = Len(v) /\ N > 0
  BY LenProperties
<1>2. PICK L \in Nat : L = Len(w) /\ L = l.size
  BY DEF Holds, ListRec
<1>3. /\ w \in Seq(Items) /\ \A n \in 1 .. L : w[n] \in Items
      /\ \A n \in 1 .. N : v[n] \in Items
  BY <1>1, <1>2, ElementOfSeq DEF Holds
<1>4. PICK t \in Items : t = v[1]
  BY <1>1, <1>3
<1>5. PICK h \in Items : h = v[N]
  BY <1>1, <1>3
<1>6. l.head = None <=> L = 0
  <2>1. CASE L = 0
    BY <1>2, <2>1 DEF Holds, Empty
  <2>2. CASE L # 0
    BY <1>2, <1>3, <2>2, NoneIsNoItem DEF Holds
  <2>3. QED BY <2>1, <2>2
<1>7. L > 0 => l.head = w[L] /\ l.head \in Items /\ l.tail = w[1] /\ links[l.head].next = None
  BY <1>2, <1>3 DEF Holds
<1>8. \A n \in 1 .. L, k \in 1 .. N : w[n] # v[k]
  BY <1>1, <1>2 DEF ItemsOf
<1>9. l \in ListRec
  BY DEF Holds
<1>10. /\ x.l = [head |-> h, tail |-> IF L = 0 THEN t ELSE l.tail, size |-> L + N]
       /\ x.links = IF L = 0
                    THEN [[links EXCEPT ![t].last = l.head] EXCEPT ![h].next = None]
                    ELSE [[[links EXCEPT ![t].last = l.head] EXCEPT ![h].next = None]
                            EXCEPT ![l.head].next = t]
  BY <1>1, <1>2, <1>4, <1>5, <1>6 DEF Splice
<1>11. PICK one : one = [links EXCEPT ![t].last = l.head]
  OBVIOUS
<1>12. one \in Links /\ \A i \in Items : one[i].next = links[i].next
  BY <1>9, <1>11 DEF Links, ListRec
<1>13. PICK two : two = [one EXCEPT ![h].next = None]
  OBVIOUS
<1>14. two \in Links /\ two[h].next = None /\ \A i \in Items : i # h => two[i].next = links[i].next
  BY ZenonT(40), <1>12, <1>13 DEF Links
<1>15. /\ x.links \in Links
       /\ \A i \in Items : i # h /\ (L > 0 => i # l.head) => x.links[i].next = links[i].next
       /\ L > 0 => x.links[l.head].next = t
       /\ (L > 0 => h # l.head) => x.links[h].next = None
  <2>1. CASE L = 0
    <3>1. x.links = two /\ ~(L > 0)
      BY <1>10, <1>11, <1>13, <2>1
    <3>2. QED BY <1>14, <3>1
  <2>2. CASE L # 0
    <3>1. x.links = [two EXCEPT ![l.head].next = t]
      BY <1>10, <1>11, <1>13, <2>2
    <3>2. PICK hd \in Items : hd = l.head
      BY <1>7, <2>2
    <3>3. /\ x.links \in Links /\ x.links[hd].next = t
          /\ \A i \in Items : i # hd => x.links[i] = two[i]
      <4>1. PICK three : three = [two EXCEPT ![hd].next = t]
        OBVIOUS
      <4>2. three \in Links /\ three[hd].next = t /\ \A i \in Items : i # hd => three[i] = two[i]
        BY <1>14, <4>1 DEF Links
      <4>3. x.links = three
        BY <3>1, <3>2, <4>1
      <4>4. QED BY <4>2, <4>3
    <3>4. QED BY <1>14, <2>2, <3>2, <3>3
  <2>3. QED BY <2>1, <2>2
<1>16. L > 0 => h # l.head
  BY <1>1, <1>5, <1>7, <1>8
<1>17. PICK u : u = w \o v
  OBVIOUS
<1>18. /\ u \in Seq(Items) /\ Len(u) = L + N
       /\ \A n \in 1 .. L : u[n] = w[n]
       /\ \A n \in L + 1 .. L + N : u[n] = v[n - L]
  <2>1. /\ u \in Seq(Items) /\ Len(u) = L + N
        /\ \A i \in 1 .. L + N : u[i] = IF i <= L THEN w[i] ELSE v[i - L]
    <3>1. /\ w \o v \in Seq(Items) /\ Len(w \o v) = Len(w) + Len(v)
          /\ \A i \in 1 .. Len(w) + Len(v) : (w \o v)[i] = IF i <= Len(w) THEN w[i] ELSE v[i - Len(w)]
      BY <1>3, ConcatProperties
    <3>2. QED BY <1>1, <1>2, <1>17, <3>1
  <2>2. /\ \A n \in 1 .. L : n \in 1 .. L + N /\ n <= L
        /\ \A n \in L + 1 .. L + N : n \in 1 .. L + N /\ ~(n <= L)
    OBVIOUS
  <2>3. QED BY <2>1, <2>2
<1>19. Once(u)
  <2>1. ASSUME NEW n \in 1 .. L + N, NEW k \in 1 .. L + N, u[n] = u[k] PROVE n = k
    <3>1. CASE n <= L /\ k <= L
      BY <1>2, <1>18, <2>1, <3>1 DEF Holds, Once
    <3>2. CASE n > L /\ k > L
      <4>1. n - L \in 1 .. N /\ k - L \in 1 .. N /\ u[n] = v[n - L] /\ u[k] = v[k - L]
        BY <1>18, <3>2
      <4>2. n - L = k - L
        BY <1>1, <2>1, <4>1 DEF Once
      <4>3. QED BY <4>2
    <3>3. CASE (n <= L /\ k > L) \/ (n > L /\ k <= L)
      BY <1>8, <1>18, <2>1, <3>3
    <3>4. QED BY <3>1, <3>2, <3>3
  <2>2. QED BY <1>18, <2>1 DEF Once
<1>20. Leads(x.links, u)
  <2>1. ASSUME NEW n \in 1 .. (L + N) - 1 PROVE x.links[u[n]].next = u[n + 1]
    <3>1. CASE n < L
      <4>0. n \in 1 .. L /\ n + 1 \in 1 .. L /\ n \in 1 .. L - 1 /\ L \in 1 .. L /\ n # L
        BY <3>1
      <4>1. u[n] = w[n] /\ u[n + 1] = w[n + 1] /\ w[n] \in Items
        BY <1>3, <1>18, <4>0
      <4>2. w[n] # h
        BY <1>1, <1>5, <1>8, <3>1
      <4>3. w[n] # l.head
        <5>1. w[n] = w[L] => n = L
          BY <1>2, <4>0 DEF Holds, Once
        <5>2. QED BY <1>7, <4>0, <5>1
      <4>4. links[w[n]].next = w[n + 1]
        BY <1>2, <4>0 DEF Holds, Leads
      <4>5. QED BY <1>15, <4>1, <4>2, <4>3, <4>4
    <3>2. CASE n = L
      <4>1. u[n] = l.head /\ u[n + 1] = v[1]
        BY <1>1, <1>7, <1>18, <3>2
      <4>2. QED BY <1>4, <1>15, <3>2, <4>1
    <3>3. CASE n > L
      <4>1. PICK k \in 1 .. N - 1 : k = n - L
        BY <3>3
      <4>2. u[n] = v[k] /\ u[n + 1] = v[k + 1] /\ v[k] \in Items
        <5>1. n \in L + 1 .. L + N /\ n + 1 \in L + 1 .. L + N /\ (n + 1) - L = k + 1
          BY <3>3, <4>1
        <5>2. QED BY <1>3, <1>18, <4>1, <5>1
      <4>3. v[k] # h
        BY <1>1, <1>5, <4>1 DEF Once
      <4>4. L > 0 => v[k] # l.head
        BY <1>7, <1>8, <4>1
      <4>5. links[v[k]].next = v[k + 1]
        BY <1>1, <4>1 DEF Leads
      <4>6. QED BY <1>15, <4>2, <4>3, <4>4, <4>5
    <3>4. QED BY <3>1, <3>2, <3>3
  <2>2. QED BY <1>18, <2>1 DEF Leads
<1>21. Holds(x.links, x.l, u)
  <2>1. x.l \in ListRec
    <3>1. PICK tl \in Items : x.l = [head |-> h, tail |-> tl, size |-> L + N]
      <4>1. CASE L = 0
        BY <1>10, <4>1
      <4>2. CASE L # 0
        <5>1. l.tail \in Items
          BY <1>3, <1>7, <4>2
        <5>2. QED BY <1>10, <4>2, <5>1
      <4>3. QED BY <4>1, <4>2
    <3>2. QED BY <3>1 DEF ListRec
  <2>2. /\ x.l.size = L + N /\ x.l.size > 0 /\ x.l.head = u[L + N]
        /\ x.l.tail = u[1] /\ x.links[x.l.head].next = None
    <3>1. x.l.size = L + N /\ x.l.size > 0 /\ x.l.head = h /\ x.l.tail = IF L = 0 THEN t ELSE l.tail
      BY <1>1, <1>10
    <3>2. u[L + N] = h
      <4>1. L + N \in L + 1 .. L + N /\ (L + N) - L = N
        BY <1>1
      <4>2. QED BY <1>5, <1>18, <4>1
    <3>3. u[1] = IF L = 0 THEN t ELSE l.tail
      <4>1. CASE L = 0
        <5>1. 1 \in L + 1 .. L + N /\ 1 - L = 1
          BY <1>1, <4>1
        <5>2. QED BY <1>4, <1>18, <4>1, <5>1
      <4>2. CASE L # 0
        BY <1>7, <1>18, <4>2
      <4>3. QED BY <4>1, <4>2
    <3>4. QED BY <1>15, <1>16, <3>1, <3>2, <3>3
  <2>3. QED BY SMTT(40), <1>18, <1>19, <1>20, <2>1, <2>2 DEF Holds
<1>22. h \in ItemsOf(v) /\ (L > 0 => l.head \in ItemsOf(w))
  BY <1>1, <1>2, <1>5, <1>7 DEF ItemsOf
<1>23. QED BY <1>15, <1>17, <1>21, <1>22

(* The first n items of a list and the list of the others. *)
Cut(l, w, n, l2, v, u) ==
  /\ n \in 1 .. l.size
  /\ l.size = n => l2 = Empty
  /\ l.size # n => l2 = [head |-> l.head, tail |-> w[n + 1], size |-> l.size - n]
  /\ v = SubSeq(w, 1, n) /\ u = SubSeq(w, n + 1, Len(w))

Parts(links, l, w, n, l2, v, u) ==
  /\ Holds(links, l2, u)
  /\ v \in Seq(Items) /\ Len(v) = n /\ v[1] = l.tail /\ v[n] = w[n]
  /\ Once(v) /\ Leads(links, v)
  /\ ItemsOf(v) \cap ItemsOf(u) = {} /\ ItemsOf(v) \cup ItemsOf(u) = ItemsOf(w)

LEMMA RestHolds ==
  ASSUME NEW links, NEW l, NEW w, Holds(links, l, w),
         NEW n, NEW l2, NEW v, NEW u, Cut(l, w, n, l2, v, u)
  PROVE  Parts(links, l, w, n, l2, v, u)
<1>0. /\ n \in 1 .. l.size
      /\ l.size = n => l2 = Empty
      /\ l.size # n => l2 = [head |-> l.head, tail |-> w[n + 1], size |-> l.size - n]
      /\ v = SubSeq(w, 1, n) /\ u = SubSeq(w, n + 1, Len(w))
  BY DEF Cut
<1>1. PICK L \in Nat : L = Len(w) /\ L = l.size
  BY DEF Holds, ListRec
<1>2. /\ n \in Nat /\ n > 0 /\ n <= L /\ L > 0 /\ l \in ListRec
      /\ \A i \in 1 .. L : w[i] \in Items
      /\ l.tail = w[1] /\ l.head = w[L] /\ links[l.head].next = None
      /\ \A i, j \in 1 .. L : w[i] = w[j] => i = j
      /\ \A i \in 1 .. L - 1 : links[w[i]].next = w[i + 1]
  BY SMTT(40), <1>0, <1>1, ElementOfSeq DEF Holds, Once, Leads
<1>2a. n \in Nat /\ n > 0 /\ n <= L
  BY <1>0, <1>1
<1>3. /\ v \in Seq(Items) /\ Len(v) = n /\ \A i \in 1 .. n : v[i] = w[i]
  <2>1. \A i \in 1 .. n : w[i] \in Items
    BY <1>2
  <2>2. /\ v \in Seq(Items) /\ Len(v) = IF 1 <= n THEN n - 1 + 1 ELSE 0
        /\ \A i \in 1 .. n - 1 + 1 : v[i] = w[1 + i - 1]
    BY <1>0, <1>2a, <2>1, SubSeqProperties
  <2>3. n - 1 + 1 = n /\ \A i \in 1 .. n : 1 + i - 1 = i
    BY <1>2a
  <2>4. QED BY <1>2a, <2>2, <2>3
<1>4. /\ u \in Seq(Items) /\ Len(u) = L - n /\ \A i \in 1 .. L - n : u[i] = w[n + i] /\ n + i \in 1 .. L
  <2>1. \A i \in n + 1 .. L : w[i] \in Items
    BY <1>2
  <2>2. /\ u \in Seq(Items) /\ Len(u) = IF n + 1 <= L THEN L - (n + 1) + 1 ELSE 0
        /\ \A i \in 1 .. L - (n + 1) + 1 : u[i] = w[(n + 1) + i - 1]
    BY <1>0, <1>1, <1>2a, <2>1, SubSeqProperties
  <2>3. L - (n + 1) + 1 = L - n /\ \A i \in 1 .. L - n : (n + 1) + i - 1 = n + i /\ n + i \in 1 .. L
    BY <1>2
  <2>4. QED BY <1>2a, <2>2, <2>3
<1>5. v[1] = l.tail /\ v[n] = w[n]
  BY <1>2, <1>3
<1>6. Once(v) /\ Leads(links, v)
  <2>1. \A i \in 1 .. n : i \in 1 .. L
    BY <1>2
  <2>2. Once(v)
    BY <1>2, <1>3, <2>1 DEF Once
  <2>3. \A i \in 1 .. n - 1 : i \in 1 .. L - 1 /\ i \in 1 .. n /\ i + 1 \in 1 .. n
    BY <1>2
  <2>4. Leads(links, v)
    BY <1>2, <1>3, <2>3 DEF Leads
  <2>5. QED BY <2>2, <2>4
<1>7. Once(u)
  <2>1. ASSUME NEW i \in 1 .. L - n, NEW j \in 1 .. L - n, u[i] = u[j] PROVE i = j
    <3>1. n + i = n + j
      BY <1>2, <1>4, <2>1
    <3>2. QED BY <1>2a, <2>1, <3>1
  <2>2. QED BY <1>4, <2>1 DEF Once
<1>8. Leads(links, u)
  <2>1. ASSUME NEW i \in 1 .. (L - n) - 1 PROVE links[u[i]].next = u[i + 1]
    <3>1. i \in 1 .. L - n /\ i + 1 \in 1 .. L - n /\ n + i \in 1 .. L - 1 /\ n + (i + 1) = (n + i) + 1
      BY <1>2a
    <3>2. u[i] = w[n + i] /\ u[i + 1] = w[(n + i) + 1]
      BY <1>4, <3>1
    <3>3. QED BY <1>2, <3>1, <3>2
  <2>2. QED BY <1>4, <2>1 DEF Leads
<1>9. Holds(links, l2, u)
  <2>1. CASE n = L
    <3>1. l2 = Empty /\ l2.size = 0 /\ l2 \in ListRec
      BY <1>0, <1>1, <2>1 DEF Empty, ListRec
    <3>2. QED BY <1>4, <1>7, <1>8, <2>1, <3>1 DEF Holds
  <2>2. CASE n # L
    <3>1. l2 = [head |-> l.head, tail |-> w[n + 1], size |-> L - n]
      BY <1>0, <1>1, <2>2
    <3>2. L - n \in Nat /\ L - n > 0 /\ n + 1 \in 1 .. L /\ 1 \in 1 .. L - n /\ L - n \in 1 .. L - n
          /\ n + (L - n) = L
      BY <1>2a, <2>2
    <3>3. l2 \in ListRec
      BY <1>2, <3>1, <3>2 DEF ListRec
    <3>4. u[1] = w[n + 1] /\ u[L - n] = w[L]
      BY <1>4, <3>2
    <3>5. /\ l2.size = L - n /\ l2.tail = w[n + 1] /\ l2.head = l.head
      BY <3>1
    <3>6. /\ l2.size > 0 /\ l2.size # 0 /\ Len(u) = l2.size /\ l2.tail = u[1] /\ l2.head = u[l2.size]
          /\ links[l2.head].next = None
      BY <1>2, <1>4, <3>2, <3>4, <3>5
    <3>7. QED BY <1>4, <1>7, <1>8, <3>3, <3>6 DEF Holds
  <2>3. QED BY <2>1, <2>2
<1>10. ItemsOf(v) \cap ItemsOf(u) = {}
  <2>1. ASSUME NEW i \in 1 .. n, NEW j \in 1 .. L - n PROVE v[i] # u[j]
    <3>1. i \in 1 .. L /\ n + j \in 1 .. L /\ i # n + j
      BY <1>2, <1>4
    <3>2. v[i] = w[i] /\ u[j] = w[n + j]
      BY <1>3, <1>4
    <3>3. QED BY <1>2, <3>1, <3>2
  <2>2. ASSUME NEW e, e \in ItemsOf(v), e \in ItemsOf(u) PROVE FALSE
    <3>1. PICK i \in 1 .. n : e = v[i]
      BY <1>3, <2>2 DEF ItemsOf
    <3>2. PICK j \in 1 .. L - n : e = u[j]
      BY <1>4, <2>2 DEF ItemsOf
    <3>3. QED BY <2>1, <3>1, <3>2
  <2>3. QED BY <2>2
<1>11. ItemsOf(v) \cup ItemsOf(u) = ItemsOf(w)
  <2>1. \A i \in 1 .. n : i \in 1 .. L
    BY <1>2
  <2>2. ItemsOf(v) \cup ItemsOf(u) \subseteq ItemsOf(w)
    <3>1. \A i \in 1 .. L : w[i] \in ItemsOf(w)
      BY <1>1 DEF ItemsOf
    <3>2. ItemsOf(v) \subseteq ItemsOf(w)
      BY <1>3, <2>1, <3>1 DEF ItemsOf
    <3>3. ItemsOf(u) \subseteq ItemsOf(w)
      BY <1>4, <3>1 DEF ItemsOf
    <3>4. QED BY <3>2, <3>3
  <2>3. ASSUME NEW i \in 1 .. L PROVE w[i] \in ItemsOf(v) \cup ItemsOf(u)
    <3>1. CASE i <= n
      <4>1. i \in 1 .. n
        BY <1>2a, <3>1
      <4>2. QED BY <1>3, <4>1 DEF ItemsOf
    <3>2. CASE i > n
      <4>1. i - n \in 1 .. L - n /\ n + (i - n) = i
        BY <1>2, <3>2
      <4>2. QED BY <1>4, <4>1 DEF ItemsOf
    <3>3. QED BY <1>2, <3>1, <3>2
  <2>4. QED BY <1>1, <2>2, <2>3 DEF ItemsOf
<1>12. QED BY <1>3, <1>5, <1>6, <1>9, <1>10, <1>11 DEF Parts

LEMMA EmptyHolds == \A links : Holds(links, Empty, <<>>)
<1> TAKE links
<1>1. Empty \in ListRec /\ Empty.size = 0
  BY DEF Empty, ListRec
<1>2. <<>> \in Seq(Items) /\ Len(<<>>) = 0
  BY EmptySeq
<1>3. Once(<<>>) /\ Leads(links, <<>>)
  BY <1>2 DEF Once, Leads
<1>4. QED BY <1>1, <1>2, <1>3 DEF Holds

LEMMA EmptyItems == ItemsOf(<<>>) = {}
BY EmptySeq DEF ItemsOf

(* A list of one item. *)
LEMMA OneItem ==
  ASSUME NEW i \in Items, NEW links
  PROVE  /\ <<i>> \in Seq(Items) /\ Len(<<i>>) = 1 /\ <<i>>[1] = i
         /\ Once(<<i>>) /\ Leads(links, <<i>>) /\ ItemsOf(<<i>>) = {i}
<1>1. <<i>> \in Seq(Items) /\ Len(<<i>>) = 1 /\ <<i>>[1] = i
  OBVIOUS
<1>2. Once(<<i>>) /\ Leads(links, <<i>>)
  BY <1>1 DEF Once, Leads
<1>3. ItemsOf(<<i>>) = {i}
  BY <1>1 DEF ItemsOf
<1>4. QED BY <1>1, <1>2, <1>3

-----------------------------------------------------------------------------
(* The inductive invariant: there are sequences W, one for each list, such *)
(* that the links of the list lead through them, and no two lists or hands *)
(* have an item in common.                                                 *)
Hands == {<<"own", p>> : p \in Procs}

In(W, ow, x) == IF x[1] = "own" THEN ow[x[2]] ELSE ItemsOf(W[x])

Good(L, links, ow, W) ==
  /\ W \in [Places -> Seq(Items)]
  /\ \A x \in Places : Holds(links, L[x], W[x])
  /\ \A x, y \in Places \cup Hands : x # y => In(W, ow, x) \cap In(W, ow, y) = {}

AtPlaces == [x \in Places |-> ListAt(x)]

QueueType ==
  /\ qids \in [Qids -> ListRec]
  /\ push \in [Procs -> [Qids -> ListRec]] /\ pull \in [Procs -> [Qids -> ListRec]]
  /\ qiids \in Links
  /\ own \in [Procs -> SUBSET Items]
  /\ pc \in [Procs -> {"idle", "lock", "flush", "pull"}]
  /\ pull_qid \in [Procs -> Qids \cup {None}]
  /\ lock \in {{}} \cup {{p} : p \in Procs}

Pulling == \A p \in Procs : pc[p] = "pull" => pull_qid[p] \in Qids

QueueInv == QueueType /\ Pulling /\ \E W : Good(AtPlaces, qiids, own, W)

(* The items M go from a to b, and nothing else changes. *)
Moved(L, links, ow, W, L2, links2, ow2, W2, a, b, M) ==
  /\ a \in Places \cup Hands /\ b \in Places \cup Hands /\ a # b
  /\ W2 \in [Places -> Seq(Items)]
  /\ \A y \in Places \ {a, b} : L2[y] = L[y] /\ W2[y] = W[y] /\ Holds(links2, L[y], W[y])
  /\ \A y \in Places \cap {a, b} : Holds(links2, L2[y], W2[y])
  /\ \A p \in Procs : <<"own", p>> \notin {a, b} => ow2[p] = ow[p]
  /\ M \subseteq In(W, ow, a)
  /\ In(W2, ow2, a) = In(W, ow, a) \ M
  /\ In(W2, ow2, b) = In(W, ow, b) \cup M

LEMMA PlacesAre ==
  /\ \A q \in Qids : /\ <<"queue", q>> \in Places /\ <<"queue", q>>[1] = "queue"
                     /\ <<"queue", q>>[2] = q
  /\ \A p \in Procs, q \in Qids :
       /\ <<"push", p, q>> \in Places /\ <<"push", p, q>>[1] = "push"
       /\ <<"push", p, q>>[2] = p /\ <<"push", p, q>>[3] = q
       /\ <<"pull", p, q>> \in Places /\ <<"pull", p, q>>[1] = "pull"
       /\ <<"pull", p, q>>[2] = p /\ <<"pull", p, q>>[3] = q
  /\ \A p \in Procs : /\ <<"own", p>> \in Hands /\ <<"own", p>>[1] = "own" /\ <<"own", p>>[2] = p
                      /\ <<"own", p>> \notin Places
  /\ \A x \in Places : x[1] # "own"
BY DEF Places, Hands

LEMMA ListsApart ==
  ASSUME NEW L, NEW links, NEW ow, NEW W, Good(L, links, ow, W),
         NEW x \in Places, NEW y \in Places, x # y
  PROVE  ItemsOf(W[x]) \cap ItemsOf(W[y]) = {}
<1>1. In(W, ow, x) = ItemsOf(W[x]) /\ In(W, ow, y) = ItemsOf(W[y])
  BY PlacesAre DEF In
<1>2. In(W, ow, x) \cap In(W, ow, y) = {}
  BY DEF Good
<1>3. QED BY <1>1, <1>2

LEMMA MoveGood ==
  ASSUME NEW L, NEW links, NEW ow, NEW W, Good(L, links, ow, W),
         NEW L2, NEW links2, NEW ow2, NEW W2, NEW a, NEW b, NEW M,
         Moved(L, links, ow, W, L2, links2, ow2, W2, a, b, M)
  PROVE  Good(L2, links2, ow2, W2)
<1>1. \A x \in Places : Holds(links2, L2[x], W2[x])
  <2> SUFFICES ASSUME NEW x \in Places PROVE Holds(links2, L2[x], W2[x])
    OBVIOUS
  <2>1. CASE x \in {a, b}
    BY <2>1 DEF Moved
  <2>2. CASE x \notin {a, b}
    BY <2>2 DEF Moved
  <2>3. QED BY <2>1, <2>2
<1>2. \A x \in Places \cup Hands : x \notin {a, b} => In(W2, ow2, x) = In(W, ow, x)
  <2> SUFFICES ASSUME NEW x \in Places \cup Hands, x \notin {a, b} PROVE In(W2, ow2, x) = In(W, ow, x)
    OBVIOUS
  <2>1. CASE x \in Places
    <3>1. W2[x] = W[x] /\ x[1] # "own"
      BY <2>1, PlacesAre DEF Moved
    <3>2. QED BY <3>1 DEF In
  <2>2. CASE x \in Hands
    <3>1. PICK p \in Procs : x = <<"own", p>>
      BY <2>2 DEF Hands
    <3>2. ow2[p] = ow[p] /\ x[1] = "own" /\ x[2] = p
      BY <3>1, PlacesAre DEF Moved
    <3>3. QED BY <3>2 DEF In
  <2>3. QED BY <2>1, <2>2
<1>3. ASSUME NEW x \in Places \cup Hands, NEW y \in Places \cup Hands, x # y,
             NEW i, i \in In(W2, ow2, x), i \in In(W2, ow2, y)
      PROVE  FALSE
  <2>1. \A z \in Places \cup Hands, u \in Places \cup Hands :
          i \in In(W, ow, z) /\ i \in In(W, ow, u) => z = u
    BY DEF Good
  <2>2. /\ a \in Places \cup Hands /\ b \in Places \cup Hands /\ a # b
        /\ \A j \in M : j \in In(W, ow, a)
        /\ \A j \in In(W2, ow2, a) : j \in In(W, ow, a) /\ j \notin M
        /\ \A j \in In(W2, ow2, b) : j \in In(W, ow, b) \/ j \in M
    BY DEF Moved
  <2>3. QED BY <1>2, <1>3, <2>1, <2>2
<1>4. QED BY <1>1, <1>3 DEF Good, Moved

(* The chain v is appended to the list at b. *)
ChainOf(links, v) == v \in Seq(Items) /\ Len(v) > 0 /\ Once(v) /\ Leads(links, v)

Spliced(x, l, links, v) ==
  x = Splice([l |-> l, links |-> links], v[1], v[Len(v)], Len(v))

(* Lists that have no item of v or of the one v goes to are as they were.  *)
Extended(x, links, w0, v) ==
  /\ x.links \in Links
  /\ Holds(x.links, x.l, w0 \o v)
  /\ ItemsOf(w0 \o v) = ItemsOf(w0) \cup ItemsOf(v)
  /\ w0 \o v \in Seq(Items)
  /\ \A l, w : Holds(links, l, w) /\ ItemsOf(w) \cap ItemsOf(v) = {}
                 /\ ItemsOf(w) \cap ItemsOf(w0) = {}
               => Holds(x.links, l, w)

LEMMA SpliceInto ==
  ASSUME NEW L, NEW links \in Links, NEW ow, NEW W, Good(L, links, ow, W), NEW b \in Places,
         NEW v, ChainOf(links, v), ItemsOf(v) \cap ItemsOf(W[b]) = {},
         NEW x, Spliced(x, L[b], links, v)
  PROVE  Extended(x, links, W[b], v)
<1>1. Holds(links, L[b], W[b]) /\ W[b] \in Seq(Items)
  BY DEF Good
<1>2. /\ x.links \in Links
      /\ Holds(x.links, x.l, W[b] \o v)
      /\ \A i \in Items : i \notin ItemsOf(v) /\ i \notin ItemsOf(W[b])
                            => x.links[i].next = links[i].next
  BY <1>1, SpliceHolds DEF ChainOf, Spliced
<1>3. ASSUME NEW l, NEW w, Holds(links, l, w), ItemsOf(w) \cap ItemsOf(v) = {},
             ItemsOf(w) \cap ItemsOf(W[b]) = {}
      PROVE  Holds(x.links, l, w)
  <2>1. ItemsOf(w) \subseteq Items
    BY <1>3, ElementOfSeq DEF Holds, ItemsOf
  <2>2. \A i \in ItemsOf(w) : x.links[i].next = links[i].next
    BY <1>2, <1>3, <2>1
  <2>3. QED BY <1>3, <2>2, HoldsKept
<1>4. QED BY <1>1, <1>2, <1>3, ItemsConcat, ConcatProperties DEF ChainOf, Extended

LEMMA AtIs ==
  /\ \A q \in Qids : AtPlaces[<<"queue", q>>] = qids[q]
  /\ \A p \in Procs, q \in Qids : AtPlaces[<<"push", p, q>>] = push[p][q]
  /\ \A p \in Procs, q \in Qids : AtPlaces[<<"pull", p, q>>] = pull[p][q]
BY PlacesAre DEF AtPlaces, ListAt

LEMMA AtIsNext ==
  /\ \A q \in Qids : AtPlaces'[<<"queue", q>>] = qids'[q]
  /\ \A p \in Procs, q \in Qids : AtPlaces'[<<"push", p, q>>] = push'[p][q]
  /\ \A p \in Procs, q \in Qids : AtPlaces'[<<"pull", p, q>>] = pull'[p][q]
BY PlacesAre DEF AtPlaces, ListAt

LEMMA NamedAreQids == Named \subseteq Qids
BY QueueAssumption DEF Qids

-----------------------------------------------------------------------------
(* The steps. *)

LEMMA PushSound ==
  ASSUME QueueType, NEW p \in Procs, NEW q \in Qids, NEW i \in Items,
         NEW W, Good(AtPlaces, qiids, own, W), PushLocal(p, q, i), UNCHANGED <<qids, pull>>
  PROVE  /\ Good(AtPlaces', qiids', own', [W EXCEPT ![<<"push", p, q>>] = W[<<"push", p, q>>] \o <<i>>])
         /\ push' \in [Procs -> [Qids -> ListRec]] /\ qiids' \in Links
         /\ own' \in [Procs -> SUBSET Items]
<1>1. PICK b \in Places : b = <<"push", p, q>>
  BY PlacesAre
<1>2. PICK a \in Hands : a = <<"own", p>>
  BY PlacesAre
<1>3. PICK W2 : W2 = [W EXCEPT ![b] = W[b] \o <<i>>]
  OBVIOUS
<1>4. PICK x : x = Splice([l |-> AtPlaces[b], links |-> qiids], i, i, 1)
  OBVIOUS
<1>5. PICK v : v = <<i>>
  OBVIOUS
<1>6. /\ v \in Seq(Items) /\ Len(v) = 1 /\ Len(v) > 0 /\ v[1] = i /\ v[Len(v)] = i
      /\ Once(v) /\ Leads(qiids, v) /\ ItemsOf(v) = {i}
  BY <1>5, OneItem
<1>7. /\ AtPlaces[b] = push[p][q] /\ i \in own[p]
      /\ push' = [push EXCEPT ![p][q] = x.l] /\ qiids' = x.links
      /\ own' = [own EXCEPT ![p] = @ \ {i}]
      /\ qids' = qids /\ pull' = pull
  BY <1>1, <1>4, AtIs DEF PushLocal
<1>8. /\ a # b /\ In(W, own, a) = own[p] /\ In(W, own, b) = ItemsOf(W[b])
      /\ In(W2, own', a) = own'[p] /\ In(W2, own', b) = ItemsOf(W2[b])
  BY <1>1, <1>2, PlacesAre DEF In
<1>9. \A y \in Places : i \notin ItemsOf(W[y])
  <2> SUFFICES ASSUME NEW y \in Places PROVE i \notin ItemsOf(W[y])
    OBVIOUS
  <2>1. y # a /\ In(W, own, y) = ItemsOf(W[y])
    BY <1>2, PlacesAre DEF In
  <2>2. In(W, own, y) \cap In(W, own, a) = {}
    BY <2>1 DEF Good
  <2>3. QED BY <1>7, <1>8, <2>1, <2>2
<1>10. /\ x.links \in Links
       /\ Holds(x.links, x.l, W[b] \o v)
       /\ ItemsOf(W[b] \o v) = ItemsOf(W[b]) \cup ItemsOf(v)
       /\ W[b] \o v \in Seq(Items)
       /\ \A l, w : Holds(qiids, l, w) /\ ItemsOf(w) \cap ItemsOf(v) = {}
                      /\ ItemsOf(w) \cap ItemsOf(W[b]) = {}
                    => Holds(x.links, l, w)
  <2>1. Spliced(x, AtPlaces[b], qiids, v) /\ ChainOf(qiids, v)
    BY <1>4, <1>6 DEF Spliced, ChainOf
  <2>2. ItemsOf(v) \cap ItemsOf(W[b]) = {} /\ qiids \in Links
    BY <1>6, <1>9 DEF QueueType
  <2>3. Extended(x, qiids, W[b], v)
    BY <2>1, <2>2, SpliceInto
  <2>4. QED BY <2>3 DEF Extended
<1>11. x.l \in ListRec
  BY <1>10 DEF Holds
<1>12. /\ push' \in [Procs -> [Qids -> ListRec]] /\ push'[p][q] = x.l
       /\ \A o \in Procs, r \in Qids : (o # p \/ r # q) => push'[o][r] = push[o][r]
  BY <1>7, <1>11 DEF QueueType
<1>13. own' \in [Procs -> SUBSET Items] /\ own'[p] = own[p] \ {i} /\ \A o \in Procs : o # p => own'[o] = own[o]
  BY <1>7 DEF QueueType
<1>14. /\ W2 \in [Places -> Seq(Items)] /\ W2[b] = W[b] \o v /\ \A y \in Places : y # b => W2[y] = W[y]
  BY <1>3, <1>5, <1>10 DEF Good
<1>15. AtPlaces'[b] = x.l /\ \A y \in Places : y # b => AtPlaces'[y] = AtPlaces[y]
  <2>1. AtPlaces'[b] = x.l
    BY <1>1, <1>12, AtIsNext
  <2>2. ASSUME NEW y \in Places, y # b PROVE AtPlaces'[y] = AtPlaces[y]
    <3>1. ASSUME NEW r \in Qids, y = <<"queue", r>> PROVE AtPlaces'[y] = AtPlaces[y]
      BY <1>7, <3>1, AtIs, AtIsNext
    <3>2. ASSUME NEW o \in Procs, NEW r \in Qids, y = <<"push", o, r>> PROVE AtPlaces'[y] = AtPlaces[y]
      <4>1. o # p \/ r # q
        BY <1>1, <2>2, <3>2
      <4>2. QED BY <1>12, <3>2, <4>1, AtIs, AtIsNext
    <3>3. ASSUME NEW o \in Procs, NEW r \in Qids, y = <<"pull", o, r>> PROVE AtPlaces'[y] = AtPlaces[y]
      BY <1>7, <3>3, AtIs, AtIsNext
    <3>4. QED BY <3>1, <3>2, <3>3 DEF Places
  <2>3. QED BY <2>1, <2>2
<1>16. ASSUME NEW y \in Places, y # b PROVE Holds(qiids', AtPlaces[y], W[y])
  <2>1. Holds(qiids, AtPlaces[y], W[y]) /\ ItemsOf(W[y]) \cap ItemsOf(v) = {}
    BY <1>6, <1>9 DEF Good
  <2>2. ItemsOf(W[y]) \cap ItemsOf(W[b]) = {}
    BY <1>16, ListsApart
  <2>3. QED BY <1>7, <1>10, <2>1, <2>2
<1>17. Moved(AtPlaces, qiids, own, W, AtPlaces', qiids', own', W2, a, b, {i})
  <2>1. \A y \in Places \ {a, b} : AtPlaces'[y] = AtPlaces[y] /\ W2[y] = W[y] /\ Holds(qiids', AtPlaces[y], W[y])
    BY <1>14, <1>15, <1>16
  <2>2. \A y \in Places \cap {a, b} : Holds(qiids', AtPlaces'[y], W2[y])
    <3>1. a \notin Places
      BY <1>2, PlacesAre
    <3>2. Holds(qiids', AtPlaces'[b], W2[b])
      BY <1>7, <1>10, <1>14, <1>15
    <3>3. QED BY <3>1, <3>2
  <2>3. \A o \in Procs : <<"own", o>> \notin {a, b} => own'[o] = own[o]
    BY <1>2, <1>13
  <2>4. /\ {i} \subseteq In(W, own, a) /\ In(W2, own', a) = In(W, own, a) \ {i}
        /\ In(W2, own', b) = In(W, own, b) \cup {i}
    BY <1>6, <1>7, <1>8, <1>10, <1>13, <1>14
  <2>5. QED BY <1>8, <1>14, <2>1, <2>2, <2>3, <2>4 DEF Moved
<1>18. Good(AtPlaces', qiids', own', W2)
  BY <1>17, MoveGood
<1>19. QED BY <1>1, <1>3, <1>7, <1>10, <1>12, <1>13, <1>18

(* W with s at a and t at b. *)
With(W, a, s, b, t) == [y \in Places |-> IF y = a THEN s ELSE IF y = b THEN t ELSE W[y]]

(* Items that go from the list at a, of which w is left, to the list at b. *)
LEMMA ListsMoved ==
  ASSUME NEW L, NEW links \in Links, NEW ow, NEW W, Good(L, links, ow, W),
         NEW a \in Places, NEW b \in Places, a # b,
         NEW v, ChainOf(links, v), NEW w, NEW l, Holds(links, l, w),
         ItemsOf(v) \cap ItemsOf(w) = {}, ItemsOf(v) \cup ItemsOf(w) = ItemsOf(W[a]),
         NEW x, Spliced(x, L[b], links, v),
         NEW L2, L2[a] = l, L2[b] = x.l, \A y \in Places \ {a, b} : L2[y] = L[y]
  PROVE  /\ Good(L2, x.links, ow, With(W, a, w, b, W[b] \o v))
         /\ x.links \in Links /\ x.l \in ListRec
<1>1. PICK W2 : W2 = With(W, a, w, b, W[b] \o v)
  OBVIOUS
<1>2. /\ In(W, ow, a) = ItemsOf(W[a]) /\ In(W, ow, b) = ItemsOf(W[b])
      /\ In(W2, ow, a) = ItemsOf(W2[a]) /\ In(W2, ow, b) = ItemsOf(W2[b])
  BY PlacesAre DEF In
<1>3. ItemsOf(W[a]) \cap ItemsOf(W[b]) = {}
  BY ListsApart
<1>4. ItemsOf(v) \cap ItemsOf(W[b]) = {} /\ ItemsOf(w) \cap ItemsOf(W[b]) = {}
  BY <1>3
<1>5. Extended(x, links, W[b], v)
  BY <1>4, SpliceInto
<1>6. /\ Holds(x.links, x.l, W[b] \o v) /\ W[b] \o v \in Seq(Items) /\ x.links \in Links
      /\ ItemsOf(W[b] \o v) = ItemsOf(W[b]) \cup ItemsOf(v)
  BY <1>5 DEF Extended
<1>7. Holds(x.links, l, w)
  <2>1. ItemsOf(w) \cap ItemsOf(v) = {}
    OBVIOUS
  <2>2. QED BY <1>4, <1>5, <2>1 DEF Extended
<1>8. w \in Seq(Items) /\ x.l \in ListRec
  BY <1>6 DEF Holds
<1>9. /\ W2 \in [Places -> Seq(Items)] /\ W2[a] = w /\ W2[b] = W[b] \o v
      /\ \A y \in Places : y # a /\ y # b => W2[y] = W[y]
  BY <1>1, <1>6, <1>8 DEF With, Good
<1>10. ASSUME NEW y \in Places \ {a, b} PROVE Holds(x.links, L[y], W[y])
  <2>1. Holds(links, L[y], W[y])
    BY DEF Good
  <2>2. ItemsOf(W[y]) \cap ItemsOf(W[b]) = {} /\ ItemsOf(W[y]) \cap ItemsOf(W[a]) = {}
    BY ListsApart
  <2>3. ItemsOf(W[y]) \cap ItemsOf(v) = {}
    BY <2>2
  <2>4. QED BY <1>5, <2>1, <2>2, <2>3 DEF Extended
<1>11. Moved(L, links, ow, W, L2, x.links, ow, W2, a, b, ItemsOf(v))
  <2>1. \A y \in Places \ {a, b} : L2[y] = L[y] /\ W2[y] = W[y] /\ Holds(x.links, L[y], W[y])
    BY <1>9, <1>10
  <2>2. Holds(x.links, L2[a], W2[a]) /\ Holds(x.links, L2[b], W2[b])
    BY <1>6, <1>7, <1>9
  <2>3. \A y \in Places \cap {a, b} : Holds(x.links, L2[y], W2[y])
    BY <2>2
  <2>4. /\ ItemsOf(v) \subseteq In(W, ow, a) /\ In(W2, ow, a) = In(W, ow, a) \ ItemsOf(v)
        /\ In(W2, ow, b) = In(W, ow, b) \cup ItemsOf(v)
    BY <1>2, <1>6, <1>9
  <2>5. QED BY <1>9, <2>1, <2>3, <2>4 DEF Moved
<1>12. Good(L2, x.links, ow, W2)
  BY <1>11, MoveGood
<1>13. QED BY <1>1, <1>6, <1>8, <1>12

LEMMA FirstUnflushed ==
  ASSUME NEW p \in Procs, Unflushed(p) # {}
  PROVE  Min(Unflushed(p)) \in Qids /\ push[p][Min(Unflushed(p))].size > 0
<1>1. Unflushed(p) \subseteq Nat
  BY QueueAssumption DEF Unflushed, Qids
<1>2. PICK d \in Unflushed(p) : \A e \in Unflushed(p) : d <= e
  BY <1>1, LeastOf
<1>3. Min(Unflushed(p)) \in Unflushed(p)
  BY <1>2 DEF Min
<1>4. QED BY <1>3 DEF Unflushed

LEMMA FlushSound ==
  ASSUME QueueType, NEW p \in Procs, NEW W, Good(AtPlaces, qiids, own, W), FlushPush(p)
  PROVE  \E q \in Qids :
           /\ Good(AtPlaces', qiids', own', With(W, <<"push", p, q>>, <<>>, <<"queue", q>>,
                                           W[<<"queue", q>>] \o W[<<"push", p, q>>]))
           /\ qids' \in [Qids -> ListRec] /\ push' \in [Procs -> [Qids -> ListRec]] /\ qiids' \in Links
<1>1. PICK q \in Qids : q = Min(Unflushed(p)) /\ push[p][q].size > 0
  BY FirstUnflushed DEF FlushPush
<1>2. PICK a \in Places : a = <<"push", p, q>>
  BY PlacesAre
<1>3. PICK b \in Places : b = <<"queue", q>>
  BY PlacesAre
<1>4. PICK v : v = W[a]
  OBVIOUS
<1>5. PICK x : x = Splice([l |-> qids[q], links |-> qiids], push[p][q].tail, push[p][q].head, push[p][q].size)
  OBVIOUS
<1>6. /\ qids' = [qids EXCEPT ![q] = x.l] /\ qiids' = x.links
      /\ push' = [push EXCEPT ![p][q] = Empty] /\ pull' = pull /\ own' = own
  BY <1>1, <1>5 DEF FlushPush
<1>7. a # b /\ AtPlaces[a] = push[p][q] /\ AtPlaces[b] = qids[q]
  BY <1>2, <1>3, AtIs
<1>8. Holds(qiids, push[p][q], v)
  BY <1>4, <1>7 DEF Good
<1>9. ChainOf(qiids, v) /\ Spliced(x, AtPlaces[b], qiids, v)
  BY <1>1, <1>5, <1>7, <1>8 DEF Holds, ChainOf, Spliced
<1>10. Empty \in ListRec
  BY EmptyHolds DEF Holds
<1>11. \A y \in Places : AtPlaces'[y] = IF y = a THEN Empty ELSE IF y = b THEN x.l ELSE AtPlaces[y]
  <2> SUFFICES ASSUME NEW y \in Places
               PROVE  AtPlaces'[y] = IF y = a THEN Empty ELSE IF y = b THEN x.l ELSE AtPlaces[y]
    OBVIOUS
  <2>1. ASSUME NEW r \in Qids, y = <<"queue", r>>
        PROVE  AtPlaces'[y] = IF y = a THEN Empty ELSE IF y = b THEN x.l ELSE AtPlaces[y]
    <3>1. y # a /\ (y = b <=> r = q)
      BY <1>2, <1>3, <2>1
    <3>2. AtPlaces'[y] = qids'[r] /\ AtPlaces[y] = qids[r]
      BY <2>1, AtIs, AtIsNext
    <3>3. qids'[r] = IF r = q THEN x.l ELSE qids[r]
      BY <1>6 DEF QueueType
    <3>4. QED BY <3>1, <3>2, <3>3
  <2>2. ASSUME NEW o \in Procs, NEW r \in Qids, y = <<"push", o, r>>
        PROVE  AtPlaces'[y] = IF y = a THEN Empty ELSE IF y = b THEN x.l ELSE AtPlaces[y]
    <3>1. y # b /\ (y = a <=> (o = p /\ r = q))
      BY <1>2, <1>3, <2>2
    <3>2. AtPlaces'[y] = push'[o][r] /\ AtPlaces[y] = push[o][r]
      BY <2>2, AtIs, AtIsNext
    <3>3. push'[o][r] = IF o = p /\ r = q THEN Empty ELSE push[o][r]
      BY <1>6 DEF QueueType
    <3>4. QED BY <3>1, <3>2, <3>3
  <2>3. ASSUME NEW o \in Procs, NEW r \in Qids, y = <<"pull", o, r>>
        PROVE  AtPlaces'[y] = IF y = a THEN Empty ELSE IF y = b THEN x.l ELSE AtPlaces[y]
    <3>1. y # b /\ y # a
      BY <1>2, <1>3, <2>3
    <3>2. AtPlaces'[y] = pull'[o][r] /\ AtPlaces[y] = pull[o][r]
      BY <2>3, AtIs, AtIsNext
    <3>3. QED BY <1>6, <3>1, <3>2
  <2>4. QED BY <2>1, <2>2, <2>3 DEF Places
<1>12. /\ Good(AtPlaces', x.links, own, With(W, a, <<>>, b, W[b] \o v))
       /\ x.links \in Links /\ x.l \in ListRec
  <2>1. /\ AtPlaces'[a] = Empty /\ AtPlaces'[b] = x.l /\ \A y \in Places \ {a, b} : AtPlaces'[y] = AtPlaces[y]
    BY <1>7, <1>11
  <2>2. Holds(qiids, Empty, <<>>) /\ qiids \in Links
    BY EmptyHolds DEF QueueType
  <2>3. ItemsOf(v) \cap ItemsOf(<<>>) = {} /\ ItemsOf(v) \cup ItemsOf(<<>>) = ItemsOf(W[a])
    BY <1>4, EmptyItems
  <2>4. PICK e : e = <<>>
    OBVIOUS
  <2>5. /\ Holds(qiids, Empty, e)
        /\ ItemsOf(v) \cap ItemsOf(e) = {} /\ ItemsOf(v) \cup ItemsOf(e) = ItemsOf(W[a])
    BY <2>2, <2>3, <2>4
  <2>6. /\ Good(AtPlaces', x.links, own, With(W, a, e, b, W[b] \o v))
        /\ x.links \in Links /\ x.l \in ListRec
    BY <1>7, <1>9, <2>1, <2>2, <2>5, ListsMoved
  <2>7. QED BY <2>4, <2>6
<1>13. qids' \in [Qids -> ListRec] /\ push' \in [Procs -> [Qids -> ListRec]]
  BY <1>6, <1>10, <1>12 DEF QueueType
<1>14. QED BY <1>2, <1>3, <1>4, <1>6, <1>12, <1>13

(* There are that many on the queue, and there is room for them.           *)
LEMMA ToPullFits ==
  ASSUME QueueType, NEW p \in Procs, NEW r \in Qids
  PROVE  /\ ToPull(p, r) \in Nat /\ ToPull(p, r) <= qids[r].size
         /\ ToPull(p, r) # 0 => ToPull(p, r) + pull[p][r].size <= qids_nolock_max[p]
<1>1. qids[r].size \in Nat /\ pull[p][r].size \in Nat
  BY DEF QueueType, ListRec
<1>2. qids_nolock_max[p] \in Nat
  BY QueueAssumption
<1>3. QED BY <1>1, <1>2 DEF ToPull

LEMMA FillSound ==
  ASSUME QueueType, NEW p \in Procs, NEW W, Good(AtPlaces, qiids, own, W), FillPull(p),
         NEW r \in Qids, r = pull_qid[p], NEW n, n = ToPull(p, r), n # 0
  PROVE  /\ Good(AtPlaces', qiids', own',
                 With(W, <<"queue", r>>, SubSeq(W[<<"queue", r>>], n + 1, Len(W[<<"queue", r>>])),
                      <<"pull", p, r>>, W[<<"pull", p, r>>] \o SubSeq(W[<<"queue", r>>], 1, n)))
         /\ qids' \in [Qids -> ListRec] /\ pull' \in [Procs -> [Qids -> ListRec]] /\ qiids' \in Links
         /\ n <= Len(W[<<"queue", r>>])
<1>1. PICK a \in Places : a = <<"queue", r>>
  BY PlacesAre
<1>2. PICK b \in Places : b = <<"pull", p, r>>
  BY PlacesAre
<1>3. a # b /\ AtPlaces[a] = qids[r] /\ AtPlaces[b] = pull[p][r]
  BY <1>1, <1>2, AtIs
<1>4. PICK w : w = W[a]
  OBVIOUS
<1>5. Holds(qiids, qids[r], w)
  BY <1>3, <1>4 DEF Good
<1>6. Walk(qids[r]) = w
  BY <1>5, WalkIs, WalkUses
<1>7. PICK L \in Nat : L = qids[r].size /\ L = Len(w)
  BY <1>5 DEF Holds, ListRec
<1>8. n \in Nat /\ n > 0 /\ n <= L /\ n \in 1 .. qids[r].size
  <2>1. n \in Nat /\ n <= qids[r].size
    BY ToPullFits
  <2>2. QED BY <1>7, <2>1
<1>9. /\ qids[r] \in ListRec /\ qids[r].tail = w[1] /\ qids[r].head = w[L]
      /\ \A k \in 1 .. L - 1 : qiids[w[k]].next = w[k + 1]
  BY <1>5, <1>7, <1>8 DEF Holds, Leads
<1>10. PICK x : x = Splice([l |-> pull[p][r], links |-> qiids], w[1], w[n], n)
  OBVIOUS
<1>11. PICK l2 : l2 = IF L - n = 0 THEN Empty
                      ELSE [qids[r] EXCEPT !.size = L - n, !.tail = qiids[w[n]].next]
  OBVIOUS
<1>12. /\ pull' = [pull EXCEPT ![p][r] = x.l] /\ qiids' = x.links
       /\ qids' = [qids EXCEPT ![r] = l2] /\ push' = push /\ own' = own
  BY <1>6, <1>7, <1>9, <1>10, <1>11 DEF FillPull
<1>13. /\ L = n => l2 = Empty
       /\ L # n => l2 = [head |-> qids[r].head, tail |-> w[n + 1], size |-> L - n]
  <2>1. CASE L = n
    BY <1>11, <2>1
  <2>2. CASE L # n
    <3>1. n \in 1 .. L - 1 /\ L - n # 0
      BY <1>8, <2>2
    <3>2. l2 = [qids[r] EXCEPT !.size = L - n, !.tail = w[n + 1]]
      BY <1>9, <1>11, <3>1
    <3>3. QED BY <1>9, <2>2, <3>2 DEF ListRec
  <2>3. QED BY <2>1, <2>2
<1>14. PICK v : v = SubSeq(w, 1, n)
  OBVIOUS
<1>15. PICK u : u = SubSeq(w, n + 1, Len(w))
  OBVIOUS
<1>16. /\ Holds(qiids, l2, u)
       /\ v \in Seq(Items) /\ Len(v) = n /\ v[1] = qids[r].tail /\ v[n] = w[n]
       /\ Once(v) /\ Leads(qiids, v)
       /\ ItemsOf(v) \cap ItemsOf(u) = {} /\ ItemsOf(v) \cup ItemsOf(u) = ItemsOf(w)
  <2>1. Cut(qids[r], w, n, l2, v, u)
    BY <1>7, <1>8, <1>13, <1>14, <1>15 DEF Cut
  <2>2. Parts(qiids, qids[r], w, n, l2, v, u)
    BY <1>5, <2>1, RestHolds
  <2>3. QED BY <2>2 DEF Parts
<1>17. ChainOf(qiids, v) /\ Spliced(x, AtPlaces[b], qiids, v)
  BY <1>3, <1>8, <1>9, <1>10, <1>16 DEF ChainOf, Spliced
<1>18. \A y \in Places : AtPlaces'[y] = IF y = a THEN l2 ELSE IF y = b THEN x.l ELSE AtPlaces[y]
  <2> SUFFICES ASSUME NEW y \in Places
               PROVE  AtPlaces'[y] = IF y = a THEN l2 ELSE IF y = b THEN x.l ELSE AtPlaces[y]
    OBVIOUS
  <2>1. ASSUME NEW s \in Qids, y = <<"queue", s>>
        PROVE  AtPlaces'[y] = IF y = a THEN l2 ELSE IF y = b THEN x.l ELSE AtPlaces[y]
    <3>1. y # b /\ (y = a <=> s = r)
      BY <1>1, <1>2, <2>1
    <3>2. AtPlaces'[y] = qids'[s] /\ AtPlaces[y] = qids[s]
      BY <2>1, AtIs, AtIsNext
    <3>3. qids'[s] = IF s = r THEN l2 ELSE qids[s]
      BY <1>12 DEF QueueType
    <3>4. QED BY <3>1, <3>2, <3>3
  <2>2. ASSUME NEW o \in Procs, NEW s \in Qids, y = <<"pull", o, s>>
        PROVE  AtPlaces'[y] = IF y = a THEN l2 ELSE IF y = b THEN x.l ELSE AtPlaces[y]
    <3>1. y # a /\ (y = b <=> (o = p /\ s = r))
      BY <1>1, <1>2, <2>2
    <3>2. AtPlaces'[y] = pull'[o][s] /\ AtPlaces[y] = pull[o][s]
      BY <2>2, AtIs, AtIsNext
    <3>3. pull'[o][s] = IF o = p /\ s = r THEN x.l ELSE pull[o][s]
      BY <1>12 DEF QueueType
    <3>4. QED BY <3>1, <3>2, <3>3
  <2>3. ASSUME NEW o \in Procs, NEW s \in Qids, y = <<"push", o, s>>
        PROVE  AtPlaces'[y] = IF y = a THEN l2 ELSE IF y = b THEN x.l ELSE AtPlaces[y]
    <3>1. y # b /\ y # a
      BY <1>1, <1>2, <2>3
    <3>2. AtPlaces'[y] = push'[o][s] /\ AtPlaces[y] = push[o][s]
      BY <2>3, AtIs, AtIsNext
    <3>3. QED BY <1>12, <3>1, <3>2
  <2>4. QED BY <2>1, <2>2, <2>3 DEF Places
<1>19. /\ Good(AtPlaces', x.links, own, With(W, a, u, b, W[b] \o v))
       /\ x.links \in Links /\ x.l \in ListRec
  <2>1. /\ AtPlaces'[a] = l2 /\ AtPlaces'[b] = x.l /\ \A y \in Places \ {a, b} : AtPlaces'[y] = AtPlaces[y]
    BY <1>3, <1>18
  <2>2. qiids \in Links
    BY DEF QueueType
  <2>3. ItemsOf(v) \cap ItemsOf(u) = {} /\ ItemsOf(v) \cup ItemsOf(u) = ItemsOf(W[a]) /\ Holds(qiids, l2, u)
    BY <1>4, <1>16
  <2>4. QED BY <1>3, <1>17, <2>1, <2>2, <2>3, ListsMoved
<1>20. l2 \in ListRec
  BY <1>16 DEF Holds
<1>21. qids' \in [Qids -> ListRec] /\ pull' \in [Procs -> [Qids -> ListRec]]
  BY <1>12, <1>19, <1>20 DEF QueueType
<1>22. QED BY <1>1, <1>2, <1>4, <1>7, <1>8, <1>12, <1>14, <1>15, <1>19, <1>21

LEMMA PullSound ==
  ASSUME QueueType, NEW p \in Procs, NEW W, Good(AtPlaces, qiids, own, W), PullLocal(p),
         NEW r \in Qids, r = pull_qid[p], pull[p][r].size # 0
  PROVE  /\ Good(AtPlaces', qiids', own', [W EXCEPT ![<<"pull", p, r>>] = Tail(W[<<"pull", p, r>>])])
         /\ own' = [own EXCEPT ![p] = own[p] \cup {Head(W[<<"pull", p, r>>])}]
         /\ W[<<"pull", p, r>>] # <<>>
         /\ pull' \in [Procs -> [Qids -> ListRec]] /\ qiids' \in Links /\ own' \in [Procs -> SUBSET Items]
<1>1. PICK a \in Places : a = <<"pull", p, r>>
  BY PlacesAre
<1>2. PICK b \in Hands : b = <<"own", p>>
  BY PlacesAre
<1>3. AtPlaces[a] = pull[p][r] /\ b \notin Places /\ a # b
  BY <1>1, <1>2, AtIs, PlacesAre
<1>4. PICK w : w = W[a]
  OBVIOUS
<1>5. Holds(qiids, pull[p][r], w)
  BY <1>3, <1>4 DEF Good
<1>6. PICK L \in Nat : L = pull[p][r].size /\ L = Len(w) /\ L > 0
  BY <1>5 DEF Holds, ListRec
<1>7. /\ pull[p][r] \in ListRec /\ pull[p][r].tail = w[1] /\ pull[p][r].head = w[L]
      /\ \A k \in 1 .. L - 1 : qiids[w[k]].next = w[k + 1]
      /\ w \in Seq(Items) /\ \A k \in 1 .. L : w[k] \in Items
      /\ qiids[w[L]].next = None
  BY <1>5, <1>6, ElementOfSeq DEF Holds, Leads
<1>8. PICK i \in Items : i = w[1]
  BY <1>6, <1>7
<1>9. PICK nx : nx = qiids[i].next
  OBVIOUS
<1>10. /\ L = 1 => nx = None
       /\ L # 1 => nx = w[2] /\ nx \in Items /\ nx # None
  BY <1>6, <1>7, <1>8, <1>9, NoneIsNoItem
<1>11. PICK l2 : l2 = [head |-> IF nx = None THEN None ELSE pull[p][r].head, tail |-> nx, size |-> L - 1]
  OBVIOUS
<1>12. PICK links2 : links2 = IF nx = None THEN qiids ELSE [qiids EXCEPT ![nx].last = None]
  OBVIOUS
<1>13. /\ pull' = [pull EXCEPT ![p][r] = l2] /\ qiids' = links2
       /\ own' = [own EXCEPT ![p] = own[p] \cup {i}] /\ push' = push /\ qids' = qids
  BY ZenonT(40), <1>6, <1>7, <1>8, <1>9, <1>11, <1>12 DEF PullLocal, DropTail
<1>14. links2 \in Links /\ \A j \in Items : links2[j].next = qiids[j].next
  <2>1. CASE nx = None
    BY <1>12, <2>1 DEF QueueType
  <2>2. CASE nx # None
    <3>1. nx \in Items /\ qiids \in Links
      BY <1>10, <2>2 DEF QueueType
    <3>2. QED BY <1>12, <2>2, <3>1 DEF Links
  <2>3. QED BY <2>1, <2>2
<1>15. /\ L = 1 => l2 = Empty
       /\ L # 1 => l2 = [head |-> pull[p][r].head, tail |-> w[1 + 1], size |-> L - 1]
  BY <1>10, <1>11 DEF Empty
<1>16. PICK u : u = SubSeq(w, 1 + 1, Len(w))
  OBVIOUS
<1>17. PICK v : v = SubSeq(w, 1, 1)
  OBVIOUS
<1>18. /\ Holds(qiids, l2, u)
       /\ v \in Seq(Items) /\ Len(v) = 1 /\ v[1] = pull[p][r].tail
       /\ ItemsOf(v) \cap ItemsOf(u) = {} /\ ItemsOf(v) \cup ItemsOf(u) = ItemsOf(w)
  <2>1. Cut(pull[p][r], w, 1, l2, v, u)
    BY <1>6, <1>15, <1>16, <1>17 DEF Cut
  <2>2. Parts(qiids, pull[p][r], w, 1, l2, v, u)
    BY <1>5, <2>1, RestHolds
  <2>3. QED BY <2>2 DEF Parts
<1>19. ItemsOf(v) = {i}
  BY <1>7, <1>8, <1>18 DEF ItemsOf
<1>20. w # <<>> /\ Tail(w) = u /\ Head(w) = i
  <2>1. w # <<>>
    BY <1>6, EmptySeq
  <2>2. Tail(w) = u
    BY <1>7, <1>16, <2>1, TailIsSubSeq
  <2>3. QED BY <1>8, <2>1, <2>2
<1>21. u \in Seq(Items) /\ l2 \in ListRec
  BY <1>18 DEF Holds
<1>22. PICK W2 : W2 = [W EXCEPT ![a] = u]
  OBVIOUS
<1>23. W2 \in [Places -> Seq(Items)] /\ W2[a] = u /\ \A y \in Places : y # a => W2[y] = W[y]
  BY <1>21, <1>22 DEF Good
<1>24. /\ own' \in [Procs -> SUBSET Items] /\ own'[p] = own[p] \cup {i}
       /\ \A o \in Procs : o # p => own'[o] = own[o]
  BY <1>13 DEF QueueType
<1>25. /\ pull' \in [Procs -> [Qids -> ListRec]] /\ pull'[p][r] = l2
       /\ \A o \in Procs, s \in Qids : (o # p \/ s # r) => pull'[o][s] = pull[o][s]
  BY <1>13, <1>21 DEF QueueType
<1>26. AtPlaces'[a] = l2 /\ \A y \in Places : y # a => AtPlaces'[y] = AtPlaces[y]
  <2>1. AtPlaces'[a] = l2
    BY <1>1, <1>25, AtIsNext
  <2>2. ASSUME NEW y \in Places, y # a PROVE AtPlaces'[y] = AtPlaces[y]
    <3>1. ASSUME NEW s \in Qids, y = <<"queue", s>> PROVE AtPlaces'[y] = AtPlaces[y]
      BY <1>13, <3>1, AtIs, AtIsNext
    <3>2. ASSUME NEW o \in Procs, NEW s \in Qids, y = <<"pull", o, s>> PROVE AtPlaces'[y] = AtPlaces[y]
      <4>1. o # p \/ s # r
        BY <1>1, <2>2, <3>2
      <4>2. QED BY <1>25, <3>2, <4>1, AtIs, AtIsNext
    <3>3. ASSUME NEW o \in Procs, NEW s \in Qids, y = <<"push", o, s>> PROVE AtPlaces'[y] = AtPlaces[y]
      BY <1>13, <3>3, AtIs, AtIsNext
    <3>4. QED BY <3>1, <3>2, <3>3 DEF Places
  <2>3. QED BY <2>1, <2>2
<1>27. \A l, z : Holds(qiids, l, z) => Holds(qiids', l, z)
  <2> SUFFICES ASSUME NEW l, NEW z, Holds(qiids, l, z) PROVE Holds(qiids', l, z)
    OBVIOUS
  <2>1. ItemsOf(z) \subseteq Items
    BY ElementOfSeq DEF Holds, ItemsOf
  <2>2. QED BY <1>13, <1>14, <2>1, HoldsKept
<1>28. Moved(AtPlaces, qiids, own, W, AtPlaces', qiids', own', W2, a, b, {i})
  <2>1. \A y \in Places \ {a, b} : AtPlaces'[y] = AtPlaces[y] /\ W2[y] = W[y] /\ Holds(qiids', AtPlaces[y], W[y])
    BY <1>23, <1>26, <1>27 DEF Good
  <2>2. Holds(qiids', AtPlaces'[a], W2[a])
    BY <1>18, <1>23, <1>26, <1>27
  <2>3. \A y \in Places \cap {a, b} : Holds(qiids', AtPlaces'[y], W2[y])
    BY <1>3, <2>2
  <2>4. \A o \in Procs : <<"own", o>> \notin {a, b} => own'[o] = own[o]
    BY <1>2, <1>24
  <2>5. /\ In(W, own, a) = ItemsOf(w) /\ In(W2, own', a) = ItemsOf(u)
        /\ In(W, own, b) = own[p] /\ In(W2, own', b) = own'[p]
    BY <1>1, <1>2, <1>4, <1>23, PlacesAre DEF In
  <2>6. /\ {i} \subseteq In(W, own, a) /\ In(W2, own', a) = In(W, own, a) \ {i}
        /\ In(W2, own', b) = In(W, own, b) \cup {i}
    BY <1>18, <1>19, <1>24, <2>5
  <2>7. QED BY <1>3, <1>23, <2>1, <2>3, <2>4, <2>6 DEF Moved
<1>29. Good(AtPlaces', qiids', own', W2)
  BY <1>28, MoveGood
<1>30. QED BY <1>1, <1>4, <1>13, <1>14, <1>20, <1>22, <1>24, <1>25, <1>29

(* The lists of a process that leaves are new ones. *)
Left(W, p) ==
  [y \in Places |-> IF y[1] \in {"push", "pull"} /\ y[2] = p THEN <<>> ELSE W[y]]

LEMMA LeaveSound ==
  ASSUME QueueType, NEW p \in Procs, NEW W, Good(AtPlaces, qiids, own, W), Leave(p)
  PROVE  /\ Good(AtPlaces', qiids', own', Left(W, p))
         /\ push' \in [Procs -> [Qids -> ListRec]] /\ pull' \in [Procs -> [Qids -> ListRec]]
         /\ own' \in [Procs -> SUBSET Items]
<1>1. PICK W2 : W2 = Left(W, p)
  OBVIOUS
<1>2. Empty \in ListRec
  BY EmptyHolds DEF Holds
<1>3. /\ push' \in [Procs -> [Qids -> ListRec]] /\ pull' \in [Procs -> [Qids -> ListRec]]
      /\ own' \in [Procs -> SUBSET Items] /\ qids' = qids /\ qiids' = qiids
      /\ \A r \in Qids : push'[p][r] = Empty /\ pull'[p][r] = Empty
      /\ \A o \in Procs : o # p => push'[o] = push[o] /\ pull'[o] = pull[o] /\ own'[o] = own[o]
      /\ own'[p] = {}
  BY <1>2 DEF QueueType, Leave, NewLists
<1>4. W2 \in [Places -> Seq(Items)]
  BY <1>1, EmptySeq DEF Left, Good
<1>5. \A y \in Places : (W2[y] = W[y] /\ AtPlaces'[y] = AtPlaces[y]) \/ (W2[y] = <<>> /\ AtPlaces'[y] = Empty)
  <2> SUFFICES ASSUME NEW y \in Places
               PROVE  (W2[y] = W[y] /\ AtPlaces'[y] = AtPlaces[y]) \/ (W2[y] = <<>> /\ AtPlaces'[y] = Empty)
    OBVIOUS
  <2>1. ASSUME NEW r \in Qids, y = <<"queue", r>> PROVE W2[y] = W[y] /\ AtPlaces'[y] = AtPlaces[y]
    <3>1. y[1] = "queue"
      BY <2>1
    <3>2. QED BY <1>1, <1>3, <2>1, <3>1, AtIs, AtIsNext DEF Left
  <2>2. ASSUME NEW o \in Procs, NEW r \in Qids, y = <<"push", o, r>>
        PROVE  (W2[y] = W[y] /\ AtPlaces'[y] = AtPlaces[y]) \/ (W2[y] = <<>> /\ AtPlaces'[y] = Empty)
    <3>1. y[1] = "push" /\ y[2] = o
      BY <2>2
    <3>2. W2[y] = IF o = p THEN <<>> ELSE W[y]
      BY <1>1, <3>1 DEF Left
    <3>3. AtPlaces'[y] = push'[o][r] /\ AtPlaces[y] = push[o][r]
      BY <2>2, AtIs, AtIsNext
    <3>4. QED BY <1>3, <3>2, <3>3
  <2>3. ASSUME NEW o \in Procs, NEW r \in Qids, y = <<"pull", o, r>>
        PROVE  (W2[y] = W[y] /\ AtPlaces'[y] = AtPlaces[y]) \/ (W2[y] = <<>> /\ AtPlaces'[y] = Empty)
    <3>1. y[1] = "pull" /\ y[2] = o
      BY <2>3
    <3>2. W2[y] = IF o = p THEN <<>> ELSE W[y]
      BY <1>1, <3>1 DEF Left
    <3>3. AtPlaces'[y] = pull'[o][r] /\ AtPlaces[y] = pull[o][r]
      BY <2>3, AtIs, AtIsNext
    <3>4. QED BY <1>3, <3>2, <3>3
  <2>4. QED BY <2>1, <2>2, <2>3 DEF Places
<1>6. \A y \in Places : Holds(qiids', AtPlaces'[y], W2[y])
  <2> SUFFICES ASSUME NEW y \in Places PROVE Holds(qiids', AtPlaces'[y], W2[y])
    OBVIOUS
  <2>1. Holds(qiids, AtPlaces[y], W[y]) /\ Holds(qiids, Empty, <<>>) /\ qiids' = qiids
    BY <1>3, EmptyHolds DEF Good
  <2>2. CASE W2[y] = W[y] /\ AtPlaces'[y] = AtPlaces[y]
    BY <2>1, <2>2
  <2>3. CASE W2[y] = <<>> /\ AtPlaces'[y] = Empty
    BY <2>1, <2>3
  <2>4. QED BY <1>5, <2>2, <2>3
<1>7. \A x \in Places \cup Hands : In(W2, own', x) \subseteq In(W, own, x)
  <2>1. ASSUME NEW x \in Places PROVE In(W2, own', x) \subseteq In(W, own, x)
    <3>1. In(W2, own', x) = ItemsOf(W2[x]) /\ In(W, own, x) = ItemsOf(W[x])
      BY PlacesAre DEF In
    <3>2. W2[x] = W[x] \/ W2[x] = <<>>
      BY <1>5
    <3>3. QED BY <3>1, <3>2, EmptyItems
  <2>2. ASSUME NEW x \in Hands PROVE In(W2, own', x) \subseteq In(W, own, x)
    <3>1. PICK o \in Procs : x = <<"own", o>>
      BY DEF Hands
    <3>2. In(W2, own', x) = own'[o] /\ In(W, own, x) = own[o]
      BY <3>1, PlacesAre DEF In
    <3>3. QED BY <1>3, <3>2
  <2>3. QED BY <2>1, <2>2
<1>8. \A x, y \in Places \cup Hands : x # y => In(W2, own', x) \cap In(W2, own', y) = {}
  <2> SUFFICES ASSUME NEW x \in Places \cup Hands, NEW y \in Places \cup Hands, x # y
               PROVE  In(W2, own', x) \cap In(W2, own', y) = {}
    OBVIOUS
  <2>1. In(W, own, x) \cap In(W, own, y) = {}
    BY DEF Good
  <2>2. QED BY <1>7, <2>1
<1>9. Good(AtPlaces', qiids', own', W2)
  BY <1>4, <1>6, <1>8 DEF Good
<1>10. QED BY <1>1, <1>3, <1>9

-----------------------------------------------------------------------------
(* The invariant holds. *)

(* What a step does to the sequences: one step of BatchQueue, or none.     *)
Stays(W, W2) == W2 = W /\ own' = own
Pushes(W, W2, p, q, i) ==
  /\ i \in own[p] /\ own' = [own EXCEPT ![p] = own[p] \ {i}]
  /\ W2 = [W EXCEPT ![<<"push", p, q>>] = W[<<"push", p, q>>] \o <<i>>]
Flushes(W, W2, p, q) ==
  /\ own' = own
  /\ W2 = With(W, <<"push", p, q>>, <<>>, <<"queue", q>>, W[<<"queue", q>>] \o W[<<"push", p, q>>])
Fills(W, W2, p, r, n) ==
  /\ own' = own /\ n \in Nat /\ n > 0
  /\ n <= Len(W[<<"queue", r>>]) /\ n + Len(W[<<"pull", p, r>>]) <= qids_nolock_max[p]
  /\ W2 = With(W, <<"queue", r>>, SubSeq(W[<<"queue", r>>], n + 1, Len(W[<<"queue", r>>])),
               <<"pull", p, r>>, W[<<"pull", p, r>>] \o SubSeq(W[<<"queue", r>>], 1, n))
Pulls(W, W2, p, r) ==
  /\ W[<<"pull", p, r>>] # <<>>
  /\ own' = [own EXCEPT ![p] = own[p] \cup {Head(W[<<"pull", p, r>>])}]
  /\ W2 = [W EXCEPT ![<<"pull", p, r>>] = Tail(W[<<"pull", p, r>>])]
Leaves(W, W2, p) == own' = [own EXCEPT ![p] = {}] /\ W2 = Left(W, p)

Moves(W, W2) ==
  \/ Stays(W, W2)
  \/ \E p \in Procs :
       \/ Leaves(W, W2, p)
       \/ \E q \in Qids : \/ Flushes(W, W2, p, q)
                          \/ Pulls(W, W2, p, q)
                          \/ \E i \in Items : Pushes(W, W2, p, q, i)
                          \/ \E n : Fills(W, W2, p, q, n)

(* The part of the type that the lists do not tell. *)
Control ==
  /\ pc \in [Procs -> {"idle", "lock", "flush", "pull"}]
  /\ pull_qid \in [Procs -> Qids \cup {None}]
  /\ lock \in {{}} \cup {{p} : p \in Procs}
  /\ Pulling

ListTypes ==
  /\ qids \in [Qids -> ListRec]
  /\ push \in [Procs -> [Qids -> ListRec]] /\ pull \in [Procs -> [Qids -> ListRec]]
  /\ qiids \in Links
  /\ own \in [Procs -> SUBSET Items]

LEMMA TypeParts == QueueType /\ Pulling <=> ListTypes /\ Control
BY Zenon DEF QueueType, ListTypes, Control

(* A step that leaves all the lists. *)
LEMMA StaySound ==
  ASSUME ListTypes, NEW W, Good(AtPlaces, qiids, own, W), UNCHANGED <<qids, qiids, push, pull, own>>
  PROVE  ListTypes' /\ Good(AtPlaces', qiids', own', W) /\ Stays(W, W)
<1>1. AtPlaces' = AtPlaces
  BY DEF AtPlaces, ListAt
<1>2. ListTypes'
  BY DEF ListTypes
<1>3. QED BY <1>1, <1>2 DEF Stays

LEMMA GotoSound ==
  ASSUME Control, NEW p \in Procs, NEW l \in {"idle", "lock", "flush", "pull"},
         NEW r \in Qids \cup {None}, l = "pull" => r \in Qids, Goto(p, l, r), lock' = lock
  PROVE  Control'
<1>1. /\ pc' = [pc EXCEPT ![p] = l] /\ pull_qid' = [pull_qid EXCEPT ![p] = r]
      /\ pc \in [Procs -> {"idle", "lock", "flush", "pull"}]
      /\ pull_qid \in [Procs -> Qids \cup {None}]
  BY DEF Goto, Control
<1>2. /\ pc' \in [Procs -> {"idle", "lock", "flush", "pull"}]
      /\ pull_qid' \in [Procs -> Qids \cup {None}]
  BY <1>1
<1>3. Pulling'
  <2> SUFFICES ASSUME NEW o \in Procs, pc'[o] = "pull" PROVE pull_qid'[o] \in Qids
    BY DEF Pulling
  <2>1. CASE o = p
    BY <1>1, <2>1
  <2>2. CASE o # p
    BY <1>1, <2>2 DEF Control, Pulling
  <2>3. QED BY <2>1, <2>2
<1>4. QED BY <1>2, <1>3 DEF Control

LEMMA StepSound ==
  ASSUME QueueType, Pulling, NEW W, Good(AtPlaces, qiids, own, W), [Next]_vars
  PROVE  QueueType' /\ Pulling' /\ \E W2 : Good(AtPlaces', qiids', own', W2) /\ Moves(W, W2)
<1> DEFINE Goal == QueueType' /\ Pulling' /\ \E W2 : Good(AtPlaces', qiids', own', W2) /\ Moves(W, W2)
<1>0. ListTypes /\ Control
  BY TypeParts
<1>1. ASSUME Control', ListTypes', NEW W2, Good(AtPlaces', qiids', own', W2), Moves(W, W2) PROVE Goal
  <2>1. QueueType' /\ Pulling'
    BY <1>1, Zenon DEF QueueType, ListTypes, Control
  <2>2. QED BY <1>1, <2>1
<1>2. ASSUME Control', UNCHANGED <<qids, qiids, push, pull, own>> PROVE Goal
  <2>1. ListTypes' /\ Good(AtPlaces', qiids', own', W) /\ Stays(W, W)
    BY <1>0, <1>2, StaySound
  <2>2. Moves(W, W)
    BY <2>1 DEF Moves
  <2>3. QED BY <1>1, <1>2, <2>1, <2>2
<1>3. ASSUME NEW p \in Procs, NEW q \in Qids, NEW i \in Items, PushLocal(p, q, i), Control',
             UNCHANGED <<qids, pull>>
      PROVE  Goal
  <2>1. PICK W2 : W2 = [W EXCEPT ![<<"push", p, q>>] = W[<<"push", p, q>>] \o <<i>>]
    OBVIOUS
  <2>2. /\ Good(AtPlaces', qiids', own', W2)
        /\ push' \in [Procs -> [Qids -> ListRec]] /\ qiids' \in Links
        /\ own' \in [Procs -> SUBSET Items]
    BY <1>3, <2>1, PushSound
  <2>3. ListTypes'
    BY <1>0, <1>3, <2>2 DEF ListTypes
  <2>4. Pushes(W, W2, p, q, i)
    BY <1>3, <2>1 DEF Pushes, PushLocal
  <2>5. Moves(W, W2)
    BY <2>4 DEF Moves
  <2>6. QED BY <1>1, <1>3, <2>2, <2>3, <2>5
<1>4. ASSUME NEW p \in Procs, NEW q \in Qids, NEW i \in Items, PushHead(p, q, i) PROVE Goal
  <2>1. Control'
    BY <1>0, <1>4, GotoSound DEF PushHead
  <2>2. QED BY <1>3, <1>4, <2>1 DEF PushHead
<1>5. ASSUME NEW p \in Procs, NEW r \in Qids, PullTail(p, r) PROVE Goal
  <2>1. Control'
    BY <1>0, <1>5, GotoSound DEF PullTail
  <2>2. QED BY <1>2, <1>5, <2>1 DEF PullTail
<1>6. ASSUME NEW p \in Procs, NEW q \in Qids, NEW r \in Qids, NEW i \in Items, PushHeadPullTail(p, q, i, r)
      PROVE  Goal
  <2>1. Control'
    BY <1>0, <1>6, GotoSound DEF PushHeadPullTail, FlushOrPull
  <2>2. QED BY <1>3, <1>6, <2>1 DEF PushHeadPullTail
<1>7. ASSUME NEW p \in Procs, NEW q \in Qids, NEW r \in Qids, PushNonePullTail(p, q, r) PROVE Goal
  <2>1. Control'
    BY <1>0, <1>7, GotoSound DEF PushNonePullTail, FlushOrPull
  <2>2. QED BY <1>2, <1>7, <2>1 DEF PushNonePullTail
<1>8. ASSUME NEW p \in Procs, Lock(p) PROVE Goal
  <2>1. Control'
    BY <1>0, <1>8 DEF Control, Lock, Pulling
  <2>2. QED BY <1>2, <1>8, <2>1 DEF Lock
<1>9. ASSUME NEW p \in Procs, FlushPush(p) PROVE Goal
  <2>1. Control'
    BY <1>0, <1>9 DEF Control, FlushPush, Pulling
  <2>2. PICK q \in Qids :
           /\ Good(AtPlaces', qiids', own', With(W, <<"push", p, q>>, <<>>, <<"queue", q>>,
                                           W[<<"queue", q>>] \o W[<<"push", p, q>>]))
           /\ qids' \in [Qids -> ListRec] /\ push' \in [Procs -> [Qids -> ListRec]] /\ qiids' \in Links
    BY <1>9, FlushSound
  <2>3. PICK W2 : W2 = With(W, <<"push", p, q>>, <<>>, <<"queue", q>>,
                            W[<<"queue", q>>] \o W[<<"push", p, q>>])
    OBVIOUS
  <2>4. ListTypes'
    BY <1>0, <1>9, <2>2 DEF ListTypes, FlushPush
  <2>5. Flushes(W, W2, p, q)
    BY <1>9, <2>3 DEF Flushes, FlushPush
  <2>6. Moves(W, W2)
    BY <2>5 DEF Moves
  <2>7. QED BY <1>1, <2>1, <2>2, <2>3, <2>4, <2>6
<1>10. ASSUME NEW p \in Procs, FillPull(p) PROVE Goal
  <2>1. PICK r : r = pull_qid[p]
    OBVIOUS
  <2>2. r \in Qids /\ r # None
    BY <1>0, <1>10, <2>1 DEF Control, FillPull
  <2>3. Control'
    <3>1. /\ pc' = [pc EXCEPT ![p] = "pull"] /\ pull_qid' = pull_qid /\ lock' = {}
      BY <1>10 DEF FillPull
    <3>2. Pulling'
      BY <1>0, <2>1, <2>2, <3>1 DEF Control, Pulling
    <3>3. QED BY <1>0, <3>1, <3>2 DEF Control
  <2>4. PICK n : n = ToPull(p, r)
    OBVIOUS
  <2>5. CASE n = 0
    BY <1>2, <1>10, <2>1, <2>3, <2>4, <2>5 DEF FillPull
  <2>6. CASE n # 0
    <3>1. PICK W2 : W2 = With(W, <<"queue", r>>, SubSeq(W[<<"queue", r>>], n + 1, Len(W[<<"queue", r>>])),
                              <<"pull", p, r>>, W[<<"pull", p, r>>] \o SubSeq(W[<<"queue", r>>], 1, n))
      OBVIOUS
    <3>2. /\ Good(AtPlaces', qiids', own', W2)
          /\ qids' \in [Qids -> ListRec] /\ pull' \in [Procs -> [Qids -> ListRec]] /\ qiids' \in Links
          /\ n <= Len(W[<<"queue", r>>])
      BY <1>10, <2>1, <2>2, <2>4, <2>6, <3>1, FillSound
    <3>3. own' = own /\ push' = push
      BY <1>10 DEF FillPull
    <3>4. ListTypes'
      BY <1>0, <3>2, <3>3 DEF ListTypes
    <3>5. Len(W[<<"pull", p, r>>]) = pull[p][r].size
      <4>1. PICK b \in Places : b = <<"pull", p, r>>
        BY <2>2, PlacesAre
      <4>2. AtPlaces[b] = pull[p][r] /\ Holds(qiids, AtPlaces[b], W[b])
        BY <2>2, <4>1, AtIs DEF Good
      <4>3. QED BY <4>1, <4>2 DEF Holds
    <3>6. Fills(W, W2, p, r, n)
      BY <2>2, <2>4, <2>6, <3>1, <3>2, <3>3, <3>5, ToPullFits DEF Fills
    <3>7. Moves(W, W2)
      BY <2>2, <3>6 DEF Moves
    <3>8. QED BY <1>1, <2>3, <3>2, <3>4, <3>7
  <2>7. QED BY <2>5, <2>6
<1>11. ASSUME NEW p \in Procs, FlushDone(p) PROVE Goal
  <2>1. Control'
    BY <1>0, <1>11 DEF Control, FlushDone, Pulling
  <2>2. QED BY <1>2, <1>11, <2>1 DEF FlushDone
<1>12. ASSUME NEW p \in Procs, PullLocal(p) PROVE Goal
  <2>1. PICK r : r = pull_qid[p]
    OBVIOUS
  <2>2. r \in Qids
    BY <1>0, <1>12, <2>1 DEF Control, Pulling, PullLocal
  <2>3. Control'
    BY <1>0, <1>12, GotoSound DEF PullLocal
  <2>4. CASE pull[p][r].size = 0
    BY <1>2, <1>12, <2>1, <2>3, <2>4 DEF PullLocal
  <2>5. CASE pull[p][r].size # 0
    <3>1. PICK W2 : W2 = [W EXCEPT ![<<"pull", p, r>>] = Tail(W[<<"pull", p, r>>])]
      OBVIOUS
    <3>2. /\ Good(AtPlaces', qiids', own', W2)
          /\ own' = [own EXCEPT ![p] = own[p] \cup {Head(W[<<"pull", p, r>>])}]
          /\ W[<<"pull", p, r>>] # <<>>
          /\ pull' \in [Procs -> [Qids -> ListRec]] /\ qiids' \in Links /\ own' \in [Procs -> SUBSET Items]
      BY <1>12, <2>1, <2>2, <2>5, <3>1, PullSound
    <3>3. ListTypes'
      BY <1>0, <1>12, <3>2 DEF ListTypes, PullLocal
    <3>4. Moves(W, W2)
      BY <2>2, <3>1, <3>2 DEF Moves, Pulls
    <3>5. QED BY <1>1, <2>3, <3>2, <3>3, <3>4
  <2>6. QED BY <2>4, <2>5
<1>13. ASSUME NEW p \in Procs, Leave(p) PROVE Goal
  <2>1. Control'
    BY <1>0, <1>13 DEF Control, Leave, Pulling
  <2>2. PICK W2 : W2 = Left(W, p)
    OBVIOUS
  <2>3. /\ Good(AtPlaces', qiids', own', W2)
        /\ push' \in [Procs -> [Qids -> ListRec]] /\ pull' \in [Procs -> [Qids -> ListRec]]
        /\ own' \in [Procs -> SUBSET Items]
    BY <1>13, <2>2, LeaveSound
  <2>4. ListTypes'
    BY <1>0, <1>13, <2>3 DEF ListTypes, Leave
  <2>5. Leaves(W, W2, p)
    BY <1>13, <2>2 DEF Leaves, Leave
  <2>6. Moves(W, W2)
    BY <2>5 DEF Moves
  <2>7. QED BY <1>1, <2>1, <2>3, <2>4, <2>6
<1>14. CASE UNCHANGED vars
  <2>1. Control'
    BY <1>0, <1>14 DEF Control, Pulling, vars
  <2>2. QED BY <1>2, <1>14, <2>1 DEF vars
<1> HIDE DEF Goal
<1>15. ASSUME Next PROVE Goal
  <2>1. PICK p \in Procs :
          \/ \E q \in Named, i \in Items : PushHead(p, q, i)
          \/ \E r \in Named : PullTail(p, r)
          \/ \E q, r \in Named, i \in Items : PushHeadPullTail(p, q, i, r)
          \/ \E q, r \in Named : PushNonePullTail(p, q, r)
          \/ Lock(p) \/ FlushPush(p) \/ FillPull(p) \/ FlushDone(p) \/ PullLocal(p)
          \/ Leave(p)
    BY <1>15, Zenon DEF Next
  <2>2. \A q \in Named : q \in Qids
    BY NamedAreQids
  <2>3. QED BY <1>4, <1>5, <1>6, <1>7, <1>8, <1>9, <1>10, <1>11, <1>12, <1>13, <2>1, <2>2, Zenon
<1>16. QED BY <1>14, <1>15 DEF Goal

-----------------------------------------------------------------------------
(* What the sequences of the invariant say about the lists. *)

LEMMA WalkAt ==
  ASSUME NEW W, Good(AtPlaces, qiids, own, W), NEW x \in Places
  PROVE  Walk(ListAt(x)) = W[x] /\ Holds(qiids, ListAt(x), W[x]) /\ ItemsAt(x) = ItemsOf(W[x])
<1>1. Holds(qiids, ListAt(x), W[x])
  BY DEF Good, AtPlaces
<1>2. Walk(ListAt(x)) = W[x]
  BY <1>1, WalkIs, WalkUses
<1>3. DOMAIN W[x] = 1 .. Len(W[x])
  BY LenProperties DEF Good
<1>4. QED BY <1>1, <1>2, <1>3 DEF ItemsAt, ItemsOf

LEMMA ListsAt ==
  \A l \in Lists : \E x \in Places : l = ListAt(x)
<1> SUFFICES ASSUME NEW l \in Lists PROVE \E x \in Places : l = AtPlaces[x]
  BY DEF AtPlaces
<1>1. ASSUME NEW q \in Qids, l = qids[q] PROVE \E x \in Places : l = AtPlaces[x]
  <2>1. PICK x \in Places : x = <<"queue", q>>
    BY PlacesAre
  <2>2. AtPlaces[x] = qids[q]
    BY <2>1, AtIs
  <2>3. QED BY <1>1, <2>2
<1>2. ASSUME NEW p \in Procs, NEW q \in Qids, l = push[p][q] PROVE \E x \in Places : l = AtPlaces[x]
  <2>1. PICK x \in Places : x = <<"push", p, q>>
    BY PlacesAre
  <2>2. AtPlaces[x] = push[p][q]
    BY <2>1, AtIs
  <2>3. QED BY <1>2, <2>2
<1>3. ASSUME NEW p \in Procs, NEW q \in Qids, l = pull[p][q] PROVE \E x \in Places : l = AtPlaces[x]
  <2>1. PICK x \in Places : x = <<"pull", p, q>>
    BY PlacesAre
  <2>2. AtPlaces[x] = pull[p][q]
    BY <2>1, AtIs
  <2>3. QED BY <1>3, <2>2
<1>4. QED BY <1>1, <1>2, <1>3 DEF Lists

(* There are as many items on a list as its size says, and no more than there are. *)
LEMMA OnceCounts ==
  ASSUME NEW w \in Seq(Items), Once(w)
  PROVE  Cardinality(ItemsOf(w)) = Len(w) /\ Len(w) <= q_items
<1>1. PICK L \in Nat : L = Len(w)
  BY LenProperties
<1>2. w \in [1 .. L -> ItemsOf(w)] /\ DOMAIN w = 1 .. L
  BY <1>1, LenProperties DEF ItemsOf
<1>3. w \in Injection(1 .. L, ItemsOf(w))
  BY <1>1, <1>2 DEF Injection, IsInjective, Once
<1>4. w \in Surjection(1 .. L, ItemsOf(w))
  BY <1>1, <1>2 DEF Surjection, ItemsOf
<1>5. ExistsBijection(1 .. L, ItemsOf(w))
  BY <1>3, <1>4 DEF ExistsBijection, Bijection
<1>6. Cardinality(ItemsOf(w)) = L
  BY <1>5, FS_CountingElements
<1>7. IsFiniteSet(Items) /\ Cardinality(Items) = q_items
  BY QueueAssumption, FS_Interval DEF Items
<1>8. ItemsOf(w) \subseteq Items
  BY ElementOfSeq DEF ItemsOf
<1>9. Cardinality(ItemsOf(w)) <= q_items
  BY <1>7, <1>8, FS_Subset
<1>10. QED BY <1>1, <1>6, <1>9

(* All the items are on queue 0 at first. *)
LEMMA FirstHolds ==
  ASSUME Init, NEW w, w = [n \in 1 .. q_items |-> n - 1]
  PROVE  Holds(qiids, qids[0], w) /\ w \in Seq(Items)
<1>1. q_items \in Nat /\ q_items > 1 /\ 0 \in Qids
  BY QueueAssumption DEF Qids
<1>2. w \in Seq(Items) /\ Len(w) = q_items /\ \A n \in 1 .. q_items : w[n] = n - 1
  <2>1. \A n \in 1 .. q_items : n - 1 \in Items
    BY <1>1 DEF Items
  <2>2. w \in [1 .. q_items -> Items]
    BY <2>1
  <2>3. QED BY <1>1, <2>2
<1>3. qids[0] = [head |-> q_items - 1, tail |-> 0, size |-> q_items]
  BY <1>1 DEF Init, NewQids
<1>4. qids[0] \in ListRec
  BY <1>1, <1>3 DEF ListRec, Items
<1>5. Once(w)
  BY <1>1, <1>2 DEF Once
<1>6. Leads(qiids, w)
  <2> SUFFICES ASSUME NEW n \in 1 .. q_items - 1 PROVE qiids[w[n]].next = w[n + 1]
    BY <1>2 DEF Leads
  <2>1. w[n] = n - 1 /\ w[n + 1] = n
    BY <1>1, <1>2
  <2>2. n - 1 \in Items /\ n - 1 # q_items - 1 /\ (n - 1) + 1 = n
    BY <1>1 DEF Items
  <2>3. QED BY <2>1, <2>2 DEF Init, NewQiids
<1>7. q_items - 1 \in Items /\ qiids[q_items - 1].next = None
  BY <1>1 DEF Items, Init, NewQiids
<1>8. w[1] = 0 /\ w[q_items] = q_items - 1
  BY <1>1, <1>2
<1>9. QED BY <1>1, <1>2, <1>3, <1>4, <1>5, <1>6, <1>7, <1>8 DEF Holds

FirstItems == [x \in Places |-> IF x = <<"queue", 0>> THEN [n \in 1 .. q_items |-> n - 1] ELSE <<>>]

LEMMA QueueFirst == Init => QueueType /\ Pulling /\ Good(AtPlaces, qiids, own, FirstItems)
<1> SUFFICES ASSUME Init PROVE QueueType /\ Pulling /\ Good(AtPlaces, qiids, own, FirstItems)
  OBVIOUS
<1>1. q_items \in Nat /\ q_items > 1 /\ 0 \in Qids
  BY QueueAssumption DEF Qids
<1>2. PICK w : w = [n \in 1 .. q_items |-> n - 1]
  OBVIOUS
<1>3. PICK W : W = [x \in Places |-> IF x = <<"queue", 0>> THEN w ELSE <<>>]
  OBVIOUS
<1>4. w \in Seq(Items)
  BY <1>2, FirstHolds
<1>5. Empty \in ListRec
  BY EmptyHolds DEF Holds
<1>6. QueueType
  <2>1. \A i \in Items : i - 1 \in Items \cup {None} /\ (i # q_items - 1 => i + 1 \in Items)
    BY <1>1 DEF Items, None
  <2>2. qiids \in Links
    BY <2>1 DEF Init, NewQiids, Links
  <2>3. [head |-> q_items - 1, tail |-> 0, size |-> q_items] \in ListRec
    BY <1>1 DEF ListRec, Items
  <2>4. /\ qids \in [Qids -> ListRec]
        /\ push \in [Procs -> [Qids -> ListRec]] /\ pull \in [Procs -> [Qids -> ListRec]]
    BY <1>5, <2>3 DEF Init, NewQids, NewLists
  <2>5. QED BY <2>2, <2>4 DEF Init, QueueType
<1>7. Pulling
  BY DEF Init, Pulling
<1>8. Holds(qiids, qids[0], w)
  BY <1>2, FirstHolds
<1>9. W \in [Places -> Seq(Items)]
  BY <1>3, <1>4, EmptySeq
<1>10. \A x \in Places : Holds(qiids, AtPlaces[x], W[x])
  <2>1. ASSUME NEW q \in Qids PROVE Holds(qiids, AtPlaces[<<"queue", q>>], W[<<"queue", q>>])
    <3>1. PICK x \in Places : x = <<"queue", q>>
      BY PlacesAre
    <3>2. AtPlaces[x] = qids[q]
      BY <3>1, AtIs
    <3>3. CASE q = 0
      BY <1>3, <1>8, <3>1, <3>2, <3>3
    <3>4. CASE q # 0
      <4>1. x # <<"queue", 0>>
        BY <3>1, <3>4
      <4>2. W[x] = <<>> /\ qids[q] = Empty
        BY <1>3, <3>4, <4>1 DEF Init, NewQids
      <4>3. QED BY <3>1, <3>2, <4>2, EmptyHolds
    <3>5. QED BY <3>3, <3>4
  <2>2. ASSUME NEW x \in Places, x # <<"queue", 0>>, AtPlaces[x] = Empty PROVE Holds(qiids, AtPlaces[x], W[x])
    BY <1>3, <2>2, EmptyHolds
  <2>3. ASSUME NEW p \in Procs, NEW q \in Qids
        PROVE  /\ AtPlaces[<<"push", p, q>>] = Empty /\ AtPlaces[<<"pull", p, q>>] = Empty
               /\ <<"push", p, q>> # <<"queue", 0>> /\ <<"pull", p, q>> # <<"queue", 0>>
    <3>1. push[p][q] = Empty /\ pull[p][q] = Empty
      BY DEF Init, NewLists
    <3>2. QED BY <3>1, AtIs
  <2>4. ASSUME NEW x \in Places PROVE Holds(qiids, AtPlaces[x], W[x])
    <3>1. ASSUME NEW q \in Qids, x = <<"queue", q>> PROVE Holds(qiids, AtPlaces[x], W[x])
      BY <2>1, <3>1
    <3>2. ASSUME NEW p \in Procs, NEW q \in Qids, x = <<"push", p, q>> PROVE Holds(qiids, AtPlaces[x], W[x])
      BY <2>2, <2>3, <3>2
    <3>3. ASSUME NEW p \in Procs, NEW q \in Qids, x = <<"pull", p, q>> PROVE Holds(qiids, AtPlaces[x], W[x])
      BY <2>2, <2>3, <3>3
    <3>4. QED BY <3>1, <3>2, <3>3 DEF Places
  <2>5. QED BY <2>4
<1>11. \A x \in Places \cup Hands : In(W, own, x) # {} => x = <<"queue", 0>>
  <2> SUFFICES ASSUME NEW x \in Places \cup Hands, x # <<"queue", 0>> PROVE In(W, own, x) = {}
    OBVIOUS
  <2>1. CASE x \in Places
    BY <1>3, <2>1, EmptyItems, PlacesAre DEF In
  <2>2. CASE x \in Hands
    <3>1. PICK p \in Procs : x = <<"own", p>>
      BY <2>2 DEF Hands
    <3>2. QED BY <3>1, PlacesAre DEF In, Init
  <2>3. QED BY <2>1, <2>2
<1>12. Good(AtPlaces, qiids, own, W)
  BY <1>9, <1>10, <1>11 DEF Good
<1>13. QED BY <1>2, <1>3, <1>6, <1>7, <1>12 DEF FirstItems

LEMMA QueueInit == Init => QueueInv
BY QueueFirst DEF QueueInv

(* There are always sequences, one for each list, that the links lead      *)
(* through, and no two lists or processes have an item of them in common.  *)
THEOREM QueueInvariant == Spec => []QueueInv
<1>1. QueueInv /\ [Next]_vars => QueueInv'
  BY StepSound DEF QueueInv
<1>2. QED BY <1>1, QueueInit, PTL DEF Spec

LEMMA ListsFollow == QueueInv => ListsSound
<1> SUFFICES ASSUME QueueInv, NEW l \in Lists
             PROVE  IF l.size = 0 THEN l = Empty
                    ELSE Walk(l)[l.size] = l.head /\ qiids[l.head].next = None
  BY DEF ListsSound
<1>1. PICK W : Good(AtPlaces, qiids, own, W)
  BY DEF QueueInv
<1>2. PICK x \in Places : l = ListAt(x)
  BY ListsAt
<1>3. Walk(l) = W[x] /\ Holds(qiids, l, W[x])
  BY <1>1, <1>2, WalkAt
<1>4. QED BY <1>3 DEF Holds, ListRec

(* The assertions of shf_q_flush and shf_q_pull_tail hold however flushes, *)
(* pushes and pulls of any processes interleave.                           *)
THEOREM QueueListsSound == Spec => []ListsSound
BY ListsFollow, QueueInvariant, PTL

LEMMA TwiceFollows == QueueInv => NoItemTwice
<1> SUFFICES ASSUME QueueInv PROVE NoItemTwice
  OBVIOUS
<1>1. PICK W : Good(AtPlaces, qiids, own, W)
  BY DEF QueueInv
<1>2. ASSUME NEW x \in Places PROVE Cardinality(ItemsAt(x)) = ListAt(x).size
  <2>1. ItemsAt(x) = ItemsOf(W[x]) /\ Holds(qiids, ListAt(x), W[x])
    BY <1>1, WalkAt
  <2>2. W[x] \in Seq(Items) /\ Once(W[x]) /\ Len(W[x]) = ListAt(x).size
    BY <2>1 DEF Holds
  <2>3. QED BY <2>1, <2>2, OnceCounts
<1>3. ASSUME NEW x \in Places, NEW y \in Places, x # y PROVE ItemsAt(x) \cap ItemsAt(y) = {}
  BY <1>1, <1>3, WalkAt, ListsApart
<1>4. ASSUME NEW x \in Places, NEW p \in Procs PROVE ItemsAt(x) \cap own[p] = {}
  <2>1. PICK h \in Hands : h = <<"own", p>>
    BY PlacesAre
  <2>2. In(W, own, h) = own[p] /\ In(W, own, x) = ItemsOf(W[x]) /\ x # h
    BY <2>1, PlacesAre DEF In
  <2>3. In(W, own, x) \cap In(W, own, h) = {}
    BY <1>1, <2>2 DEF Good
  <2>4. QED BY <1>1, <2>2, <2>3, WalkAt
<1>5. ASSUME NEW p \in Procs, NEW r \in Procs, p # r PROVE own[p] \cap own[r] = {}
  <2>1. PICK h \in Hands : h = <<"own", p>>
    BY PlacesAre
  <2>2. PICK g \in Hands : g = <<"own", r>>
    BY PlacesAre
  <2>3. In(W, own, h) = own[p] /\ In(W, own, g) = own[r] /\ g # h
    BY <1>5, <2>1, <2>2, PlacesAre DEF In
  <2>4. In(W, own, h) \cap In(W, own, g) = {}
    BY <1>1, <2>3 DEF Good
  <2>5. QED BY <2>3, <2>4
<1>6. QED BY <1>2, <1>3, <1>4, <1>5 DEF NoItemTwice

(* No item is on two lists, twice on one, or on a list and in the hands of *)
(* a process, for any number of processes and whoever flushes when.        *)
THEOREM QueueNoItemTwice == Spec => []NoItemTwice
BY TwiceFollows, QueueInvariant, PTL

LEMMA TypesFollow == QueueInv => TypeOK
<1> SUFFICES ASSUME QueueInv PROVE TypeOK
  OBVIOUS
<1>1. PICK W : Good(AtPlaces, qiids, own, W)
  BY DEF QueueInv
<1>2. ASSUME NEW l \in Lists
      PROVE  l \in [head : Items \cup {None}, tail : Items \cup {None}, size : 0 .. q_items]
  <2>1. PICK x \in Places : l = ListAt(x)
    BY ListsAt
  <2>2. Holds(qiids, l, W[x])
    BY <1>1, <2>1, WalkAt
  <2>3. W[x] \in Seq(Items) /\ Once(W[x]) /\ Len(W[x]) = l.size /\ l \in ListRec
    BY <2>2 DEF Holds
  <2>4. l.size <= q_items
    BY <2>3, OnceCounts
  <2>5. q_items \in Nat
    BY QueueAssumption
  <2>6. QED BY <2>3, <2>4, <2>5 DEF ListRec
<1>3. QED BY <1>2 DEF TypeOK, QueueInv, QueueType, Links

(* Every list has the shape the code's types give it and no more items     *)
(* than there are; pc and lock stay in their sets.                         *)
THEOREM QueueTypeOK == Spec => []TypeOK
BY TypesFollow, QueueInvariant, PTL

-----------------------------------------------------------------------------
(* The refinement of BatchQueue. *)

QueueOf(W) == [q \in Qids |-> W[<<"queue", q>>]]
OutOf(W) == [p \in Procs |-> [q \in Qids |-> W[<<"push", p, q>>]]]
InOf(W) == [p \in Procs |-> [q \in Qids |-> W[<<"pull", p, q>>]]]

LEMMA Mapped ==
  ASSUME NEW W, Good(AtPlaces, qiids, own, W)
  PROVE  QueueItems = QueueOf(W) /\ OutItems = OutOf(W) /\ InItems = InOf(W)
<1>1. \A x \in Places : Walk(AtPlaces[x]) = W[x]
  BY WalkAt DEF AtPlaces
<1>2. /\ \A q \in Qids : Walk(qids[q]) = W[<<"queue", q>>]
      /\ \A p \in Procs, q \in Qids : Walk(push[p][q]) = W[<<"push", p, q>>]
      /\ \A p \in Procs, q \in Qids : Walk(pull[p][q]) = W[<<"pull", p, q>>]
  <2>1. ASSUME NEW q \in Qids PROVE Walk(qids[q]) = W[<<"queue", q>>]
    <3>1. PICK x \in Places : x = <<"queue", q>>
      BY PlacesAre
    <3>2. AtPlaces[x] = qids[q]
      BY <3>1, AtIs
    <3>3. QED BY <1>1, <3>1, <3>2
  <2>2. ASSUME NEW p \in Procs, NEW q \in Qids PROVE Walk(push[p][q]) = W[<<"push", p, q>>]
    <3>1. PICK x \in Places : x = <<"push", p, q>>
      BY PlacesAre
    <3>2. AtPlaces[x] = push[p][q]
      BY <3>1, AtIs
    <3>3. QED BY <1>1, <3>1, <3>2
  <2>3. ASSUME NEW p \in Procs, NEW q \in Qids PROVE Walk(pull[p][q]) = W[<<"pull", p, q>>]
    <3>1. PICK x \in Places : x = <<"pull", p, q>>
      BY PlacesAre
    <3>2. AtPlaces[x] = pull[p][q]
      BY <3>1, AtIs
    <3>3. QED BY <1>1, <3>1, <3>2
  <2>4. QED BY <2>1, <2>2, <2>3
<1>3. QED BY <1>2 DEF QueueItems, OutItems, InItems, QueueOf, OutOf, InOf

LEMMA WalkUsesNext ==
  /\ QueueItems' = [q \in Qids |-> WalkIn(qiids', qids'[q])]
  /\ OutItems' = [p \in Procs |-> [q \in Qids |-> WalkIn(qiids', push'[p][q])]]
  /\ InItems' = [p \in Procs |-> [q \in Qids |-> WalkIn(qiids', pull'[p][q])]]
BY DEF QueueItems, OutItems, InItems, Walk, WalkIn, Follows

LEMMA MappedNext ==
  ASSUME NEW W, Good(AtPlaces', qiids', own', W)
  PROVE  QueueItems' = QueueOf(W) /\ OutItems' = OutOf(W) /\ InItems' = InOf(W)
<1>1. \A x \in Places : WalkIn(qiids', AtPlaces'[x]) = W[x]
  BY WalkIs DEF Good
<1>2. /\ \A q \in Qids : WalkIn(qiids', qids'[q]) = W[<<"queue", q>>]
      /\ \A p \in Procs, q \in Qids : WalkIn(qiids', push'[p][q]) = W[<<"push", p, q>>]
      /\ \A p \in Procs, q \in Qids : WalkIn(qiids', pull'[p][q]) = W[<<"pull", p, q>>]
  <2>1. ASSUME NEW q \in Qids PROVE WalkIn(qiids', qids'[q]) = W[<<"queue", q>>]
    <3>1. PICK x \in Places : x = <<"queue", q>>
      BY PlacesAre
    <3>2. AtPlaces'[x] = qids'[q]
      BY <3>1, AtIsNext
    <3>3. QED BY <1>1, <3>1, <3>2
  <2>2. ASSUME NEW p \in Procs, NEW q \in Qids PROVE WalkIn(qiids', push'[p][q]) = W[<<"push", p, q>>]
    <3>1. PICK x \in Places : x = <<"push", p, q>>
      BY PlacesAre
    <3>2. AtPlaces'[x] = push'[p][q]
      BY <3>1, AtIsNext
    <3>3. QED BY <1>1, <3>1, <3>2
  <2>3. ASSUME NEW p \in Procs, NEW q \in Qids PROVE WalkIn(qiids', pull'[p][q]) = W[<<"pull", p, q>>]
    <3>1. PICK x \in Places : x = <<"pull", p, q>>
      BY PlacesAre
    <3>2. AtPlaces'[x] = pull'[p][q]
      BY <3>1, AtIsNext
    <3>3. QED BY <1>1, <3>1, <3>2
  <2>4. QED BY <2>1, <2>2, <2>3
<1>3. QED BY <1>2, WalkUsesNext DEF QueueOf, OutOf, InOf

(* A step of the sequences is one of BatchQueue. *)
LEMMA MovesAbstract ==
  ASSUME ListTypes, NEW W, Good(AtPlaces, qiids, own, W),
         NEW W2, Good(AtPlaces', qiids', own', W2), Moves(W, W2)
  PROVE  Abstract!Next \/ UNCHANGED <<own, OutItems, QueueItems, InItems>>
<1>1. /\ QueueItems = QueueOf(W) /\ OutItems = OutOf(W) /\ InItems = InOf(W)
      /\ QueueItems' = QueueOf(W2) /\ OutItems' = OutOf(W2) /\ InItems' = InOf(W2)
  BY Mapped, MappedNext
<1>2. /\ \A q \in Qids : QueueOf(W)[q] = W[<<"queue", q>>]
      /\ \A p \in Procs, q \in Qids :
           OutOf(W)[p][q] = W[<<"push", p, q>>] /\ InOf(W)[p][q] = W[<<"pull", p, q>>]
  BY DEF QueueOf, OutOf, InOf
<1>3. \A x \in Places : W[x] \in Seq(Items)
  BY DEF Good
<1>4. DOMAIN W = Places
  BY DEF Good
<1>5. CASE Stays(W, W2)
  BY <1>1, <1>5 DEF Stays
<1>6. ASSUME NEW p \in Procs, NEW q \in Qids, NEW i \in Items, Pushes(W, W2, p, q, i)
      PROVE  Abstract!Next
  <2>1. PICK b \in Places : b = <<"push", p, q>>
    BY PlacesAre
  <2>2. PICK s : s = W[b] \o <<i>>
    OBVIOUS
  <2>3. \A y \in Places : W2[y] = IF y = b THEN s ELSE W[y]
    BY <1>4, <1>6, <2>1, <2>2 DEF Pushes
  <2>4. \A r \in Qids : W2[<<"queue", r>>] = W[<<"queue", r>>]
    <3> SUFFICES ASSUME NEW r \in Qids PROVE W2[<<"queue", r>>] = W[<<"queue", r>>]
      OBVIOUS
    <3>1. PICK y \in Places : y = <<"queue", r>>
      BY PlacesAre
    <3>1a. y # b
      BY <2>1, <3>1
    <3>2. QED BY <2>3, <3>1, <3>1a
  <2>5. \A o \in Procs, r \in Qids : W2[<<"pull", o, r>>] = W[<<"pull", o, r>>]
    <3> SUFFICES ASSUME NEW o \in Procs, NEW r \in Qids PROVE W2[<<"pull", o, r>>] = W[<<"pull", o, r>>]
      OBVIOUS
    <3>1. PICK y \in Places : y = <<"pull", o, r>>
      BY PlacesAre
    <3>1a. y # b
      BY <2>1, <3>1
    <3>2. QED BY <2>3, <3>1, <3>1a
  <2>6. \A o \in Procs, r \in Qids :
          W2[<<"push", o, r>>] = IF o = p /\ r = q THEN s ELSE W[<<"push", o, r>>]
    <3> SUFFICES ASSUME NEW o \in Procs, NEW r \in Qids
                 PROVE  W2[<<"push", o, r>>] = IF o = p /\ r = q THEN s ELSE W[<<"push", o, r>>]
      OBVIOUS
    <3>1. PICK y \in Places : y = <<"push", o, r>>
      BY PlacesAre
    <3>1a. (y = b <=> (o = p /\ r = q))
      BY <2>1, <3>1
    <3>2. QED BY <2>3, <3>1, <3>1a
  <2>7. QueueOf(W2) = QueueOf(W) /\ InOf(W2) = InOf(W)
    BY <2>4, <2>5 DEF QueueOf, InOf
  <2>8. OutOf(W2) = [OutOf(W) EXCEPT ![p][q] = s]
    BY ZenonT(40), <2>6 DEF OutOf
  <2>9. s = Append(OutOf(W)[p][q], i)
    BY <1>2, <1>3, <2>1, <2>2, AppendIsConcat
  <2>10. /\ i \in own[p] /\ own' = [own EXCEPT ![p] = own[p] \ {i}]
    BY <1>6 DEF Pushes
  <2>11. Abstract!Push(p, q, i)
    BY <1>1, <2>7, <2>8, <2>9, <2>10 DEF Abstract!Push
  <2>12. QED BY <2>11 DEF Abstract!Next
<1>7. ASSUME NEW p \in Procs, NEW q \in Qids, Flushes(W, W2, p, q) PROVE Abstract!Next
  <2>1. PICK a \in Places : a = <<"push", p, q>>
    BY PlacesAre
  <2>2. PICK b \in Places : b = <<"queue", q>>
    BY PlacesAre
  <2>3. PICK s : s = W[b] \o W[a]
    OBVIOUS
  <2>4. \A y \in Places : W2[y] = IF y = a THEN <<>> ELSE IF y = b THEN s ELSE W[y]
    BY <1>7, <2>1, <2>2, <2>3 DEF Flushes, With
  <2>5. \A r \in Qids : W2[<<"queue", r>>] = IF r = q THEN s ELSE W[<<"queue", r>>]
    <3> SUFFICES ASSUME NEW r \in Qids
                 PROVE  W2[<<"queue", r>>] = IF r = q THEN s ELSE W[<<"queue", r>>]
      OBVIOUS
    <3>1. PICK y \in Places : y = <<"queue", r>>
      BY PlacesAre
    <3>1a. y # a /\ (y = b <=> r = q)
      BY <2>1, <2>2, <3>1
    <3>2. QED BY <2>4, <3>1, <3>1a
  <2>6. \A o \in Procs, r \in Qids : W2[<<"pull", o, r>>] = W[<<"pull", o, r>>]
    <3> SUFFICES ASSUME NEW o \in Procs, NEW r \in Qids PROVE W2[<<"pull", o, r>>] = W[<<"pull", o, r>>]
      OBVIOUS
    <3>1. PICK y \in Places : y = <<"pull", o, r>>
      BY PlacesAre
    <3>1a. y # b /\ y # a
      BY <2>1, <2>2, <3>1
    <3>2. QED BY <2>4, <3>1, <3>1a
  <2>7. \A o \in Procs, r \in Qids :
          W2[<<"push", o, r>>] = IF o = p /\ r = q THEN <<>> ELSE W[<<"push", o, r>>]
    <3> SUFFICES ASSUME NEW o \in Procs, NEW r \in Qids
                 PROVE  W2[<<"push", o, r>>] = IF o = p /\ r = q THEN <<>> ELSE W[<<"push", o, r>>]
      OBVIOUS
    <3>1. PICK y \in Places : y = <<"push", o, r>>
      BY PlacesAre
    <3>1a. y # b /\ (y = a <=> (o = p /\ r = q))
      BY <2>1, <2>2, <3>1
    <3>2. QED BY <2>4, <3>1, <3>1a
  <2>8. InOf(W2) = InOf(W)
    BY <2>6 DEF InOf
  <2>9. OutOf(W2) = [OutOf(W) EXCEPT ![p][q] = <<>>] /\ QueueOf(W2) = [QueueOf(W) EXCEPT ![q] = s]
    <3>1. OutOf(W2) = [OutOf(W) EXCEPT ![p][q] = <<>>]
      BY ZenonT(40), <2>7 DEF OutOf
    <3>2. QueueOf(W2) = [QueueOf(W) EXCEPT ![q] = s]
      BY <2>5 DEF QueueOf
    <3>3. QED BY <3>1, <3>2
  <2>10. s = QueueOf(W)[q] \o OutOf(W)[p][q] /\ own' = own
    BY <1>2, <1>7, <2>1, <2>2, <2>3 DEF Flushes
  <2>11. Abstract!Flush(p, q)
    BY <1>1, <2>8, <2>9, <2>10 DEF Abstract!Flush
  <2>12. QED BY <2>11 DEF Abstract!Next
<1>8. ASSUME NEW p \in Procs, NEW q \in Qids, NEW n, Fills(W, W2, p, q, n) PROVE Abstract!Next
  <2>1. PICK b \in Places : b = <<"pull", p, q>>
    BY PlacesAre
  <2>2. PICK a \in Places : a = <<"queue", q>>
    BY PlacesAre
  <2>3. PICK s : s = W[b] \o SubSeq(W[a], 1, n)
    OBVIOUS
  <2>4. PICK u : u = SubSeq(W[a], n + 1, Len(W[a]))
    OBVIOUS
  <2>5. \A y \in Places : W2[y] = IF y = a THEN u ELSE IF y = b THEN s ELSE W[y]
    BY <1>8, <2>1, <2>2, <2>3, <2>4 DEF Fills, With
  <2>6. \A r \in Qids : W2[<<"queue", r>>] = IF r = q THEN u ELSE W[<<"queue", r>>]
    <3> SUFFICES ASSUME NEW r \in Qids
                 PROVE  W2[<<"queue", r>>] = IF r = q THEN u ELSE W[<<"queue", r>>]
      OBVIOUS
    <3>1. PICK y \in Places : y = <<"queue", r>>
      BY PlacesAre
    <3>1a. y # b /\ (y = a <=> r = q)
      BY <2>1, <2>2, <3>1
    <3>2. QED BY <2>5, <3>1, <3>1a
  <2>7. \A o \in Procs, r \in Qids : W2[<<"push", o, r>>] = W[<<"push", o, r>>]
    <3> SUFFICES ASSUME NEW o \in Procs, NEW r \in Qids PROVE W2[<<"push", o, r>>] = W[<<"push", o, r>>]
      OBVIOUS
    <3>1. PICK y \in Places : y = <<"push", o, r>>
      BY PlacesAre
    <3>1a. y # b /\ y # a
      BY <2>1, <2>2, <3>1
    <3>2. QED BY <2>5, <3>1, <3>1a
  <2>8. \A o \in Procs, r \in Qids :
          W2[<<"pull", o, r>>] = IF o = p /\ r = q THEN s ELSE W[<<"pull", o, r>>]
    <3> SUFFICES ASSUME NEW o \in Procs, NEW r \in Qids
                 PROVE  W2[<<"pull", o, r>>] = IF o = p /\ r = q THEN s ELSE W[<<"pull", o, r>>]
      OBVIOUS
    <3>1. PICK y \in Places : y = <<"pull", o, r>>
      BY PlacesAre
    <3>1a. y # a /\ (y = b <=> (o = p /\ r = q))
      BY <2>1, <2>2, <3>1
    <3>2. QED BY <2>5, <3>1, <3>1a
  <2>9. OutOf(W2) = OutOf(W)
    BY <2>7 DEF OutOf
  <2>10. InOf(W2) = [InOf(W) EXCEPT ![p][q] = s] /\ QueueOf(W2) = [QueueOf(W) EXCEPT ![q] = u]
    <3>1. InOf(W2) = [InOf(W) EXCEPT ![p][q] = s]
      BY ZenonT(40), <2>8 DEF InOf
    <3>2. QueueOf(W2) = [QueueOf(W) EXCEPT ![q] = u]
      BY <2>6 DEF QueueOf
    <3>3. QED BY <3>1, <3>2
  <2>11. /\ s = InOf(W)[p][q] \o SubSeq(QueueOf(W)[q], 1, n)
         /\ u = SubSeq(QueueOf(W)[q], n + 1, Len(QueueOf(W)[q]))
         /\ n <= Len(QueueOf(W)[q]) /\ n + Len(InOf(W)[p][q]) <= qids_nolock_max[p]
         /\ own' = own /\ n \in Nat /\ n > 0
    BY <1>2, <1>8, <2>1, <2>2, <2>3, <2>4 DEF Fills
  <2>12. n \in 1 .. qids_nolock_max[p]
    <3>1. Len(InOf(W)[p][q]) \in Nat
      BY <1>2, <1>3, <2>1, LenProperties
    <3>2. qids_nolock_max[p] \in Nat
      BY QueueAssumption
    <3>3. QED BY <2>11, <3>1, <3>2
  <2>13. Abstract!Fill(p, q, n)
    BY <1>1, <2>9, <2>10, <2>11 DEF Abstract!Fill
  <2>14. QED BY <2>12, <2>13 DEF Abstract!Next
<1>9. ASSUME NEW p \in Procs, NEW q \in Qids, Pulls(W, W2, p, q) PROVE Abstract!Next
  <2>1. PICK b \in Places : b = <<"pull", p, q>>
    BY PlacesAre
  <2>2. PICK s : s = Tail(W[b])
    OBVIOUS
  <2>3. \A y \in Places : W2[y] = IF y = b THEN s ELSE W[y]
    BY <1>4, <1>9, <2>1, <2>2 DEF Pulls
  <2>4. \A r \in Qids : W2[<<"queue", r>>] = W[<<"queue", r>>]
    <3> SUFFICES ASSUME NEW r \in Qids PROVE W2[<<"queue", r>>] = W[<<"queue", r>>]
      OBVIOUS
    <3>1. PICK y \in Places : y = <<"queue", r>>
      BY PlacesAre
    <3>1a. y # b
      BY <2>1, <3>1
    <3>2. QED BY <2>3, <3>1, <3>1a
  <2>5. \A o \in Procs, r \in Qids : W2[<<"push", o, r>>] = W[<<"push", o, r>>]
    <3> SUFFICES ASSUME NEW o \in Procs, NEW r \in Qids PROVE W2[<<"push", o, r>>] = W[<<"push", o, r>>]
      OBVIOUS
    <3>1. PICK y \in Places : y = <<"push", o, r>>
      BY PlacesAre
    <3>1a. y # b
      BY <2>1, <3>1
    <3>2. QED BY <2>3, <3>1, <3>1a
  <2>6. \A o \in Procs, r \in Qids :
          W2[<<"pull", o, r>>] = IF o = p /\ r = q THEN s ELSE W[<<"pull", o, r>>]
    <3> SUFFICES ASSUME NEW o \in Procs, NEW r \in Qids
                 PROVE  W2[<<"pull", o, r>>] = IF o = p /\ r = q THEN s ELSE W[<<"pull", o, r>>]
      OBVIOUS
    <3>1. PICK y \in Places : y = <<"pull", o, r>>
      BY PlacesAre
    <3>1a. (y = b <=> (o = p /\ r = q))
      BY <2>1, <3>1
    <3>2. QED BY <2>3, <3>1, <3>1a
  <2>7. QueueOf(W2) = QueueOf(W) /\ OutOf(W2) = OutOf(W)
    BY <2>4, <2>5 DEF QueueOf, OutOf
  <2>8. InOf(W2) = [InOf(W) EXCEPT ![p][q] = s]
    BY ZenonT(40), <2>6 DEF InOf
  <2>9. /\ InOf(W)[p][q] # <<>> /\ s = Tail(InOf(W)[p][q])
        /\ own' = [own EXCEPT ![p] = own[p] \cup {Head(InOf(W)[p][q])}]
    BY <1>2, <1>9, <2>1, <2>2 DEF Pulls
  <2>10. Abstract!Pull(p, q)
    BY <1>1, <2>7, <2>8, <2>9 DEF Abstract!Pull
  <2>11. QED BY <2>10 DEF Abstract!Next
<1>10. ASSUME NEW p \in Procs, Leaves(W, W2, p) PROVE Abstract!Next
  <2>1. \A y \in Places : W2[y] = IF y[1] \in {"push", "pull"} /\ y[2] = p THEN <<>> ELSE W[y]
    BY <1>10 DEF Leaves, Left
  <2>2. \A r \in Qids : W2[<<"queue", r>>] = W[<<"queue", r>>]
    <3> SUFFICES ASSUME NEW r \in Qids PROVE W2[<<"queue", r>>] = W[<<"queue", r>>]
      OBVIOUS
    <3>1. PICK y \in Places : y = <<"queue", r>>
      BY PlacesAre
    <3>1a. y[1] = "queue"
      BY <3>1
    <3>2. QED BY <2>1, <3>1, <3>1a
  <2>3. \A o \in Procs, r \in Qids :
          /\ W2[<<"push", o, r>>] = IF o = p THEN <<>> ELSE W[<<"push", o, r>>]
          /\ W2[<<"pull", o, r>>] = IF o = p THEN <<>> ELSE W[<<"pull", o, r>>]
    <3> SUFFICES ASSUME NEW o \in Procs, NEW r \in Qids
                 PROVE  /\ W2[<<"push", o, r>>] = IF o = p THEN <<>> ELSE W[<<"push", o, r>>]
                        /\ W2[<<"pull", o, r>>] = IF o = p THEN <<>> ELSE W[<<"pull", o, r>>]
      OBVIOUS
    <3>1. PICK y \in Places : y = <<"push", o, r>>
      BY PlacesAre
    <3>1a. y[1] = "push" /\ y[2] = o
      BY <3>1
    <3>2. PICK z \in Places : z = <<"pull", o, r>>
      BY PlacesAre
    <3>2a. z[1] = "pull" /\ z[2] = o
      BY <3>2
    <3>3. /\ W2[y] = IF o = p THEN <<>> ELSE W[y]
          /\ W2[z] = IF o = p THEN <<>> ELSE W[z]
      BY <2>1, <3>1a, <3>2a
    <3>4. QED BY <3>1, <3>2, <3>3
  <2>4. QueueOf(W2) = QueueOf(W)
    BY <2>2 DEF QueueOf
  <2>5. /\ OutOf(W2) = [OutOf(W) EXCEPT ![p] = [q \in Qids |-> <<>>]]
        /\ InOf(W2) = [InOf(W) EXCEPT ![p] = [q \in Qids |-> <<>>]]
    BY <2>3 DEF OutOf, InOf
  <2>6. Abstract!Leave(p)
    BY <1>1, <1>10, <2>4, <2>5 DEF Abstract!Leave, Leaves
  <2>7. QED BY <2>6 DEF Abstract!Next
<1>11. QED BY <1>5, <1>6, <1>7, <1>8, <1>9, <1>10, Zenon DEF Moves

LEMMA InitAbstract == Init => Abstract!Init
<1> SUFFICES ASSUME Init PROVE Abstract!Init
  OBVIOUS
<1>1. q_items \in Nat /\ q_items > 1 /\ 0 \in Qids
  BY QueueAssumption DEF Qids
<1>2. PICK s : s = [n \in 1 .. q_items |-> n - 1]
  OBVIOUS
<1>3. PICK W : Good(AtPlaces, qiids, own, W)
  BY QueueInit DEF QueueInv
<1>4. QueueItems = QueueOf(W) /\ OutItems = OutOf(W) /\ InItems = InOf(W)
  BY <1>3, Mapped
<1>5. \A x \in Places : W[x] \in Seq(Items) /\ Holds(qiids, AtPlaces[x], W[x])
  BY <1>3 DEF Good
<1>6. \A l, w : Holds(qiids, l, w) /\ l = Empty => w = <<>>
  BY EmptySeq DEF Holds, Empty
<1>7. \A p \in Procs, q \in Qids : W[<<"push", p, q>>] = <<>> /\ W[<<"pull", p, q>>] = <<>>
  <2> SUFFICES ASSUME NEW p \in Procs, NEW q \in Qids
               PROVE  W[<<"push", p, q>>] = <<>> /\ W[<<"pull", p, q>>] = <<>>
    OBVIOUS
  <2>1. PICK y \in Places : y = <<"push", p, q>>
    BY PlacesAre
  <2>2. PICK z \in Places : z = <<"pull", p, q>>
    BY PlacesAre
  <2>3. push[p][q] = Empty /\ pull[p][q] = Empty
    BY DEF Init, NewLists
  <2>4. AtPlaces[y] = Empty /\ AtPlaces[z] = Empty
    BY <2>1, <2>2, <2>3, AtIs
  <2>5. QED BY <1>5, <1>6, <2>1, <2>2, <2>4
<1>8. \A q \in Qids : q # 0 => W[<<"queue", q>>] = <<>>
  <2> SUFFICES ASSUME NEW q \in Qids, q # 0 PROVE W[<<"queue", q>>] = <<>>
    OBVIOUS
  <2>1. PICK y \in Places : y = <<"queue", q>>
    BY PlacesAre
  <2>2. qids[q] = Empty
    BY DEF Init, NewQids
  <2>3. AtPlaces[y] = Empty
    BY <2>1, <2>2, AtIs
  <2>4. QED BY <1>5, <1>6, <2>1, <2>3
<1>9. W[<<"queue", 0>>] = s
  <2>1. PICK y \in Places : y = <<"queue", 0>>
    BY <1>1, PlacesAre
  <2>2. AtPlaces[y] = qids[0]
    BY <1>1, <2>1, AtIs
  <2>3. Holds(qiids, qids[0], W[y])
    BY <1>5, <2>2
  <2>4. Holds(qiids, qids[0], s)
    BY <1>1, <1>2, FirstHolds
  <2>5. W[y] = s
    BY <2>3, <2>4, WalkIs
  <2>6. QED BY <2>1, <2>5
<1>10. /\ s \in [1 .. q_items -> Items] /\ Len(s) = q_items /\ DOMAIN s = 1 .. q_items
       /\ \A n \in 1 .. q_items : s[n] = n - 1
  <2>1. \A n \in 1 .. q_items : n - 1 \in Items
    BY <1>1 DEF Items
  <2>2. QED BY <1>1, <1>2, <2>1
<1>11. \A i \in Items : \E n \in DOMAIN s : s[n] = i
  <2> SUFFICES ASSUME NEW i \in Items PROVE \E n \in DOMAIN s : s[n] = i
    OBVIOUS
  <2>1. i + 1 \in 1 .. q_items /\ (i + 1) - 1 = i
    BY <1>1 DEF Items
  <2>2. QED BY <1>10, <2>1
<1>12. \A n, k \in DOMAIN s : n # k => s[n] # s[k]
  BY <1>10
<1>13. QueueItems = [q \in Qids |-> IF q = 0 THEN s ELSE <<>>] /\ QueueItems[0] = s
  BY <1>1, <1>4, <1>8, <1>9 DEF QueueOf
<1>14. /\ OutItems = [p \in Procs |-> [q \in Qids |-> <<>>]]
       /\ InItems = [p \in Procs |-> [q \in Qids |-> <<>>]]
  BY <1>4, <1>7 DEF OutOf, InOf
<1>15. own = [p \in Procs |-> {}]
  BY DEF Init
<1>16. s \in [1 .. Len(QueueItems[0]) -> Items]
  BY <1>10, <1>13
<1>17. QED BY <1>11, <1>12, <1>13, <1>14, <1>15, <1>16 DEF Abstract!Init

(* Read along their links, the lists of the shared queues and of every     *)
(* process are the sequences of BatchQueue: a batch reaches its queue in   *)
(* one piece, and items keep their order and their neighbours on the way.  *)
THEOREM QueueImplementsBatchQueue == Spec => ImplementsBatchQueue
<1>1. QueueInv /\ [Next]_vars => [Abstract!Next]_Abstract!vars
  <2> SUFFICES ASSUME QueueInv, [Next]_vars
               PROVE  Abstract!Next \/ UNCHANGED <<own, OutItems, QueueItems, InItems>>
    BY DEF Abstract!vars
  <2>1. PICK W : Good(AtPlaces, qiids, own, W)
    BY DEF QueueInv
  <2>2. PICK W2 : Good(AtPlaces', qiids', own', W2) /\ Moves(W, W2)
    BY <2>1, StepSound DEF QueueInv
  <2>3. ListTypes
    BY TypeParts DEF QueueInv
  <2>4. QED BY <2>1, <2>2, <2>3, MovesAbstract
<1>2. QED BY <1>1, InitAbstract, QueueInvariant, PTL DEF Spec, ImplementsBatchQueue, Abstract!Spec
=============================================================================
