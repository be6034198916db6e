-------------------------- MODULE ShfRwLockProofs --------------------------
(***************************************************************************)
(* Proofs about the fair read write lock, for every set of threads that    *)
(* does not outnumber the values of a ticket byte.                         *)
(***************************************************************************)
EXTENDS ShfRwLock, FiniteSetTheorems, TLAPS

-----------------------------------------------------------------------------
(* Counting threads. *)

LEMMA SubsetCount ==
  ASSUME NEW S \in SUBSET Procs
  PROVE  IsFiniteSet(S) /\ Cardinality(S) \in Nat /\ Cardinality(S) <= Cardinality(Procs)
BY ProcsAssumption, FS_Subset, FS_CardinalityType

LEMMA ProcsCount == Cardinality(Procs) \in Nat
BY ProcsAssumption, FS_CardinalityType

LEMMA AddThread ==
  ASSUME NEW S \in SUBSET Procs, NEW p \in Procs, p \notin S
  PROVE  /\ Cardinality(S \cup {p}) = Cardinality(S) + 1
         /\ Cardinality(S) < Cardinality(Procs)
<1>1. Cardinality(S \cup {p}) = Cardinality(S) + 1
  BY SubsetCount, FS_AddElement
<1>2. Cardinality(S \cup {p}) <= Cardinality(Procs)
  <2>1. S \cup {p} \in SUBSET Procs  OBVIOUS
  <2>2. QED BY <2>1, SubsetCount
<1>3. QED BY <1>1, <1>2, SubsetCount, ProcsCount

LEMMA RemoveThread ==
  ASSUME NEW S \in SUBSET Procs, NEW p \in S
  PROVE  Cardinality(S \ {p}) = Cardinality(S) - 1 /\ Cardinality(S) >= 1
<1>1. Cardinality(S \ {p}) = Cardinality(S) - 1
  BY SubsetCount, FS_RemoveElement
<1>2. Cardinality(S \ {p}) \in Nat
  <2>1. S \ {p} \in SUBSET Procs  OBVIOUS
  <2>2. QED BY <2>1, SubsetCount
<1>3. QED BY <1>1, <1>2, SubsetCount

LEMMA DisjointCount ==
  ASSUME NEW S \in SUBSET Procs, NEW T \in SUBSET Procs, S \cap T = {}
  PROVE  Cardinality(S) + Cardinality(T) <= Cardinality(Procs)
<1>1. Cardinality(S \cup T) = Cardinality(S) + Cardinality(T) - Cardinality(S \cap T)
  BY SubsetCount, FS_Union
<1>2. Cardinality(S \cap T) = 0
  BY FS_EmptySet
<1>3. S \cup T \in SUBSET Procs
  OBVIOUS
<1>4. Cardinality(S \cup T) <= Cardinality(Procs)
  BY <1>3, SubsetCount
<1>5. QED BY <1>1, <1>2, <1>4, SubsetCount, ProcsCount

-----------------------------------------------------------------------------
(* The bytes of the word. *)

(* Adding nothing to a byte leaves it alone. *)
LEMMA AddZero ==
  ASSUME NEW b \in Byte
  PROVE  Low(b, 0) = b /\ Carry(b, 0) = 0
BY TicketSizeAssumption DEF Low, Carry, Byte

(* A lane (ticket byte and pad byte) whose pad is within its bound, with    *)
(* fewer than TicketSize threads still to clear it, takes one more add      *)
(* without a carry out of the pad, and the bound holds with one more thread *)
(* to clear it.                                                             *)
LEMMA LaneAdd ==
  ASSUME NEW low \in Byte, NEW pad \in Byte, NEW c \in Nat, c < TicketSize,
         pad <= 1, pad = 1 => low < c
  PROVE  /\ Low(low, 1) \in Byte
         /\ Low(low, 1) = Plus(low, 1)
         /\ Low(pad, Carry(low, 1)) \in Byte
         /\ Carry(pad, Carry(low, 1)) = 0
         /\ Low(pad, Carry(low, 1)) <= 1
         /\ Low(pad, Carry(low, 1)) = 1 => Low(low, 1) < c + 1
BY TicketSizeAssumption DEF Low, Carry, Byte, Plus

(* Cyclic arithmetic on tickets. *)
LEMMA PlusPlus ==
  ASSUME NEW a \in Byte, NEW k \in Nat, k < TicketSize
  PROVE  Plus(Plus(a, k), 1) = Plus(a, k + 1)
BY TicketSizeAssumption DEF Byte, Plus

LEMMA PlusMove ==
  ASSUME NEW a \in Byte, NEW k \in Nat, k >= 1, k <= TicketSize
  PROVE  Plus(Plus(a, 1), k - 1) = Plus(a, k)
BY TicketSizeAssumption DEF Byte, Plus

LEMMA DistPlus ==
  ASSUME NEW a \in Byte, NEW k \in Nat, k < TicketSize
  PROVE  Dist(a, Plus(a, k)) = k /\ Plus(a, k) \in Byte
BY TicketSizeAssumption DEF Byte, Plus, Dist

LEMMA DistStep ==
  ASSUME NEW a \in Byte, NEW b \in Byte, a # b
  PROVE  Dist(Plus(a, 1), b) = Dist(a, b) - 1 /\ Dist(a, b) >= 1
BY TicketSizeAssumption DEF Byte, Plus, Dist

LEMMA DistType ==
  ASSUME NEW a \in Byte, NEW b \in Byte
  PROVE  Dist(a, b) \in Byte /\ (Dist(a, b) = 0 <=> a = b)
BY TicketSizeAssumption DEF Byte, Dist

LEMMA PlusZero ==
  ASSUME NEW a \in Byte
  PROVE  Plus(a, 0) = a
BY TicketSizeAssumption DEF Byte, Plus

-----------------------------------------------------------------------------
(* The three kinds of atomic add, made by a thread that is not already      *)
(* about to clear the pad: each moves its own tickets by one and no other.  *)

LEMMA AddToNext ==
  ASSUME TypeOK, PadsBounded, ThreadsFitTickets,
         NEW p \in Procs, p \notin ClearsNext, AtomicAdd(0, 0, 1)
  PROVE  /\ UNCHANGED <<ticket_active_writer, pad_ticket_active_writer,
                        ticket_active_reader, pad_ticket_active_reader>>
         /\ ticket_next' = Plus(ticket_next, 1) /\ ticket_next' \in Byte
         /\ pad_ticket_next' \in Byte
         /\ PadBound(ticket_next', pad_ticket_next', ClearsNext \cup {p})
<1> DEFINE c == Cardinality(ClearsNext)
<1>1. c \in Nat /\ c < TicketSize /\ Cardinality(ClearsNext \cup {p}) = c + 1
  <2>1. ClearsNext \in SUBSET Procs  BY DEF ClearsNext
  <2>2. QED BY <2>1, AddThread, SubsetCount, ProcsCount, TicketSizeAssumption DEF ThreadsFitTickets
<1>2. /\ ticket_next \in Byte /\ pad_ticket_next \in Byte
      /\ pad_ticket_next <= 1 /\ (pad_ticket_next = 1 => ticket_next < c)
  BY DEF TypeOK, PadsBounded, PadBound
<1> HIDE DEF c
<1>3. /\ Low(ticket_next, 1) \in Byte
      /\ Low(ticket_next, 1) = Plus(ticket_next, 1)
      /\ Low(pad_ticket_next, Carry(ticket_next, 1)) \in Byte
      /\ Low(pad_ticket_next, Carry(ticket_next, 1)) <= 1
      /\ Low(pad_ticket_next, Carry(ticket_next, 1)) = 1 => Low(ticket_next, 1) < c + 1
  BY <1>1, <1>2, LaneAdd
<1>4. /\ UNCHANGED <<ticket_active_writer, pad_ticket_active_writer,
                     ticket_active_reader, pad_ticket_active_reader>>
      /\ ticket_next' = Low(ticket_next, 1)
      /\ pad_ticket_next' = Low(pad_ticket_next, Carry(ticket_next, 1))
  BY AddZero DEF AtomicAdd, TypeOK
<1>5. QED BY <1>1, <1>3, <1>4 DEF PadBound

LEMMA AddToReader ==
  ASSUME TypeOK, PadsBounded, ThreadsFitTickets,
         NEW p \in Procs, p \notin ClearsReader, AtomicAdd(0, 1, 0)
  PROVE  /\ UNCHANGED <<ticket_active_writer, pad_ticket_active_writer,
                        ticket_next, pad_ticket_next>>
         /\ ticket_active_reader' = Plus(ticket_active_reader, 1)
         /\ ticket_active_reader' \in Byte /\ pad_ticket_active_reader' \in Byte
         /\ PadBound(ticket_active_reader', pad_ticket_active_reader', ClearsReader \cup {p})
<1> DEFINE c == Cardinality(ClearsReader)
           low == ticket_active_reader
           pad == pad_ticket_active_reader
<1>1. c \in Nat /\ c < TicketSize /\ Cardinality(ClearsReader \cup {p}) = c + 1
  <2>1. ClearsReader \in SUBSET Procs  BY DEF ClearsReader
  <2>2. QED BY <2>1, AddThread, SubsetCount, ProcsCount, TicketSizeAssumption DEF ThreadsFitTickets
<1>2. low \in Byte /\ pad \in Byte /\ pad <= 1 /\ (pad = 1 => low < c)
  BY DEF TypeOK, PadsBounded, PadBound
<1> HIDE DEF c
<1>3. /\ Low(low, 1) \in Byte
      /\ Low(low, 1) = Plus(low, 1)
      /\ Low(pad, Carry(low, 1)) \in Byte
      /\ Carry(pad, Carry(low, 1)) = 0
      /\ Low(pad, Carry(low, 1)) <= 1
      /\ Low(pad, Carry(low, 1)) = 1 => Low(low, 1) < c + 1
  BY <1>1, <1>2, LaneAdd
<1>4. /\ UNCHANGED <<ticket_active_writer, pad_ticket_active_writer, ticket_next, pad_ticket_next>>
      /\ low' = Low(low, 1) /\ pad' = Low(pad, Carry(low, 1))
  BY <1>3, AddZero DEF AtomicAdd, TypeOK
<1>5. QED BY <1>1, <1>3, <1>4 DEF PadBound

(* Adding to ticket_active_writer, alone (r = 0, unlock of a reader) or     *)
(* together with ticket_active_reader (r = 1, unlock of a writer).          *)
LEMMA AddToWriter ==
  ASSUME TypeOK, PadsBounded, ThreadsFitTickets,
         NEW p \in Procs, p \notin ClearsWriter, NEW r \in {0, 1}, AtomicAdd(1, r, 0)
  PROVE  /\ ticket_active_writer' = Plus(ticket_active_writer, 1)
         /\ ticket_active_writer' \in Byte /\ pad_ticket_active_writer' \in Byte
         /\ PadBound(ticket_active_writer', pad_ticket_active_writer', ClearsWriter \cup {p})
         /\ ticket_active_reader' = Low(ticket_active_reader, r)
         /\ pad_ticket_active_reader' = Low(pad_ticket_active_reader, Carry(ticket_active_reader, r))
         /\ Carry(pad_ticket_active_reader, Carry(ticket_active_reader, r)) = 0
              => UNCHANGED <<ticket_next, pad_ticket_next>>
<1> DEFINE c == Cardinality(ClearsWriter)
           low == ticket_active_writer
           pad == pad_ticket_active_writer
<1>1. c \in Nat /\ c < TicketSize /\ Cardinality(ClearsWriter \cup {p}) = c + 1
  <2>1. ClearsWriter \in SUBSET Procs  BY DEF ClearsWriter
  <2>2. QED BY <2>1, AddThread, SubsetCount, ProcsCount, TicketSizeAssumption DEF ThreadsFitTickets
<1>2. low \in Byte /\ pad \in Byte /\ pad <= 1 /\ (pad = 1 => low < c)
  BY DEF TypeOK, PadsBounded, PadBound
<1> HIDE DEF c
<1>3. /\ Low(low, 1) \in Byte
      /\ Low(low, 1) = Plus(low, 1)
      /\ Low(pad, Carry(low, 1)) \in Byte
      /\ Carry(pad, Carry(low, 1)) = 0
      /\ Low(pad, Carry(low, 1)) <= 1
      /\ Low(pad, Carry(low, 1)) = 1 => Low(low, 1) < c + 1
  BY <1>1, <1>2, LaneAdd
<1>4. low' = Low(low, 1) /\ pad' = Low(pad, Carry(low, 1))
  BY DEF AtomicAdd
<1>5. /\ ticket_active_reader' = Low(ticket_active_reader, r)
      /\ pad_ticket_active_reader' = Low(pad_ticket_active_reader, Carry(ticket_active_reader, r))
      /\ Carry(pad_ticket_active_reader, Carry(ticket_active_reader, r)) = 0
           => UNCHANGED <<ticket_next, pad_ticket_next>>
  <2>1. r + 0 = r  OBVIOUS
  <2>2. QED BY <1>3, <2>1, AddZero DEF AtomicAdd, TypeOK
<1>6. QED BY <1>1, <1>3, <1>4, <1>5 DEF PadBound

-----------------------------------------------------------------------------
(* Each step preserves the invariant. *)

LEMMA Counts ==
  /\ Waiting \in SUBSET Procs /\ Reading \in SUBSET Procs
  /\ Cardinality(Waiting) \in Nat /\ Cardinality(Reading) \in Nat
  /\ Cardinality(Waiting) + Cardinality(Reading) <= Cardinality(Procs)
<1>1. Waiting \in SUBSET Procs /\ Reading \in SUBSET Procs /\ Waiting \cap Reading = {}
  BY DEF Waiting, Reading
<1>2. QED BY <1>1, SubsetCount, DisjointCount

LEMMA LockInitInv == Init => LockInv
<1> SUFFICES ASSUME Init PROVE LockInv  OBVIOUS
<1>1. Waiting = {} /\ Reading = {}
  BY DEF Init, Waiting, Reading
<1>2. Cardinality({}) = 0
  BY FS_EmptySet
<1>3. TypeOK
  BY TicketSizeAssumption DEF Init, TypeOK, Byte, PCs
<1>4. TicketWindow
  BY <1>1, <1>2, TicketSizeAssumption DEF Init, TicketWindow, Plus
<1>5. TicketsInWindow /\ TicketsDistinct
  BY <1>1 DEF TicketsInWindow, TicketsDistinct
<1>6. HolderIsFirst
  BY DEF Init, HolderIsFirst
<1>7. PadsBounded
  BY DEF Init, PadsBounded, PadBound
<1>8. QED BY <1>3, <1>4, <1>5, <1>6, <1>7 DEF LockInv

LEMMA TakeTicketInv ==
  ASSUME LockInv, ThreadsFitTickets, NEW p \in Procs, NEW to \in {"lw_pad", "lr_pad"},
         TakeTicket(p, to)
  PROVE  LockInv'
<1> DEFINE W == Cardinality(Waiting)
<1>0. /\ pc \in [Procs -> PCs] /\ ticket \in [Procs -> Byte]
      /\ pc[p] = "idle" /\ pc' = [pc EXCEPT ![p] = to]
      /\ ticket' = [ticket EXCEPT ![p] = ticket_next]
  BY DEF LockInv, TypeOK, TakeTicket, Goto
<1>1. /\ p \notin Waiting /\ p \notin Reading /\ p \notin ClearsNext
      /\ Waiting' = Waiting \cup {p} /\ Reading' = Reading
      /\ ClearsNext' = ClearsNext \cup {p}
      /\ ClearsWriter' = ClearsWriter /\ ClearsReader' = ClearsReader
  BY <1>0 DEF Waiting, Reading, ClearsNext, ClearsWriter, ClearsReader
<1>2. /\ UNCHANGED <<ticket_active_writer, pad_ticket_active_writer,
                     ticket_active_reader, pad_ticket_active_reader>>
      /\ ticket_next' = Plus(ticket_next, 1) /\ ticket_next' \in Byte
      /\ pad_ticket_next' \in Byte
      /\ PadBound(ticket_next', pad_ticket_next', ClearsNext \cup {p})
  BY <1>1, AddToNext DEF LockInv, TakeTicket
<1>3. W \in Nat /\ W < TicketSize /\ Cardinality(Waiting \cup {p}) = W + 1
  BY <1>1, Counts, AddThread, ProcsCount, TicketSizeAssumption DEF ThreadsFitTickets
<1>4. /\ ticket_active_reader \in Byte /\ ticket_next \in Byte
      /\ ticket_next = Plus(ticket_active_reader, W)
      /\ \A q \in Waiting : Dist(ticket_active_reader, ticket[q]) < W
  BY DEF LockInv, TypeOK, TicketWindow, TicketsInWindow
<1> HIDE DEF W
<1>5. Dist(ticket_active_reader, ticket_next) = W
  BY <1>3, <1>4, DistPlus
<1>6. TypeOK'
  BY <1>0, <1>2 DEF LockInv, TypeOK, PCs
<1>7. TicketWindow'
  <2>1. Plus(ticket_next, 1) = Plus(ticket_active_reader, W + 1)
    BY <1>3, <1>4, PlusPlus
  <2>2. QED BY <2>1, <1>1, <1>2, <1>3 DEF LockInv, TicketWindow
<1>8. TicketsInWindow'
  <2> SUFFICES ASSUME NEW q \in Waiting \cup {p}
               PROVE  Dist(ticket_active_reader, ticket'[q]) < W + 1
    BY <1>1, <1>2, <1>3 DEF TicketsInWindow
  <2>1. CASE q = p
    BY <2>1, <1>0, <1>3, <1>5
  <2>2. CASE q # p
    <3>1. q \in Waiting /\ q \in Procs /\ ticket'[q] = ticket[q]
      BY <2>2, <1>0 DEF Waiting
    <3>2. Dist(ticket_active_reader, ticket[q]) \in Byte
      BY <3>1, <1>0, <1>4, DistType
    <3>3. QED BY <3>1, <3>2, <1>3, <1>4 DEF Byte
  <2>3. QED BY <2>1, <2>2
<1>9. TicketsDistinct'
  <2>1. \A q \in Waiting : ticket'[q] = ticket[q] /\ ticket[q] # ticket_next
    <3> SUFFICES ASSUME NEW q \in Waiting
                 PROVE  ticket'[q] = ticket[q] /\ ticket[q] # ticket_next
      OBVIOUS
    <3>1. ticket'[q] = ticket[q]
      BY <1>0, <1>1 DEF Waiting
    <3>2. Dist(ticket_active_reader, ticket[q]) < W
      BY <1>4
    <3>3. QED BY <3>1, <3>2, <1>3, <1>5
  <2>2. ticket'[p] = ticket_next
    BY <1>0
  <2>3. QED BY <2>1, <2>2, <1>1 DEF LockInv, TicketsDistinct
<1>10. HolderIsFirst'
  BY <1>0, <1>1, <1>2 DEF LockInv, HolderIsFirst
<1>11. PadsBounded'
  BY <1>1, <1>2 DEF LockInv, PadsBounded
<1>12. QED BY <1>6, <1>7, <1>8, <1>9, <1>10, <1>11 DEF LockInv

(* A store of 0 to a pad, and a spin that ends, move nobody into or out of  *)
(* Waiting and Reading and leave the tickets alone.                         *)
LEMMA SameTickets ==
  ASSUME LockInv, UNCHANGED <<ticket_active_writer, ticket_active_reader, ticket_next, ticket>>,
         Waiting' = Waiting, Reading' = Reading
  PROVE  TicketWindow' /\ TicketsInWindow' /\ TicketsDistinct'
BY DEF LockInv, TicketWindow, TicketsInWindow, TicketsDistinct

LEMMA ClearPadNextInv ==
  ASSUME LockInv, NEW p \in Procs,
         \/ ClearPadNext(p, "lw_pad", "lw_spin")
         \/ ClearPadNext(p, "lr_pad", "lr_spin")
  PROVE  LockInv'
<1>0. PICK from \in {"lw_pad", "lr_pad"}, to \in {"lw_spin", "lr_spin"} :
        /\ pc[p] = from /\ pc' = [pc EXCEPT ![p] = to]
        /\ pad_ticket_next' = 0
        /\ UNCHANGED <<ticket_active_writer, pad_ticket_active_writer,
                       ticket_active_reader, pad_ticket_active_reader, ticket_next, ticket>>
  BY DEF ClearPadNext, Goto
<1>1. pc \in [Procs -> PCs]
  BY DEF LockInv, TypeOK
<1>2. /\ Waiting' = Waiting /\ Reading' = Reading
      /\ ClearsWriter' = ClearsWriter /\ ClearsReader' = ClearsReader
  BY <1>0, <1>1 DEF Waiting, Reading, ClearsWriter, ClearsReader
<1>3. TypeOK'
  BY <1>0, <1>1, TicketSizeAssumption DEF LockInv, TypeOK, PCs, Byte
<1>4. HolderIsFirst'
  BY <1>0, <1>1, <1>2 DEF LockInv, HolderIsFirst
<1>5. PadsBounded'
  BY <1>0, <1>2 DEF LockInv, PadsBounded, PadBound
<1>6. QED BY <1>0, <1>2, <1>3, <1>4, <1>5, SameTickets DEF LockInv

LEMMA SpinInv ==
  ASSUME LockInv, ThreadsFitTickets, NEW p \in Procs, LockWriterSpin(p) \/ LockReaderSpin(p)
  PROVE  LockInv'
<1>0. /\ UNCHANGED <<ticket_active_writer, pad_ticket_active_writer, ticket_active_reader,
                      pad_ticket_active_reader, ticket_next, pad_ticket_next, ticket>>
      /\ \/ /\ pc[p] = "lw_spin" /\ pc' = [pc EXCEPT ![p] = "w_cs"]
            /\ ticket[p] = ticket_active_writer
         \/ /\ pc[p] = "lr_spin" /\ pc' = [pc EXCEPT ![p] = "lr_add"]
            /\ ticket[p] = ticket_active_reader
  BY DEF LockWriterSpin, LockReaderSpin, Goto, word
<1>1. pc \in [Procs -> PCs] /\ ticket \in [Procs -> Byte]
      /\ ticket_active_writer \in Byte /\ ticket_active_reader \in Byte
  BY DEF LockInv, TypeOK
<1>2. /\ Waiting' = Waiting /\ Reading' = Reading /\ p \in Waiting
      /\ ClearsWriter' = ClearsWriter /\ ClearsReader' = ClearsReader /\ ClearsNext' = ClearsNext
  BY <1>0, <1>1 DEF Waiting, Reading, ClearsWriter, ClearsReader, ClearsNext
<1>3. TypeOK'
  BY <1>0, <1>1 DEF LockInv, TypeOK, PCs
<1>4. ticket[p] = ticket_active_writer => Reading = {}
  <2> SUFFICES ASSUME ticket[p] = ticket_active_writer PROVE Reading = {}
    OBVIOUS
  <2> DEFINE W == Cardinality(Waiting)
             R == Cardinality(Reading)
  <2>1. W \in Nat /\ R \in Nat /\ W + R <= TicketSize
    BY Counts, ProcsCount, TicketSizeAssumption DEF ThreadsFitTickets
  <2>2. ticket_active_reader = Plus(ticket_active_writer, R)
    BY DEF LockInv, TicketWindow
  <2>3. Dist(ticket_active_reader, ticket_active_writer) < W
    BY <1>2 DEF LockInv, TicketsInWindow
  <2> HIDE DEF W, R
  <2>4. R = 0
    BY <1>1, <2>1, <2>2, <2>3, TicketSizeAssumption DEF Plus, Dist, Byte
  <2>5. QED BY <2>4, Counts, SubsetCount, FS_EmptySet DEF R
<1>5. HolderIsFirst'
  BY <1>0, <1>1, <1>2, <1>4 DEF LockInv, HolderIsFirst
<1>6. PadsBounded'
  BY <1>0, <1>2 DEF LockInv, PadsBounded
<1>7. QED BY <1>0, <1>2, <1>3, <1>5, <1>6, SameTickets DEF LockInv

(* The reader at the head of the queue leaves Waiting and the window of     *)
(* tickets starts one further on: common to LockReaderAdd and               *)
(* UnlockWriterAdd.                                                         *)
LEMMA HeadLeaves ==
  ASSUME LockInv, NEW p \in Waiting, ticket[p] = ticket_active_reader,
         ThreadsFitTickets,
         ticket' = [ticket EXCEPT ![p] = 0],
         Waiting' = Waiting \ {p},
         ticket_active_reader' = Plus(ticket_active_reader, 1),
         UNCHANGED ticket_next
  PROVE  /\ ticket_next' = Plus(ticket_active_reader', Cardinality(Waiting'))
         /\ TicketsInWindow' /\ TicketsDistinct'
<1> DEFINE W == Cardinality(Waiting)
<1>1. W \in Nat /\ W >= 1 /\ W <= TicketSize /\ Cardinality(Waiting \ {p}) = W - 1
  <2>1. W \in Nat /\ W <= Cardinality(Procs)
    BY Counts, SubsetCount
  <2>2. W >= 1 /\ Cardinality(Waiting \ {p}) = W - 1
    BY Counts, RemoveThread
  <2>3. QED BY <2>1, <2>2, ProcsCount, TicketSizeAssumption DEF ThreadsFitTickets
<1>2. /\ ticket_active_reader \in Byte /\ ticket \in [Procs -> Byte]
      /\ ticket_next = Plus(ticket_active_reader, W)
      /\ \A q \in Waiting : q \in Procs /\ Dist(ticket_active_reader, ticket[q]) < W
      /\ \A q \in Waiting : q # p => ticket[q] # ticket_active_reader
  BY DEF LockInv, TypeOK, TicketWindow, TicketsInWindow, TicketsDistinct, Waiting
<1> HIDE DEF W
<1>3. ticket_next' = Plus(ticket_active_reader', Cardinality(Waiting'))
  BY <1>1, <1>2, PlusMove
<1>4. TicketsInWindow'
  <2> SUFFICES ASSUME NEW q \in Waiting, q # p
               PROVE  Dist(Plus(ticket_active_reader, 1), ticket'[q]) < W - 1
    BY <1>1 DEF TicketsInWindow
  <2>1. ticket'[q] = ticket[q] /\ ticket[q] \in Byte /\ ticket[q] # ticket_active_reader
    BY <1>2
  <2>2. Dist(Plus(ticket_active_reader, 1), ticket[q]) = Dist(ticket_active_reader, ticket[q]) - 1
    BY <1>2, <2>1, DistStep
  <2>3. Dist(ticket_active_reader, ticket[q]) \in Byte
    BY <1>2, <2>1, DistType
  <2>4. QED BY <1>1, <1>2, <2>1, <2>2, <2>3 DEF Byte
<1>5. TicketsDistinct'
  <2>1. \A q \in Waiting \ {p} : ticket'[q] = ticket[q]
    BY <1>2
  <2>2. QED BY <2>1 DEF LockInv, TicketsDistinct
<1>6. QED BY <1>3, <1>4, <1>5

LEMMA LockReaderAddInv ==
  ASSUME LockInv, ThreadsFitTickets, NEW p \in Procs, LockReaderAdd(p)
  PROVE  LockInv'
<1> DEFINE R == Cardinality(Reading)
<1>0. /\ pc \in [Procs -> PCs] /\ ticket \in [Procs -> Byte]
      /\ pc[p] = "lr_add" /\ pc' = [pc EXCEPT ![p] = "lr_pad_reader"]
      /\ ticket' = [ticket EXCEPT ![p] = 0]
      /\ ticket_active_writer \in Byte
  BY DEF LockInv, TypeOK, LockReaderAdd, Goto
<1>1. /\ p \in Waiting /\ p \notin Reading /\ p \notin ClearsReader
      /\ Waiting' = Waiting \ {p} /\ Reading' = Reading \cup {p}
      /\ ClearsReader' = ClearsReader \cup {p}
      /\ ClearsWriter' = ClearsWriter /\ ClearsNext' = ClearsNext
  BY <1>0 DEF Waiting, Reading, ClearsNext, ClearsWriter, ClearsReader
<1>2. /\ UNCHANGED <<ticket_active_writer, pad_ticket_active_writer, ticket_next, pad_ticket_next>>
      /\ ticket_active_reader' = Plus(ticket_active_reader, 1)
      /\ ticket_active_reader' \in Byte /\ pad_ticket_active_reader' \in Byte
      /\ PadBound(ticket_active_reader', pad_ticket_active_reader', ClearsReader \cup {p})
  BY <1>1, AddToReader DEF LockInv, LockReaderAdd
<1>3. ticket[p] = ticket_active_reader
  BY <1>0 DEF LockInv, HolderIsFirst
<1>4. /\ ticket_next' = Plus(ticket_active_reader', Cardinality(Waiting'))
      /\ TicketsInWindow' /\ TicketsDistinct'
  BY <1>0, <1>1, <1>2, <1>3, HeadLeaves
<1>5. TicketWindow'
  <2>1. R \in Nat /\ R < TicketSize /\ Cardinality(Reading \cup {p}) = R + 1
    <3>1. R \in Nat /\ R < Cardinality(Procs) /\ Cardinality(Reading \cup {p}) = R + 1
      BY <1>1, Counts, AddThread
    <3>2. QED BY <3>1, ProcsCount, TicketSizeAssumption DEF ThreadsFitTickets
  <2>2. ticket_active_reader = Plus(ticket_active_writer, R)
    BY DEF LockInv, TicketWindow
  <2> HIDE DEF R
  <2>3. Plus(ticket_active_reader, 1) = Plus(ticket_active_writer, R + 1)
    BY <1>0, <2>1, <2>2, PlusPlus
  <2>4. QED BY <1>1, <1>2, <1>4, <2>1, <2>3 DEF TicketWindow
<1>6. TypeOK'
  BY <1>0, <1>2, TicketSizeAssumption DEF LockInv, TypeOK, PCs, Byte
<1>7. HolderIsFirst'
  <2>1. \A q \in Procs : pc[q] \in {"w_cs", "lr_add"} /\ q # p => FALSE
    <3> SUFFICES ASSUME NEW q \in Procs, pc[q] \in {"w_cs", "lr_add"}, q # p PROVE FALSE
      OBVIOUS
    <3>1. CASE pc[q] = "lr_add"
      BY <3>1, <1>1, <1>3 DEF LockInv, HolderIsFirst, TicketsDistinct, Waiting
    <3>2. CASE pc[q] = "w_cs"
      <4>1. ticket[q] = ticket_active_writer /\ Reading = {}
        BY <3>2 DEF LockInv, HolderIsFirst
      <4>2. ticket_active_reader = ticket_active_writer
        BY <4>1, <1>0, FS_EmptySet, PlusZero DEF LockInv, TicketWindow
      <4>3. QED BY <3>2, <4>1, <4>2, <1>1, <1>3 DEF LockInv, TicketsDistinct, Waiting
    <3>3. QED BY <3>1, <3>2
  <2>2. QED BY <2>1, <1>0 DEF HolderIsFirst
<1>8. PadsBounded'
  BY <1>1, <1>2 DEF LockInv, PadsBounded
<1>9. QED BY <1>4, <1>5, <1>6, <1>7, <1>8 DEF LockInv

LEMMA UnlockWriterAddInv ==
  ASSUME LockInv, ThreadsFitTickets, NEW p \in Procs, UnlockWriterAdd(p)
  PROVE  LockInv'
<1>0. /\ pc \in [Procs -> PCs] /\ ticket \in [Procs -> Byte]
      /\ pc[p] = "w_cs" /\ pc' = [pc EXCEPT ![p] = "uw_pad_writer"]
      /\ ticket' = [ticket EXCEPT ![p] = 0]
      /\ ticket_active_writer \in Byte
      /\ ticket_active_reader \in Byte /\ pad_ticket_active_reader \in Byte
      /\ AtomicAdd(1, 1, 0)
  BY DEF LockInv, TypeOK, UnlockWriterAdd, Goto
<1>1. /\ p \in Waiting /\ p \notin ClearsReader /\ p \notin ClearsWriter
      /\ Waiting' = Waiting \ {p} /\ Reading' = Reading
      /\ ClearsReader' = ClearsReader \cup {p}
      /\ ClearsWriter' = ClearsWriter \cup {p} /\ ClearsNext' = ClearsNext
  BY <1>0 DEF Waiting, Reading, ClearsNext, ClearsWriter, ClearsReader
<1>2. ticket[p] = ticket_active_writer /\ Reading = {}
  BY <1>0 DEF LockInv, HolderIsFirst
<1>3. ticket_active_reader = ticket_active_writer
  BY <1>0, <1>2, FS_EmptySet, PlusZero DEF LockInv, TicketWindow
<1>4. /\ ticket_active_reader' = Plus(ticket_active_reader, 1)
      /\ ticket_active_reader' \in Byte /\ pad_ticket_active_reader' \in Byte
      /\ PadBound(ticket_active_reader', pad_ticket_active_reader', ClearsReader \cup {p})
      /\ ticket_active_writer' = Plus(ticket_active_writer, 1)
      /\ ticket_active_writer' \in Byte /\ pad_ticket_active_writer' \in Byte
      /\ PadBound(ticket_active_writer', pad_ticket_active_writer', ClearsWriter \cup {p})
      /\ UNCHANGED <<ticket_next, pad_ticket_next>>
  <2> DEFINE c == Cardinality(ClearsReader)
             low == ticket_active_reader
             pad == pad_ticket_active_reader
  <2>1. c \in Nat /\ c < TicketSize /\ Cardinality(ClearsReader \cup {p}) = c + 1
    <3>1. ClearsReader \in SUBSET Procs  BY DEF ClearsReader
    <3>2. QED BY <1>1, <3>1, AddThread, SubsetCount, ProcsCount, TicketSizeAssumption DEF ThreadsFitTickets
  <2>2. pad <= 1 /\ (pad = 1 => low < c)
    BY DEF LockInv, PadsBounded, PadBound
  <2> HIDE DEF c
  <2>3. /\ Low(low, 1) \in Byte
        /\ Low(low, 1) = Plus(low, 1)
        /\ Low(pad, Carry(low, 1)) \in Byte
        /\ Carry(pad, Carry(low, 1)) = 0
        /\ Low(pad, Carry(low, 1)) <= 1
        /\ Low(pad, Carry(low, 1)) = 1 => Low(low, 1) < c + 1
    BY <1>0, <2>1, <2>2, LaneAdd
  <2>4. /\ ticket_active_writer' = Plus(ticket_active_writer, 1)
        /\ ticket_active_writer' \in Byte /\ pad_ticket_active_writer' \in Byte
        /\ PadBound(ticket_active_writer', pad_ticket_active_writer', ClearsWriter \cup {p})
        /\ low' = Low(low, 1) /\ pad' = Low(pad, Carry(low, 1))
        /\ UNCHANGED <<ticket_next, pad_ticket_next>>
    BY <1>0, <1>1, <2>3, AddToWriter DEF LockInv
  <2>5. QED BY <2>1, <2>3, <2>4 DEF PadBound
<1>5. /\ ticket_next' = Plus(ticket_active_reader', Cardinality(Waiting'))
      /\ TicketsInWindow' /\ TicketsDistinct'
  BY <1>0, <1>1, <1>2, <1>3, <1>4, HeadLeaves
<1>6. TicketWindow'
  <2>1. Plus(ticket_active_writer', Cardinality(Reading')) = ticket_active_writer'
    BY <1>1, <1>2, <1>4, FS_EmptySet, PlusZero
  <2>2. QED BY <1>3, <1>4, <1>5, <2>1 DEF TicketWindow
<1>7. TypeOK'
  BY <1>0, <1>4, TicketSizeAssumption DEF LockInv, TypeOK, PCs, Byte
<1>8. HolderIsFirst'
  <2>1. \A q \in Procs : q # p => pc[q] \notin {"w_cs", "lr_add"}
    BY <1>0, <1>1, <1>2, <1>3 DEF LockInv, HolderIsFirst, TicketsDistinct, Waiting
  <2>2. QED BY <2>1, <1>0 DEF HolderIsFirst
<1>9. PadsBounded'
  BY <1>1, <1>4 DEF LockInv, PadsBounded
<1>10. QED BY <1>5, <1>6, <1>7, <1>8, <1>9 DEF LockInv

LEMMA UnlockReaderAddInv ==
  ASSUME LockInv, ThreadsFitTickets, NEW p \in Procs, UnlockReaderAdd(p)
  PROVE  LockInv'
<1> DEFINE R == Cardinality(Reading)
<1>0. /\ pc \in [Procs -> PCs]
      /\ pc[p] = "r_cs" /\ pc' = [pc EXCEPT ![p] = "ur_pad_writer"]
      /\ UNCHANGED ticket
      /\ ticket_active_writer \in Byte
      /\ ticket_active_reader \in Byte /\ pad_ticket_active_reader \in Byte
      /\ AtomicAdd(1, 0, 0)
  BY DEF LockInv, TypeOK, UnlockReaderAdd, Goto
<1>1. /\ p \in Reading /\ p \notin ClearsWriter
      /\ Waiting' = Waiting /\ Reading' = Reading \ {p}
      /\ ClearsReader' = ClearsReader
      /\ ClearsWriter' = ClearsWriter \cup {p} /\ ClearsNext' = ClearsNext
  BY <1>0 DEF Waiting, Reading, ClearsNext, ClearsWriter, ClearsReader
<1>2. /\ ticket_active_writer' = Plus(ticket_active_writer, 1)
      /\ ticket_active_writer' \in Byte /\ pad_ticket_active_writer' \in Byte
      /\ PadBound(ticket_active_writer', pad_ticket_active_writer', ClearsWriter \cup {p})
      /\ UNCHANGED <<ticket_active_reader, pad_ticket_active_reader, ticket_next, pad_ticket_next>>
  BY <1>0, <1>1, AddZero, AddToWriter DEF LockInv
<1>3. TicketWindow'
  <2>1. R \in Nat /\ R >= 1 /\ R <= TicketSize /\ Cardinality(Reading \ {p}) = R - 1
    <3>1. R \in Nat /\ R <= Cardinality(Procs)
      BY Counts, SubsetCount
    <3>2. R >= 1 /\ Cardinality(Reading \ {p}) = R - 1
      BY <1>1, Counts, RemoveThread
    <3>3. QED BY <3>1, <3>2, ProcsCount, TicketSizeAssumption DEF ThreadsFitTickets
  <2>2. /\ ticket_active_reader = Plus(ticket_active_writer, R)
        /\ ticket_next = Plus(ticket_active_reader, Cardinality(Waiting))
    BY DEF LockInv, TicketWindow
  <2> HIDE DEF R
  <2>3. Plus(Plus(ticket_active_writer, 1), R - 1) = Plus(ticket_active_writer, R)
    BY <1>0, <2>1, PlusMove
  <2>4. QED BY <1>1, <1>2, <2>1, <2>2, <2>3 DEF TicketWindow
<1>4. TicketsInWindow' /\ TicketsDistinct'
  BY <1>0, <1>1, <1>2 DEF LockInv, TicketsInWindow, TicketsDistinct
<1>5. TypeOK'
  BY <1>0, <1>2 DEF LockInv, TypeOK, PCs
<1>6. HolderIsFirst'
  <2>1. \A q \in Procs : pc[q] # "w_cs"
    BY <1>1 DEF LockInv, HolderIsFirst
  <2>2. QED BY <2>1, <1>0, <1>2 DEF LockInv, HolderIsFirst
<1>7. PadsBounded'
  BY <1>1, <1>2 DEF LockInv, PadsBounded
<1>8. QED BY <1>3, <1>4, <1>5, <1>6, <1>7 DEF LockInv

LEMMA ClearPadWriterInv ==
  ASSUME LockInv, NEW p \in Procs,
         UnlockWriterClearPadWriter(p) \/ UnlockReaderClearPad(p)
  PROVE  LockInv'
<1>0. /\ \/ pc[p] = "uw_pad_writer" /\ pc' = [pc EXCEPT ![p] = "uw_pad_reader"]
         \/ pc[p] = "ur_pad_writer" /\ pc' = [pc EXCEPT ![p] = "idle"]
      /\ pad_ticket_active_writer' = 0
      /\ UNCHANGED <<ticket_active_writer, ticket_active_reader,
                     pad_ticket_active_reader, ticket_next, pad_ticket_next, ticket>>
  BY DEF UnlockWriterClearPadWriter, UnlockReaderClearPad, ClearPadWriter, Goto
<1>1. pc \in [Procs -> PCs]
  BY DEF LockInv, TypeOK
<1>2. /\ Waiting' = Waiting /\ Reading' = Reading
      /\ ClearsReader' = ClearsReader /\ ClearsNext' = ClearsNext
  BY <1>0, <1>1 DEF Waiting, Reading, ClearsReader, ClearsNext
<1>3. TypeOK'
  BY <1>0, <1>1, TicketSizeAssumption DEF LockInv, TypeOK, PCs, Byte
<1>4. HolderIsFirst'
  BY <1>0, <1>1, <1>2 DEF LockInv, HolderIsFirst
<1>5. PadsBounded'
  BY <1>0, <1>2 DEF LockInv, PadsBounded, PadBound
<1>6. QED BY <1>0, <1>2, <1>3, <1>4, <1>5, SameTickets DEF LockInv

LEMMA ClearPadReaderInv ==
  ASSUME LockInv, NEW p \in Procs,
         UnlockWriterClearPadReader(p) \/ LockReaderClearPadReader(p)
  PROVE  LockInv'
<1>0. /\ \/ pc[p] = "uw_pad_reader" /\ pc' = [pc EXCEPT ![p] = "idle"]
         \/ pc[p] = "lr_pad_reader" /\ pc' = [pc EXCEPT ![p] = "r_cs"]
      /\ pad_ticket_active_reader' = 0
      /\ UNCHANGED <<ticket_active_writer, pad_ticket_active_writer, ticket_active_reader,
                     ticket_next, pad_ticket_next, ticket>>
  BY DEF UnlockWriterClearPadReader, LockReaderClearPadReader, ClearPadReader, Goto
<1>1. pc \in [Procs -> PCs]
  BY DEF LockInv, TypeOK
<1>2. /\ Waiting' = Waiting /\ Reading' = Reading
      /\ ClearsWriter' = ClearsWriter /\ ClearsNext' = ClearsNext
  BY <1>0, <1>1 DEF Waiting, Reading, ClearsWriter, ClearsNext
<1>3. TypeOK'
  BY <1>0, <1>1, TicketSizeAssumption DEF LockInv, TypeOK, PCs, Byte
<1>4. HolderIsFirst'
  BY <1>0, <1>1, <1>2 DEF LockInv, HolderIsFirst
<1>5. PadsBounded'
  BY <1>0, <1>2 DEF LockInv, PadsBounded, PadBound
<1>6. QED BY <1>0, <1>2, <1>3, <1>4, <1>5, SameTickets DEF LockInv

LEMMA LockNextInv ==
  ASSUME LockInv, ThreadsFitTickets, [Next]_vars
  PROVE  LockInv'
<1>1. CASE Next
  <2> SUFFICES ASSUME NEW p \in Procs,
                      LockWriterTicket(p) \/ LockReaderTicket(p) \/ Progress(p)
               PROVE  LockInv'
    BY <1>1 DEF Next
  <2>1. CASE LockWriterTicket(p) \/ LockReaderTicket(p)
    BY <2>1, TakeTicketInv DEF LockWriterTicket, LockReaderTicket
  <2>2. CASE LockWriterClearPad(p) \/ LockReaderClearPad(p)
    BY <2>2, ClearPadNextInv DEF LockWriterClearPad, LockReaderClearPad
  <2>3. CASE LockWriterSpin(p) \/ LockReaderSpin(p)
    BY <2>3, SpinInv
  <2>4. CASE LockReaderAdd(p)
    BY <2>4, LockReaderAddInv
  <2>5. CASE UnlockWriterAdd(p)
    BY <2>5, UnlockWriterAddInv
  <2>6. CASE UnlockReaderAdd(p)
    BY <2>6, UnlockReaderAddInv
  <2>7. CASE UnlockWriterClearPadWriter(p) \/ UnlockReaderClearPad(p)
    BY <2>7, ClearPadWriterInv
  <2>8. CASE UnlockWriterClearPadReader(p) \/ LockReaderClearPadReader(p)
    BY <2>8, ClearPadReaderInv
  <2>9. QED BY <2>1, <2>2, <2>3, <2>4, <2>5, <2>6, <2>7, <2>8 DEF Progress
<1>2. CASE UNCHANGED vars
  BY <1>2 DEF vars, word, LockInv, TypeOK, TicketWindow, TicketsInWindow, TicketsDistinct,
              HolderIsFirst, PadsBounded, PadBound, Waiting, Reading, ClearsWriter,
              ClearsReader, ClearsNext
<1>3. QED BY <1>1, <1>2

-----------------------------------------------------------------------------
(* LockInv holds in every reachable state of the lock functions, provided  *)
(* no more threads share a window's lock than a ticket byte has values.    *)
THEOREM LockInvariant ==
  ASSUME ThreadsFitTickets
  PROVE  Spec => []LockInv
<1>1. LockInv /\ [Next]_vars => LockInv'
  BY LockNextInv
<1>2. QED BY <1>1, LockInitInv, PTL DEF Spec

(* The bytes of the lock word and the threads' tickets stay bytes.         *)
THEOREM LockTypeCorrect ==
  ASSUME ThreadsFitTickets
  PROVE  Spec => []TypeOK
<1>1. LockInv => TypeOK  BY DEF LockInv
<1>2. QED BY <1>1, LockInvariant, PTL

(* A writer between shf_rw_lock_writer and shf_rw_unlock_writer shares the *)
(* window with no other writer and no reader.                              *)
THEOREM LockMutualExclusion ==
  ASSUME ThreadsFitTickets
  PROVE  Spec => []MutualExclusion
<1>1. LockInv => MutualExclusion
  <2> SUFFICES ASSUME LockInv, NEW p \in Procs, NEW q \in Procs, p # q, pc[p] = "w_cs"
               PROVE  pc[q] \notin {"w_cs", "r_cs"}
    BY DEF MutualExclusion
  <2>1. ticket[p] = ticket_active_writer /\ Reading = {}
    BY DEF LockInv, HolderIsFirst
  <2>2. pc[q] # "r_cs"
    BY <2>1 DEF Reading
  <2>3. pc[q] # "w_cs"
    BY <2>1 DEF LockInv, HolderIsFirst, TicketsDistinct, Waiting
  <2>4. QED BY <2>2, <2>3
<1>2. QED BY <1>1, LockInvariant, PTL

(* No pad byte ever holds more than one carry, so none spills into the     *)
(* ticket above it.                                                        *)
THEOREM LockPadHoldsOneCarry ==
  ASSUME ThreadsFitTickets
  PROVE  Spec => []PadHoldsOneCarry
<1>1. LockInv => PadHoldsOneCarry
  BY DEF LockInv, PadsBounded, PadBound, PadHoldsOneCarry
<1>2. QED BY <1>1, LockInvariant, PTL

-----------------------------------------------------------------------------
(* The lock functions implement the lock of module RwLock. *)

LEMMA QueuedFacts ==
  ASSUME LockInv
  PROVE  /\ Queued \in SUBSET Waiting /\ Queued \in SUBSET Procs
         /\ Queued = {r \in Procs : Abstract!Waits(r)}
         /\ \A q \in Queued : /\ ticket[q] \in Byte
                              /\ Dist(ticket_active_reader, ticket[q]) \in Byte
                              /\ Dist(ticket_active_reader, ticket[q]) < Cardinality(Waiting)
<1>1. Queued \in SUBSET Waiting /\ Queued \in SUBSET Procs
  BY DEF Queued, Waiting
<1>2. Queued = {r \in Procs : Abstract!Waits(r)}
  BY DEF LockInv, TypeOK, PCs, Queued, Abstract!Waits, AbsState
<1>3. ASSUME NEW q \in Queued
      PROVE  /\ ticket[q] \in Byte
             /\ Dist(ticket_active_reader, ticket[q]) \in Byte
             /\ Dist(ticket_active_reader, ticket[q]) < Cardinality(Waiting)
  <2>1. ticket[q] \in Byte /\ ticket_active_reader \in Byte
    BY <1>1 DEF LockInv, TypeOK
  <2>2. Dist(ticket_active_reader, ticket[q]) \in Byte
    BY <2>1, DistType
  <2>3. QED BY <1>1, <2>1, <2>2 DEF LockInv, TicketsInWindow
<1>4. QED BY <1>1, <1>2, <1>3

LEMMA TakeTicketRequests ==
  ASSUME LockInv, ThreadsFitTickets, NEW p \in Procs,
         NEW to, NEW want,
         \/ to = "lw_pad" /\ want = "wantWrite"
         \/ to = "lr_pad" /\ want = "wantRead",
         TakeTicket(p, to)
  PROVE  Abstract!Request(p, want)
<1> DEFINE ar == ticket_active_reader
           W  == Cardinality(Waiting)
<1>0. /\ pc \in [Procs -> PCs] /\ ticket \in [Procs -> Byte]
      /\ pc[p] = "idle" /\ pc' = [pc EXCEPT ![p] = to]
      /\ ticket' = [ticket EXCEPT ![p] = ticket_next]
      /\ ar \in Byte /\ ticket_next = Plus(ar, W)
  BY DEF LockInv, TypeOK, TicketWindow, TakeTicket, Goto
<1>1. p \notin Waiting /\ p \notin Queued /\ p \notin ClearsNext /\ Queued' = Queued \cup {p}
  BY <1>0 DEF Waiting, Queued, ClearsNext
<1>2. ar' = ar
  BY <1>1, AddToNext DEF LockInv, TakeTicket
<1>3. W \in Nat /\ Dist(ar, ticket_next) = W
  <2>1. W \in Nat /\ W < Cardinality(Procs)
    BY <1>1, Counts, AddThread
  <2>2. W < TicketSize
    BY <2>1, ProcsCount, TicketSizeAssumption DEF ThreadsFitTickets
  <2>3. QED BY <1>0, <2>1, <2>2, DistPlus
<1>4. AbsState[p] = "out" /\ AbsState' = [AbsState EXCEPT ![p] = want]
  BY <1>0 DEF AbsState
<1>5. \A q \in Queued : /\ ticket'[q] = ticket[q]
                         /\ Dist(ar, ticket[q]) < W
                         /\ ~ (W < Dist(ar, ticket[q]))
  <2> SUFFICES ASSUME NEW q \in Queued
               PROVE  /\ ticket'[q] = ticket[q]
                      /\ Dist(ar, ticket[q]) < W
                      /\ ~ (W < Dist(ar, ticket[q]))
    OBVIOUS
  <2>1. ticket'[q] = ticket[q]
    BY <1>0, <1>1, QueuedFacts
  <2>2. Dist(ar, ticket[q]) < W /\ Dist(ar, ticket[q]) \in Byte
    BY QueuedFacts
  <2> HIDE DEF W
  <2>3. QED BY <1>3, <2>1, <2>2 DEF Byte
<1>6. ticket'[p] = ticket_next /\ ~ (W < W)
  BY <1>0, <1>3
<1> HIDE DEF W, ar
<1>7. AbsBefore' = AbsBefore \cup {<<q, p>> : q \in Queued}
  <2>1. AbsBefore' = {e \in (Queued \cup {p}) \X (Queued \cup {p}) :
                        Dist(ar, ticket'[e[1]]) < Dist(ar, ticket'[e[2]])}
    BY <1>1, <1>2 DEF AbsBefore, ar
  <2>2. AbsBefore = {e \in Queued \X Queued : Dist(ar, ticket[e[1]]) < Dist(ar, ticket[e[2]])}
    BY DEF AbsBefore, ar
  <2>3. QED BY <1>1, <1>3, <1>5, <1>6, <2>1, <2>2
<1>8. QED BY <1>4, <1>7, QueuedFacts DEF Abstract!Request

(* Removing the thread at the head of the queue.                            *)
LEMMA HeadIsFirst ==
  ASSUME LockInv, NEW p \in Queued, ticket[p] = ticket_active_reader
  PROVE  Abstract!First(p)
<1>1. Dist(ticket_active_reader, ticket[p]) = 0
  BY QueuedFacts, DistType DEF LockInv, TypeOK
<1>2. \A q \in Queued : ~ (Dist(ticket_active_reader, ticket[q]) < 0)
  BY QueuedFacts DEF Byte
<1>3. QED BY <1>1, <1>2 DEF Abstract!First, AbsBefore

LEMMA MovePreservesOrder ==
  ASSUME LockInv, NEW S \in SUBSET Queued, Queued' = S,
         \A q \in S : ticket'[q] = ticket[q] /\ ticket[q] # ticket_active_reader,
         ticket_active_reader' = Plus(ticket_active_reader, 1)
  PROVE  AbsBefore' = {e \in AbsBefore : e[1] \in S /\ e[2] \in S}
<1> DEFINE ar == ticket_active_reader
           D(q) == Dist(ar, ticket[q])
           DD(q) == Dist(ar', ticket'[q])
<1>1. \A q \in S : D(q) \in Byte /\ DD(q) = D(q) - 1
  <2> SUFFICES ASSUME NEW q \in S PROVE D(q) \in Byte /\ DD(q) = D(q) - 1
    OBVIOUS
  <2>1. ticket[q] \in Byte /\ D(q) \in Byte
    BY QueuedFacts
  <2>2. ar \in Byte
    BY DEF LockInv, TypeOK
  <2>3. QED BY <2>1, <2>2, DistStep
<1>2. \A q, r \in S : DD(q) < DD(r) <=> D(q) < D(r)
  <2> HIDE DEF D, DD
  <2>1. QED BY <1>1 DEF Byte
<1>3. AbsBefore' = {e \in S \X S : DD(e[1]) < DD(e[2])}
  BY DEF AbsBefore
<1>4. AbsBefore = {e \in Queued \X Queued : D(e[1]) < D(e[2])}
  BY DEF AbsBefore
<1> HIDE DEF D, DD
<1>5. QED BY <1>2, <1>3, <1>4

LEMMA LockReaderAddGrants ==
  ASSUME LockInv, ThreadsFitTickets, NEW p \in Procs, LockReaderAdd(p)
  PROVE  Abstract!GrantReader(p)
<1>0. /\ pc \in [Procs -> PCs] /\ ticket \in [Procs -> Byte]
      /\ pc[p] = "lr_add" /\ pc' = [pc EXCEPT ![p] = "lr_pad_reader"]
      /\ ticket' = [ticket EXCEPT ![p] = 0]
      /\ ticket_active_writer \in Byte
      /\ ticket[p] = ticket_active_reader
  BY DEF LockInv, TypeOK, HolderIsFirst, LockReaderAdd, Goto
<1>1. /\ p \in Queued /\ Queued' = Queued \ {p} /\ p \in Waiting /\ p \notin ClearsReader
      /\ AbsState[p] = "wantRead" /\ AbsState' = [AbsState EXCEPT ![p] = "reading"]
  BY <1>0 DEF Queued, Waiting, ClearsReader, AbsState
<1>2. ticket_active_reader' = Plus(ticket_active_reader, 1)
  BY <1>1, AddToReader DEF LockInv, LockReaderAdd
<1>3. \A q \in Queued \ {p} : ticket'[q] = ticket[q] /\ ticket[q] # ticket_active_reader
  BY <1>0, <1>1, QueuedFacts DEF LockInv, TicketsDistinct
<1>4. AbsBefore' = {e \in AbsBefore : e[1] \in Queued \ {p} /\ e[2] \in Queued \ {p}}
  BY <1>1, <1>2, <1>3, MovePreservesOrder
<1>5. AbsBefore' = {e \in AbsBefore : e[1] # p /\ e[2] # p}
  BY <1>4 DEF AbsBefore
<1>6. \A q \in Procs : AbsState[q] # "writing"
  <2> SUFFICES ASSUME NEW q \in Procs, pc[q] = "w_cs" PROVE FALSE
    BY <1>0 DEF AbsState, PCs
  <2>1. ticket[q] = ticket_active_writer /\ Reading = {}
    BY DEF LockInv, HolderIsFirst
  <2>2. ticket_active_reader = ticket_active_writer
    BY <2>1, <1>0, FS_EmptySet, PlusZero DEF LockInv, TicketWindow
  <2>3. QED BY <2>1, <2>2, <1>0 DEF LockInv, TicketsDistinct, Waiting
<1>7. QED BY <1>0, <1>1, <1>5, <1>6, HeadIsFirst DEF Abstract!GrantReader, Abstract!Leave

LEMMA LockWriterSpinGrants ==
  ASSUME LockInv, ThreadsFitTickets, NEW p \in Procs, LockWriterSpin(p)
  PROVE  Abstract!GrantWriter(p)
<1>0. /\ pc \in [Procs -> PCs] /\ ticket \in [Procs -> Byte]
      /\ pc[p] = "lw_spin" /\ pc' = [pc EXCEPT ![p] = "w_cs"]
      /\ UNCHANGED <<ticket_active_writer, ticket_active_reader, ticket>>
      /\ ticket_active_writer \in Byte
      /\ ticket[p] = ticket_active_writer
  BY DEF LockInv, TypeOK, LockWriterSpin, Goto, word
<1>1. /\ p \in Queued /\ Queued' = Queued \ {p} /\ p \in Waiting /\ Reading' = Reading
      /\ AbsState[p] = "wantWrite" /\ AbsState' = [AbsState EXCEPT ![p] = "writing"]
  BY <1>0 DEF Queued, Waiting, Reading, AbsState
<1>2. Reading = {}
  <2>1. LockInv'
    BY SpinInv
  <2>2. pc'[p] = "w_cs"
    BY <1>0
  <2>3. QED BY <1>1, <2>1, <2>2 DEF LockInv, HolderIsFirst
<1>3. ticket_active_reader = ticket_active_writer
  BY <1>2, <1>0, FS_EmptySet, PlusZero DEF LockInv, TicketWindow
<1>4. AbsBefore' = {e \in AbsBefore : e[1] # p /\ e[2] # p}
  BY <1>0, <1>1 DEF AbsBefore
<1>5. \A q \in Procs : AbsState[q] \notin {"reading", "writing"}
  <2> SUFFICES ASSUME NEW q \in Procs, pc[q] \in {"w_cs", "lr_pad_reader", "r_cs"} PROVE FALSE
    BY <1>0 DEF AbsState, PCs
  <2>1. pc[q] = "w_cs"
    BY <1>2 DEF Reading
  <2>2. ticket[q] = ticket_active_writer
    BY <2>1 DEF LockInv, HolderIsFirst
  <2>3. QED BY <2>1, <2>2, <1>0, <1>1 DEF LockInv, TicketsDistinct, Waiting
<1>6. QED BY <1>0, <1>1, <1>3, <1>4, <1>5, HeadIsFirst DEF Abstract!GrantWriter, Abstract!Leave

LEMMA UnlockReleases ==
  ASSUME LockInv, ThreadsFitTickets, NEW p \in Procs, UnlockWriterAdd(p) \/ UnlockReaderAdd(p)
  PROVE  Abstract!Release(p)
<1>0. pc \in [Procs -> PCs] /\ ticket \in [Procs -> Byte] /\ ticket_active_writer \in Byte
      /\ ticket_active_reader \in Byte /\ pad_ticket_active_reader \in Byte
  BY DEF LockInv, TypeOK
<1>1. CASE UnlockWriterAdd(p)
  <2>1. /\ pc[p] = "w_cs" /\ pc' = [pc EXCEPT ![p] = "uw_pad_writer"]
        /\ ticket' = [ticket EXCEPT ![p] = 0] /\ AtomicAdd(1, 1, 0)
    BY <1>1 DEF UnlockWriterAdd, Goto
  <2>2. /\ p \notin Queued /\ Queued' = Queued /\ p \in Waiting
        /\ AbsState[p] = "writing" /\ AbsState' = [AbsState EXCEPT ![p] = "out"]
    BY <1>0, <2>1 DEF Queued, Waiting, AbsState
  <2>3. ticket[p] = ticket_active_writer /\ Reading = {}
    BY <2>1 DEF LockInv, HolderIsFirst
  <2>4. ticket_active_reader = ticket_active_writer
    BY <1>0, <2>3, FS_EmptySet, PlusZero DEF LockInv, TicketWindow
  <2>5. ticket_active_reader' = Plus(ticket_active_reader, 1)
    <3>1. p \notin ClearsWriter
      BY <2>1 DEF ClearsWriter
    <3>2. ticket_active_reader' = Low(ticket_active_reader, 1)
      BY <2>1, <3>1, AddToWriter DEF LockInv
    <3>3. QED BY <3>2 DEF Low, Plus
  <2>6. \A q \in Queued : ticket'[q] = ticket[q] /\ ticket[q] # ticket_active_reader
    BY <1>0, <2>1, <2>2, <2>3, <2>4, QueuedFacts DEF LockInv, TicketsDistinct
  <2>7. AbsBefore' = {e \in AbsBefore : e[1] \in Queued /\ e[2] \in Queued}
    BY <2>2, <2>5, <2>6, MovePreservesOrder
  <2>8. AbsBefore' = AbsBefore
    BY <2>7 DEF AbsBefore
  <2>9. QED BY <2>2, <2>8 DEF Abstract!Release
<1>2. CASE UnlockReaderAdd(p)
  <2>1. /\ pc[p] = "r_cs" /\ pc' = [pc EXCEPT ![p] = "ur_pad_writer"]
        /\ UNCHANGED ticket /\ AtomicAdd(1, 0, 0)
    BY <1>2 DEF UnlockReaderAdd, Goto
  <2>2. /\ Queued' = Queued /\ p \notin ClearsWriter
        /\ AbsState[p] = "reading" /\ AbsState' = [AbsState EXCEPT ![p] = "out"]
    BY <1>0, <2>1 DEF Queued, AbsState, ClearsWriter
  <2>3. ticket_active_reader' = ticket_active_reader
    BY <1>0, <2>1, <2>2, AddZero, AddToWriter DEF LockInv
  <2>4. AbsBefore' = AbsBefore
    BY <2>1, <2>2, <2>3 DEF AbsBefore
  <2>5. QED BY <2>2, <2>4 DEF Abstract!Release
<1>3. QED BY <1>1, <1>2

LEMMA OthersStutter ==
  ASSUME LockInv, NEW p \in Procs,
         \/ LockWriterClearPad(p) \/ LockReaderClearPad(p) \/ LockReaderSpin(p)
         \/ UnlockWriterClearPadWriter(p) \/ UnlockWriterClearPadReader(p)
         \/ LockReaderClearPadReader(p) \/ UnlockReaderClearPad(p)
  PROVE  UNCHANGED Abstract!vars
<1>0. pc \in [Procs -> PCs]
  BY DEF LockInv, TypeOK
<1>1. UNCHANGED <<ticket_active_reader, ticket>>
  BY DEF LockWriterClearPad, LockReaderClearPad, LockReaderSpin, UnlockWriterClearPadWriter,
         UnlockWriterClearPadReader, LockReaderClearPadReader, UnlockReaderClearPad,
         ClearPadNext, ClearPadWriter, ClearPadReader, word
<1>2. Queued' = Queued /\ AbsState' = AbsState
  <2>1. \/ pc[p] = "lw_pad" /\ pc' = [pc EXCEPT ![p] = "lw_spin"]
        \/ pc[p] = "lr_pad" /\ pc' = [pc EXCEPT ![p] = "lr_spin"]
        \/ pc[p] = "lr_spin" /\ pc' = [pc EXCEPT ![p] = "lr_add"]
        \/ pc[p] = "uw_pad_writer" /\ pc' = [pc EXCEPT ![p] = "uw_pad_reader"]
        \/ pc[p] = "uw_pad_reader" /\ pc' = [pc EXCEPT ![p] = "idle"]
        \/ pc[p] = "lr_pad_reader" /\ pc' = [pc EXCEPT ![p] = "r_cs"]
        \/ pc[p] = "ur_pad_writer" /\ pc' = [pc EXCEPT ![p] = "idle"]
    BY DEF LockWriterClearPad, LockReaderClearPad, LockReaderSpin, UnlockWriterClearPadWriter,
           UnlockWriterClearPadReader, LockReaderClearPadReader, UnlockReaderClearPad,
           ClearPadNext, ClearPadWriter, ClearPadReader, Goto
  <2>2. QED BY <1>0, <2>1 DEF Queued, AbsState
<1>3. AbsBefore' = AbsBefore
  BY <1>1, <1>2 DEF AbsBefore
<1>4. QED BY <1>2, <1>3 DEF Abstract!vars

(* The lock functions of shf.lock.h serve requests in ticket order, let    *)
(* adjacent readers in together and keep writers alone, as RwLock says.    *)
THEOREM LockImplementsRwLock ==
  ASSUME ThreadsFitTickets
  PROVE  Spec => ImplementsRwLock
<1>1. Init => Abstract!Init
  BY DEF Init, Abstract!Init, AbsState, AbsBefore, Queued
<1>2. LockInv /\ [Next]_vars => [Abstract!Next]_(Abstract!vars)
  <2> SUFFICES ASSUME LockInv, [Next]_vars PROVE [Abstract!Next]_(Abstract!vars)
    OBVIOUS
  <2>1. CASE UNCHANGED vars
    BY <2>1 DEF vars, word, Abstract!vars, AbsState, AbsBefore, Queued
  <2>2. CASE Next
    <3> SUFFICES ASSUME NEW p \in Procs,
                        LockWriterTicket(p) \/ LockReaderTicket(p) \/ Progress(p)
                 PROVE  [Abstract!Next]_(Abstract!vars)
      BY <2>2 DEF Next
    <3>1. CASE LockWriterTicket(p)
      <4>1. Abstract!Request(p, "wantWrite")
        BY <3>1, TakeTicketRequests DEF LockWriterTicket
      <4>2. QED BY <4>1 DEF Abstract!Next
    <3>2. CASE LockReaderTicket(p)
      <4>1. Abstract!Request(p, "wantRead")
        BY <3>2, TakeTicketRequests DEF LockReaderTicket
      <4>2. QED BY <4>1 DEF Abstract!Next
    <3>3. CASE LockWriterSpin(p)
      BY <3>3, LockWriterSpinGrants DEF Abstract!Next
    <3>4. CASE LockReaderAdd(p)
      BY <3>4, LockReaderAddGrants DEF Abstract!Next
    <3>5. CASE UnlockWriterAdd(p) \/ UnlockReaderAdd(p)
      BY <3>5, UnlockReleases DEF Abstract!Next
    <3>6. CASE \/ LockWriterClearPad(p) \/ LockReaderClearPad(p) \/ LockReaderSpin(p)
               \/ UnlockWriterClearPadWriter(p) \/ UnlockWriterClearPadReader(p)
               \/ LockReaderClearPadReader(p) \/ UnlockReaderClearPad(p)
      BY <3>6, OthersStutter
    <3>7. QED BY <3>1, <3>2, <3>3, <3>4, <3>5, <3>6 DEF Progress
  <2>3. QED BY <2>1, <2>2
<1>3. QED BY <1>1, <1>2, LockInvariant, PTL DEF Spec, ImplementsRwLock, Abstract!Spec

=============================================================================
