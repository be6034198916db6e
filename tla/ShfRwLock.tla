----------------------------- MODULE ShfRwLock -----------------------------
(***************************************************************************)
(* The fair read write spin lock of shf.lock.h, which guards every window  *)
(* of a SharedHashFile and the shared log buffer.  The lock is one 64 bit  *)
(* word.  Each of its three tickets is a byte followed by a padding byte   *)
(* that catches the carry when the ticket wraps; a later, separate store   *)
(* clears the padding byte again.  One step here is one access to the      *)
(* word.  TicketSize is the number of values of a byte: 256 in the code.   *)
(***************************************************************************)
EXTENDS Integers, FiniteSets

CONSTANTS Procs,        \* the threads, of whatever process, that share the lock
          TicketSize    \* values of one byte of the word

ASSUME TicketSizeAssumption == TicketSize \in Nat /\ TicketSize >= 2
ASSUME ProcsAssumption == IsFiniteSet(Procs)

VARIABLES
  ticket_active_writer, pad_ticket_active_writer,
  ticket_active_reader, pad_ticket_active_reader,
  ticket_next,          pad_ticket_next,
  pc,       \* pc[p]: where p is in the lock functions
  ticket    \* ticket[p]: p's ticket_next_pre_inc, 0 when it has none

word == <<ticket_active_writer, pad_ticket_active_writer,
          ticket_active_reader, pad_ticket_active_reader,
          ticket_next, pad_ticket_next>>
vars == <<word, pc, ticket>>

Byte == 0 .. TicketSize - 1

-----------------------------------------------------------------------------
(* The atomic adds on as_u64.  A carry runs from each byte into the next    *)
(* one; what leaves pad_ticket_next goes to the two bytes nobody reads.     *)

(* Mutant of Low: the sum does not wrap. *)
LowUnbounded(b, x) == b + x

Low(b, x)   == IF b + x >= TicketSize THEN b + x - TicketSize ELSE b + x
Carry(b, x) == IF b + x >= TicketSize THEN 1 ELSE 0

AtomicAdd(writer, reader, next) ==
  LET c1 == Carry(ticket_active_writer, writer)
      c2 == Carry(pad_ticket_active_writer, c1)
      c3 == Carry(ticket_active_reader, reader + c2)
      c4 == Carry(pad_ticket_active_reader, c3)
      c5 == Carry(ticket_next, next + c4)
  IN  /\ ticket_active_writer'     = Low(ticket_active_writer, writer)
      /\ pad_ticket_active_writer' = Low(pad_ticket_active_writer, c1)
      /\ ticket_active_reader'     = Low(ticket_active_reader, reader + c2)
      /\ pad_ticket_active_reader' = Low(pad_ticket_active_reader, c3)
      /\ ticket_next'              = Low(ticket_next, next + c4)
      /\ pad_ticket_next'          = Low(pad_ticket_next, c5)

Goto(p, from, to) == pc[p] = from /\ pc' = [pc EXCEPT ![p] = to]

-----------------------------------------------------------------------------
(* Both lock functions start the same way: take a ticket, clear the pad.    *)

TakeTicket(p, to) ==
  /\ Goto(p, "idle", to)
  /\ ticket' = [ticket EXCEPT ![p] = ticket_next]
  /\ AtomicAdd(0, 0, 1)

(* Mutant of ClearPadNext: the store of 0 is missing. *)
ClearPadNextMissing(p, from, to) == Goto(p, from, to) /\ UNCHANGED <<word, ticket>>

ClearPadNext(p, from, to) ==
  /\ Goto(p, from, to)
  /\ pad_ticket_next' = 0
  /\ UNCHANGED <<ticket_active_writer, pad_ticket_active_writer,
                 ticket_active_reader, pad_ticket_active_reader, ticket_next,
                 ticket>>

LockWriterTicket(p)   == TakeTicket(p, "lw_pad")
LockWriterClearPad(p) == ClearPadNext(p, "lw_pad", "lw_spin")

(* Mutant of LockWriterSpin: it waits for the readers' ticket. *)
LockWriterSpinOnReader(p) ==
  /\ Goto(p, "lw_spin", "w_cs")
  /\ ticket[p] = ticket_active_reader
  /\ UNCHANGED <<word, ticket>>

LockWriterSpin(p) ==
  /\ Goto(p, "lw_spin", "w_cs")
  /\ ticket[p] = ticket_active_writer
  /\ UNCHANGED <<word, ticket>>

(* Mutant of UnlockWriterAdd: it moves the writers' ticket only. *)
UnlockWriterAddOne(p) ==
  /\ Goto(p, "w_cs", "uw_pad_writer")
  /\ ticket' = [ticket EXCEPT ![p] = 0]
  /\ AtomicAdd(1, 0, 0)

UnlockWriterAdd(p) ==
  /\ Goto(p, "w_cs", "uw_pad_writer")
  /\ ticket' = [ticket EXCEPT ![p] = 0]
  /\ AtomicAdd(1, 1, 0)

ClearPadWriter(p, from, to) ==
  /\ Goto(p, from, to)
  /\ pad_ticket_active_writer' = 0
  /\ UNCHANGED <<ticket_active_writer, ticket_active_reader,
                 pad_ticket_active_reader, ticket_next, pad_ticket_next, ticket>>

ClearPadReader(p, from, to) ==
  /\ Goto(p, from, to)
  /\ pad_ticket_active_reader' = 0
  /\ UNCHANGED <<ticket_active_writer, pad_ticket_active_writer,
                 ticket_active_reader, ticket_next, pad_ticket_next, ticket>>

UnlockWriterClearPadWriter(p) == ClearPadWriter(p, "uw_pad_writer", "uw_pad_reader")
UnlockWriterClearPadReader(p) == ClearPadReader(p, "uw_pad_reader", "idle")

LockReaderTicket(p)   == TakeTicket(p, "lr_pad")
LockReaderClearPad(p) == ClearPadNext(p, "lr_pad", "lr_spin")

(* Mutant of LockReaderSpin: it does not wait. *)
LockReaderNoSpin(p) == Goto(p, "lr_spin", "lr_add") /\ UNCHANGED <<word, ticket>>

LockReaderSpin(p) ==
  /\ Goto(p, "lr_spin", "lr_add")
  /\ ticket[p] = ticket_active_reader
  /\ UNCHANGED <<word, ticket>>

LockReaderAdd(p) ==
  /\ Goto(p, "lr_add", "lr_pad_reader")
  /\ ticket' = [ticket EXCEPT ![p] = 0]
  /\ AtomicAdd(0, 1, 0)

LockReaderClearPadReader(p) == ClearPadReader(p, "lr_pad_reader", "r_cs")

(* Mutant of UnlockReaderAdd: it moves the wrong ticket. *)
UnlockReaderAddReader(p) ==
  /\ Goto(p, "r_cs", "ur_pad_writer")
  /\ AtomicAdd(0, 1, 0)
  /\ UNCHANGED ticket

UnlockReaderAdd(p) ==
  /\ Goto(p, "r_cs", "ur_pad_writer")
  /\ AtomicAdd(1, 0, 0)
  /\ UNCHANGED ticket

UnlockReaderClearPad(p) == ClearPadWriter(p, "ur_pad_writer", "idle")

-----------------------------------------------------------------------------
PCs == {"idle", "lw_pad", "lw_spin", "w_cs", "uw_pad_writer", "uw_pad_reader",
        "lr_pad", "lr_spin", "lr_add", "lr_pad_reader", "r_cs", "ur_pad_writer"}

Init ==
  /\ ticket_active_writer = 0 /\ pad_ticket_active_writer = 0
  /\ ticket_active_reader = 0 /\ pad_ticket_active_reader = 0
  /\ ticket_next = 0 /\ pad_ticket_next = 0
  /\ pc = [p \in Procs |-> "idle"]
  /\ ticket = [p \in Procs |-> 0]

(* A thread that is idle may stay idle for ever; once inside a function or  *)
(* holding the lock it keeps running.                                       *)
Progress(p) ==
  \/ LockWriterClearPad(p) \/ LockWriterSpin(p)
  \/ UnlockWriterAdd(p) \/ UnlockWriterClearPadWriter(p) \/ UnlockWriterClearPadReader(p)
  \/ LockReaderClearPad(p) \/ LockReaderSpin(p) \/ LockReaderAdd(p) \/ LockReaderClearPadReader(p)
  \/ UnlockReaderAdd(p) \/ UnlockReaderClearPad(p)

Next ==
  \E p \in Procs : LockWriterTicket(p) \/ LockReaderTicket(p) \/ Progress(p)

Spec     == Init /\ [][Next]_vars
FairSpec == Spec /\ \A p \in Procs : WF_vars(Progress(p))

-----------------------------------------------------------------------------
(* Properties. *)

(* Every byte of the word holds a byte, whatever was added to it. *)
TypeOK ==
  /\ ticket_active_writer \in Byte /\ pad_ticket_active_writer \in Byte
  /\ ticket_active_reader \in Byte /\ pad_ticket_active_reader \in Byte
  /\ ticket_next \in Byte /\ pad_ticket_next \in Byte
  /\ pc \in [Procs -> PCs]
  /\ ticket \in [Procs -> Byte]

(* Between the return of a lock function and the call of its unlock, a     *)
(* writer shares the window with nobody: shf_put_key_val, shf_tab_part and *)
(* shf_tab_shrink move data around on the strength of this.                *)
MutualExclusion ==
  \A p, q \in Procs :
    p # q /\ pc[p] = "w_cs" => pc[q] \notin {"w_cs", "r_cs"}

(* The carry out of a ticket byte is caught by its pad byte and cleared by *)
(* the next store of 0 to it, so a pad never holds more than one carry and *)
(* never spills into the ticket above it, although a clear may be late and *)
(* may also wipe out a carry that came after the add it belongs to.        *)
PadHoldsOneCarry ==
  /\ pad_ticket_active_writer <= 1
  /\ pad_ticket_active_reader <= 1
  /\ pad_ticket_next <= 1

(* Refinement: with the order of the tickets as the order of the requests, *)
(* the lock functions implement the lock of module RwLock: first come,     *)
(* first served, adjacent readers together, writers alone.                 *)
Dist(a, b) == IF b >= a THEN b - a ELSE b - a + TicketSize

Queued == {p \in Procs : pc[p] \in {"lw_pad", "lw_spin", "lr_pad", "lr_spin", "lr_add"}}

AbsState ==
  [p \in Procs |->
     CASE pc[p] \in {"lw_pad", "lw_spin"}           -> "wantWrite"
       [] pc[p] = "w_cs"                            -> "writing"
       [] pc[p] \in {"lr_pad", "lr_spin", "lr_add"} -> "wantRead"
       [] pc[p] \in {"lr_pad_reader", "r_cs"}       -> "reading"
       [] OTHER                                     -> "out"]

AbsBefore ==
  {e \in Queued \X Queued :
     Dist(ticket_active_reader, ticket[e[1]]) < Dist(ticket_active_reader, ticket[e[2]])}

Abstract == INSTANCE RwLock WITH state <- AbsState, before <- AbsBefore

ImplementsRwLock == Abstract!Spec

(* "Read or write starvation cannot occur due to a ticketing system": a    *)
(* thread that has asked for the lock gets it, if the threads that hold it *)
(* let it go.                                                              *)
NoStarvation ==
  \A p \in Procs :
    /\ pc[p] = "lw_pad" ~> pc[p] = "w_cs"
    /\ pc[p] = "lr_pad" ~> pc[p] = "r_cs"

-----------------------------------------------------------------------------
(* The inductive invariant.  Tickets ticket_active_reader, ... ,            *)
(* ticket_next - 1 (cyclically) belong one each to the threads in Waiting;  *)
(* ticket_active_writer trails ticket_active_reader by the number of        *)
(* readers that are in.                                                     *)

Waiting == {p \in Procs : pc[p] \in {"lw_pad", "lw_spin", "w_cs", "lr_pad", "lr_spin", "lr_add"}}
Reading == {p \in Procs : pc[p] \in {"lr_pad_reader", "r_cs"}}

Plus(a, k) == IF a + k >= TicketSize THEN a + k - TicketSize ELSE a + k

TicketWindow ==
  /\ ticket_active_reader = Plus(ticket_active_writer, Cardinality(Reading))
  /\ ticket_next = Plus(ticket_active_reader, Cardinality(Waiting))

TicketsInWindow ==
  \A p \in Waiting : Dist(ticket_active_reader, ticket[p]) < Cardinality(Waiting)

TicketsDistinct ==
  \A p, q \in Waiting : p # q => ticket[p] # ticket[q]

HolderIsFirst ==
  \A p \in Procs :
    /\ pc[p] = "w_cs" => ticket[p] = ticket_active_writer /\ Reading = {}
    /\ pc[p] = "lr_add" => ticket[p] = ticket_active_reader

(* A pad may hold a carry only while some thread is still to clear it, and  *)
(* the ticket byte has since moved on by fewer than such threads.           *)
PadBound(low, pad, pending) ==
  /\ pad <= 1
  /\ pad = 1 => low < Cardinality(pending)

ClearsWriter == {p \in Procs : pc[p] \in {"uw_pad_writer", "ur_pad_writer"}}
ClearsReader == {p \in Procs : pc[p] \in {"uw_pad_writer", "uw_pad_reader", "lr_pad_reader"}}
ClearsNext   == {p \in Procs : pc[p] \in {"lw_pad", "lr_pad"}}

PadsBounded ==
  /\ PadBound(ticket_active_writer, pad_ticket_active_writer, ClearsWriter)
  /\ PadBound(ticket_active_reader, pad_ticket_active_reader, ClearsReader)
  /\ PadBound(ticket_next, pad_ticket_next, ClearsNext)

(* What the whole argument needs of the callers: no more threads than a    *)
(* ticket byte has values.                                                  *)
ThreadsFitTickets == Cardinality(Procs) <= TicketSize

(* The inductive invariant of the mutual exclusion argument: the order and  *)
(* spacing of the tickets in the word and in the threads' hands.            *)
LockInv ==
  /\ TypeOK
  /\ TicketWindow
  /\ TicketsInWindow
  /\ TicketsDistinct
  /\ HolderIsFirst
  /\ PadsBounded
=============================================================================
