------------------------------- MODULE ShfLog -------------------------------
(***************************************************************************)
(* The shared log: shf_log_append by the processes that log, the log       *)
(* thread that writes the buffer out while they go on appending, and the   *)
(* life of the log from shf_log_thread_new to shf_log_thread_del.          *)
(*                                                                         *)
(* What is done under log->lock is one step.  A byte is <<n, i>>, the i-th *)
(* one of the n-th line.  The clock is left out: second is only compared   *)
(* with log->second and log->write_fail, which the log thread itself set   *)
(* to earlier values of it, so that all that matters is if the second has  *)
(* changed since (same_second, same_fail).                                 *)
(***************************************************************************)
EXTENDS Naturals, Sequences, FiniteSets

CONSTANTS
  Procs, Owner,            \* who logs; the one that has the log thread
  Size, Threshold,         \* log_size, SHF_LOG_WRITE_THRESHOLD
  PrefixLen, BodyLen,      \* bytes of a prefix, and of the rest of a line
  IdMod,                   \* 256: the values of tid_id
  Printers, PrintMax,      \* who calls shf_log_fprintf; what fits into its buffer
  MaxLines                 \* bound on the lines that are appended

ASSUME LogAssumption ==
  /\ Owner \in Procs /\ IsFiniteSet(Procs) /\ Printers \subseteq Procs /\ PrintMax \in Nat \ {0}
  /\ Size \in Nat /\ Threshold \in Nat /\ PrefixLen \in Nat
  /\ BodyLen \in Nat \ {0} /\ IdMod \in Nat \ {0} /\ MaxLines \in Nat

VARIABLES
  size, used, bytes,       \* of SHF_LOG_MMAP; bytes that are not used are NoByte
  running, stopped,
  same_second, same_fail,  \* log->second = second, log->write_fail = second
  tids, tid_id,
  th,                      \* the log thread: pc, log_used, log_left, log_work
  pc, dest,                \* of each process: where it is, and its output function
  line,                    \* the line it appends
  lines,                   \* how many lines were given to shf_log_append
  prefix_len,              \* shf_log_prefix_len
  part,                    \* shf_log_fprintf_buffer_i
  out,                     \* what was written to the file
  text, at_del, gave_up    \* history: what was appended; what of it before the
                           \* shut down; a write failed after it

log == <<size, used, bytes, running, stopped, same_second, same_fail>>
ids == <<tids, tid_id>>
procs == <<pc, dest, line, lines, prefix_len, part>>
hist == <<text, at_del, gave_up>>
vars == <<log, ids, th, procs, out, hist>>

NoByte == <<>>
Offsets == 0 .. Size - 1
LineOf(n, len) == [i \in 1 .. len |-> <<n, i>>]
AllLines == {LineOf(n, len) : n \in 1 .. MaxLines, len \in {BodyLen, PrefixLen + BodyLen} \cup 1 .. PrintMax}

(* n bytes of the buffer, the first one at offset from. *)
Chunk(from, n) == [i \in 1 .. n |-> bytes[from + i - 1]]

-----------------------------------------------------------------------------
(* The life of the log. *)

Init ==
  /\ size = 0 /\ used = 0 /\ bytes = [i \in Offsets |-> NoByte]
  /\ running = FALSE /\ stopped = FALSE /\ same_second = TRUE /\ same_fail = TRUE
  /\ tids = [p \in Procs |-> 0] /\ tid_id = 0
  /\ th = [pc |-> "none", log_used |-> 0, log_left |-> 0, log_work |-> 0]
  /\ pc = [p \in Procs |-> "idle"] /\ dest = [p \in Procs |-> "stdout"]
  /\ line = [p \in Procs |-> <<>>] /\ lines = 0
  /\ prefix_len = [p \in Procs |-> 0] /\ part = [p \in Procs |-> 0]
  /\ out = <<>> /\ text = <<>> /\ at_del = 0 /\ gave_up = FALSE

(* shf_log_thread_new: from the put of "__log" on others can attach, but    *)
(* size is still 0 then.                                                    *)
ThreadNewPut ==
  /\ pc[Owner] = "idle" /\ th.pc = "none"
  /\ pc' = [pc EXCEPT ![Owner] = "new"]
  /\ th' = [th EXCEPT !.pc = "put"]
  /\ UNCHANGED <<log, ids, dest, line, lines, prefix_len, part, out, hist>>

ThreadNewStart ==
  /\ pc[Owner] = "new"
  /\ pc' = [pc EXCEPT ![Owner] = "idle"]
  /\ running' = TRUE /\ size' = Size
  /\ dest' = [dest EXCEPT ![Owner] = "log"]
  /\ th' = [th EXCEPT !.pc = "loop"]
  /\ UNCHANGED <<used, bytes, stopped, same_second, same_fail, ids, line, lines, prefix_len, part, out, hist>>

AttachExisting(p) ==
  /\ p # Owner /\ pc[p] = "idle" /\ dest[p] = "stdout" /\ th.pc # "none"
  /\ dest' = [dest EXCEPT ![p] = "log"]
  /\ UNCHANGED <<log, ids, th, pc, line, lines, prefix_len, part, out, hist>>

DetachExisting(p) ==
  /\ p # Owner /\ pc[p] = "idle" /\ dest[p] = "log"
  /\ dest' = [dest EXCEPT ![p] = "stdout"]
  /\ UNCHANGED <<log, ids, th, pc, line, lines, prefix_len, part, out, hist>>

(* shf_log_thread_del: running is cleared, then the call waits for stopped. *)
ThreadDel ==
  /\ pc[Owner] = "idle" /\ running
  /\ running' = FALSE
  /\ pc' = [pc EXCEPT ![Owner] = "del"]
  /\ at_del' = Len(text)
  /\ UNCHANGED <<size, used, bytes, stopped, same_second, same_fail, ids, th, dest, line, lines,
                 prefix_len, part, out, text, gave_up>>

ThreadDelReturn ==
  /\ pc[Owner] = "del" /\ stopped
  /\ pc' = [pc EXCEPT ![Owner] = "idle"]
  /\ dest' = [dest EXCEPT ![Owner] = "stdout"]
  /\ UNCHANGED <<log, ids, th, line, lines, prefix_len, part, out, hist>>

-----------------------------------------------------------------------------
(* Logging a line. *)

(* Mutant of MapTid: the counter is not moved. *)
MapTidSame(p) ==
  IF tids[p] # 0 THEN UNCHANGED ids
  ELSE /\ tids' = [tids EXCEPT ![p] = (tid_id + 1) % IdMod]
       /\ UNCHANGED tid_id

(* A thread gets its short number when it first needs one.                  *)
MapTid(p) ==
  IF tids[p] # 0 THEN UNCHANGED ids
  ELSE /\ tid_id' = (tid_id + 1) % IdMod
       /\ tids' = [tids EXCEPT ![p] = tid_id']

(* The line goes to stdout, is ignored for its length, or goes to           *)
(* shf_log_append.                                                          *)
Output(p, len) ==
  IF dest[p] = "log" /\ len < size
  THEN /\ lines < MaxLines
       /\ lines' = lines + 1
       /\ pc' = [pc EXCEPT ![p] = "append"]
       /\ line' = [line EXCEPT ![p] = LineOf(lines', len)]
  ELSE UNCHANGED <<pc, line, lines>>

(* SHF_DEBUG and SHF_WARNING start with shf_log_prefix_get, SHF_PLAIN does  *)
(* not.                                                                     *)
Log(p, plain) ==
  /\ pc[p] = "idle"
  /\ prefix_len' = [prefix_len EXCEPT ![p] = IF plain THEN @ ELSE PrefixLen]
  /\ IF dest[p] = "log" /\ ~plain THEN MapTid(p) ELSE UNCHANGED ids
  /\ Output(p, IF plain THEN BodyLen ELSE PrefixLen + BodyLen)
  /\ UNCHANGED <<log, th, dest, part, out, hist>>

(* shf_log_fprintf, shf_log_fputs and shf_log_fputc collect the pieces of a *)
(* line and log it as SHF_PLAIN does when a piece ends it.  A piece that    *)
(* does not fit is dropped, its end of line too; if the buffer is quite     *)
(* full, the end of line that says so is taken for that of the line.        *)
PrintPiece(p, n, eol) ==
  LET fits == part[p] + n <= PrintMax
      now == IF fits THEN part[p] + n ELSE part[p]
      ends == IF fits THEN eol ELSE part[p] = PrintMax
  IN  /\ pc[p] = "idle"
      /\ IF ends THEN Output(p, now) /\ part' = [part EXCEPT ![p] = 0]
         ELSE part' = [part EXCEPT ![p] = now] /\ UNCHANGED <<pc, line, lines>>
      /\ UNCHANGED <<log, ids, th, dest, prefix_len, out, hist>>

HasRoom(p) == size - used >= prefix_len[p] + Len(line[p])

(* shf_log_append, in the round in which it finds room.                     *)
LogAppend(p) ==
  /\ pc[p] = "append" /\ HasRoom(p)
  /\ bytes' = [i \in Offsets |-> IF i \in used .. used + Len(line[p]) - 1
                                 THEN line[p][i - used + 1] ELSE bytes[i]]
  /\ used' = used + Len(line[p])
  /\ text' = text \o line[p]
  /\ pc' = [pc EXCEPT ![p] = "idle"]
  /\ line' = [line EXCEPT ![p] = <<>>]
  /\ UNCHANGED <<size, running, stopped, same_second, same_fail, ids, th, dest, lines, prefix_len, part,
                 out, at_del, gave_up>>

-----------------------------------------------------------------------------
(* The log thread. *)

ThreadUnchanged == UNCHANGED <<ids, procs, hist>>

Loop ==
  /\ th.pc = "loop"
  /\ th' = [th EXCEPT !.pc = IF running THEN "sample" ELSE "close"]
  /\ UNCHANGED <<log, out>> /\ ThreadUnchanged

(* Mutant of Due: only the threshold counts. *)
DueAtThreshold(n) == n > 0 /\ ~same_fail' /\ n >= Threshold

(* There is something to write, no write failed this second, and nothing    *)
(* was written this second or it is a lot.                                  *)
Due(n) == n > 0 /\ ~same_fail' /\ (~same_second' \/ n >= Threshold)

(* A new second may have begun; used is read under the lock.                *)
Sample(tick) ==
  /\ th.pc = "sample"
  /\ same_second' = (same_second /\ ~tick)
  /\ same_fail' = (same_fail /\ ~tick)
  /\ th' = IF Due(used) THEN [pc |-> "write", log_used |-> used, log_left |-> used, log_work |-> 0]
                        ELSE [th EXCEPT !.pc = "loop"]
  /\ UNCHANGED <<size, used, bytes, running, stopped, out>> /\ ThreadUnchanged

(* Mutant of Write: a partial write starts again at the same byte. *)
WriteSame(n) ==
  /\ th.pc \in {"write", "last"} /\ n <= th.log_left
  /\ out' = out \o Chunk(th.log_work, n)
  /\ th' = [th EXCEPT !.log_left = @ - n]
  /\ UNCHANGED log /\ ThreadUnchanged

(* SHF_LOG_THREAD_WRITE: write() takes n bytes, without the lock.           *)
Write(n) ==
  /\ th.pc \in {"write", "last"} /\ n <= th.log_left
  /\ out' = out \o Chunk(th.log_work, n)
  /\ th' = [th EXCEPT !.log_left = @ - n, !.log_work = @ + n]
  /\ UNCHANGED log /\ ThreadUnchanged

(* SHF_LOG_THREAD_WRITE: write() would block, is interrupted, or fails.     *)
WriteBreak(fails) ==
  /\ th.pc \in {"write", "last"} /\ th.log_left > 0
  /\ th' = [th EXCEPT !.pc = IF @ = "write" THEN "move" ELSE "stop"]
  /\ same_fail' = (same_fail \/ fails)
  /\ gave_up' = (gave_up \/ th.pc = "last")
  /\ UNCHANGED <<size, used, bytes, running, stopped, same_second, ids, procs, out, text, at_del>>

WriteDone ==
  /\ th.pc \in {"write", "last"} /\ th.log_left = 0
  /\ th' = [th EXCEPT !.pc = IF @ = "write" THEN "move" ELSE "stop"]
  /\ UNCHANGED <<log, out>> /\ ThreadUnchanged

(* Mutant of Left: what came in during the write is forgotten. *)
LeftBefore == th.log_left

(* log_left + log_left_during_write *)
Left == th.log_left + (used - th.log_used)

(* What was not written moves to the front, if something was written.       *)
Move ==
  /\ th.pc = "move"
  /\ IF th.log_used # th.log_left
     THEN /\ used' = Left
          /\ bytes' = [i \in Offsets |-> IF i < Left THEN bytes[th.log_work + i] ELSE NoByte]
     ELSE UNCHANGED <<used, bytes>>
  /\ same_second' = TRUE
  /\ th' = [pc |-> "loop", log_used |-> 0, log_left |-> 0, log_work |-> 0]
  /\ UNCHANGED <<size, running, stopped, same_fail, out>> /\ ThreadUnchanged

(* Mutant of Close: what is left is not written. *)
CloseAtOnce ==
  /\ th.pc = "close"
  /\ th' = [th EXCEPT !.pc = "stop"]
  /\ UNCHANGED <<log, out>> /\ ThreadUnchanged

(* Closing down: used is read once, without the lock.                       *)
Close ==
  /\ th.pc = "close"
  /\ th' = [pc |-> "last", log_used |-> used, log_left |-> used, log_work |-> 0]
  /\ UNCHANGED <<log, out>> /\ ThreadUnchanged

(* Mutant of Stop: stopped is not set. *)
StopSilently ==
  /\ th.pc = "stop"
  /\ dest' = [dest EXCEPT ![Owner] = "stdout"]
  /\ th' = [th EXCEPT !.pc = "ended"]
  /\ UNCHANGED <<log, ids, pc, line, lines, prefix_len, part, out, hist>>

Stop ==
  /\ th.pc = "stop"
  /\ dest' = [dest EXCEPT ![Owner] = "stdout"]
  /\ stopped' = TRUE
  /\ th' = [th EXCEPT !.pc = "ended"]
  /\ UNCHANGED <<size, used, bytes, running, same_second, same_fail, ids, pc, line, lines, prefix_len, part,
                 out, hist>>

-----------------------------------------------------------------------------
ThreadStep ==
  \/ Loop \/ (\E tick \in BOOLEAN : Sample(tick))
  \/ (\E n \in 1 .. Size : Write(n)) \/ (\E fails \in BOOLEAN : WriteBreak(fails)) \/ WriteDone
  \/ Move \/ Close \/ Stop

Next ==
  \/ ThreadNewPut \/ ThreadNewStart \/ ThreadDel \/ ThreadDelReturn
  \/ \E p \in Procs : \/ AttachExisting(p) \/ DetachExisting(p)
                      \/ (\E plain \in BOOLEAN : Log(p, plain)) \/ LogAppend(p)
  \/ \E p \in Printers, n \in {1, 2}, eol \in BOOLEAN : PrintPiece(p, n, eol)
  \/ ThreadStep

Spec == Init /\ [][Next]_vars

(* The log thread and calls that wait get on, the clock too, and write()    *)
(* does not fail for ever.                                                  *)
FairSpec ==
  /\ Spec
  /\ WF_vars(ThreadStep) /\ SF_vars(Sample(TRUE)) /\ SF_vars(\E n \in 1 .. Size : Write(n))
  /\ WF_vars(ThreadDelReturn)
  /\ \A p \in Procs : WF_vars(LogAppend(p))

-----------------------------------------------------------------------------
(* Properties. *)

LogTypeOK ==
  /\ size \in {0, Size} /\ used \in 0 .. Size
  /\ DOMAIN bytes = Offsets /\ \A i \in Offsets : bytes[i] = NoByte <=> i >= used
  /\ {running, stopped, same_second, same_fail, gave_up} \subseteq BOOLEAN

IdTypeOK == tids \in [Procs -> 0 .. IdMod - 1] /\ tid_id \in 0 .. IdMod - 1

ThreadTypeOK ==
  th \in [pc : {"none", "put", "loop", "sample", "write", "move", "close", "last", "stop", "ended"},
          log_used : 0 .. Size, log_left : 0 .. Size, log_work : 0 .. Size]

ProcTypeOK ==
  /\ pc \in [Procs -> {"idle", "new", "append", "del"}]
  /\ dest \in [Procs -> {"stdout", "log"}]
  /\ line \in [Procs -> AllLines \cup {<<>>}]
  /\ prefix_len \in [Procs -> {0, PrefixLen}] /\ part \in [Procs -> 0 .. PrintMax]
  /\ lines \in 0 .. MaxLines

TypeOK == LogTypeOK /\ IdTypeOK /\ ThreadTypeOK /\ ProcTypeOK

(* However writes and appends interleave, the file and the part of the     *)
(* buffer the log thread has not written yet are together all that was     *)
(* appended: no byte is written twice, overwritten or forgotten when the   *)
(* rest is moved to the front.                                             *)
Written == IF th.pc \in {"write", "move", "last", "stop", "ended"} THEN th.log_work ELSE 0

BufferHoldsRest == text = out \o Chunk(Written, used - Written)

(* Refinement: lines go in whole and the file is always a beginning of     *)
(* what went in.                                                           *)
Stream == INSTANCE LogStream WITH Lines <- AllLines, file <- out

ImplementsLogStream == Stream!Spec

(* When the log thread has stopped, every line that was appended before    *)
(* shf_log_thread_del is in the file, unless the last writes failed.       *)
DelFlushes == stopped /\ ~gave_up => Len(out) >= at_del

(* README: a thread id is "mapped to a unique short integer".              *)
TidsUnique == \A p, q \in Procs : p # q /\ tids[p] # 0 => tids[p] # tids[q]

(* A process that waits for room gets it while there is a log thread.      *)
AppendsReturn == \A p \in Procs : pc[p] = "append" ~> (pc[p] # "append" \/ ~running)

(* shf_log_thread_del returns.                                             *)
DelReturns == pc[Owner] = "del" ~> pc[Owner] # "del"
=============================================================================
