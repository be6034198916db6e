---------------------------- MODULE ShfLogProofs ----------------------------
(***************************************************************************)
(* Proofs about the shared log, for any number of processes and lines and  *)
(* every size of the buffer: nothing is lost between the buffer and the    *)
(* file, and the log implements LogStream.                                 *)
(***************************************************************************)
EXTENDS ShfLog, SequenceTheorems, FiniteSetTheorems, TLAPS

-----------------------------------------------------------------------------
(* The inductive invariant. *)

Bytes == (Nat \X Nat) \cup {NoByte}

(* What TypeOK does not say: what the buffer, the file and the lines hold. *)
Contents ==
  /\ bytes \in [Offsets -> Bytes]
  /\ text \in Seq(Bytes) /\ out \in Seq(Bytes) /\ at_del \in Nat
  /\ \A p \in Procs : pc[p] = "append" => line[p] \in AllLines

Writing == {"write", "move", "last", "stop", "ended"}

(* The log thread's three counters agree, and are about bytes that are     *)
(* still in the buffer: appends only add behind them.                      *)
ThreadCounts ==
  th.pc \in Writing => th.log_left + th.log_work = th.log_used /\ th.log_used <= used

(* BufferHoldsRest, byte by byte.                                          *)
RestInBuffer ==
  /\ Len(text) = Len(out) + (used - Written)
  /\ \A i \in 1 .. Len(out) : text[i] = out[i]
  /\ \A i \in 1 .. used - Written : text[Len(out) + i] = bytes[Written + i - 1]

(* The order in which the log starts, is told to stop, flushes and stops.  *)
Phases ==
  /\ pc[Owner] = "new" => th.pc = "put"
  /\ th.pc \in {"close", "last", "stop", "ended"} => ~running
  /\ stopped => th.pc = "ended"

(* From the shut down on, what is to be flushed is written or counted.     *)
Flushing ==
  /\ at_del <= Len(text)
  /\ th.pc = "last" => Len(out) + th.log_left >= at_del
  /\ th.pc \in {"stop", "ended"} /\ ~gave_up => Len(out) >= at_del

LogInv == TypeOK /\ Contents /\ ThreadCounts /\ RestInBuffer /\ Phases /\ Flushing

(* Enough short numbers: 255 threads can log before tid_id comes round.    *)
TidsFit == Cardinality(Procs) < IdMod

Mapped == {p \in Procs : tids[p] # 0}

TidInv ==
  /\ tid_id = Cardinality(Mapped)
  /\ \A p \in Procs : tids[p] <= tid_id
  /\ TidsUnique

-----------------------------------------------------------------------------
(* Lines and bytes. *)

LEMMA LineFacts ==
  ASSUME NEW l \in AllLines
  PROVE  /\ l \in Seq(Bytes) /\ Len(l) >= 1
         /\ \A i \in 1 .. Len(l) : l[i] \in Bytes /\ l[i] # NoByte
<1>1. PICK n \in 1 .. MaxLines, len \in {BodyLen, PrefixLen + BodyLen} \cup 1 .. PrintMax :
        l = [i \in 1 .. len |-> <<n, i>>]
  BY DEF AllLines, LineOf
<1>2. len \in Nat /\ len >= 1 /\ n \in Nat
  BY LogAssumption
<1>3. \A i \in 1 .. len : l[i] \in Bytes /\ l[i] # NoByte
  BY <1>1, <1>2 DEF Bytes, NoByte
<1>4. l \in Seq(Bytes) /\ Len(l) = len
  BY <1>1, <1>2, <1>3
<1>5. QED BY <1>2, <1>3, <1>4

LEMMA NewLine ==
  ASSUME NEW n \in 1 .. MaxLines,
         NEW len \in {BodyLen, PrefixLen + BodyLen} \cup 1 .. PrintMax
  PROVE  LineOf(n, len) \in AllLines
BY DEF AllLines

LEMMA LogInit == Init => LogInv
<1> SUFFICES ASSUME Init PROVE LogInv  OBVIOUS
<1>1. TypeOK
  <2>1. LogTypeOK
    <3>1. {running, stopped, same_second, same_fail, gave_up} \subseteq BOOLEAN
      BY DEF Init
    <3>2. DOMAIN bytes = Offsets /\ \A i \in Offsets : bytes[i] = NoByte <=> i >= used
      BY LogAssumption DEF Init, Offsets
    <3>3. QED BY <3>1, <3>2, LogAssumption DEF Init, LogTypeOK
  <2>2. IdTypeOK
    BY LogAssumption DEF Init, IdTypeOK
  <2>3. ThreadTypeOK
    BY LogAssumption DEF Init, ThreadTypeOK
  <2>4. ProcTypeOK
    BY LogAssumption DEF Init, ProcTypeOK
  <2>5. QED BY <2>1, <2>2, <2>3, <2>4 DEF TypeOK
<1>2. Contents
  BY DEF Init, Contents, Bytes
<1>3. ThreadCounts /\ Phases
  BY LogAssumption DEF Init, ThreadCounts, Writing, Phases
<1>4. RestInBuffer /\ Flushing
  BY DEF Init, RestInBuffer, Flushing, Written
<1>5. QED BY <1>1, <1>2, <1>3, <1>4 DEF LogInv

-----------------------------------------------------------------------------
(* Steps of the processes. *)

(* A step that leaves the buffer, the file and the log thread alone.       *)
LEMMA BufferLeftAlone ==
  ASSUME LogInv, ProcTypeOK', IdTypeOK', UNCHANGED <<log, th, out, hist>>,
         \A p \in Procs : pc'[p] = "append" => line'[p] \in AllLines,
         pc'[Owner] = "new" => pc[Owner] = "new"
  PROVE  LogInv'
<1>1. TypeOK'
  BY DEF LogInv, TypeOK, LogTypeOK, ThreadTypeOK, log, hist
<1>2. Contents' /\ ThreadCounts' /\ Phases' /\ Flushing'
  BY DEF LogInv, Contents, ThreadCounts, Phases, Flushing, log, hist
<1>3. RestInBuffer'
  BY DEF LogInv, RestInBuffer, Written, log, hist
<1>4. QED BY <1>1, <1>2, <1>3 DEF LogInv

LEMMA AttachDetachInv ==
  ASSUME LogInv, NEW p \in Procs, AttachExisting(p) \/ DetachExisting(p)
  PROVE  LogInv'
<1>1. ProcTypeOK' /\ IdTypeOK'
  BY DEF LogInv, TypeOK, ProcTypeOK, IdTypeOK, AttachExisting, DetachExisting, ids
<1>2. UNCHANGED <<log, th, out, hist, pc, line>>
  BY DEF AttachExisting, DetachExisting
<1>3. QED BY <1>1, <1>2, BufferLeftAlone DEF LogInv, Contents

LEMMA ThreadDelReturnInv ==
  ASSUME LogInv, ThreadDelReturn
  PROVE  LogInv'
<1>1. ProcTypeOK' /\ IdTypeOK'
  BY LogAssumption DEF LogInv, TypeOK, ProcTypeOK, IdTypeOK, ThreadDelReturn, ids
<1>2. UNCHANGED <<log, th, out, hist, line>> /\ pc' = [pc EXCEPT ![Owner] = "idle"]
  BY DEF ThreadDelReturn
<1>3. QED BY <1>1, <1>2, LogAssumption, BufferLeftAlone
          DEF LogInv, TypeOK, ProcTypeOK, Contents

(* Output hands a line to shf_log_append, or does nothing.                 *)
LEMMA OutputFacts ==
  ASSUME LogInv, NEW p \in Procs, pc[p] = "idle",
         NEW len \in {BodyLen, PrefixLen + BodyLen} \cup 1 .. PrintMax, Output(p, len)
  PROVE  /\ pc' \in [Procs -> {"idle", "new", "append", "del"}]
         /\ line' \in [Procs -> AllLines \cup {<<>>}] /\ lines' \in 0 .. MaxLines
         /\ \A q \in Procs : pc'[q] = "append" => line'[q] \in AllLines
         /\ pc'[Owner] = "new" => pc[Owner] = "new"
<1>0. ProcTypeOK /\ \A q \in Procs : pc[q] = "append" => line[q] \in AllLines
  BY DEF LogInv, TypeOK, Contents
<1>1. CASE dest[p] = "log" /\ len < size
  <2>1. /\ lines < MaxLines /\ lines' = lines + 1 /\ pc' = [pc EXCEPT ![p] = "append"]
        /\ line' = [line EXCEPT ![p] = LineOf(lines', len)]
    BY <1>1 DEF Output
  <2>2. lines' \in 1 .. MaxLines
    BY <1>0, <2>1, LogAssumption DEF ProcTypeOK
  <2>3. LineOf(lines', len) \in AllLines
    BY <2>2, NewLine
  <2>4. QED BY <1>0, <2>1, <2>2, <2>3, LogAssumption DEF ProcTypeOK
<1>2. CASE ~(dest[p] = "log" /\ len < size)
  BY <1>0, <1>2 DEF Output, ProcTypeOK
<1>3. QED BY <1>1, <1>2

LEMMA LogCallInv ==
  ASSUME LogInv, NEW p \in Procs, NEW plain \in BOOLEAN, Log(p, plain)
  PROVE  LogInv'
<1> DEFINE len == IF plain THEN BodyLen ELSE PrefixLen + BodyLen
<1>1. /\ pc[p] = "idle" /\ Output(p, len) /\ len \in {BodyLen, PrefixLen + BodyLen} \cup 1 .. PrintMax
      /\ UNCHANGED <<log, th, dest, part, out, hist>>
  BY DEF Log
<1>2. prefix_len' \in [Procs -> {0, PrefixLen}]
  BY DEF Log, LogInv, TypeOK, ProcTypeOK
<1>3. IdTypeOK'
  BY LogAssumption DEF Log, MapTid, LogInv, TypeOK, IdTypeOK, ids
<1> HIDE DEF len
<1>4. ProcTypeOK'
  BY <1>1, <1>2, OutputFacts DEF LogInv, TypeOK, ProcTypeOK
<1>5. QED BY <1>1, <1>3, <1>4, OutputFacts, BufferLeftAlone

LEMMA PrintPieceInv ==
  ASSUME LogInv, NEW p \in Procs, NEW n \in {1, 2}, NEW eol \in BOOLEAN, PrintPiece(p, n, eol)
  PROVE  LogInv'
<1> DEFINE fits == part[p] + n <= PrintMax
           now == IF fits THEN part[p] + n ELSE part[p]
           ends == IF fits THEN eol ELSE part[p] = PrintMax
<1>0. ProcTypeOK /\ IdTypeOK /\ part[p] \in 0 .. PrintMax /\ PrintMax \in Nat \ {0}
  BY LogAssumption DEF LogInv, TypeOK, ProcTypeOK
<1>1. now \in 0 .. PrintMax /\ (ends => now \in 1 .. PrintMax)
  BY <1>0
<1>2. /\ pc[p] = "idle" /\ UNCHANGED <<log, ids, th, dest, prefix_len, out, hist>>
      /\ IF ends THEN Output(p, now) /\ part' = [part EXCEPT ![p] = 0]
         ELSE part' = [part EXCEPT ![p] = now] /\ UNCHANGED <<pc, line, lines>>
  BY DEF PrintPiece
<1> HIDE DEF now, ends
<1>3. IdTypeOK'
  BY <1>0, <1>2 DEF IdTypeOK, ids
<1>4. CASE ends
  <2>1. ProcTypeOK'
    BY SMTT(40), <1>0, <1>1, <1>2, <1>4, OutputFacts DEF ProcTypeOK
  <2>2. QED BY <1>1, <1>2, <1>3, <1>4, <2>1, OutputFacts, BufferLeftAlone
<1>5. CASE ~ends
  <2>1. ProcTypeOK'
    BY <1>0, <1>1, <1>2, <1>5 DEF ProcTypeOK
  <2>2. QED BY <1>2, <1>3, <1>5, <2>1, BufferLeftAlone DEF LogInv, Contents
<1>6. QED BY <1>4, <1>5

(* An append goes behind what is in the buffer, and behind what the log    *)
(* thread is writing.                                                      *)
LEMMA LogAppendInv ==
  ASSUME LogInv, NEW p \in Procs, LogAppend(p)
  PROVE  LogInv'
<1> DEFINE l == line[p]
           n == Len(line[p])
<1>0. /\ pc[p] = "append" /\ size - used >= prefix_len[p] + n
      /\ bytes' = [i \in Offsets |-> IF i \in used .. used + n - 1
                                     THEN l[i - used + 1] ELSE bytes[i]]
      /\ used' = used + n /\ text' = text \o l
      /\ pc' = [pc EXCEPT ![p] = "idle"] /\ line' = [line EXCEPT ![p] = <<>>]
      /\ UNCHANGED <<size, running, stopped, same_second, same_fail, ids, th, dest, lines,
                     prefix_len, part, out, at_del, gave_up>>
  BY DEF LogAppend, HasRoom
<1>1. /\ l \in Seq(Bytes) /\ n \in Nat /\ n >= 1
      /\ \A i \in 1 .. n : l[i] \in Bytes /\ l[i] # NoByte
  BY <1>0, LineFacts DEF LogInv, Contents
<1>2. /\ used \in Nat /\ used + n <= Size /\ Size \in Nat /\ size \in {0, Size}
      /\ bytes \in [Offsets -> Bytes] /\ text \in Seq(Bytes) /\ out \in Seq(Bytes)
      /\ DOMAIN bytes = Offsets /\ \A i \in Offsets : bytes[i] = NoByte <=> i >= used
  <2>1. prefix_len[p] \in Nat
    BY LogAssumption DEF LogInv, TypeOK, ProcTypeOK
  <2>2. QED BY <1>0, <1>1, <2>1, LogAssumption DEF LogInv, TypeOK, LogTypeOK, Contents
<1>3. /\ text' \in Seq(Bytes) /\ Len(text') = Len(text) + n
      /\ \A i \in 1 .. Len(text) : text'[i] = text[i]
      /\ \A i \in 1 .. n : text'[Len(text) + i] = l[i]
  <2>1. /\ text' \in Seq(Bytes) /\ Len(text') = Len(text) + n
        /\ \A i \in 1 .. Len(text) + n :
             text'[i] = IF i <= Len(text) THEN text[i] ELSE l[i - Len(text)]
    BY <1>0, <1>1, <1>2, ConcatProperties
  <2>2. Len(text) \in Nat
    BY <1>2, LenProperties
  <2> HIDE DEF l, n
  <2>3. ASSUME NEW i \in 1 .. Len(text) PROVE text'[i] = text[i]
    BY <1>1, <2>1, <2>2
  <2>4. ASSUME NEW i \in 1 .. n PROVE text'[Len(text) + i] = l[i]
    <3>1. Len(text) + i \in 1 .. Len(text) + n /\ ~(Len(text) + i <= Len(text))
      BY <1>1, <2>2
    <3>2. (Len(text) + i) - Len(text) = i
      BY <2>2
    <3>3. QED BY <2>1, <3>1, <3>2
  <2>5. QED BY <2>1, <2>3, <2>4
<1> HIDE DEF l, n
<1>4. /\ bytes' \in [Offsets -> Bytes]
      /\ \A i \in Offsets : i < used => bytes'[i] = bytes[i]
      /\ \A i \in 1 .. n : bytes'[used + i - 1] = l[i]
  BY <1>0, <1>1, <1>2 DEF Offsets
<1>5. LogTypeOK'
  <2>1. {running, stopped, same_second, same_fail, gave_up}' \subseteq BOOLEAN
    BY <1>0 DEF LogInv, TypeOK, LogTypeOK
  <2>2. DOMAIN bytes' = Offsets
    BY <1>0
  <2>3. ASSUME NEW i \in Offsets
        PROVE  bytes'[i] = NoByte <=> i >= used'
    <3>1. CASE i < used
      BY <1>0, <1>1, <1>2, <1>4, <3>1 DEF Offsets
    <3>2. CASE i >= used /\ i < used + n
      <4>1. i - used + 1 \in 1 .. n /\ bytes'[i] = l[i - used + 1]
        BY <1>0, <1>1, <1>2, <3>2 DEF Offsets
      <4>2. QED BY <1>0, <1>1, <1>2, <3>2, <4>1 DEF Offsets
    <3>3. CASE i >= used + n
      BY <1>0, <1>1, <1>2, <3>3 DEF Offsets
    <3>4. QED BY <3>1, <3>2, <3>3, <1>1, <1>2 DEF Offsets
  <2>4. QED BY <1>0, <1>1, <1>2, <2>1, <2>2, <2>3 DEF LogTypeOK
<1>6. ProcTypeOK' /\ IdTypeOK' /\ ThreadTypeOK'
  BY <1>0 DEF LogInv, TypeOK, ProcTypeOK, IdTypeOK, ThreadTypeOK, ids
<1>7. Contents'
  BY <1>0, <1>3, <1>4 DEF LogInv, TypeOK, ProcTypeOK, Contents
<1>8. ThreadCounts' /\ Phases'
  BY SMTT(40), <1>0, <1>1, <1>2, LogAssumption
     DEF LogInv, TypeOK, ThreadTypeOK, ProcTypeOK, ThreadCounts, Phases
<1>9. Flushing'
  BY <1>0, <1>1, <1>2, <1>3 DEF LogInv, Contents, Flushing
<1>10. RestInBuffer'
  <2>1. /\ Written' = Written /\ Written \in Nat /\ Written <= used
        /\ Len(out) \in Nat /\ Len(text) \in Nat
    BY <1>0, <1>2, LogAssumption DEF LogInv, TypeOK, ThreadTypeOK, ThreadCounts, Written, Writing
  <2>2. Len(text)' = Len(out)' + (used' - Written')
    BY SMTT(40), <1>0, <1>1, <1>2, <1>3, <2>1 DEF LogInv, RestInBuffer
  <2>3. \A i \in 1 .. Len(out) : text'[i] = out[i]
    BY <1>2, <1>3, <2>1 DEF LogInv, RestInBuffer
  <2>4. ASSUME NEW i \in 1 .. used + n - Written
        PROVE  text'[Len(out) + i] = bytes'[Written + i - 1]
    <3>1. CASE i <= used - Written
      <4>1. i \in 1 .. used - Written /\ Len(out) + i \in 1 .. Len(text)
        BY <1>1, <1>2, <2>1, <3>1 DEF LogInv, RestInBuffer
      <4>2. text'[Len(out) + i] = bytes[Written + i - 1]
        BY <1>3, <4>1 DEF LogInv, RestInBuffer
      <4>3. Written + i - 1 \in Offsets /\ Written + i - 1 < used
        BY <1>1, <1>2, <2>1, <4>1 DEF Offsets
      <4>4. QED BY <1>4, <4>2, <4>3
    <3>2. CASE i > used - Written
      <4>1. PICK j \in 1 .. n : j = i - (used - Written)
        BY <1>1, <1>2, <2>1, <3>2
      <4>2. Len(out) + i = Len(text) + j /\ Written + i - 1 = used + j - 1
        BY <1>1, <1>2, <2>1, <4>1 DEF LogInv, RestInBuffer
      <4>3. QED BY <1>3, <1>4, <4>2
    <3>3. QED BY <3>1, <3>2, <1>1, <1>2, <2>1
  <2>5. out' = out /\ used' - Written' = used + n - Written
    <3>1. out' = out /\ used' = used + n  BY <1>0
    <3>2. Written' = Written  BY <2>1
    <3>3. QED BY <1>1, <1>2, <2>1, <3>1, <3>2
  <2>6. \A i \in 1 .. used' - Written' : text'[Len(out') + i] = bytes'[Written' + i - 1]
    BY <2>1, <2>4, <2>5
  <2>7. QED BY <2>2, <2>3, <2>5, <2>6 DEF RestInBuffer
<1>11. QED BY <1>5, <1>6, <1>7, <1>8, <1>9, <1>10 DEF LogInv, TypeOK

LEMMA ThreadNewPutInv ==
  ASSUME LogInv, ThreadNewPut
  PROVE  LogInv'
<1>1. /\ pc[Owner] = "idle" /\ th.pc = "none" /\ pc' = [pc EXCEPT ![Owner] = "new"]
      /\ th' = [th EXCEPT !.pc = "put"]
      /\ UNCHANGED <<log, ids, dest, line, lines, prefix_len, part, out, hist>>
  BY DEF ThreadNewPut
<1>2. th'.pc = "put" /\ ThreadTypeOK'
  BY <1>1 DEF LogInv, TypeOK, ThreadTypeOK
<1>3. TypeOK'
  BY <1>1, <1>2, LogAssumption DEF LogInv, TypeOK, LogTypeOK, IdTypeOK, ProcTypeOK, log, ids, hist
<1>4. Contents' /\ ThreadCounts' /\ Phases' /\ Flushing'
  BY <1>1, <1>2, LogAssumption
     DEF LogInv, TypeOK, ProcTypeOK, Contents, ThreadCounts, Writing, Phases, Flushing, log, hist
<1>5. RestInBuffer'
  BY <1>1, <1>2 DEF LogInv, RestInBuffer, Written, log, hist
<1>6. QED BY <1>3, <1>4, <1>5 DEF LogInv

LEMMA ThreadNewStartInv ==
  ASSUME LogInv, ThreadNewStart
  PROVE  LogInv'
<1>1. /\ pc[Owner] = "new" /\ pc' = [pc EXCEPT ![Owner] = "idle"]
      /\ running' = TRUE /\ size' = Size /\ dest' = [dest EXCEPT ![Owner] = "log"]
      /\ th' = [th EXCEPT !.pc = "loop"]
      /\ UNCHANGED <<used, bytes, stopped, same_second, same_fail, ids, line, lines, prefix_len,
                     part, out, hist>>
  BY DEF ThreadNewStart
<1>2. th.pc = "put" /\ th'.pc = "loop" /\ ThreadTypeOK'
  BY <1>1 DEF LogInv, Phases, TypeOK, ThreadTypeOK
<1>3. LogTypeOK'
  BY <1>1 DEF LogInv, TypeOK, LogTypeOK, hist
<1>4. IdTypeOK' /\ ProcTypeOK'
  BY <1>1, LogAssumption DEF LogInv, TypeOK, IdTypeOK, ProcTypeOK, ids
<1>5. Contents' /\ ThreadCounts' /\ Phases' /\ Flushing'
  BY <1>1, <1>2, LogAssumption
     DEF LogInv, TypeOK, ProcTypeOK, Contents, ThreadCounts, Writing, Phases, Flushing, hist
<1>6. RestInBuffer'
  BY <1>1, <1>2 DEF LogInv, RestInBuffer, Written, hist
<1>7. QED BY <1>2, <1>3, <1>4, <1>5, <1>6 DEF LogInv, TypeOK

LEMMA ThreadDelInv ==
  ASSUME LogInv, ThreadDel
  PROVE  LogInv'
<1>1. /\ pc[Owner] = "idle" /\ running /\ running' = FALSE
      /\ pc' = [pc EXCEPT ![Owner] = "del"] /\ at_del' = Len(text)
      /\ UNCHANGED <<size, used, bytes, stopped, same_second, same_fail, ids, th, dest, line,
                     lines, prefix_len, part, out, text, gave_up>>
  BY DEF ThreadDel
<1>2. LogTypeOK'
  BY <1>1 DEF LogInv, TypeOK, LogTypeOK
<1>3. IdTypeOK' /\ ProcTypeOK' /\ ThreadTypeOK'
  BY <1>1, LogAssumption DEF LogInv, TypeOK, IdTypeOK, ProcTypeOK, ThreadTypeOK, ids
<1>4. Len(text) \in Nat /\ th.pc \notin {"close", "last", "stop", "ended"}
  BY <1>1, LenProperties DEF LogInv, Contents, Phases
<1>5. Contents' /\ ThreadCounts' /\ Phases' /\ Flushing'
  BY <1>1, <1>4, LogAssumption
     DEF LogInv, TypeOK, ProcTypeOK, Contents, ThreadCounts, Phases, Flushing
<1>6. RestInBuffer'
  BY <1>1 DEF LogInv, RestInBuffer, Written
<1>7. QED BY <1>2, <1>3, <1>5, <1>6 DEF LogInv, TypeOK

-----------------------------------------------------------------------------
(* Steps of the log thread. *)

(* A step of the log thread that moves no byte: Loop, Sample, WriteBreak,  *)
(* WriteDone, Close.                                                       *)
LEMMA NoByteMoved ==
  ASSUME LogInv, ThreadTypeOK', LogTypeOK', ThreadCounts', Flushing', Written' = Written,
         UNCHANGED <<size, used, bytes, running, stopped, ids, procs, out, text, at_del>>,
         th.pc \notin {"none", "put", "ended"}, th'.pc \notin {"none", "put", "ended"},
         th'.pc \in {"close", "last", "stop"} => ~running
  PROVE  LogInv'
<1>1. IdTypeOK' /\ ProcTypeOK'
  BY DEF LogInv, TypeOK, IdTypeOK, ProcTypeOK, ids, procs
<1>2. Contents' /\ Phases'
  BY DEF LogInv, Contents, Phases, procs
<1>3. RestInBuffer'
  BY DEF LogInv, RestInBuffer
<1>4. QED BY <1>1, <1>2, <1>3 DEF LogInv, TypeOK

LEMMA LoopInv ==
  ASSUME LogInv, Loop
  PROVE  LogInv'
<1>1. /\ th.pc = "loop" /\ th' = [th EXCEPT !.pc = IF running THEN "sample" ELSE "close"]
      /\ UNCHANGED <<log, out, ids, procs, hist>>
  BY DEF Loop, ThreadUnchanged
<1>2. ThreadTypeOK' /\ th'.pc = IF running THEN "sample" ELSE "close"
  BY <1>1 DEF LogInv, TypeOK, ThreadTypeOK
<1>3. LogTypeOK' /\ ThreadCounts' /\ Flushing' /\ Written' = Written
  BY <1>1, <1>2 DEF LogInv, TypeOK, LogTypeOK, ThreadCounts, Writing, Flushing, Written, log, hist
<1>4. UNCHANGED <<size, used, bytes, running, stopped, ids, procs, out, text, at_del>>
  BY <1>1 DEF log, hist
<1>5. QED BY <1>1, <1>2, <1>3, <1>4, NoByteMoved

LEMMA SampleInv ==
  ASSUME LogInv, NEW tick \in BOOLEAN, Sample(tick)
  PROVE  LogInv'
<1>1. /\ th.pc = "sample" /\ UNCHANGED <<size, used, bytes, running, stopped, out, ids, procs, hist>>
      /\ \/ th' = [pc |-> "write", log_used |-> used, log_left |-> used, log_work |-> 0]
         \/ th' = [th EXCEPT !.pc = "loop"]
  BY DEF Sample, ThreadUnchanged
<1>2. used \in 0 .. Size /\ Size \in Nat
  BY LogAssumption DEF LogInv, TypeOK, LogTypeOK
<1>3. /\ ThreadTypeOK' /\ th'.pc \in {"write", "loop"}
      /\ th'.pc = "write" => th'.log_used = used /\ th'.log_left = used /\ th'.log_work = 0
  BY <1>1, <1>2 DEF LogInv, TypeOK, ThreadTypeOK
<1>4. LogTypeOK'
  <2>1. same_second' \in BOOLEAN /\ same_fail' \in BOOLEAN
    BY DEF Sample
  <2>2. QED BY <1>1, <2>1 DEF LogInv, TypeOK, LogTypeOK, hist
<1>5. ThreadCounts' /\ Flushing' /\ Written' = Written
  BY <1>1, <1>2, <1>3 DEF LogInv, ThreadCounts, Writing, Flushing, Written, hist
<1>6. QED BY <1>1, <1>3, <1>4, <1>5, NoByteMoved DEF hist

LEMMA WriteBreakInv ==
  ASSUME LogInv, NEW fails \in BOOLEAN, WriteBreak(fails)
  PROVE  LogInv'
<1>1. /\ th.pc \in {"write", "last"} /\ gave_up' = (gave_up \/ th.pc = "last")
      /\ th' = [th EXCEPT !.pc = IF @ = "write" THEN "move" ELSE "stop"]
      /\ same_fail' = (same_fail \/ fails)
      /\ UNCHANGED <<size, used, bytes, running, stopped, same_second, ids, procs, out, text, at_del>>
  BY DEF WriteBreak
<1>2. /\ ThreadTypeOK' /\ th'.pc = IF th.pc = "write" THEN "move" ELSE "stop"
      /\ th'.log_used = th.log_used /\ th'.log_left = th.log_left /\ th'.log_work = th.log_work
  BY <1>1 DEF LogInv, TypeOK, ThreadTypeOK
<1>3. LogTypeOK'
  <2>1. gave_up' \in BOOLEAN /\ same_fail' \in BOOLEAN
    BY <1>1
  <2>2. QED BY <1>1, <2>1 DEF LogInv, TypeOK, LogTypeOK
<1>4. th'.pc = "stop" => gave_up'
  <2>1. th'.pc = "stop" => th.pc = "last"
    BY <1>1, <1>2
  <2>2. QED BY <1>1, <2>1, Zenon
<1>5. ThreadCounts' /\ Flushing' /\ Written' = Written
  BY <1>1, <1>2, <1>4 DEF LogInv, ThreadCounts, Writing, Flushing, Written
<1>6. th'.pc = "stop" => ~running
  BY <1>1, <1>2 DEF LogInv, Phases
<1>7. QED BY <1>1, <1>2, <1>3, <1>5, <1>6, NoByteMoved

LEMMA WriteDoneInv ==
  ASSUME LogInv, WriteDone
  PROVE  LogInv'
<1>1. /\ th.pc \in {"write", "last"} /\ th.log_left = 0
      /\ th' = [th EXCEPT !.pc = IF @ = "write" THEN "move" ELSE "stop"]
      /\ UNCHANGED <<log, out, ids, procs, hist>>
  BY DEF WriteDone, ThreadUnchanged
<1>2. /\ ThreadTypeOK' /\ th'.pc = IF th.pc = "write" THEN "move" ELSE "stop"
      /\ th'.log_used = th.log_used /\ th'.log_left = th.log_left /\ th'.log_work = th.log_work
  BY <1>1 DEF LogInv, TypeOK, ThreadTypeOK
<1>3. LogTypeOK' /\ ThreadCounts' /\ Written' = Written
  BY <1>1, <1>2 DEF LogInv, TypeOK, LogTypeOK, ThreadCounts, Writing, Written, log, hist
<1>4. Flushing'
  <2>1. Len(out) \in Nat /\ at_del \in Nat
    BY LenProperties DEF LogInv, Contents
  <2>2. QED BY <1>1, <1>2, <2>1 DEF LogInv, Flushing, hist
<1>5. th'.pc = "stop" => ~running
  BY <1>1, <1>2 DEF LogInv, Phases
<1>6. UNCHANGED <<size, used, bytes, running, stopped, ids, procs, out, text, at_del>>
  BY <1>1 DEF log, hist
<1>7. QED BY <1>1, <1>2, <1>3, <1>4, <1>5, <1>6, NoByteMoved

(* With nothing written, what is in the buffer is all that is not in the   *)
(* file.                                                                   *)
LEMMA CloseInv ==
  ASSUME LogInv, Close
  PROVE  LogInv'
<1>1. /\ th.pc = "close"
      /\ th' = [pc |-> "last", log_used |-> used, log_left |-> used, log_work |-> 0]
      /\ UNCHANGED <<log, out, ids, procs, hist>>
  BY DEF Close, ThreadUnchanged
<1>2. used \in 0 .. Size /\ Size \in Nat
  BY LogAssumption DEF LogInv, TypeOK, LogTypeOK
<1>3. ThreadTypeOK'
  BY <1>1, <1>2 DEF ThreadTypeOK
<1>4. LogTypeOK' /\ ThreadCounts' /\ Written' = Written
  BY <1>1, <1>2 DEF LogInv, TypeOK, LogTypeOK, ThreadCounts, Writing, Written, log, hist
<1>5. Flushing'
  <2>1. Len(out) \in Nat /\ at_del \in Nat /\ at_del <= Len(text)
    BY LenProperties DEF LogInv, Contents, Flushing
  <2>2. Len(text) = Len(out) + used
    BY <1>1, <1>2, <2>1 DEF LogInv, RestInBuffer, Written
  <2>3. QED BY <1>1, <1>2, <2>1, <2>2 DEF Flushing, hist
<1>6. ~running /\ UNCHANGED <<size, used, bytes, running, stopped, ids, procs, out, text, at_del>>
  BY <1>1 DEF LogInv, Phases, log, hist
<1>7. QED BY <1>1, <1>3, <1>4, <1>5, <1>6, NoByteMoved

LEMMA StopInv ==
  ASSUME LogInv, Stop
  PROVE  LogInv'
<1>1. /\ th.pc = "stop" /\ dest' = [dest EXCEPT ![Owner] = "stdout"] /\ stopped' = TRUE
      /\ th' = [th EXCEPT !.pc = "ended"]
      /\ UNCHANGED <<size, used, bytes, running, same_second, same_fail, ids, pc, line, lines,
                     prefix_len, part, out, hist>>
  BY DEF Stop
<1>2. /\ ThreadTypeOK' /\ th'.pc = "ended"
      /\ th'.log_used = th.log_used /\ th'.log_left = th.log_left /\ th'.log_work = th.log_work
  BY <1>1 DEF LogInv, TypeOK, ThreadTypeOK
<1>3. LogTypeOK'
  BY <1>1 DEF LogInv, TypeOK, LogTypeOK, hist
<1>4. IdTypeOK' /\ ProcTypeOK'
  BY <1>1, LogAssumption DEF LogInv, TypeOK, IdTypeOK, ProcTypeOK, ids
<1>5. Contents' /\ ThreadCounts' /\ Phases' /\ Flushing'
  BY <1>1, <1>2 DEF LogInv, Contents, ThreadCounts, Writing, Phases, Flushing, hist
<1>6. RestInBuffer'
  BY <1>1, <1>2 DEF LogInv, RestInBuffer, Written, hist
<1>7. QED BY <1>2, <1>3, <1>4, <1>5, <1>6 DEF LogInv, TypeOK

(* The bytes the log thread hands to write() are the next ones of text.    *)
LEMMA WriteTakes ==
  ASSUME LogInv, NEW n \in 1 .. Size, Write(n)
  PROVE  /\ Chunk(th.log_work, n) \in Seq(Bytes) /\ Len(Chunk(th.log_work, n)) = n
         /\ Len(out) + n <= Len(text) /\ Len(out) \in Nat /\ Len(text) \in Nat
         /\ th.log_work \in Nat /\ th.log_work + n <= used /\ used \in 0 .. Size
         /\ Written = th.log_work
         /\ \A i \in 1 .. n : Chunk(th.log_work, n)[i] = text[Len(out) + i]
<1>1. th.pc \in {"write", "last"} /\ n <= th.log_left
  BY DEF Write
<1>2. /\ th.log_left \in Nat /\ th.log_work \in Nat /\ th.log_work + n <= used
      /\ used \in 0 .. Size /\ Size \in Nat /\ Written = th.log_work
  BY <1>1, LogAssumption
     DEF LogInv, TypeOK, LogTypeOK, ThreadTypeOK, ThreadCounts, Writing, Written
<1>3. /\ Len(out) \in Nat /\ Len(text) \in Nat /\ bytes \in [Offsets -> Bytes]
      /\ Len(text) = Len(out) + (used - th.log_work)
  BY <1>2, LenProperties DEF LogInv, Contents, RestInBuffer
<1>4. \A i \in 1 .. n : th.log_work + i - 1 \in Offsets /\ i \in 1 .. used - th.log_work
  BY <1>2 DEF Offsets
<1>5. /\ Chunk(th.log_work, n) \in Seq(Bytes) /\ Len(Chunk(th.log_work, n)) = n
      /\ \A i \in 1 .. n : Chunk(th.log_work, n)[i] = bytes[th.log_work + i - 1]
  <2>0. n \in Nat
    BY <1>2
  <2>1. \A i \in 1 .. n : bytes[th.log_work + i - 1] \in Bytes
    BY <1>3, <1>4
  <2>2. PICK c : c = [i \in 1 .. n |-> bytes[th.log_work + i - 1]]
    OBVIOUS
  <2>3. c \in Seq(Bytes) /\ Len(c) = n
    BY <2>0, <2>1, <2>2
  <2>4. QED BY <2>2, <2>3 DEF Chunk
<1>6. \A i \in 1 .. used - th.log_work : text[Len(out) + i] = bytes[th.log_work + i - 1]
  BY <1>2 DEF LogInv, RestInBuffer
<1>7. \A i \in 1 .. n : Chunk(th.log_work, n)[i] = text[Len(out) + i]
  BY <1>4, <1>5, <1>6
<1>8. Len(out) + n <= Len(text)
  BY <1>2, <1>3
<1>9. QED BY <1>2, <1>3, <1>5, <1>7, <1>8

LEMMA WriteInv ==
  ASSUME LogInv, NEW n \in 1 .. Size, Write(n)
  PROVE  LogInv'
<1> DEFINE c == Chunk(th.log_work, n)
<1>1. /\ th.pc \in {"write", "last"} /\ n <= th.log_left /\ out' = out \o c
      /\ th' = [th EXCEPT !.log_left = @ - n, !.log_work = @ + n]
      /\ UNCHANGED <<log, ids, procs, hist>>
  BY DEF Write, ThreadUnchanged
<1>2. /\ c \in Seq(Bytes) /\ Len(c) = n /\ Len(out) + n <= Len(text)
      /\ Len(out) \in Nat /\ Len(text) \in Nat
      /\ th.log_work \in Nat /\ th.log_work + n <= used /\ used \in 0 .. Size
      /\ Written = th.log_work
      /\ \A i \in 1 .. n : c[i] = text[Len(out) + i]
  BY WriteTakes
<1> HIDE DEF c
<1>3. /\ th'.pc = th.pc /\ th'.log_used = th.log_used
      /\ th'.log_left = th.log_left - n /\ th'.log_work = th.log_work + n
      /\ ThreadTypeOK' /\ th.log_left \in Nat /\ th.log_used \in Nat /\ n \in Nat
  <2>1. /\ Size \in Nat /\ n \in Nat /\ ThreadTypeOK
        /\ th.log_left \in 0 .. Size /\ th.log_used \in 0 .. Size
    BY LogAssumption DEF LogInv, TypeOK, ThreadTypeOK
  <2>a. n <= th.log_left
    BY <1>1
  <2>b. th.log_work + n <= used /\ used \in 0 .. Size /\ th.log_work \in Nat
    BY <1>2
  <2>2. th.log_left - n \in 0 .. Size /\ th.log_work + n \in 0 .. Size
    BY <2>a, <2>b, <2>1
  <2>3. ThreadTypeOK'
    BY <1>1, <2>1, <2>2 DEF ThreadTypeOK
  <2>4. /\ th'.pc = th.pc /\ th'.log_used = th.log_used
        /\ th'.log_left = th.log_left - n /\ th'.log_work = th.log_work + n
    BY <1>1, <2>1 DEF ThreadTypeOK
  <2>5. QED BY <2>1, <2>3, <2>4
<1>4. Written' = th.log_work + n
  BY <1>1, <1>3 DEF Written
<1>5. /\ out' \in Seq(Bytes) /\ Len(out') = Len(out) + n
      /\ \A i \in 1 .. Len(out) + n : out'[i] = IF i <= Len(out) THEN out[i] ELSE c[i - Len(out)]
  BY <1>1, <1>2, ConcatProperties DEF LogInv, Contents
<1>6. TypeOK'
  BY <1>1, <1>3
     DEF LogInv, TypeOK, LogTypeOK, IdTypeOK, ProcTypeOK, log, ids, procs, hist
<1>7. Contents'
  BY <1>1, <1>5 DEF LogInv, Contents, log, procs, hist
<1>8. ThreadCounts'
  BY <1>1, <1>2, <1>3 DEF LogInv, ThreadCounts, Writing, log
<1>9. Phases'
  BY <1>1, <1>3 DEF LogInv, Phases, log, procs
<1>10. Flushing'
  BY <1>1, <1>2, <1>3, <1>5 DEF LogInv, Contents, Flushing, hist
<1>11. RestInBuffer'
  <2>1. UNCHANGED <<text, bytes, used>>
    BY <1>1 DEF log, hist
  <2>2. Len(text') = Len(out') + (used' - Written')
    BY SMTT(40), <1>2, <1>3, <1>4, <1>5, <2>1 DEF LogInv, RestInBuffer
  <2>3. ASSUME NEW i \in 1 .. Len(out')
        PROVE  text'[i] = out'[i]
    <3>0. i \in 1 .. Len(out) + n
      BY <1>5
    <3>1. CASE i <= Len(out)
      <4>1. i \in 1 .. Len(out) /\ out'[i] = out[i]
        BY <1>2, <1>3, <1>5, <3>0, <3>1
      <4>2. QED BY <2>1, <4>1 DEF LogInv, RestInBuffer
    <3>2. CASE i > Len(out)
      <4>0. i - Len(out) \in 1 .. n
        BY <1>2, <1>3, <3>0, <3>2
      <4>1. PICK j \in 1 .. n : j = i - Len(out)
        BY <4>0
      <4>2. out'[i] = c[j] /\ Len(out) + j = i
        BY <1>2, <1>3, <1>5, <3>2, <4>1
      <4>3. QED BY <1>2, <2>1, <4>2
    <3>3. QED BY <3>1, <3>2, <1>2, <1>5
  <2>4. ASSUME NEW i \in 1 .. used' - Written'
        PROVE  text'[Len(out') + i] = bytes'[Written' + i - 1]
    <3>1. PICK j \in 1 .. used - th.log_work : j = n + i
      BY <1>2, <1>3, <1>4, <2>1
    <3>2. text[Len(out) + j] = bytes[th.log_work + j - 1]
      BY <1>2, <3>1 DEF LogInv, RestInBuffer
    <3>3. Len(out') + i = Len(out) + j /\ Written' + i - 1 = th.log_work + j - 1
      BY SMTT(40), <1>2, <1>3, <1>4, <1>5, <3>1
    <3>4. QED BY <2>1, <3>2, <3>3
  <2>5. QED BY <2>2, <2>3, <2>4 DEF RestInBuffer
<1>12. QED BY <1>6, <1>7, <1>8, <1>9, <1>10, <1>11 DEF LogInv

(* The rest of the buffer goes to the front, with what was appended during *)
(* the write.                                                              *)
LEMMA MoveInv ==
  ASSUME LogInv, Move
  PROVE  LogInv'
<1>1. /\ th.pc = "move" /\ UNCHANGED <<size, running, stopped, same_fail, out, ids, procs, hist>>
      /\ same_second' = TRUE
      /\ th' = [pc |-> "loop", log_used |-> 0, log_left |-> 0, log_work |-> 0]
  BY DEF Move, ThreadUnchanged
<1>2. /\ used \in 0 .. Size /\ Size \in Nat /\ th.log_work \in Nat /\ th.log_left \in Nat
      /\ th.log_used \in Nat /\ th.log_left + th.log_work = th.log_used /\ th.log_used <= used
      /\ Written = th.log_work /\ Written' = 0 /\ bytes \in [Offsets -> Bytes]
      /\ \A i \in Offsets : bytes[i] = NoByte <=> i >= used
  BY <1>1, LogAssumption
     DEF LogInv, TypeOK, LogTypeOK, ThreadTypeOK, Contents, ThreadCounts, Writing, Written
<1>3. /\ used' = used - th.log_work /\ used' \in 0 .. Size
      /\ bytes' \in [Offsets -> Bytes]
      /\ \A i \in Offsets : i < used' => bytes'[i] = bytes[th.log_work + i]
      /\ \A i \in Offsets : i >= used' => bytes'[i] = NoByte
  <2>1. CASE th.log_used = th.log_left
    <3>1. th.log_work = 0 /\ UNCHANGED <<used, bytes>>
      BY <1>2, <2>1 DEF Move
    <3>2. QED BY <1>2, <3>1 DEF Offsets
  <2>2. CASE th.log_used # th.log_left
    <3>1. Left = used - th.log_work
      BY <1>2 DEF Left
    <3>2. /\ used' = Left
          /\ bytes' = [i \in Offsets |-> IF i < Left THEN bytes[th.log_work + i] ELSE NoByte]
      BY <2>2 DEF Move
    <3>3. \A i \in Offsets : i < used - th.log_work => th.log_work + i \in Offsets
      BY <1>2 DEF Offsets
    <3>4. NoByte \in Bytes /\ used - th.log_work \in 0 .. Size
      BY <1>2 DEF Bytes
    <3>5. \A i \in Offsets : i \in Nat
      BY <1>2 DEF Offsets
    <3>6. QED BY <1>2, <3>1, <3>2, <3>3, <3>4, <3>5
  <2>3. QED BY <2>1, <2>2
<1>4. \A i \in Offsets : bytes'[i] = NoByte <=> i >= used'
  <2>1. ASSUME NEW i \in Offsets, i < used' PROVE bytes'[i] # NoByte
    <3>1. th.log_work + i \in Offsets /\ ~(th.log_work + i >= used)
      BY <1>2, <1>3, <2>1 DEF Offsets
    <3>2. QED BY <1>2, <1>3, <2>1, <3>1
  <2>2. QED BY <1>2, <1>3, <2>1 DEF Offsets
<1>5. LogTypeOK'
  <2>1. {running, stopped, same_second, same_fail, gave_up}' \subseteq BOOLEAN
    BY <1>1 DEF LogInv, TypeOK, LogTypeOK, hist
  <2>2. size' \in {0, Size} /\ DOMAIN bytes' = Offsets
    BY <1>1, <1>3 DEF LogInv, TypeOK, LogTypeOK
  <2>3. QED BY <1>3, <1>4, <2>1, <2>2 DEF LogTypeOK
<1>6. ThreadTypeOK'
  BY <1>1, <1>2 DEF ThreadTypeOK
<1>7. IdTypeOK' /\ ProcTypeOK'
  BY <1>1 DEF LogInv, TypeOK, IdTypeOK, ProcTypeOK, ids, procs
<1>8. Contents'
  BY <1>1, <1>3 DEF LogInv, Contents, procs, hist
<1>9. ThreadCounts' /\ Phases' /\ Flushing'
  BY <1>1 DEF LogInv, ThreadCounts, Writing, Phases, Flushing, procs, hist
<1>10. RestInBuffer'
  <2>1. UNCHANGED <<text, out>> /\ Len(text) \in Nat /\ Len(out) \in Nat
    BY <1>1, LenProperties DEF LogInv, Contents, hist
  <2>2. Len(text') = Len(out') + (used' - Written')
    BY <1>2, <1>3, <2>1 DEF LogInv, RestInBuffer
  <2>3. ASSUME NEW i \in 1 .. used' - Written'
        PROVE  text'[Len(out') + i] = bytes'[Written' + i - 1]
    <3>1. i \in 1 .. used - th.log_work /\ i - 1 \in Offsets /\ i - 1 < used'
      BY <1>2, <1>3 DEF Offsets
    <3>2. text[Len(out) + i] = bytes[th.log_work + i - 1]
      BY <1>2, <3>1 DEF LogInv, RestInBuffer
    <3>3. bytes'[i - 1] = bytes[th.log_work + (i - 1)]
      BY <1>3, <3>1
    <3>4. th.log_work + (i - 1) = th.log_work + i - 1 /\ Written' + i - 1 = i - 1
      BY <1>2, <3>1
    <3>5. QED BY <2>1, <3>2, <3>3, <3>4
  <2>4. \A i \in 1 .. Len(out') : text'[i] = out'[i]
    BY <2>1 DEF LogInv, RestInBuffer
  <2>5. QED BY <2>2, <2>3, <2>4 DEF RestInBuffer
<1>11. QED BY <1>5, <1>6, <1>7, <1>8, <1>9, <1>10 DEF LogInv, TypeOK

-----------------------------------------------------------------------------
(* The theorems. *)

LEMMA LogStep ==
  ASSUME LogInv, [Next]_vars
  PROVE  LogInv'
<1>1. CASE UNCHANGED vars
  <2>1. UNCHANGED <<log, ids, th, procs, out, hist>>
    BY <1>1 DEF vars
  <2>2. ProcTypeOK' /\ IdTypeOK'
    BY <2>1 DEF LogInv, TypeOK, ProcTypeOK, IdTypeOK, ids, procs
  <2>3. QED BY <2>1, <2>2, BufferLeftAlone DEF LogInv, Contents, procs
<1>2. CASE ThreadNewPut \/ ThreadNewStart \/ ThreadDel \/ ThreadDelReturn
  BY <1>2, ThreadNewPutInv, ThreadNewStartInv, ThreadDelInv, ThreadDelReturnInv
<1>3. ASSUME NEW p \in Procs,
             \/ AttachExisting(p) \/ DetachExisting(p)
             \/ (\E plain \in BOOLEAN : Log(p, plain)) \/ LogAppend(p)
      PROVE  LogInv'
  BY <1>3, AttachDetachInv, LogCallInv, LogAppendInv
<1>4. ASSUME NEW p \in Printers, NEW n \in {1, 2}, NEW eol \in BOOLEAN, PrintPiece(p, n, eol)
      PROVE  LogInv'
  BY <1>4, LogAssumption, PrintPieceInv
<1>5. CASE ThreadStep
  BY <1>5, LoopInv, SampleInv, WriteInv, WriteBreakInv, WriteDoneInv, MoveInv, CloseInv, StopInv
     DEF ThreadStep
<1>6. QED BY <1>1, <1>2, <1>3, <1>4, <1>5 DEF Next

(* The invariant of the shared log.                                        *)
THEOREM LogInvariant == Spec => []LogInv
BY LogInit, LogStep, PTL DEF Spec

(* shf_log_append and the log thread lose, repeat and reorder no byte,     *)
(* however the appends fall between the writes and the move to the front.  *)
THEOREM LogBufferHoldsRest == Spec => []BufferHoldsRest
<1>1. LogInv => BufferHoldsRest
  <2> SUFFICES ASSUME LogInv PROVE BufferHoldsRest  OBVIOUS
  <2> DEFINE m == used - Written
             c == Chunk(Written, m)
  <2>1. /\ used \in 0 .. Size /\ Size \in Nat /\ Written \in Nat /\ Written <= used
        /\ bytes \in [Offsets -> Bytes]
    BY LogAssumption
       DEF LogInv, TypeOK, LogTypeOK, ThreadTypeOK, ThreadCounts, Writing, Written, Contents
  <2>2. m \in Nat
    BY <2>1
  <2>3. c \in Seq(Bytes) /\ Len(c) = m /\ \A i \in 1 .. m : c[i] = bytes[Written + i - 1]
    <3>1. \A i \in 1 .. m : bytes[Written + i - 1] \in Bytes
      BY <2>1, <2>2 DEF Offsets
    <3>2. PICK d : d = [i \in 1 .. m |-> bytes[Written + i - 1]]
      OBVIOUS
    <3>3. d \in Seq(Bytes) /\ Len(d) = m
      BY <2>2, <3>1, <3>2
    <3>4. QED BY <3>2, <3>3 DEF Chunk
  <2>4. /\ text \in Seq(Bytes) /\ out \in Seq(Bytes) /\ Len(out) \in Nat
        /\ Len(text) = Len(out) + m
        /\ \A i \in 1 .. Len(out) : text[i] = out[i]
        /\ \A i \in 1 .. m : text[Len(out) + i] = bytes[Written + i - 1]
    BY LenProperties DEF LogInv, Contents, RestInBuffer
  <2> HIDE DEF m, c
  <2>5. /\ out \o c \in Seq(Bytes) /\ Len(out \o c) = Len(out) + m
        /\ \A i \in 1 .. Len(out) + m :
             (out \o c)[i] = IF i <= Len(out) THEN out[i] ELSE c[i - Len(out)]
    BY <2>3, <2>4, ConcatProperties
  <2>6. ASSUME NEW i \in 1 .. Len(text) PROVE text[i] = (out \o c)[i]
    <3>0. i \in 1 .. Len(out) + m
      BY <2>4
    <3>1. CASE i <= Len(out)
      BY <2>2, <2>4, <2>5, <3>0, <3>1
    <3>2. CASE i > Len(out)
      <4>1. i - Len(out) \in 1 .. m
        BY <2>2, <2>4, <3>0, <3>2
      <4>2. PICK j \in 1 .. m : j = i - Len(out)
        BY <4>1
      <4>3. (out \o c)[i] = c[j] /\ Len(out) + j = i
        BY <2>2, <2>4, <2>5, <3>0, <3>2, <4>2
      <4>4. QED BY <2>3, <2>4, <4>3
    <3>3. i <= Len(out) \/ i > Len(out)
      BY <2>2, <2>4, <3>0
    <3>4. QED BY <3>1, <3>2, <3>3
  <2>7. text = out \o c
    BY <2>4, <2>5, <2>6, SeqEqual
  <2>8. QED BY <2>7 DEF BufferHoldsRest, c, m
<1>2. QED BY <1>1, LogInvariant, PTL

(* shf_log_thread_del returns only when all that was appended before it is *)
(* in the file, unless a write failed while closing down.                  *)
THEOREM LogDelFlushes == Spec => []DelFlushes
<1>1. LogInv => DelFlushes
  BY DEF LogInv, Phases, Flushing, DelFlushes
<1>2. QED BY <1>1, LogInvariant, PTL

(* The shared log implements a stream of whole lines whose beginning is    *)
(* the file.                                                               *)
THEOREM LogImplementsLogStream == Spec => ImplementsLogStream
<1>1. Init => Stream!Init
  BY DEF Init, Stream!Init
<1>2. LogInv /\ [Next]_vars => [Stream!Next]_<<text, out>>
  <2> SUFFICES ASSUME LogInv, [Next]_vars PROVE Stream!Next \/ UNCHANGED <<text, out>>
    OBVIOUS
  <2>1. CASE UNCHANGED vars
    BY <2>1 DEF vars, hist
  <2>2. CASE ThreadNewPut \/ ThreadNewStart \/ ThreadDel \/ ThreadDelReturn
    BY <2>2 DEF ThreadNewPut, ThreadNewStart, ThreadDel, ThreadDelReturn, hist
  <2>3. ASSUME NEW p \in Procs, LogAppend(p) PROVE Stream!Next
    <3>1. text' = text \o line[p] /\ out' = out /\ line[p] \in AllLines
      BY <2>3 DEF LogAppend, LogInv, Contents
    <3>2. QED BY <3>1 DEF Stream!Next, Stream!Append_
  <2>4. ASSUME NEW p \in Procs,
               \/ AttachExisting(p) \/ DetachExisting(p)
               \/ (\E plain \in BOOLEAN : Log(p, plain))
        PROVE  UNCHANGED <<text, out>>
    BY <2>4 DEF AttachExisting, DetachExisting, Log, hist
  <2>5. ASSUME NEW p \in Printers, NEW n \in {1, 2}, NEW eol \in BOOLEAN, PrintPiece(p, n, eol)
        PROVE  UNCHANGED <<text, out>>
    BY <2>5 DEF PrintPiece, hist
  <2>6. ASSUME NEW n \in 1 .. Size, Write(n) PROVE Stream!Next
    <3> DEFINE c == Chunk(th.log_work, n)
               t == SubSeq(text, Len(out) + 1, Len(out) + n)
    <3>1. /\ c \in Seq(Bytes) /\ Len(c) = n /\ Len(out) + n <= Len(text)
          /\ Len(out) \in Nat /\ Len(text) \in Nat /\ n \in Nat /\ n >= 1
          /\ \A i \in 1 .. n : c[i] = text[Len(out) + i]
      BY <2>6, WriteTakes, LogAssumption
    <3>2. out' = out \o c /\ UNCHANGED text
      BY <2>6 DEF Write, ThreadUnchanged, hist
    <3> HIDE DEF c
    <3>3. \A i \in Len(out) + 1 .. Len(out) + n : text[i] \in Bytes
      BY <3>1 DEF LogInv, Contents
    <3>4. /\ t \in Seq(Bytes) /\ Len(t) = n
          /\ \A i \in 1 .. n : t[i] = text[Len(out) + i]
      BY <3>1, <3>3, SubSeqProperties
    <3> HIDE DEF t
    <3>5. c = t
      BY <3>1, <3>4, SeqEqual
    <3>6. n \in 1 .. Len(text) - Len(out)
      BY <3>1
    <3>7. QED BY <3>2, <3>5, <3>6 DEF Stream!Next, Stream!Write, t
  <2>7. CASE \/ Loop \/ (\E tick \in BOOLEAN : Sample(tick))
             \/ (\E fails \in BOOLEAN : WriteBreak(fails)) \/ WriteDone \/ Move \/ Close \/ Stop
    BY <2>7 DEF Loop, Sample, WriteBreak, WriteDone, Move, Close, Stop, ThreadUnchanged, hist
  <2>8. QED BY <2>1, <2>2, <2>3, <2>4, <2>5, <2>6, <2>7 DEF Next, ThreadStep
<1>3. QED BY <1>1, <1>2, LogInvariant, PTL DEF Spec, ImplementsLogStream, Stream!Spec

-----------------------------------------------------------------------------
(* Thread numbers. *)

LEMMA MapTidKeeps ==
  ASSUME TidsFit, IdTypeOK, TidInv, NEW p \in Procs, MapTid(p)
  PROVE  TidInv'
<1>1. CASE tids[p] # 0
  BY <1>1 DEF MapTid, ids, TidInv, TidsUnique, Mapped
<1>2. CASE tids[p] = 0
  <2>1. IsFiniteSet(Mapped) /\ Cardinality(Mapped) \in Nat
    BY LogAssumption, FS_Subset, FS_CardinalityType DEF Mapped
  <2>2. Cardinality(Mapped \cup {p}) = Cardinality(Mapped) + 1
    BY <1>2, <2>1, FS_AddElement DEF Mapped
  <2>3. Cardinality(Mapped \cup {p}) <= Cardinality(Procs)
    BY LogAssumption, FS_Subset DEF Mapped
  <2>4. Cardinality(Procs) \in Nat
    BY LogAssumption, FS_CardinalityType
  <2>5. tid_id + 1 < IdMod /\ tid_id \in Nat
    BY <2>1, <2>2, <2>3, <2>4, LogAssumption DEF TidInv, TidsFit
  <2>6. tid_id' = tid_id + 1 /\ tids' = [tids EXCEPT ![p] = tid_id + 1]
    <3>1. (tid_id + 1) % IdMod = tid_id + 1
      BY <2>5, LogAssumption
    <3>2. tid_id' = (tid_id + 1) % IdMod /\ tids' = [tids EXCEPT ![p] = tid_id']
      BY <1>2 DEF MapTid
    <3>3. QED BY <3>1, <3>2
  <2>7. Mapped' = Mapped \cup {p}
    BY <2>5, <2>6 DEF Mapped, IdTypeOK
  <2>8. tid_id' = Cardinality(Mapped')
    BY <2>2, <2>6, <2>7 DEF TidInv
  <2>9. \A q \in Procs : tids'[q] <= tid_id'
    BY <2>5, <2>6, LogAssumption DEF TidInv, IdTypeOK
  <2>10. TidsUnique'
    BY <2>5, <2>6, LogAssumption DEF TidInv, IdTypeOK, TidsUnique
  <2>11. QED BY <2>8, <2>9, <2>10 DEF TidInv
<1>3. QED BY <1>1, <1>2

(* Every thread that logs has a short number of its own, as long as there  *)
(* are no more threads than tid_id has values besides 0.                   *)
THEOREM LogTidsUnique ==
  ASSUME TidsFit
  PROVE  Spec => []TidsUnique
<1>1. Init => TidInv
  <2> SUFFICES ASSUME Init PROVE TidInv  OBVIOUS
  <2>1. Mapped = {}
    BY DEF Init, Mapped
  <2>2. QED BY <2>1, FS_EmptySet DEF Init, TidInv, TidsUnique
<1>2. LogInv /\ TidInv /\ [Next]_vars => TidInv'
  <2> SUFFICES ASSUME LogInv, TidInv, [Next]_vars PROVE TidInv'
    OBVIOUS
  <2>1. \/ UNCHANGED ids
        \/ \E p \in Procs : MapTid(p)
    <3>1. CASE UNCHANGED vars
      BY <3>1 DEF vars
    <3>2. CASE ThreadNewPut \/ ThreadNewStart \/ ThreadDel \/ ThreadDelReturn
      BY <3>2 DEF ThreadNewPut, ThreadNewStart, ThreadDel, ThreadDelReturn
    <3>3. ASSUME NEW p \in Procs, AttachExisting(p) \/ DetachExisting(p) \/ LogAppend(p)
          PROVE  UNCHANGED ids
      BY <3>3 DEF AttachExisting, DetachExisting, LogAppend
    <3>4. ASSUME NEW p \in Procs, NEW plain \in BOOLEAN, Log(p, plain)
          PROVE  UNCHANGED ids \/ MapTid(p)
      BY <3>4 DEF Log
    <3>5. ASSUME NEW p \in Printers, NEW n \in {1, 2}, NEW eol \in BOOLEAN, PrintPiece(p, n, eol)
          PROVE  UNCHANGED ids
      BY <3>5 DEF PrintPiece
    <3>6. CASE ThreadStep
      BY <3>6 DEF ThreadStep, Loop, Sample, Write, WriteBreak, WriteDone, Move, Close, Stop,
         ThreadUnchanged
    <3>7. QED BY <3>1, <3>2, <3>3, <3>4, <3>5, <3>6 DEF Next
  <2>2. CASE UNCHANGED ids
    BY <2>2 DEF ids, TidInv, TidsUnique, Mapped
  <2>3. CASE \E p \in Procs : MapTid(p)
    BY <2>3, MapTidKeeps DEF LogInv, TypeOK
  <2>4. QED BY <2>1, <2>2, <2>3
<1>3. TidInv => TidsUnique
  BY DEF TidInv
<1>4. QED BY <1>1, <1>2, <1>3, LogInvariant, PTL DEF Spec
=============================================================================
