------------------------------ MODULE LogStream ------------------------------
(***************************************************************************)
(* What those who log to the shared log rely on: lines go in whole, one    *)
(* after the other, and what the log thread has written is at any time the *)
(* beginning of that.                                                      *)
(***************************************************************************)
EXTENDS Naturals, Sequences

CONSTANT Lines      \* the lines there are, as sequences of bytes

VARIABLES
  text,             \* all that was appended
  file              \* what came out

Init == text = <<>> /\ file = <<>>

Append_ ==
  /\ \E line \in Lines : text' = text \o line
  /\ UNCHANGED file

Write ==
  /\ \E n \in 1 .. Len(text) - Len(file) :
       file' = file \o SubSeq(text, Len(file) + 1, Len(file) + n)
  /\ UNCHANGED text

Next == Append_ \/ Write

Spec == Init /\ [][Next]_<<text, file>>
=============================================================================
