----------------------------- MODULE ByteStream -----------------------------
(***************************************************************************)
(* What a TCP socket promises to the application that reads it: the bytes  *)
(* the client sent, each once and in order, then the end. A byte is its    *)
(* position in what the client sends.                                      *)
(***************************************************************************)
EXTENDS Naturals, Sequences

CONSTANT StreamLen   \* how much the client sends before it closes

VARIABLES
  waiting,   \* the bytes the application could read now
  taken,     \* how many it has read or thrown away
  over       \* the end has been seen

bvars == <<waiting, taken, over>>

Init == waiting = << >> /\ taken = 0 /\ over = FALSE

(* The bytes that wait when n more have come in. *)
Longer(n) ==
  [k \in 1 .. Len(waiting) + n |->
     IF k <= Len(waiting) THEN waiting[k] ELSE taken + k - 1]

(* n more bytes arrive, and with the last of them perhaps the end.         *)
Receive(n) ==
  /\ ~over
  /\ taken + Len(waiting) + n <= StreamLen
  /\ over' \in {FALSE, taken + Len(waiting) + n = StreamLen}
  /\ \/ waiting' = Longer(n) /\ taken' = taken
     \/ waiting' = << >> /\ taken' = taken + Len(waiting) + n

Take ==
  /\ waiting # << >>
  /\ waiting' = Tail(waiting) /\ taken' = taken + 1
  /\ UNCHANGED over

Discard ==
  /\ waiting' = << >> /\ taken' = taken + Len(waiting)
  /\ UNCHANGED over

Next == (\E n \in 0 .. StreamLen : Receive(n)) \/ Take \/ Discard

Spec == Init /\ [][Next]_bvars
=============================================================================
