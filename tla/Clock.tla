------------------------------- MODULE Clock -------------------------------
(***************************************************************************)
(* What the tick service of the stack promises (Tick.c, "an interrupt-safe *)
(* and synchronized read of the 48-bit Tick value"): time is a counter of  *)
(* three digits, and a caller of TickGet gets the value the counter had at *)
(* some instant between the call and the return.                           *)
(***************************************************************************)
EXTENDS Integers

CONSTANTS LoMax, HiMax, TopMax  \* the largest value of each digit

VARIABLES
  now,      \* the time: <<low digit, high digit, top digit>>
  calling,  \* a call of TickGet is in progress
  sample,   \* the instant the call will return, once it has chosen one
  sampled,  \* whether it has
  result    \* what the last call returned

clockVars == <<now, calling, sample, sampled, result>>

Instants == (0 .. LoMax) \X (0 .. HiMax) \X (0 .. TopMax)
Epoch == <<0, 0, 0>>

(* One count later, each digit carrying into the next; the top one wraps.  *)
After(t) ==
  IF t[1] < LoMax THEN <<t[1] + 1, t[2], t[3]>>
  ELSE IF t[2] < HiMax THEN <<0, t[2] + 1, t[3]>>
  ELSE IF t[3] < TopMax THEN <<0, 0, t[3] + 1>>
  ELSE Epoch

Init ==
  /\ now = Epoch /\ sample = Epoch /\ result = Epoch
  /\ calling = FALSE /\ sampled = FALSE

Elapse ==
  /\ now' = After(now)
  /\ UNCHANGED <<calling, sample, sampled, result>>

Call ==
  /\ ~calling
  /\ calling' = TRUE /\ sampled' = FALSE
  /\ UNCHANGED <<now, sample, result>>

Sample ==
  /\ calling
  /\ sample' = now /\ sampled' = TRUE
  /\ UNCHANGED <<now, calling, result>>

Return ==
  /\ calling /\ sampled
  /\ result' = sample
  /\ calling' = FALSE
  /\ UNCHANGED <<now, sample, sampled>>

Next == Elapse \/ Call \/ Sample \/ Return

Spec == Init /\ [][Next]_clockVars
=============================================================================
