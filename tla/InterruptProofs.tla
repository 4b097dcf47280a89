-------------------------- MODULE InterruptProofs --------------------------
(***************************************************************************)
(* Proofs about the two interrupts of the PCM, for any sizes: the tick     *)
(* timer's (Tick) and the receiver's (SerialPort).                         *)
(*                                                                         *)
(* Tick implements Clock. The reading is untorn because the interrupt that *)
(* would change the top digit is disabled while the digits are read, and   *)
(* an overflow of the timer in that window leaves its trace in the flag:   *)
(* as long as the flag is down, what has been read so far is the sample of *)
(* the read of TMR0L.                                                      *)
(*                                                                         *)
(* The capture buffer never loses its terminator, strcpy stops inside it,  *)
(* and copies what it holds: every store is followed by a terminator one   *)
(* place up, within the same interrupt, and the interrupt stores only      *)
(* below the last place; when the copy runs the capture is closed, so the  *)
(* terminator ahead of it cannot move. On a quiet line the answer is exact *)
(* because pointer, buffer and flag follow the number k of its characters  *)
(* that arrived, and what is still on the wire is the rest (Caught).       *)
(***************************************************************************)
EXTENDS SerialPort, Tick, SequenceTheorems, TLAPS

-----------------------------------------------------------------------------
(* The tick timer.                                                         *)
Digits == (0 .. LoMax) \X (0 .. HiMax) \X (0 .. TopMax)

Masked == at \in {"low", "high", "ticks", "check"} => ~ie

ReadSoFar ==
  /\ at \in {"high", "ticks", "check"} => sampled /\ reading[1] = sample[1]
  /\ at = "high" => latchH = sample[2]
  /\ at \in {"ticks", "check"} => reading[2] = sample[2]
  /\ at \in {"high", "ticks", "check"} /\ ~flag => dwInternalTicks = sample[3]
  /\ at = "check" => reading[3] = dwInternalTicks

TickInv == TickTypeOK /\ NoTickLost /\ Masked /\ ReadSoFar

-----------------------------------------------------------------------------
(* The top digit stays in its range. *)
LEMMA IncType ==
  ASSUME NEW t \in 0 .. TopMax
  PROVE  Inc(t) \in 0 .. TopMax
  BY DigitsAssumption DEF Inc

LEMMA InitTickInv == TickInit => TickInv
  <1> SUFFICES ASSUME TickInit PROVE TickInv
    OBVIOUS
  <1>1. <<0, 0, 0>> \in Digits /\ 0 \in 0 .. LoMax /\ 0 \in 0 .. HiMax /\ 0 \in 0 .. TopMax
    BY DigitsAssumption DEF Digits
  <1>2. TickTypeOK
    BY <1>1 DEF TickInit, TickTypeOK, Digits
  <1>3. NoTickLost /\ Masked /\ ReadSoFar
    BY DEF TickInit, NoTickLost, Masked, ReadSoFar
  <1>4. QED
    BY <1>2, <1>3 DEF TickInv

(* The three cases of Count are the three carries of the clock. *)
LEMMA TimerStep ==
  ASSUME TickInv, Timer
  PROVE  /\ tmrL' \in 0 .. LoMax /\ tmrH' \in 0 .. HiMax
         /\ flag' \in BOOLEAN /\ rolled' \in BOOLEAN
         /\ time' \in Digits
         /\ NoTickLost'
         /\ flag => flag'
  <1> USE DEF TickInv
  <1>1. CASE tmrL < LoMax
    BY <1>1, DigitsAssumption, IncType
    DEF Timer, Count, TickTypeOK, NoTickLost, TheClock!After, TheClock!Epoch, Digits, Inc
  <1>2. CASE tmrL = LoMax /\ tmrH < HiMax
    BY <1>2, DigitsAssumption, IncType
    DEF Timer, Count, TickTypeOK, NoTickLost, TheClock!After, TheClock!Epoch, Digits, Inc
  <1>3. CASE tmrL = LoMax /\ tmrH = HiMax
    <2>0. ~(tmrL < LoMax) /\ ~(tmrH < HiMax)
      BY <1>3, DigitsAssumption
    <2>1. /\ tmrL' = 0 /\ tmrH' = 0 /\ ~flag /\ flag' = TRUE /\ rolled' \in BOOLEAN
          /\ dwInternalTicks' = dwInternalTicks /\ time' = TheClock!After(time)
      BY <1>3, <2>0, Zenon DEF Timer, Count
    <2>2. time = <<LoMax, HiMax, dwInternalTicks>> /\ dwInternalTicks \in 0 .. TopMax
      BY <1>3, <2>1 DEF NoTickLost, TickTypeOK
    <2>3. time' = <<0, 0, Inc(dwInternalTicks)>>
      BY <2>1, <2>2, DigitsAssumption DEF TheClock!After, TheClock!Epoch, Inc
    <2>4. QED
      BY <2>1, <2>2, <2>3, DigitsAssumption, IncType DEF NoTickLost, Digits
  <1>4. QED
    BY <1>1, <1>2, <1>3, DigitsAssumption DEF Timer, Count

LEMMA NextTickInv == TickInv /\ [TickNext]_tickVars => TickInv'
  <1> SUFFICES ASSUME TickInv, [TickNext]_tickVars
               PROVE  TickInv'
    OBVIOUS
  <1> USE DEF TickInv
  <1>1. CASE Timer
    <2>1. /\ UNCHANGED <<latchH, ie, dwInternalTicks, reading, at, sample, sampled, returned>>
          /\ flag => flag'
      BY <1>1, TimerStep DEF Timer
    <2>2. TickTypeOK'
      BY <1>1, <2>1, TimerStep DEF TickTypeOK, Digits
    <2>3. Masked' /\ ReadSoFar'
      BY <2>1 DEF Masked, ReadSoFar
    <2>4. QED
      BY <1>1, <2>2, <2>3, TimerStep
  <1>2. CASE TickUpdate
    <2>1. at \notin {"low", "high", "ticks", "check"}
      BY <1>2 DEF TickUpdate, Masked
    <2>2. QED
      BY <1>2, <2>1, IncType
      DEF TickUpdate, history, TickTypeOK, NoTickLost, Masked, ReadSoFar
  <1>3. CASE Call
    BY <1>3 DEF Call, hw, TickTypeOK, NoTickLost, Masked, ReadSoFar
  <1>4. CASE EnableIE
    BY <1>4 DEF EnableIE, hw, history, TickTypeOK, NoTickLost, Masked, ReadSoFar
  <1>5. CASE DisableIE
    BY <1>5 DEF DisableIE, hw, history, TickTypeOK, NoTickLost, Masked, ReadSoFar
  <1>6. CASE ReadLow
    BY <1>6 DEF ReadLow, TickTypeOK, NoTickLost, Masked, ReadSoFar
  <1>7. CASE ReadHigh
    BY <1>7 DEF ReadHigh, hw, history, TickTypeOK, NoTickLost, Masked, ReadSoFar
  <1>8. CASE ReadTicks
    BY <1>8 DEF ReadTicks, hw, history, TickTypeOK, NoTickLost, Masked, ReadSoFar
  <1>9. CASE Check
    BY <1>9 DEF Check, hw, history, TickTypeOK, NoTickLost, Masked, ReadSoFar
  <1>10. CASE UNCHANGED tickVars
    BY <1>10 DEF tickVars, TickTypeOK, NoTickLost, Masked, ReadSoFar
  <1>11. QED
    BY <1>1, <1>2, <1>3, <1>4, <1>5, <1>6, <1>7, <1>8, <1>9, <1>10
    DEF TickNext, GetTickCopy

(* The inductive invariant holds in every reachable state. *)
THEOREM TickInvariance == TickSpec => []TickInv
  BY InitTickInv, NextTickInv, PTL DEF TickSpec

(* No overflow of the timer is lost or counted twice (ISRTimer0). *)
THEOREM CountsEveryOverflow == TickSpec => []NoTickLost
  <1>1. TickInv => NoTickLost
    BY DEF TickInv
  <1>2. QED
    BY <1>1, TickInvariance, PTL

-----------------------------------------------------------------------------
(* With the flag down at the end of the loop the reading is the sample. *)
LEMMA Untorn ==
  ASSUME TickInv, at = "check", ~flag
  PROVE  sampled /\ reading = sample
  <1>1. /\ reading \in Digits /\ sample \in Digits
        /\ sampled /\ reading[1] = sample[1] /\ reading[2] = sample[2]
        /\ reading[3] = sample[3]
    BY DEF TickInv, TickTypeOK, ReadSoFar, Digits
  <1>2. QED
    BY <1>1 DEF Digits

(* GetTickCopy reads the clock atomically, although it takes six steps.    *)
THEOREM TickGetAtomic == TickSpec => ReadsTheClock
  <1>1. TickInit => TheClock!Init
    BY DEF TickInit, TheClock!Init, TheClock!Epoch
  <1>2. TickInv /\ [TickNext]_tickVars => [TheClock!Next]_TheClock!clockVars
    <2> SUFFICES ASSUME TickInv, [TickNext]_tickVars
                 PROVE  [TheClock!Next]_TheClock!clockVars
      OBVIOUS
    <2> USE DEF TheClock!clockVars
    <2>1. CASE Timer
      BY <2>1 DEF Timer, TheClock!Next, TheClock!Elapse
    <2>2. CASE TickUpdate
      BY <2>2 DEF TickUpdate, history
    <2>3. CASE Call
      BY <2>3 DEF Call, TheClock!Next, TheClock!Call
    <2>4. CASE EnableIE \/ DisableIE \/ ReadHigh \/ ReadTicks
      BY <2>4 DEF EnableIE, DisableIE, ReadHigh, ReadTicks, history
    <2>5. CASE ReadLow
      BY <2>5 DEF ReadLow, TheClock!Next, TheClock!Sample
    <2>6. CASE Check
      <3>1. CASE flag
        BY <2>6, <3>1 DEF Check, history
      <3>2. CASE ~flag
        BY <2>6, <3>2, Untorn DEF Check, history, TheClock!Next, TheClock!Return
      <3>3. QED
        BY <3>1, <3>2
    <2>7. CASE UNCHANGED tickVars
      BY <2>7 DEF tickVars
    <2>8. QED
      BY <2>1, <2>2, <2>3, <2>4, <2>5, <2>6, <2>7 DEF TickNext, GetTickCopy
  <1>3. QED
    BY <1>1, <1>2, TickInvariance, PTL DEF TickSpec, ReadsTheClock, TheClock!Spec

-----------------------------------------------------------------------------
(* The serial receiver.                                                    *)
Chars == Data \cup {SOT, EOT}

TypeInv ==
  /\ buf \in [0 .. Size - 1 -> Data \cup {NUL}]
  /\ ptr \in 0 .. Size
  /\ req \in 0 .. NumReqs
  /\ wire \in Seq(Chars)
  /\ retStr \in Seq(Data)
  /\ pos \in Nat

Terminated == \E i \in 0 .. Size - 1 : buf[i] = NUL

(* The part of the string copied so far is in the buffer. *)
Copied ==
  pc = "copy" \/ (pc = "return" /\ retStr # <<>>) =>
    /\ ptr = Size
    /\ pos = Len(retStr) /\ pos <= Size
    /\ \A i \in 0 .. Size - 1 : i < pos => buf[i] # NUL /\ buf[i] = retStr[i + 1]
    /\ pc = "return" => pos < Size /\ buf[pos] = NUL

Counted == pc # "idle" => req > 0

(* Nothing is copied before the copy. *)
NotYet == pc \in {"disable", "none"} => retStr = <<>> /\ pos = 0

IInv == TypeInv /\ Terminated /\ Copied /\ Counted /\ NotYet

-----------------------------------------------------------------------------
(* A character of an answer is none of the control characters. *)
LEMMA DataChars ==
  ASSUME NEW c \in Data
  PROVE  c # NUL /\ c # SOT /\ c # EOT
  BY DEF Data, NUL, SOT, EOT

(* The interrupt keeps the buffer typed and terminated. *)
LEMMA RDAStep ==
  ASSUME IInv, RDA_isr
  PROVE  /\ buf' \in [0 .. Size - 1 -> Data \cup {NUL}]
         /\ ptr' \in 0 .. Size
         /\ wire' \in Seq(Chars)
         /\ Terminated'
         /\ ptr = Size => UNCHANGED <<buf, ptr>>
  <1> DEFINE c == Head(wire)
  <1>1. c \in Chars /\ wire' \in Seq(Chars)
    BY DEF IInv, TypeInv, RDA_isr
  <1>2. CASE ptr < Size - 1
    <2>1. Capture(c)
      BY <1>2 DEF RDA_isr
    <2>2. CASE c = EOT
      <3>0. c # SOT
        BY <2>2 DEF SOT, EOT
      <3>1. ptr' = Size /\ UNCHANGED buf
        BY <2>1, <2>2, <3>0 DEF Capture
      <3>2. QED
        BY <1>1, <1>2, <3>1, SizeAssumption DEF IInv, TypeInv, Terminated
    <2>3. CASE c = SOT
      <3>1. c # EOT
        BY <2>3 DEF SOT, EOT
      <3>2. ptr' = 0 /\ buf' = [buf EXCEPT ![0] = NUL]
        BY <2>1, <2>3, <3>1 DEF Capture
      <3>3. QED
        BY <1>1, <1>2, <3>2, SizeAssumption DEF IInv, TypeInv, Terminated
    <2>4. CASE c \in Data
      <3>1. ptr' = ptr + 1 /\ buf' = [buf EXCEPT ![ptr] = c, ![ptr + 1] = NUL]
        BY <2>1, <2>4, DataChars DEF Capture
      <3>2. ptr \in 0 .. Size - 2 /\ ptr + 1 \in 0 .. Size - 1
        BY <1>2, SizeAssumption DEF IInv, TypeInv
      <3>3. buf' \in [0 .. Size - 1 -> Data \cup {NUL}] /\ buf'[ptr + 1] = NUL
        BY <2>4, <3>1, <3>2, SizeAssumption DEF IInv, TypeInv
      <3>4. QED
        BY <1>1, <1>2, <3>1, <3>2, <3>3, SizeAssumption DEF Terminated
    <2>5. QED
      BY <1>1, <2>2, <2>3, <2>4 DEF Chars
  <1>3. CASE ~(ptr < Size - 1)
    BY <1>1, <1>3, SizeAssumption DEF RDA_isr, uart, IInv, TypeInv, Terminated
  <1>4. QED
    BY <1>2, <1>3, SizeAssumption

(* What a device puts on the line are characters. *)
LEMMA WireType ==
  ASSUME TypeInv, req > 0, NEW n \in 0 .. MaxLen, NEW start \in {<<>>, <<SOT>>}
  PROVE  wire \o start \o Answer(req, n) \o <<EOT, EOT>> \in Seq(Chars)
  <1>1. Answer(req, n) \in Seq(Chars)
    <2>1. \A i \in 1 .. n : <<req, i>> \in Chars
      BY BoundsAssumption DEF TypeInv, Chars, Data
    <2>2. QED
      BY <2>1, BoundsAssumption DEF Answer
  <1>2. SOT \in Chars /\ EOT \in Chars
    BY DEF Chars
  <1>3. <<EOT, EOT>> \in Seq(Chars) /\ start \in Seq(Chars) /\ wire \in Seq(Chars)
    <2>1. ASSUME NEW x \in Chars
          PROVE  <<x>> \in Seq(Chars) /\ <<x, x>> \in Seq(Chars)
      OBVIOUS
    <2>2. <<>> \in Seq(Chars)
      OBVIOUS
    <2>3. QED
      BY <1>2, <2>1, <2>2 DEF TypeInv
  <1>4. QED
    BY <1>1, <1>3

-----------------------------------------------------------------------------
LEMMA InitIInv == Init => IInv
  <1> SUFFICES ASSUME Init PROVE IInv
    OBVIOUS
  <1>1. /\ 0 \in 0 .. Size - 1 /\ Size \in 0 .. Size /\ 0 \in 0 .. NumReqs
        /\ buf = [i \in 0 .. Size - 1 |-> NUL]
    BY SizeAssumption, BoundsAssumption DEF Init
  <1>2. TypeInv
    BY <1>1 DEF Init, TypeInv
  <1>3. Terminated
    BY <1>1 DEF Terminated
  <1>4. QED
    BY <1>2, <1>3 DEF Init, IInv, Copied, Counted, NotYet

LEMMA NextIInv == IInv /\ [Next]_vars => IInv'
  <1> SUFFICES ASSUME IInv, [Next]_vars
               PROVE  IInv'
    OBVIOUS
  <1> USE DEF IInv
  <1>1. CASE RDA_isr
    <2>1. UNCHANGED <<pc, retStr, pos, req>>
      BY <1>1 DEF RDA_isr, call, hist
    <2>2. TypeInv'
      BY <1>1, <2>1, RDAStep DEF TypeInv
    <2>3. Copied' /\ Counted' /\ NotYet'
      BY <1>1, <2>1, RDAStep DEF Copied, Counted, NotYet
    <2>4. QED
      BY <1>1, <2>2, <2>3, RDAStep
  <1>2. CASE Begin
    <2>1. req' \in 0 .. NumReqs /\ req' > 0
      BY <1>2, BoundsAssumption DEF Begin, TypeInv
    <2>2. QED
      BY <1>2, <2>1 DEF Begin, Goto, TypeInv, Terminated, Copied, Counted, NotYet
  <1>3. CASE OpenCapture
    BY <1>3, SizeAssumption
    DEF OpenCapture, Goto, call, hist, TypeInv, Terminated, Copied, Counted, NotYet
  <1>4. CASE ClearBuffer
    <2>1. 0 \in 0 .. Size - 1
      BY SizeAssumption
    <2>2. QED
      BY <1>4, <2>1
      DEF ClearBuffer, Goto, call, hist, TypeInv, Terminated, Copied, Counted, NotYet
  <1>5. CASE SendRequest
    <2>1. wire' \in Seq(Chars)
      BY <1>5, WireType DEF SendRequest, Goto, Counted, TypeInv
    <2>2. QED
      BY <1>5, <2>1
      DEF SendRequest, Goto, uart, call, TypeInv, Terminated, Copied, Counted, NotYet
  <1>6. CASE Poll \/ WaitMore \/ Expire
    BY <1>6
    DEF Poll, WaitMore, Expire, Goto, uart, call, hist,
        TypeInv, Terminated, Copied, Counted, NotYet
  <1>7. CASE TestGot
    BY <1>7 DEF TestGot, uart, hist, TypeInv, Terminated, Copied, Counted, NotYet
  <1>8. CASE DisableCapture
    <2>1. retStr = <<>> /\ pos = 0
      BY <1>8 DEF DisableCapture, Goto, NotYet
    <2>2. QED
      BY <1>8, <2>1, SizeAssumption
      DEF DisableCapture, Goto, call, hist, TypeInv, Terminated, Copied, Counted, NotYet
  <1>9. CASE CopyChar
    <2>1. /\ pc = "copy" /\ ptr = Size /\ pos = Len(retStr) /\ pos \in 0 .. Size
          /\ UNCHANGED <<buf, ptr, wire, req>>
      BY <1>9, SizeAssumption DEF CopyChar, uart, hist, Copied, TypeInv
    <2>2. pos \in 0 .. Size - 1
      BY <2>1, SizeAssumption DEF Copied, Terminated
    <2>3. CASE buf[pos] = NUL
      BY <1>9, <2>1, <2>2, <2>3
      DEF CopyChar, TypeInv, Terminated, Copied, Counted, NotYet
    <2>4. CASE buf[pos] # NUL
      <3>1. /\ pc' = "copy" /\ retStr' = Append(retStr, buf[pos]) /\ pos' = pos + 1
            /\ buf[pos] \in Data
        BY <1>9, <2>1, <2>2, <2>4 DEF CopyChar, TypeInv
      <3>2. /\ retStr' \in Seq(Data) /\ Len(retStr') = pos'
            /\ retStr'[pos + 1] = buf[pos]
            /\ \A i \in 1 .. pos : retStr'[i] = retStr[i]
        BY <2>1, <3>1 DEF TypeInv
      <3>3. \A i \in 0 .. Size - 1 : i < pos' => buf[i] # NUL /\ buf[i] = retStr'[i + 1]
        BY <2>1, <2>2, <2>4, <3>1, <3>2, SizeAssumption DEF Copied
      <3>4. QED
        BY <2>1, <2>2, <3>1, <3>2, <3>3, SizeAssumption
        DEF TypeInv, Terminated, Copied, Counted, NotYet
    <2>5. QED
      BY <2>3, <2>4
  <1>10. CASE CopyNone
    <2>1. retStr = <<>>
      BY <1>10 DEF CopyNone, Goto, NotYet
    <2>2. QED
      BY <1>10, <2>1
      DEF CopyNone, Goto, uart, call, hist, TypeInv, Terminated, Copied, Counted, NotYet
  <1>11. CASE Return
    BY <1>11 DEF Return, Goto, uart, hist, TypeInv, Terminated, Copied, Counted, NotYet
  <1>12. CASE UNCHANGED vars
    BY <1>12 DEF vars, TypeInv, Terminated, Copied, Counted, NotYet
  <1>13. QED
    BY <1>1, <1>2, <1>3, <1>4, <1>5, <1>6, <1>7, <1>8, <1>9, <1>10, <1>11, <1>12
    DEF Next, SerialGetSs

(* The inductive invariant holds in every reachable state. *)
THEOREM Invariance == Spec => []IInv
  BY InitIInv, NextIInv, PTL DEF Spec

(* The buffer keeps its terminator and strcpy stays inside it. *)
THEOREM BufferNeverOverrun == Spec => []BufferSafe
  <1>1. IInv => BufferSafe
    <2> SUFFICES ASSUME IInv PROVE BufferSafe
      OBVIOUS
    <2>1. Terminated
      BY DEF IInv
    <2>2. ASSUME pc = "copy" PROVE pos < Size
      <3>1. PICK j \in 0 .. Size - 1 : buf[j] = NUL
        BY <2>1 DEF Terminated
      <3>2. ~(j < pos) /\ pos \in Nat
        BY <2>2, <3>1 DEF IInv, Copied, TypeInv
      <3>3. QED
        BY <3>1, <3>2, SizeAssumption
    <2>3. QED
      BY <2>1, <2>2 DEF BufferSafe, Terminated
  <1>2. QED
    BY <1>1, Invariance, PTL

(* What is returned is what the buffer holds: no character slips in while  *)
(* the copy runs.                                                          *)
THEOREM CopyIsFaithful == Spec => []CopyFaithful
  <1>1. IInv => CopyFaithful
    <2> SUFFICES ASSUME IInv, pc = "return", retStr # <<>>
                 PROVE  /\ \A i \in DOMAIN retStr : buf[i - 1] = retStr[i]
                        /\ buf[Len(retStr)] = NUL
      BY DEF CopyFaithful
    <2>1. /\ pos = Len(retStr) /\ pos < Size /\ buf[pos] = NUL
          /\ \A i \in 0 .. Size - 1 : i < pos => buf[i] = retStr[i + 1]
          /\ retStr \in Seq(Data)
      BY DEF IInv, Copied, TypeInv
    <2>2. ASSUME NEW i \in DOMAIN retStr
          PROVE  buf[i - 1] = retStr[i]
      <3>1. i \in 1 .. pos /\ i - 1 \in 0 .. Size - 1 /\ i - 1 < pos /\ (i - 1) + 1 = i
        BY <2>1, <2>2, SizeAssumption
      <3>2. QED
        BY <2>1, <3>1
    <2>3. QED
      BY <2>1, <2>2
  <1>2. QED
    BY <1>1, Invariance, PTL

-----------------------------------------------------------------------------
(* No stale characters. From the clearing of the buffer on, the string in  *)
(* it is made of characters that arrived since the capture was opened; and *)
(* so is everything below the pointer, which matters when a character      *)
(* overwrites the terminator.                                              *)
Asked == pc \in {"send", "poll", "wait", "test", "disable", "copy"}

FreshString ==
  Asked => \E m \in 0 .. Size - 1 :
             buf[m] = NUL /\ \A i \in 0 .. Size - 1 : i < m => buf[i] \in arrived

FreshBelow ==
  (Asked \/ (pc = "clear" /\ ptr > 0)) /\ ptr < Size =>
    buf[ptr] = NUL /\ \A i \in 0 .. Size - 1 : i < ptr => buf[i] \in arrived \cup {NUL}

FreshInv == FreshString /\ FreshBelow /\ NoStaleCharacters

(* The interrupt adds the character it stores to those that arrived.       *)
LEMMA RDAFresh ==
  ASSUME IInv, FreshInv, RDA_isr
  PROVE  FreshInv'
  <1> DEFINE c == Head(wire)
  <1>0. /\ UNCHANGED <<pc, retStr>> /\ arrived' = arrived \cup {c} /\ c \in Chars
        /\ buf \in [0 .. Size - 1 -> Data \cup {NUL}] /\ ptr \in 0 .. Size
    BY DEF RDA_isr, call, IInv, TypeInv
  <1>1. NoStaleCharacters'
    BY <1>0 DEF FreshInv, NoStaleCharacters
  <1>2. CASE UNCHANGED <<buf, ptr>>
    <2>1. FreshString'
      BY <1>0, <1>2 DEF FreshInv, FreshString, Asked
    <2>2. FreshBelow'
      BY <1>0, <1>2 DEF FreshInv, FreshBelow, Asked
    <2>3. QED
      BY <1>1, <2>1, <2>2 DEF FreshInv
  <1>3. CASE ptr < Size - 1
    <2>1. Capture(c)
      BY <1>3 DEF RDA_isr
    <2>2. CASE c = EOT
      <3>1. ptr' = Size /\ UNCHANGED buf
        BY <2>1, <2>2 DEF Capture, SOT, EOT
      <3>2. FreshString'
        BY <1>0, <3>1 DEF FreshInv, FreshString, Asked
      <3>3. FreshBelow'
        BY <3>1, SizeAssumption DEF FreshBelow
      <3>4. QED
        BY <1>1, <3>2, <3>3 DEF FreshInv
    <2>3. CASE c = SOT
      <3>1. ptr' = 0 /\ buf' = [buf EXCEPT ![0] = NUL]
        BY <2>1, <2>3 DEF Capture, SOT, EOT
      <3>2. 0 \in 0 .. Size - 1 /\ buf'[0] = NUL
        BY <1>0, <3>1, SizeAssumption
      <3>3. \A i \in 0 .. Size - 1 : ~(i < 0)
        OBVIOUS
      <3>4. FreshString'
        BY <3>2, <3>3 DEF FreshString
      <3>5. FreshBelow'
        BY <3>1, <3>2, <3>3 DEF FreshBelow
      <3>6. QED
        BY <1>1, <3>4, <3>5 DEF FreshInv
    <2>4. CASE c \in Data
      <3>1. ptr' = ptr + 1 /\ buf' = [buf EXCEPT ![ptr] = c, ![ptr + 1] = NUL]
        BY <2>1, <2>4, DataChars DEF Capture
      <3>2. ptr \in 0 .. Size - 2 /\ ptr + 1 \in 0 .. Size - 1
        BY <1>0, <1>3, SizeAssumption
      <3>3. /\ buf'[ptr] = c /\ buf'[ptr + 1] = NUL
            /\ \A i \in 0 .. Size - 1 : i < ptr => buf'[i] = buf[i]
        BY <1>0, <3>1, <3>2, SizeAssumption
      <3>4. FreshString'
        <4> SUFFICES ASSUME Asked
                     PROVE  \E m \in 0 .. Size - 1 :
                              /\ buf'[m] = NUL
                              /\ \A i \in 0 .. Size - 1 : i < m => buf'[i] \in arrived'
          BY <1>0 DEF FreshString, Asked
        <4>1. PICK m \in 0 .. Size - 1 :
                buf[m] = NUL /\ \A i \in 0 .. Size - 1 : i < m => buf[i] \in arrived
          BY DEF FreshInv, FreshString
        <4>2. CASE m < ptr
          <5>1. \A i \in 0 .. Size - 1 : i < m => buf'[i] \in arrived'
            BY <1>0, <3>2, <3>3, <4>1, <4>2, SizeAssumption
          <5>2. QED
            BY <3>3, <4>1, <4>2, <5>1
        <4>3. CASE ~(m < ptr)
          <5>1. \A i \in 0 .. Size - 1 : i < ptr + 1 => buf'[i] \in arrived'
            <6> SUFFICES ASSUME NEW i \in 0 .. Size - 1, i < ptr + 1
                         PROVE  buf'[i] \in arrived'
              OBVIOUS
            <6>1. CASE i = ptr
              BY <1>0, <3>3, <6>1
            <6>2. CASE i < ptr
              BY <1>0, <3>2, <3>3, <4>1, <4>3, <6>2, SizeAssumption
            <6>3. QED
              BY <3>2, <6>1, <6>2, SizeAssumption
          <5>2. QED
            BY <3>2, <3>3, <5>1
        <4>4. QED
          BY <4>2, <4>3
      <3>5. FreshBelow'
        <4> SUFFICES ASSUME Asked \/ pc = "clear"
                     PROVE  /\ buf'[ptr + 1] = NUL
                            /\ \A i \in 0 .. Size - 1 :
                                 i < ptr + 1 => buf'[i] \in arrived' \cup {NUL}
          BY <1>0, <3>1 DEF FreshBelow, Asked
        <4> SUFFICES ASSUME NEW i \in 0 .. Size - 1, i < ptr + 1
                     PROVE  buf'[i] \in arrived' \cup {NUL}
          BY <3>3
        <4>1. CASE i = ptr
          BY <1>0, <3>3, <4>1
        <4>2. CASE i < ptr
          <5>1. ptr > 0 /\ ptr < Size
            BY <3>2, <4>2, SizeAssumption
          <5>2. buf[i] \in arrived \cup {NUL}
            BY <4>2, <5>1 DEF FreshInv, FreshBelow
          <5>3. QED
            BY <1>0, <3>3, <4>2, <5>2
        <4>3. QED
          BY <3>2, <4>1, <4>2, SizeAssumption
      <3>6. QED
        BY <1>1, <3>4, <3>5 DEF FreshInv
    <2>5. QED
      BY <1>0, <2>2, <2>3, <2>4 DEF Chars
  <1>4. QED
    BY <1>2, <1>3 DEF RDA_isr, uart

LEMMA InitFresh == Init => FreshInv
  BY DEF Init, FreshInv, FreshString, FreshBelow, NoStaleCharacters, Asked

LEMMA NextFresh == IInv /\ FreshInv /\ [Next]_vars => FreshInv'
  <1> SUFFICES ASSUME IInv, FreshInv, [Next]_vars
               PROVE  FreshInv'
    OBVIOUS
  <1>1. CASE RDA_isr
    BY <1>1, RDAFresh
  <1>2. CASE Begin
    BY <1>2 DEF Begin, Goto, FreshInv, FreshString, FreshBelow, NoStaleCharacters, Asked
  <1>3. CASE OpenCapture
    BY <1>3
    DEF OpenCapture, Goto, FreshInv, FreshString, FreshBelow, NoStaleCharacters, Asked
  <1>4. CASE ClearBuffer
    <2>1. /\ pc = "clear" /\ pc' = "send" /\ UNCHANGED <<ptr, arrived>>
          /\ buf' = [buf EXCEPT ![0] = NUL]
          /\ buf \in [0 .. Size - 1 -> Data \cup {NUL}] /\ ptr \in 0 .. Size
      BY <1>4 DEF ClearBuffer, Goto, IInv, TypeInv
    <2>2. /\ 0 \in 0 .. Size - 1 /\ buf'[0] = NUL
          /\ \A i \in 0 .. Size - 1 : i > 0 => buf'[i] = buf[i]
          /\ \A i \in 0 .. Size - 1 : ~(i < 0)
      BY <2>1, SizeAssumption
    <2>3. FreshString'
      BY <2>2 DEF FreshString
    <2>4. FreshBelow'
      <3> SUFFICES ASSUME ptr < Size
                   PROVE  /\ buf'[ptr] = NUL
                          /\ \A i \in 0 .. Size - 1 :
                               i < ptr => buf'[i] \in arrived \cup {NUL}
        BY <2>1 DEF FreshBelow
      <3>1. CASE ptr = 0
        BY <2>2, <3>1
      <3>2. CASE ptr > 0
        <4>1. /\ buf[ptr] = NUL
              /\ \A i \in 0 .. Size - 1 : i < ptr => buf[i] \in arrived \cup {NUL}
          BY <2>1, <3>2 DEF FreshInv, FreshBelow
        <4>2. ptr \in 0 .. Size - 1
          BY <2>1, SizeAssumption
        <4>3. buf'[ptr] = NUL
          BY <2>2, <3>2, <4>1, <4>2
        <4>4. ASSUME NEW i \in 0 .. Size - 1, i < ptr
              PROVE  buf'[i] \in arrived \cup {NUL}
          <5>1. i = 0 \/ i > 0
            BY SizeAssumption
          <5>2. QED
            BY <2>2, <4>1, <4>4, <5>1
        <4>5. QED
          BY <4>3, <4>4
      <3>3. QED
        BY <2>1, <3>1, <3>2
    <2>5. NoStaleCharacters'
      BY <2>1 DEF NoStaleCharacters
    <2>6. QED
      BY <2>3, <2>4, <2>5 DEF FreshInv
  <1>5. CASE SendRequest \/ Poll \/ WaitMore \/ Expire
    <2>1. UNCHANGED <<buf, ptr, arrived>> /\ Asked /\ pc' \in {"poll", "wait", "test"}
      BY <1>5 DEF SendRequest, Poll, WaitMore, Expire, Goto, uart, Asked
    <2>2. FreshString'
      BY <2>1 DEF FreshInv, FreshString, Asked
    <2>3. FreshBelow'
      BY <2>1 DEF FreshInv, FreshBelow, Asked
    <2>4. NoStaleCharacters'
      BY <2>1 DEF NoStaleCharacters
    <2>5. QED
      BY <2>2, <2>3, <2>4 DEF FreshInv
  <1>6. CASE TestGot
    <2>1. UNCHANGED <<buf, ptr, arrived>> /\ Asked /\ pc' \in {"disable", "none"}
      BY <1>6 DEF TestGot, uart, Asked
    <2>2. QED
      BY <2>1 DEF FreshInv, FreshString, FreshBelow, NoStaleCharacters, Asked
  <1>7. CASE DisableCapture
    <2>1. /\ UNCHANGED <<buf, arrived, retStr>> /\ retStr = <<>> /\ Asked
          /\ ptr' = Size /\ pc' = "copy"
      BY <1>7 DEF DisableCapture, Goto, call, IInv, NotYet, Asked
    <2>2. FreshString'
      BY <2>1 DEF FreshInv, FreshString, Asked
    <2>3. FreshBelow' /\ NoStaleCharacters'
      BY <2>1, SizeAssumption DEF FreshBelow, NoStaleCharacters
    <2>4. QED
      BY <2>2, <2>3 DEF FreshInv
  <1>8. CASE CopyChar
    <2>1. /\ pc = "copy" /\ UNCHANGED <<buf, ptr, arrived>> /\ pc' \in {"copy", "return"}
          /\ ptr = Size /\ Asked /\ pos = Len(retStr) /\ pos \in Nat /\ pos <= Size
          /\ \A i \in 0 .. Size - 1 : i < pos => buf[i] # NUL
          /\ \A i \in DOMAIN retStr : retStr[i] \in arrived
          /\ retStr \in Seq(Data)
      BY <1>8
      DEF CopyChar, uart, IInv, TypeInv, Copied, Asked, FreshInv, NoStaleCharacters
    <2>2. FreshString'
      BY <2>1 DEF FreshInv, FreshString, Asked
    <2>3. FreshBelow'
      BY <2>1, SizeAssumption DEF FreshBelow
    <2>4. CASE buf[pos] = NUL
      <3>1. UNCHANGED retStr
        BY <1>8, <2>1, <2>4 DEF CopyChar
      <3>2. NoStaleCharacters'
        BY <2>1, <3>1 DEF NoStaleCharacters
      <3>3. QED
        BY <2>2, <2>3, <3>2 DEF FreshInv
    <2>5. CASE buf[pos] # NUL
      <3>1. PICK m \in 0 .. Size - 1 :
              buf[m] = NUL /\ \A i \in 0 .. Size - 1 : i < m => buf[i] \in arrived
        BY <2>1 DEF FreshInv, FreshString
      <3>2. pos < m
        BY <2>1, <2>5, <3>1, SizeAssumption
      <3>3. pos \in 0 .. Size - 1
        BY <2>1, <3>2, SizeAssumption
      <3>4. buf[pos] \in arrived /\ buf[pos] \in Data
        BY <2>5, <3>1, <3>2, <3>3 DEF IInv, TypeInv
      <3>5. retStr' = Append(retStr, buf[pos])
        BY <1>8, <2>5 DEF CopyChar
      <3>6. /\ DOMAIN retStr' = 1 .. pos + 1 /\ retStr'[pos + 1] = buf[pos]
            /\ \A i \in 1 .. pos : retStr'[i] = retStr[i] /\ i \in DOMAIN retStr
        BY <2>1, <3>4, <3>5
      <3>7. \A i \in 1 .. pos + 1 : i \in 1 .. pos \/ i = pos + 1
        BY <2>1
      <3>8. \A i \in DOMAIN retStr' : retStr'[i] \in arrived
        BY <2>1, <3>4, <3>6, <3>7
      <3>9. NoStaleCharacters'
        BY <2>1, <3>8 DEF NoStaleCharacters
      <3>10. QED
        BY <2>2, <2>3, <3>9 DEF FreshInv
    <2>6. QED
      BY <2>4, <2>5
  <1>9. CASE CopyNone
    <2>1. retStr' = <<>> /\ pc' = "return"
      BY <1>9 DEF CopyNone, Goto, call, IInv, NotYet
    <2>2. QED
      BY <2>1 DEF FreshInv, FreshString, FreshBelow, NoStaleCharacters, Asked
  <1>10. CASE Return
    <2>1. UNCHANGED <<retStr, arrived>> /\ pc = "return" /\ pc' = "idle"
      BY <1>10 DEF Return, Goto
    <2>2. QED
      BY <2>1 DEF FreshInv, FreshString, FreshBelow, NoStaleCharacters, Asked
  <1>11. CASE UNCHANGED vars
    <2>1. UNCHANGED <<pc, buf, ptr, arrived, retStr>>
      BY <1>11 DEF vars
    <2>2. FreshString' /\ FreshBelow'
      BY <2>1 DEF FreshInv, FreshString, FreshBelow, Asked
    <2>3. NoStaleCharacters'
      BY <2>1 DEF FreshInv, NoStaleCharacters
    <2>4. QED
      BY <2>2, <2>3 DEF FreshInv
  <1>12. QED
    BY <1>1, <1>2, <1>3, <1>4, <1>5, <1>6, <1>7, <1>8, <1>9, <1>10, <1>11
    DEF Next, SerialGetSs

(* A request is never answered with characters left in the buffer by an    *)
(* earlier one: the capture is opened, then the buffer cleared, with the   *)
(* interrupt enabled throughout, and no order of the two lets an old       *)
(* character back into the string.                                         *)
THEOREM NothingStale == Spec => []NoStaleCharacters
  <1>1. IInv /\ FreshInv => NoStaleCharacters
    BY DEF FreshInv
  <1>2. QED
    BY <1>1, Invariance, InitFresh, NextFresh, PTL DEF Spec
-----------------------------------------------------------------------------
(* The answer on a quiet line. The characters of an answer in order: maybe *)
(* a start of text, the data, two ends of text. k says how many arrived.   *)
Sent(i) == IF i = 0 THEN SOT ELSE IF i <= len THEN <<req, i>> ELSE EOT

Coming(k) ==
  /\ k \in -1 .. len + 2
  /\ Len(wire) = len + 2 - k
  /\ \A i \in 1 .. Len(wire) : wire[i] = Sent(k + i)

Holds(m) ==
  /\ buf[m] = NUL
  /\ \A i \in 0 .. Size - 1 : i < m => buf[i] = <<req, i + 1>>

(* The capture follows them up to the last place of the buffer, where an   *)
(* end of text is no longer seen.                                          *)
Caught(k) ==
  \/ /\ k <= len /\ ~got /\ Holds(ptr)
     /\ ptr = IF k < 0 THEN 0 ELSE IF k < Size - 1 THEN k ELSE Size - 1
  \/ k > len /\ len <= Size - 2 /\ got /\ ptr = Size /\ Holds(len)
  \/ k > len /\ len > Size - 2 /\ ~got /\ ptr = Size - 1

NothingSent == len = Silent /\ wire = <<>> /\ ~got

Answering == len \in 0 .. MaxLen /\ \E k \in -1 .. len + 2 : Coming(k) /\ Caught(k)

Whole == retStr = Answer(req, len)
Late == timeout /\ retStr = <<>>

QuietInv ==
  quiet /\ req > 0 =>
    /\ pc \in {"open", "clear", "send"} => NothingSent
    /\ pc \in {"clear", "send"} => ptr = 0
    /\ pc = "send" => buf[0] = NUL
    /\ pc \in {"poll", "wait", "test", "disable", "none", "copy", "return"} =>
         NothingSent \/ Answering
    /\ pc = "test" => timeout \/ got
    /\ pc = "none" => timeout
    /\ pc \in {"disable", "copy"} => got
    /\ pc = "return" => (got /\ Whole) \/ Late
    /\ pc = "idle" /\ result => Whole \/ Late

(* The next character of the answer.                                       *)
LEMMA AnswerArrives ==
  ASSUME IInv, RDA_isr, Answering, req > 0
  PROVE  Answering' /\ (got => got')
  <1>1. PICK k \in -1 .. len + 2 : Coming(k) /\ Caught(k)
    BY DEF Answering
  <1> DEFINE c == Head(wire)
  <1>2. /\ len \in 0 .. MaxLen /\ len \in Int /\ req \in 1 .. NumReqs
        /\ UNCHANGED <<len, req>>
        /\ buf \in [0 .. Size - 1 -> Data \cup {NUL}] /\ ptr \in 0 .. Size
        /\ wire \in Seq(Chars) /\ wire # <<>>
    BY BoundsAssumption DEF Answering, RDA_isr, hist, IInv, TypeInv
  <1>3. /\ k < len + 2 /\ c = Sent(k + 1) /\ wire' = Tail(wire)
        /\ Len(wire') = Len(wire) - 1
        /\ \A i \in 1 .. Len(wire') : wire'[i] = wire[i + 1] /\ i + 1 \in 1 .. Len(wire)
    BY <1>1, <1>2 DEF Coming, RDA_isr
  <1>4. Coming(k + 1)'
    <2>1. \A i \in 1 .. Len(wire') : wire'[i] = Sent((k + 1) + i)
      BY <1>1, <1>2, <1>3 DEF Coming
    <2>2. \A i : Sent(i)' = Sent(i)
      BY <1>2 DEF Sent
    <2>3. k + 1 \in -1 .. len' + 2 /\ Len(wire') = len' + 2 - (k + 1)
      BY <1>1, <1>2, <1>3 DEF Coming
    <2>4. QED
      BY <2>1, <2>2, <2>3 DEF Coming
  <1>5. Caught(k + 1)' /\ (got => got')
    <2>1. CASE k = -1
      <3>1. c = SOT /\ ptr = 0 /\ ~got
        BY <1>1, <1>2, <1>3, <2>1 DEF Caught, Sent
      <3>2. ptr' = 0 /\ buf' = [buf EXCEPT ![0] = NUL] /\ got' = got
        BY <3>1, SizeAssumption DEF RDA_isr, Capture, SOT, EOT
      <3>3. Holds(ptr)'
        BY <1>2, <3>2, SizeAssumption DEF Holds
      <3>4. QED
        BY <1>2, <2>1, <3>1, <3>2, <3>3, SizeAssumption DEF Caught
    <2>2. CASE k \in 0 .. len - 1
      <3>1. c = <<req, k + 1>> /\ c \in Data /\ ~got /\ Holds(ptr)
            /\ ptr = IF k < Size - 1 THEN k ELSE Size - 1
        BY <1>1, <1>2, <1>3, <2>2, BoundsAssumption, SizeAssumption DEF Caught, Sent, Data
      <3>2. CASE k < Size - 1
        <4>1. ptr = k /\ k \in 0 .. Size - 2
          BY <2>2, <3>1, <3>2, SizeAssumption
        <4>2. /\ ptr' = k + 1 /\ buf' = [buf EXCEPT ![k] = c, ![k + 1] = NUL] /\ got' = got
          BY <3>1, <4>1, DataChars, SizeAssumption DEF RDA_isr, Capture
        <4>3. /\ buf'[k + 1] = NUL /\ buf'[k] = <<req, k + 1>>
              /\ \A i \in 0 .. Size - 1 : i < k => buf'[i] = buf[i]
          BY <1>2, <3>1, <4>1, <4>2, SizeAssumption
        <4>4. ASSUME NEW i \in 0 .. Size - 1, i < k + 1
              PROVE  buf'[i] = <<req, i + 1>>
          <5>1. i = k \/ i < k
            BY <4>1, <4>4
          <5>2. QED
            BY <3>1, <4>1, <4>3, <5>1 DEF Holds
        <4>5. Holds(ptr)'
          BY <1>2, <4>2, <4>3, <4>4 DEF Holds
        <4>6. QED
          BY <1>2, <2>2, <3>1, <4>1, <4>2, <4>5, SizeAssumption DEF Caught
      <3>3. CASE ~(k < Size - 1)
        <4>1. ptr = Size - 1 /\ UNCHANGED uart
          BY <3>1, <3>3, SizeAssumption DEF RDA_isr
        <4>2. QED
          BY <1>2, <2>2, <3>1, <3>3, <4>1, SizeAssumption DEF Caught, Holds, uart
      <3>4. QED
        BY <3>2, <3>3
    <2>3. CASE k = len
      <3>1. c = EOT /\ ~got /\ Holds(ptr) /\ ptr = IF len < Size - 1 THEN len ELSE Size - 1
        BY <1>1, <1>2, <1>3, <2>3, SizeAssumption DEF Caught, Sent
      <3>2. CASE len < Size - 1
        <4>1. ptr' = Size /\ buf' = buf /\ got' = TRUE
          <5>1. ptr < Size - 1
            BY <3>1, <3>2
          <5>2. Capture(c)
            BY <5>1 DEF RDA_isr
          <5>3. c # SOT
            BY <3>1 DEF SOT, EOT
          <5>4. QED
            BY <3>1, <5>2, <5>3, Zenon DEF Capture
        <4>2. Holds(len)'
          BY <1>2, <3>1, <3>2, <4>1 DEF Holds
        <4>3. QED
          BY <1>2, <2>3, <3>2, <4>1, <4>2, SizeAssumption DEF Caught
      <3>3. CASE ~(len < Size - 1)
        <4>1. ptr = Size - 1 /\ UNCHANGED uart
          BY <3>1, <3>3, SizeAssumption DEF RDA_isr
        <4>2. QED
          BY <1>2, <2>3, <3>1, <3>3, <4>1, SizeAssumption DEF Caught, uart
      <3>4. QED
        BY <3>2, <3>3
    <2>4. CASE k = len + 1
      <3>1. UNCHANGED uart
        BY <1>1, <1>2, <2>4, SizeAssumption DEF Caught, RDA_isr
      <3>2. QED
        BY <1>1, <1>2, <2>4, <3>1, SizeAssumption DEF Caught, Holds, uart
    <2>5. QED
      BY <1>1, <1>2, <1>3, <2>1, <2>2, <2>3, <2>4
  <1>6. k + 1 \in -1 .. len' + 2
    BY <1>2, <1>3
  <1>7. QED
    BY <1>2, <1>4, <1>5, <1>6 DEF Answering

(* A request puts the whole of its answer behind nothing.                  *)
LEMMA AnswerSent ==
  ASSUME IInv, SendRequest, req > 0, NothingSent, ptr = 0, buf[0] = NUL
  PROVE  (NothingSent \/ Answering)'
  <1>1. UNCHANGED <<buf, ptr, got, req>>
    BY DEF SendRequest, uart
  <1>2. CASE UNCHANGED <<wire, len>>
    BY <1>1, <1>2 DEF NothingSent
  <1>3. ASSUME NEW n \in 0 .. MaxLen, NEW start \in {<<>>, <<SOT>>}, len' = n,
               wire' = wire \o start \o Answer(req, n) \o <<EOT, EOT>>
        PROVE  Answering'
    <2> DEFINE k == IF start = <<>> THEN 0 ELSE -1
    <2>0. /\ k = 0 \/ k = -1
          /\ k = 0 => start = <<>>
          /\ k = -1 => start = <<SOT>>
      OBVIOUS
    <2> HIDE DEF k
    <2>1. n \in Nat /\ k \in -1 .. n + 2 /\ -k \in 0 .. 1
      BY <2>0, BoundsAssumption
    <2>2. /\ Answer(req, n) \in Seq(Chars) /\ Len(Answer(req, n)) = n
          /\ \A i \in 1 .. n : Answer(req, n)[i] = <<req, i>>
      <3>1. \A i \in 1 .. n : <<req, i>> \in Chars
        BY BoundsAssumption DEF IInv, TypeInv, Chars, Data
      <3>2. QED
        BY <2>1, <3>1 DEF Answer
    <2>3. start \in Seq(Chars) /\ Len(start) = -k /\ (k = -1 => start[1] = SOT)
      <3>1. SOT \in Chars
        BY DEF Chars
      <3>2. CASE k = 0
        BY <2>0, <3>2
      <3>3. CASE k = -1
        <4>1. ASSUME NEW x \in Chars
              PROVE  <<x>> \in Seq(Chars) /\ Len(<<x>>) = 1 /\ <<x>>[1] = x
          OBVIOUS
        <4>2. <<SOT>> \in Seq(Chars) /\ Len(<<SOT>>) = 1 /\ <<SOT>>[1] = SOT
          BY <3>1, <4>1
        <4>3. start = <<SOT>>
          BY <2>0, <3>3, Zenon
        <4>4. -k = 1
          BY <2>0, <2>1, <3>3
        <4>5. QED
          BY <4>2, <4>3, <4>4
      <3>4. QED
        BY <2>0, <3>2, <3>3
    <2> DEFINE two == <<EOT, EOT>>
               s == start \o Answer(req, n)
    <2>4. two \in Seq(Chars) /\ Len(two) = 2 /\ two[1] = EOT /\ two[2] = EOT
      <3>1. ASSUME NEW x \in Chars
            PROVE  <<x, x>> \in Seq(Chars) /\ Len(<<x, x>>) = 2
                   /\ <<x, x>>[1] = x /\ <<x, x>>[2] = x
        OBVIOUS
      <3>2. EOT \in Chars
        BY DEF Chars
      <3>3. QED
        BY <3>1, <3>2
    <2> HIDE DEF two
    <2>5. /\ s \in Seq(Chars) /\ Len(s) = n - k
          /\ \A i \in 1 .. n - k : s[i] = IF i <= -k THEN start[i] ELSE Answer(req, n)[i + k]
      BY <2>1, <2>2, <2>3
    <2>6. wire' = s \o two
      BY <1>3, <2>2, <2>3, <2>4 DEF NothingSent, two
    <2> HIDE DEF s
    <2>7. /\ Len(wire') = n - k + 2
          /\ \A i \in 1 .. n - k + 2 :
               wire'[i] = IF i <= n - k THEN s[i] ELSE two[i - (n - k)]
      <3>1. Len(wire') = Len(s) + Len(two) /\ Len(s) = n - k /\ Len(two) = 2
        <4>1. Len(s \o two) = Len(s) + Len(two)
          BY <2>4, <2>5, ConcatProperties
        <4>2. QED
          BY <2>4, <2>5, <2>6, <4>1
      <3>2. ASSUME NEW i \in 1 .. n - k + 2
            PROVE  wire'[i] = IF i <= n - k THEN s[i] ELSE two[i - (n - k)]
        BY <2>1, <2>4, <2>5, <2>6, <3>1
      <3>3. QED
        BY <2>1, <3>1, <3>2
    <2>8. ASSUME NEW i \in 1 .. n - k + 2
          PROVE  wire'[i] = Sent(k + i)'
      <3>1. Sent(k + i)' = IF k + i = 0 THEN SOT ELSE IF k + i <= n THEN <<req, k + i>> ELSE EOT
        BY <1>1, <1>3 DEF Sent
      <3>2. CASE k + i = 0
        <4>1. i = 1 /\ k = -1 /\ i <= n - k /\ i <= -k
          BY <2>1, <3>2
        <4>2. QED
          <5>1. s[1] = start[1] /\ 1 \in 1 .. n - k /\ 1 \in 1 .. n - k + 2
            BY <2>1, <2>5, <4>1
          <5>2. wire'[1] = s[1]
            BY <2>7, <4>1, <5>1
          <5>3. QED
            BY <2>3, <3>1, <3>2, <4>1, <5>1, <5>2
      <3>3. CASE k + i \in 1 .. n
        <4>1. i <= n - k /\ ~(i <= -k) /\ i \in 1 .. n - k /\ i + k = k + i
          BY <2>1, <3>3
        <4>2. wire'[i] = Answer(req, n)[i + k]
          BY <2>5, <2>7, <4>1
        <4>3. QED
          BY <2>1, <2>2, <3>1, <3>3, <4>1, <4>2
      <3>4. CASE k + i > n
        <4>1. ~(i <= n - k) /\ (i - (n - k) = 1 \/ i - (n - k) = 2)
          BY <2>1, <3>4
        <4>2. QED
          BY <2>1, <2>4, <2>7, <3>1, <3>4, <4>1
      <3>5. QED
        BY <2>1, <3>2, <3>3, <3>4
    <2>9. Coming(k)'
      <3>1. Len(wire') = len' + 2 - k /\ 1 .. Len(wire') = 1 .. n - k + 2
        BY <1>3, <2>1, <2>7
      <3>2. k \in -1 .. len' + 2
        BY <1>3, <2>1
      <3>3. \A i \in 1 .. Len(wire') : wire'[i] = Sent(k + i)'
        BY <2>8, <3>1
      <3>4. QED
        BY <3>1, <3>2, <3>3 DEF Coming
    <2>10. Caught(k)'
      <3>1. Holds(ptr)'
        BY <1>1 DEF Holds
      <3>2. k = 0 \/ k = -1
        BY <2>1
      <3>3. QED
        BY <1>1, <1>3, <2>1, <3>1, <3>2, SizeAssumption DEF Caught, NothingSent
    <2>11. QED
      BY <1>3, <2>1, <2>9, <2>10 DEF Answering
  <1>4. QED
    BY <1>2, <1>3 DEF SendRequest

LEMMA InitQuiet == Init => QuietInv
  BY DEF Init, QuietInv

(* What a step that moves on without the interrupt keeps.                  *)
LEMMA StillAnswering ==
  ASSUME UNCHANGED <<buf, ptr, got, wire, len, req>>, NothingSent \/ Answering
  PROVE  (NothingSent \/ Answering)'
  BY DEF NothingSent, Answering, Coming, Caught, Holds, Sent

(* The copy of an answer that was caught ends behind its last character.   *)
LEMMA CopyEnds ==
  ASSUME IInv, Answering, got, pc = "copy", buf[pos] = NUL
  PROVE  Whole
  <1>1. PICK k \in -1 .. len + 2 : Coming(k) /\ Caught(k)
    BY DEF Answering
  <1>2. len \in Nat /\ len <= Size - 2 /\ Holds(len)
    BY <1>1, BoundsAssumption DEF Caught, Answering
  <1>3. /\ pos = Len(retStr) /\ pos \in Nat /\ retStr \in Seq(Data)
        /\ \A i \in 0 .. Size - 1 : i < pos => buf[i] # NUL /\ buf[i] = retStr[i + 1]
    BY DEF IInv, Copied, TypeInv
  <1>4. len \in 0 .. Size - 1 /\ req > 0
    BY <1>2, SizeAssumption DEF IInv, Counted
  <1>5. ~(len < pos)
    BY <1>2, <1>3, <1>4 DEF Holds
  <1>6. ~(pos < len)
    <2>1. ASSUME pos < len PROVE FALSE
      <3>0. pos \in 0 .. Size - 1
        BY <1>2, <1>3, <2>1, SizeAssumption
      <3>1. buf[pos] = <<req, pos + 1>>
        BY <1>2, <2>1, <3>0 DEF Holds
      <3>2. QED
        BY <1>4, <3>1 DEF NUL
    <2>2. QED
      BY <2>1
  <1>7. pos = len
    BY <1>2, <1>3, <1>5, <1>6
  <1>8. ASSUME NEW i \in 1 .. len
        PROVE  retStr[i] = <<req, i>>
    <2>1. i - 1 \in 0 .. Size - 1 /\ i - 1 < pos /\ i - 1 < len /\ (i - 1) + 1 = i
      BY <1>2, <1>4, <1>7, SizeAssumption
    <2>2. buf[i - 1] = <<req, i>> /\ buf[i - 1] = retStr[i]
      BY <1>2, <1>3, <2>1 DEF Holds
    <2>3. QED
      BY <2>2
  <1>9. retStr = [i \in 1 .. len |-> retStr[i]]
    <2>1. retStr \in [1 .. Len(retStr) -> Data] /\ Len(retStr) = len
      <3>1. retStr \in Seq(Data) /\ Len(retStr) = len
        BY <1>3, <1>7
      <3>2. QED
        BY <3>1, <1>2, Z3
    <2>2. QED
      BY <2>1
  <1>10. QED
    BY <1>8, <1>9 DEF Whole, Answer

LEMMA NextQuiet == IInv /\ QuietInv /\ [Next]_vars => QuietInv'
  <1> SUFFICES ASSUME IInv, QuietInv, [Next]_vars, quiet', req' > 0
               PROVE  QuietInv'
    BY DEF QuietInv
  <1>1. CASE RDA_isr
    <2>1. /\ UNCHANGED <<pc, timeout, retStr, result, len, req, quiet>> /\ wire # <<>>
      BY <1>1 DEF RDA_isr, call, hist
    <2>2. pc \notin {"open", "clear", "send"}
      BY <2>1 DEF QuietInv, NothingSent
    <2>3. CASE pc \in {"poll", "wait", "test", "disable", "none", "copy", "return"}
      <3>1. Answering
        BY <2>1, <2>3 DEF QuietInv, NothingSent
      <3>2. Answering' /\ (got => got')
        BY <1>1, <2>1, <3>1, AnswerArrives
      <3>3. QED
        BY <2>1, <2>3, <3>2 DEF QuietInv, Whole, Late
    <2>4. CASE pc \notin {"poll", "wait", "test", "disable", "none", "copy", "return"}
      BY <2>1, <2>2, <2>4 DEF QuietInv, Whole, Late
    <2>5. QED
      BY <2>3, <2>4
  <1>2. CASE Begin
    BY <1>2 DEF Begin, Goto, QuietInv, NothingSent
  <1>3. CASE OpenCapture
    BY <1>3 DEF OpenCapture, Goto, call, hist, QuietInv, NothingSent
  <1>4. CASE ClearBuffer
    <2>1. buf' = [buf EXCEPT ![0] = NUL] /\ 0 \in DOMAIN buf
      BY <1>4, SizeAssumption DEF ClearBuffer, IInv, TypeInv
    <2>2. QED
      BY <1>4, <2>1 DEF ClearBuffer, Goto, call, hist, QuietInv, NothingSent
  <1>5. CASE SendRequest
    <2>1. pc = "send" /\ pc' = "poll" /\ UNCHANGED <<quiet, req>>
      BY <1>5 DEF SendRequest, Goto
    <2>2. (NothingSent \/ Answering)'
      BY <1>5, <2>1, AnswerSent DEF QuietInv
    <2>3. QED
      BY <2>1, <2>2 DEF QuietInv
  <1>6. CASE Poll \/ WaitMore \/ Expire
    <2>1. /\ pc \in {"poll", "wait"} /\ pc' \in {"poll", "wait", "test"}
          /\ UNCHANGED <<buf, ptr, got, wire, len, req, quiet>>
          /\ pc' = "test" => timeout' \/ got'
      <3>1. CASE Poll
        BY <3>1, Zenon DEF Poll, uart, call, hist
      <3>2. CASE WaitMore \/ Expire
        BY <3>2 DEF WaitMore, Expire, Goto, uart, call, hist
      <3>3. QED
        BY <1>6, <3>1, <3>2
    <2>2. (NothingSent \/ Answering)'
      BY <2>1, StillAnswering DEF QuietInv
    <2>3. QED
      BY <2>1, <2>2 DEF QuietInv
  <1>7. CASE TestGot
    <2>1. /\ pc = "test" /\ UNCHANGED <<buf, ptr, got, wire, len, req, quiet, timeout>>
          /\ \/ pc' = "disable" /\ got'
             \/ pc' = "none" /\ ~got
      BY <1>7 DEF TestGot, uart, hist
    <2>2. (NothingSent \/ Answering)'
      BY <2>1, StillAnswering DEF QuietInv
    <2>3. QED
      BY <2>1, <2>2 DEF QuietInv
  <1>8. CASE DisableCapture
    <2>1. /\ pc = "disable" /\ pc' = "copy" /\ ptr' = Size
          /\ UNCHANGED <<buf, got, wire, len, req, quiet>>
      BY <1>8 DEF DisableCapture, Goto, call, hist
    <2>2. got /\ Answering
      BY <2>1 DEF QuietInv, NothingSent
    <2>3. ptr = Size
      BY <2>2 DEF Answering, Caught
    <2>4. (NothingSent \/ Answering)'
      BY <2>1, <2>2, <2>3, StillAnswering
    <2>5. QED
      BY <2>1, <2>2, <2>4 DEF QuietInv
  <1>9. CASE CopyChar
    <2>1. pc = "copy" /\ UNCHANGED <<buf, ptr, got, wire, len, req, quiet>>
      BY <1>9 DEF CopyChar, uart, hist
    <2>2. got /\ Answering
      BY <2>1 DEF QuietInv, NothingSent
    <2>3. (NothingSent \/ Answering)'
      BY <2>1, <2>2, StillAnswering
    <2>4. CASE buf[pos] = NUL
      <3>1. Whole /\ pc' = "return" /\ retStr' = retStr
        BY <1>9, <2>1, <2>2, <2>4, CopyEnds DEF CopyChar
      <3>2. got' /\ Whole'
        BY <2>1, <2>2, <3>1 DEF Whole
      <3>3. QED
        BY <2>3, <3>1, <3>2 DEF QuietInv
    <2>5. CASE buf[pos] # NUL
      BY <1>9, <2>1, <2>2, <2>3, <2>5 DEF CopyChar, QuietInv
    <2>6. QED
      BY <2>4, <2>5
  <1>10. CASE CopyNone
    <2>1. /\ pc = "none" /\ pc' = "return" /\ retStr' = <<>>
          /\ UNCHANGED <<buf, ptr, got, wire, len, req, quiet, timeout>>
      BY <1>10 DEF CopyNone, Goto, uart, call, hist, IInv, NotYet
    <2>2. (NothingSent \/ Answering)'
      BY <2>1, StillAnswering DEF QuietInv
    <2>3. Late'
      BY <2>1 DEF QuietInv, Late
    <2>4. QED
      BY <2>1, <2>2, <2>3 DEF QuietInv
  <1>11. CASE Return
    <2>1. /\ pc = "return" /\ pc' = "idle" /\ UNCHANGED <<retStr, timeout, len, req, quiet>>
      BY <1>11 DEF Return, Goto, hist
    <2>2. Whole' \/ Late'
      BY <2>1 DEF QuietInv, Whole, Late
    <2>3. QED
      BY <2>1, <2>2 DEF QuietInv
  <1>12. CASE UNCHANGED vars
    <2>1. UNCHANGED <<buf, ptr, got, pc, timeout, retStr, result, wire, len, req, quiet>>
      BY <1>12 DEF vars
    <2>2. NothingSent \/ Answering => (NothingSent \/ Answering)'
      BY <2>1, StillAnswering
    <2>3. QED
      BY <2>1, <2>2 DEF QuietInv, NothingSent, Whole, Late
  <1>13. QED
    BY <1>1, <1>2, <1>3, <1>4, <1>5, <1>6, <1>7, <1>8, <1>9, <1>10, <1>11, <1>12
    DEF Next, SerialGetSs

LEMMA QuietAlways == Spec => [](IInv /\ QuietInv)
  <1>1. Init => IInv /\ QuietInv
    BY InitIInv, InitQuiet
  <1>2. IInv /\ QuietInv /\ [Next]_vars => (IInv /\ QuietInv)'
    BY NextIInv, NextQuiet
  <1>3. QED
    BY <1>1, <1>2, PTL DEF Spec

(* A request on a quiet line that returns TRUE has the whole answer to     *)
(* itself, however the characters and the timeout interleave; but for an   *)
(* end of text between the timeout and the return (serialGetSs).           *)
THEOREM AnswerExact == Spec => []ExactAnswer
  <1>1. IInv /\ QuietInv => ExactAnswer
    BY DEF QuietInv, ExactAnswer, Whole, Late
  <1>2. QED
    BY <1>1, QuietAlways, PTL

(* And one that returns FALSE had none to return: the device was silent,   *)
(* is still sending, or sent more than the buffer takes.                   *)
THEOREM NoAnswerMissed == Spec => FalseMeansNoAnswer
  <1>1. ASSUME IInv, QuietInv, [Next]_vars, pc = "return", pc' = "idle", quiet, ~result'
        PROVE  len = Silent \/ len > Size - 2 \/ \E i \in DOMAIN wire : wire[i] = EOT
    <2>1. Return
      BY <1>1 DEF Next, vars, RDA_isr, call, Begin, OpenCapture, ClearBuffer, SendRequest, Poll,
         WaitMore, Expire, TestGot, DisableCapture, CopyChar, CopyNone, SerialGetSs, Goto
    <2>2. ~got
      BY <1>1, <2>1 DEF Return
    <2>3. NothingSent \/ Answering
      BY <1>1 DEF QuietInv, IInv, Counted
    <2>4. CASE NothingSent
      BY <2>4 DEF NothingSent
    <2>5. CASE Answering
      <3>1. PICK k \in -1 .. len + 2 : Coming(k) /\ Caught(k)
        BY <2>5 DEF Answering
      <3>2. len \in Nat
        BY <2>5, BoundsAssumption DEF Answering
      <3>3. CASE k > len
        BY <2>2, <3>1, <3>2, <3>3 DEF Caught
      <3>4. CASE k <= len
        <4>1. Len(wire) \in 1 .. Len(wire) /\ k + Len(wire) = len + 2
          BY <3>1, <3>2, <3>4 DEF Coming
        <4>2. wire[Len(wire)] = EOT
          <5>1. wire[Len(wire)] = Sent(k + Len(wire))
            BY <3>1, <4>1 DEF Coming
          <5>2. Sent(len + 2) = EOT
            BY <3>2 DEF Sent
          <5>3. QED
            BY <4>1, <5>1, <5>2
        <4>3. DOMAIN wire = 1 .. Len(wire)
          BY <1>1 DEF IInv, TypeInv
        <4>4. QED
          BY <4>1, <4>2, <4>3
      <3>5. QED
        BY <3>2, <3>3, <3>4
    <2>6. QED
      BY <2>3, <2>4, <2>5
  <1>2. IInv /\ QuietInv /\ [Next]_vars
          => [pc = "return" /\ pc' = "idle" /\ quiet /\ ~result' =>
                \/ len = Silent
                \/ len > Size - 2
                \/ \E i \in DOMAIN wire : wire[i] = EOT]_vars
    BY <1>1
  <1>3. QED
    BY <1>2, QuietAlways, PTL DEF Spec, FalseMeansNoAnswer
=============================================================================
