----------------------------- MODULE SerialPort -----------------------------
(***************************************************************************)
(* One serial request of the PCM (PCM_Serial.h, serialGetSs, called by     *)
(* sendSerial for the '#' and '@' commands) against the UART receive       *)
(* interrupt RDA_isr. Requests follow one another on one line; a device    *)
(* answers each at its own pace, too late for the timeout too, and its     *)
(* characters then arrive in whatever the firmware is doing. One action    *)
(* per statement that touches what the interrupt touches.                  *)
(*                                                                         *)
(* A data character is <<request, position>>: which answer it belongs to   *)
(* and where. Bounds: NumReqs requests, answers of MaxLen characters, a    *)
(* buffer of Size (60 in the code).                                        *)
(***************************************************************************)
EXTENDS Integers, Sequences

CONSTANTS Size,     \* UART_BUFFER_SIZE
          MaxLen,   \* the longest answer of a device
          NumReqs   \* the number of requests made

ASSUME SizeAssumption == Size \in Nat /\ Size >= 2
ASSUME BoundsAssumption == MaxLen \in Nat /\ NumReqs \in Nat

NUL == <<0, 0>>
SOT == <<0, 1>>     \* 0xFF, line turnaround
EOT == <<0, 2>>     \* ETX, carriage return or line feed
Data == (1 .. NumReqs) \X (1 .. MaxLen)
Answer(r, n) == [i \in 1 .. n |-> <<r, i>>]

Silent == -1        \* the length of an answer that never comes

VARIABLES
  buf, ptr, got,    \* UART_BUFFER, UART_BUFFER_PTR, UART_GOT_STRING
  pc,               \* the place of the main loop in serialGetSs
  timeout,          \* the local of that name
  retStr, pos,      \* the copy so far and the next character to copy
  result,           \* the value returned
  wire,             \* the characters still to arrive, in order
  req,              \* (history) the number of the current or last request
  len,              \* (history) the length of its answer, or Silent
  quiet,            \* (history) nothing was under way when it began
  arrived           \* (history) what arrived since it opened the capture

uart == <<buf, ptr, got>>
call == <<timeout, retStr, pos, result>>
hist == <<req, len, quiet>>
vars == <<buf, ptr, got, pc, timeout, retStr, pos, result, wire, req, len, quiet, arrived>>

-----------------------------------------------------------------------------
(* RDA_isr receives one character c. *)
Capture(c) ==
  CASE c = EOT -> /\ ptr' = Size
                  /\ got' = TRUE
                  /\ UNCHANGED buf
    [] c = SOT -> /\ ptr' = 0
                  /\ buf' = [buf EXCEPT ![0] = NUL]
                  /\ UNCHANGED got
    [] OTHER   -> /\ ptr' = ptr + 1
                  /\ buf' = [buf EXCEPT ![ptr] = c, ![ptr + 1] = NUL]
                  /\ UNCHANGED got

(* (mutation) the last place of the buffer is used for a character too *)
RDAFull ==
  /\ wire # <<>>
  /\ IF ptr < Size
       THEN CASE Head(wire) = EOT -> ptr' = Size /\ got' = TRUE /\ UNCHANGED buf
              [] Head(wire) = SOT -> ptr' = 0 /\ UNCHANGED <<buf, got>>
              [] OTHER -> /\ ptr' = ptr + 1
                          /\ buf' = [buf EXCEPT ![ptr] = Head(wire)]
                          /\ UNCHANGED got
       ELSE UNCHANGED uart
  /\ arrived' = arrived \cup {Head(wire)}
  /\ wire' = Tail(wire)
  /\ UNCHANGED <<pc, call, hist>>

(* (mutation) the capture closed one character early *)
RDAEarly ==
  /\ wire # <<>>
  /\ IF ptr < Size - 2 THEN Capture(Head(wire)) ELSE UNCHANGED uart
  /\ arrived' = arrived \cup {Head(wire)}
  /\ wire' = Tail(wire)
  /\ UNCHANGED <<pc, call, hist>>

RDA_isr ==
  /\ wire # <<>>
  /\ IF ptr < Size - 1 THEN Capture(Head(wire)) ELSE UNCHANGED uart
  /\ arrived' = arrived \cup {Head(wire)}
  /\ wire' = Tail(wire)
  /\ UNCHANGED <<pc, call, hist>>

-----------------------------------------------------------------------------
(* serialGetSs. The flag, the pointer and the buffer are reset in this     *)
(* order, with the interrupt enabled throughout.                           *)
Goto(from, to) == pc = from /\ pc' = to

(* (mutation) the flag of the previous call survives *)
BeginStale ==
  /\ req < NumReqs
  /\ Goto("idle", "open")
  /\ req' = req + 1
  /\ len' = Silent
  /\ quiet' = (wire = <<>>)
  /\ timeout' = FALSE /\ result' = FALSE
  /\ UNCHANGED <<uart, retStr, pos, wire, arrived>>

Begin ==
  /\ req < NumReqs
  /\ Goto("idle", "open")
  /\ got' = FALSE
  /\ req' = req + 1
  /\ len' = Silent
  /\ quiet' = (wire = <<>>)
  /\ timeout' = FALSE /\ result' = FALSE
  /\ UNCHANGED <<buf, ptr, retStr, pos, wire, arrived>>

OpenCapture ==
  /\ Goto("open", "clear")
  /\ ptr' = 0
  /\ arrived' = {}
  /\ UNCHANGED <<buf, got, call, wire, hist>>

(* (mutation) the old string is left in the buffer *)
ClearNothing ==
  /\ Goto("clear", "send")
  /\ UNCHANGED <<uart, call, wire, hist, arrived>>

ClearBuffer ==
  /\ Goto("clear", "send")
  /\ buf' = [buf EXCEPT ![0] = NUL]
  /\ UNCHANGED <<ptr, got, call, wire, hist, arrived>>

(* The request goes out; the device will answer with n characters, maybe a *)
(* start of text before them, a carriage return and a line feed after      *)
(* them, or not at all.                                                    *)
SendRequest ==
  /\ Goto("send", "poll")
  /\ \/ UNCHANGED <<wire, len>>
     \/ \E n \in 0 .. MaxLen, start \in {<<>>, <<SOT>>} :
          /\ len' = n
          /\ wire' = wire \o start \o Answer(req, n) \o <<EOT, EOT>>
  /\ UNCHANGED <<uart, call, req, quiet, arrived>>

(* (mutation) the loop looks at the flag only *)
PollForEver ==
  /\ pc = "poll"
  /\ pc' = IF got THEN "test" ELSE "wait"
  /\ UNCHANGED <<uart, call, wire, hist, arrived>>

(* The head of the waiting loop. *)
Poll ==
  /\ pc = "poll"
  /\ pc' = IF timeout \/ got THEN "test" ELSE "wait"
  /\ UNCHANGED <<uart, call, wire, hist, arrived>>

(* Its body, StackTask and a look at the clock: still time, or none left.  *)
WaitMore ==
  /\ Goto("wait", "poll")
  /\ UNCHANGED <<uart, call, wire, hist, arrived>>

Expire ==
  /\ Goto("wait", "poll")
  /\ timeout' = TRUE
  /\ UNCHANGED <<uart, retStr, pos, result, wire, hist, arrived>>

TestGot ==
  /\ pc = "test"
  /\ pc' = IF got THEN "disable" ELSE "none"
  /\ retStr' = <<>> /\ pos' = 0
  /\ UNCHANGED <<uart, timeout, result, wire, hist, arrived>>

(* (mutation) the capture is left open during the copy *)
DisableNothing ==
  /\ Goto("disable", "copy")
  /\ UNCHANGED <<uart, call, wire, hist, arrived>>

DisableCapture ==
  /\ Goto("disable", "copy")
  /\ ptr' = Size
  /\ UNCHANGED <<buf, got, call, wire, hist, arrived>>

(* strcpy, one character at a time. *)
CopyChar ==
  /\ pc = "copy"
  /\ IF buf[pos] = NUL
       THEN pc' = "return" /\ UNCHANGED <<retStr, pos>>
       ELSE pc' = pc /\ retStr' = Append(retStr, buf[pos]) /\ pos' = pos + 1
  /\ UNCHANGED <<uart, timeout, result, wire, hist, arrived>>

(* No answer: the empty string; the capture stays open. *)
CopyNone ==
  /\ Goto("none", "return")
  /\ UNCHANGED <<uart, call, wire, hist, arrived>>

(* The flag is read again for the return value. *)
Return ==
  /\ Goto("return", "idle")
  /\ result' = got
  /\ UNCHANGED <<uart, timeout, retStr, pos, wire, hist, arrived>>

SerialGetSs ==
  \/ Begin \/ OpenCapture \/ ClearBuffer \/ SendRequest
  \/ Poll \/ WaitMore \/ Expire
  \/ TestGot \/ DisableCapture \/ CopyChar \/ CopyNone \/ Return

-----------------------------------------------------------------------------
Init ==
  /\ buf = [i \in 0 .. Size - 1 |-> NUL] /\ ptr = Size /\ got = FALSE
  /\ pc = "idle" /\ timeout = FALSE /\ retStr = <<>> /\ pos = 0 /\ result = FALSE
  /\ wire = <<>> /\ arrived = {}
  /\ req = 0 /\ len = Silent /\ quiet = TRUE

Next == RDA_isr \/ SerialGetSs

Spec == Init /\ [][Next]_vars

(* The main loop keeps executing, and as time passes in the waiting loop   *)
(* its look at the clock finds the timeout expired in the end.             *)
FairSpec == Spec /\ WF_vars(SerialGetSs /\ pc # "idle") /\ SF_vars(Expire)

-----------------------------------------------------------------------------
TypeOK ==
  /\ buf \in [0 .. Size - 1 -> Data \cup {NUL}]
  /\ ptr \in 0 .. Size /\ got \in BOOLEAN
  /\ timeout \in BOOLEAN /\ result \in BOOLEAN /\ quiet \in BOOLEAN
  /\ pos \in 0 .. Size /\ req \in 0 .. NumReqs /\ len \in {Silent} \cup 0 .. MaxLen

(* The buffer always holds a terminated string and strcpy stays inside it, *)
(* however the interrupt and the resets of serialGetSs interleave and      *)
(* however long the answers are.                                           *)
BufferSafe ==
  /\ \E i \in 0 .. Size - 1 : buf[i] = NUL
  /\ pc = "copy" => pos < Size

(* A request is never answered with characters that arrived before it      *)
(* opened the capture, those still in the buffer from an earlier one.      *)
NoStaleCharacters ==
  pc \in {"copy", "return", "idle"} =>
    \A i \in DOMAIN retStr : retStr[i] \in arrived

(* The string returned is the one in the buffer: no character slips in     *)
(* while strcpy runs.                                                      *)
CopyFaithful ==
  pc = "return" /\ retStr # <<>> =>
    /\ \A i \in DOMAIN retStr : buf[i - 1] = retStr[i]
    /\ buf[Len(retStr)] = NUL

(* On a quiet line TRUE means the whole answer of this request, except     *)
(* that an end of text between the timeout and the return gives TRUE with  *)
(* the empty string.                                                       *)
ExactAnswer ==
  pc = "idle" /\ req > 0 /\ quiet /\ result =>
    retStr = Answer(req, len) \/ (timeout /\ retStr = <<>>)

(* On a quiet line FALSE (NO RESPONSE to the client) means that the device *)
(* was silent, is still sending, or sent more than the buffer takes.       *)
FalseMeansNoAnswer ==
  [][ pc = "return" /\ pc' = "idle" /\ quiet /\ ~result' =>
        \/ len = Silent
        \/ len > Size - 2
        \/ \E i \in DOMAIN wire : wire[i] = EOT ]_vars

(* A request returns even when no device ever answers. *)
CallReturns == (pc # "idle") ~> (pc = "idle")
=============================================================================
