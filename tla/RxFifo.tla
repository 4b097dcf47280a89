------------------------------- MODULE RxFifo -------------------------------
(***************************************************************************)
(* The receive side of a TCP socket of the PCM (TCP.c): HandleTCPSeg puts  *)
(* the text of a segment into a circular buffer in the Ethernet RAM,       *)
(* behind a hole if bytes before it are missing, and MyTCPTask takes it    *)
(* out with TCPGet. There is one hole at most; what does not join the      *)
(* bytes behind it is forgotten and has to be sent again.                  *)
(*                                                                         *)
(* A byte is its position in what the client sends, and sequence numbers   *)
(* count from the first one. Segments arrive in any order, any number of   *)
(* times and cut in any way. bufferRxStart is cell 0, bufferEnd is cell    *)
(* Cells - 1, and one cell is always empty. SHORT has a sign and 2 * Half  *)
(* values. Bound: the client sends StreamLen bytes and its FIN.            *)
(***************************************************************************)
EXTENDS Integers, Sequences

CONSTANTS Cells,      \* bufferEnd - bufferRxStart + 1
          StreamLen,  \* the bytes a client sends on a connection
          Half        \* 2^15

ASSUME CellsAssumption == Cells \in Nat /\ Cells >= 2
ASSUME StreamAssumption == StreamLen \in Nat
ASSUME HalfAssumption == Half \in Nat /\ Half >= Cells

VARIABLES
  buf,      \* the cells; Nothing until a byte is stored
  head,     \* rxHead, where the next byte in order goes
  tail,     \* rxTail, where the application reads
  nxt,      \* RemoteSEQ: the bytes received in order
  hole,     \* sHoleSize, -1 when there is none
  future,   \* wFutureDataSize, the bytes behind the hole
  state,    \* "established", "fin_wait" after a TCPDisconnect, or "over"
            \* once the client's FIN is in: CLOSE_WAIT and what follows
  taken,    \* (history) the bytes the application got or threw away
  arrived   \* (history) the bytes that were in a segment

vars == <<buf, head, tail, nxt, hole, future, state, taken, arrived>>

Nothing == -1
Cell == 0 .. Cells - 1
NoHole == hole = -1

(* The cell n bytes on from p, and how far p is on from q. *)
On(p, n) == IF p + n >= Cells THEN p + n - Cells ELSE p + n
Ahead(p, q) == IF p >= q THEN p - q ELSE p + Cells - q

(* TCPIsGetReady, and the free space HandleTCPSeg computes. *)
Ready == Ahead(head, tail)
Free == Cells - 1 - Ready

(* A cast to SHORT. *)
Short(x) == IF x \in -Half .. Half - 1 THEN x
                                       ELSE ((x + Half) % (2 * Half)) - Half

(* The segments of the client: text and, at its end, the FIN. An Ethernet  *)
(* frame is shorter than half the range of a SHORT, and no duplicate is    *)
(* older than that: the casts of HandleTCPSeg need both.                   *)
Segment(seq, len, fin) ==
  /\ seq + len <= StreamLen
  /\ fin \in {0, IF seq + len = StreamLen THEN 1 ELSE 0}
  /\ len + fin <= Half
  /\ nxt - seq <= Half

-----------------------------------------------------------------------------
(* First check of HandleTCPSeg: the tests of the sequence number, for a    *)
(* segment that is n long and m ahead of what is expected.                 *)
Acceptable(m, n) ==
  IF n = 0
    THEN m = 0 \/ (m > 0 /\ m < Free)
    ELSE /\ Free > 0
         /\ \/ m >= 0 /\ m < Free
            \/ m + n > 0 /\ m <= Short(Free - n)
            \/ m < Free /\ Short(m) + n > 0

(* The buffer after n bytes from position first on were copied to cell p,  *)
(* in two parts when they reach past bufferEnd.                            *)
Copied(p, first, n) ==
  [c \in Cell |-> IF Ahead(c, p) < n THEN first + Ahead(c, p) ELSE buf[c]]

(* Text that starts at RemoteSEQ or before: what is new of it and fits is  *)
(* stored, and the bytes behind the hole are taken in when it is closed.   *)
Fits(m, len) == IF len + m > Free THEN Free ELSE len + m

(* (mutation) what text covers of the bytes behind the hole counts twice *)
JoinedTwice(n) == IF hole - n <= 0 /\ future + hole - n >= 0 /\ ~NoHole
                    THEN future ELSE 0

Joined(n) == IF hole - n <= 0 /\ future + hole - n >= 0 /\ ~NoHole
               THEN future + hole - n ELSE 0

InOrderText(m, len) ==
  LET n == Fits(m, len)  j == Joined(n) IN
    /\ buf' = Copied(head, nxt, n)
    /\ nxt' = nxt + n + j
    /\ head' = On(On(head, n), j)
    /\ hole' = IF hole - n > 0 THEN hole - n ELSE -1
    /\ UNCHANGED future

(* Text from further on: it is stored where it belongs, and is remembered  *)
(* if it is the first, comes before what is remembered, or joins it.       *)
RememberedPast(m, n) ==   \* (mutation) a second hole is forgotten
  IF NoHole
    THEN hole' = m /\ future' = n
    ELSE IF m < hole
      THEN /\ hole' = m
           /\ future' = IF m + n > hole + future \/ m + n < hole
                          THEN n ELSE hole + future - m
      ELSE /\ hole' = hole
           /\ future' = IF m + n > hole + future THEN m + n - hole ELSE future

RememberedAll(m, n) ==    \* (mutation) text that ends before the hole does
  IF NoHole               \* is joined to what is behind it
    THEN hole' = m /\ future' = n
    ELSE IF m < hole
      THEN /\ hole' = m
           /\ future' = IF m + n > hole + future
                          THEN n ELSE hole + future - m
      ELSE /\ hole' = hole
           /\ future' = IF m + n > hole + future /\ m <= hole + future
                          THEN m + n - hole ELSE future

Remembered(m, n) ==
  IF NoHole
    THEN hole' = m /\ future' = n
    ELSE IF m < hole
      THEN /\ hole' = m
           /\ future' = IF m + n > hole + future \/ m + n < hole
                          THEN n ELSE hole + future - m
      ELSE /\ hole' = hole
           /\ future' = IF m + n > hole + future /\ m <= hole + future
                          THEN m + n - hole ELSE future

LaterText(m, len) ==
  LET n == IF len + m > Free THEN Free - m ELSE len IN
    /\ buf' = Copied(On(head, m), nxt + m, n)
    /\ Remembered(m, n)
    /\ UNCHANGED <<nxt, head>>

Text(seq, len) ==
  LET m == Short(seq - nxt) IN
    \/ len = 0 /\ UNCHANGED <<buf, nxt, head, hole, future>>
    \/ len > 0 /\ m <= 0 /\ InOrderText(m, len)
    \/ len > 0 /\ m > 0 /\ LaterText(m, len)

(* (mutation) the text and the FIN are counted the other way round *)
FinLate(seq, len, fin) == fin = 1 /\ nxt' = seq + len + fin

FinInOrder(seq, len, fin) == fin = 1 /\ nxt' = seq + len

(* A segment of a connection whose end the client has not sent: its text,  *)
(* thrown away after a TCPDisconnect, and its FIN if nothing is missing    *)
(* before it.                                                              *)
HandleTCPSeg(seq, len, fin) ==
  /\ state # "over"
  /\ Acceptable(seq - nxt, len + fin)
  /\ Text(seq, len)
  /\ IF state # "established" /\ len + fin > 0
       THEN tail' = head' /\ taken' = nxt'
       ELSE UNCHANGED <<tail, taken>>
  /\ state' = IF FinInOrder(seq, len, fin) THEN "over" ELSE state
  /\ arrived' = arrived \cup (seq .. seq + len - 1)

Arrives ==
  \E seq \in 0 .. StreamLen, len \in 0 .. StreamLen, fin \in {0, 1} :
    Segment(seq, len, fin) /\ HandleTCPSeg(seq, len, fin)

(* The segment a client sends again that has had no acknowledgement.       *)
Resent ==
  /\ nxt <= StreamLen
  /\ HandleTCPSeg(nxt, IF nxt < StreamLen THEN 1 ELSE 0,
                  IF nxt + 1 < StreamLen THEN 0 ELSE 1)

-----------------------------------------------------------------------------
(* The application reads while it is connected, a byte at a time... *)
TCPGet ==
  /\ state = "established"
  /\ Ready > 0
  /\ tail' = On(tail, 1)
  /\ taken' = taken + 1
  /\ UNCHANGED <<buf, head, nxt, hole, future, state, arrived>>

(* ... throws the rest away behind a request...                            *)
TCPDiscard ==
  /\ state = "established"
  /\ Ready > 0
  /\ tail' = head
  /\ taken' = nxt
  /\ UNCHANGED <<buf, head, nxt, hole, future, state, arrived>>

(* ... or closes the connection, which throws away everything.             *)
TCPDisconnect ==
  /\ state = "established"
  /\ state' = "fin_wait"
  /\ tail' = head
  /\ taken' = nxt
  /\ UNCHANGED <<buf, head, nxt, hole, future, arrived>>

-----------------------------------------------------------------------------
Init ==
  /\ buf = [c \in Cell |-> Nothing]
  /\ head = 0 /\ tail = 0 /\ nxt = 0
  /\ hole = -1 /\ future = 0
  /\ state = "established"
  /\ taken = 0 /\ arrived = {}

Next == Arrives \/ TCPGet \/ TCPDiscard \/ TCPDisconnect

Spec == Init /\ [][Next]_vars

(* The client sends again what is not acknowledged, and the application    *)
(* reads on.                                                               *)
Fairness == WF_vars(Resent) /\ WF_vars(TCPGet)

FairSpec == Spec /\ Fairness

-----------------------------------------------------------------------------
TypeOK ==
  /\ buf \in [Cell -> 0 .. StreamLen \cup {Nothing}]
  /\ head \in Cell /\ tail \in Cell
  /\ nxt \in 0 .. StreamLen /\ taken \in 0 .. nxt
  /\ hole \in -1 .. Cells - 1 /\ hole # 0 /\ future \in 0 .. Cells - 1
  /\ state \in {"established", "fin_wait", "over"}
  /\ arrived \subseteq 0 .. StreamLen - 1

(* Whatever the order and the cutting of the segments, the application     *)
(* reads the client's bytes in order and without a gap.                    *)
InOrder ==
  /\ taken + Ready = nxt
  /\ \A k \in 0 .. Cells - 1 : k < Ready => buf[On(tail, k)] = taken + k

(* What is behind the hole has its place in the free space and is what     *)
(* belongs there, whatever was stored around it since.                     *)
FutureHeld ==
  ~NoHole =>
    /\ future > 0 /\ hole + future <= Free
    /\ \A k \in 0 .. Cells - 1 : k >= hole /\ k < hole + future =>
         buf[On(head, k)] = nxt + k /\ nxt + k \in arrived

(* No byte is acknowledged that was in no segment: the client would not    *)
(* send it again.                                                          *)
AckedArrived == \A p \in 0 .. nxt - 1 : p \in arrived

(* The end is not reported before the bytes that precede it are in.        *)
FinIsLast == state = "over" => nxt = StreamLen

(* What the client sends arrives in the end: neither the hole nor a full   *)
(* buffer keeps a byte out for ever.                                       *)
AllArrives == <>(state = "over")

(* The socket is a stream of bytes. *)
Stream == INSTANCE ByteStream WITH
  waiting <- [k \in 1 .. Ready |-> buf[On(tail, k - 1)]],
  over <- state = "over"

IsByteStream == Stream!Spec
=============================================================================
