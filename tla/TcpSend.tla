------------------------------ MODULE TcpSend ------------------------------
(***************************************************************************)
(* The send side of a TCP socket of the PCM (TCP.c), from the end of the   *)
(* handshake to the socket's return to TCP_LISTEN: the circular buffer     *)
(* replies are put into, SendTCP, the acknowledgements of the client,      *)
(* TCPTick with its retransmissions, keep-alives and closing timers, and   *)
(* the closing of the connection from either side.                         *)
(*                                                                         *)
(* The socket is one record; what SendTCP does to it is an operator, so    *)
(* that a handler may send more than once. A byte is its position in what  *)
(* is put, and MySEQ counts from the first one. A segment to the client is *)
(* received at once or lost; the client's own may be late, repeated or out *)
(* of order: whatever it acknowledged once may arrive at any time, with    *)
(* any window. Timers may run out whenever they are on. What the client    *)
(* sends is text or not; RxFifo has the rest. Bounds: Total bytes put.     *)
(***************************************************************************)
EXTENDS Integers, Sequences

CONSTANTS Cells,       \* bufferRxStart - bufferTxStart
          Total,       \* the bytes put on a connection
          MSS,         \* wRemoteMSS
          Windows,     \* the windows the client advertises
          Word,        \* 2^16
          MaxRetries,  \* TCP_MAX_RETRIES
          MaxAlive,    \* TCP_MAX_UNACKED_KEEP_ALIVES
          Commands     \* the commands that may be in what is read at once

ASSUME SizesAssumption ==
  /\ Cells \in Nat /\ Cells >= 2
  /\ Total \in Nat /\ MSS \in Nat \ {0}
  /\ Word \in Nat /\ Word > Cells + MSS
  /\ Windows \subseteq 0 .. Word - 1
  /\ MaxRetries \in Nat /\ MaxAlive \in Nat /\ Commands \in Nat

VARIABLES
  sock,     \* the socket, see Socket below
  asked,    \* the commands being executed for the client
  put,      \* (history) the bytes put so far
  client,   \* what the client received: bytes, a FIN, a reset
  silent    \* the client, or the way to it, is dead

vars == <<sock, asked, put, client, silent>>

Garbage == -1
Cell == 0 .. Cells - 1

On(p, n) == IF p + n >= Cells THEN p + n - Cells ELSE p + n
Ahead(p, q) == IF p >= q THEN p - q ELSE p + Cells - q
Least(a, b) == IF a <= b THEN a ELSE b

Unsent(k) == Ahead(k.head, k.unacked)
InFlight(k) == Ahead(k.unacked, k.tail)
PutReady(k) ==
  IF k.st \in {"established", "close_wait"} THEN Cells - 1 - Ahead(k.head, k.tail)
                                            ELSE 0

Closing == {"fin_wait_1", "fin_wait_2", "closing", "last_ack"}

Socket == [
  buf     : [Cell -> Garbage .. Total - 1],
  st      : {"listen", "established", "close_wait"} \cup Closing,
  head    : Cell,           \* txHead
  unacked : Cell,           \* txUnackedTail
  tail    : Cell,           \* txTail
  seq     : 0 .. Total,     \* MySEQ
  rwin    : 0 .. Word - 1,  \* remoteWindow
  retry   : 0 .. MaxRetries,
  timer   : BOOLEAN,        \* bTimerEnabled
  txfin   : BOOLEAN,        \* bTXFIN
  finsent : BOOLEAN,        \* bFINSent
  none    : 0 .. 2,         \* bRXNoneACKed1 and 2
  asap    : BOOLEAN,        \* bTXASAP
  asapnr  : BOOLEAN,        \* bTXASAPWithoutTimerReset
  half    : BOOLEAN,        \* bHalfFullFlush
  ackdue  : BOOLEAN,        \* bDelayedACKTimerEnabled, bOneSegmentReceived
  alive   : 0 .. MaxAlive,  \* vUnackedKeepalives
  peerfin : BOOLEAN,        \* RemoteSEQ counts the client's FIN
  unread  : BOOLEAN ]       \* there is text TCPGet may read

Client == [bytes : Seq(Garbage .. Total - 1), fin : BOOLEAN, rst : BOOLEAN]

-----------------------------------------------------------------------------
(* SendTCP: the socket afterwards and the segment. flag is "ACK", "FIN" or *)
(* "RST", how is "reset" (SENDTCP_RESET_TIMERS), "alive" (KEEP_ALIVE) or   *)
(* "plain".                                                                *)
LengthOf(k, flag) ==
  IF flag = "RST" THEN 0 ELSE Least(Least(Unsent(k), k.rwin), MSS)

TooMuch(k, flag) == flag # "RST" /\ Least(Unsent(k), k.rwin) > MSS

(* A FIN goes with the last of the data, never with a part of it.          *)
WithFin(k, flag) ==
  /\ flag # "RST" /\ (k.txfin \/ flag = "FIN")
  /\ LengthOf(k, flag) # k.rwin /\ LengthOf(k, flag) # MSS

Keepalive(k, flag, how) ==
  how = "alive" /\ LengthOf(k, flag) = 0 /\ ~WithFin(k, flag)

RetriesAnew(k, flag, how) ==   \* (mutation) every retry starts again
  IF how # "alive" /\ (LengthOf(k, flag) > 0 \/ WithFin(k, flag)) THEN 0 ELSE k.retry

RetriesAfter(k, flag, how) ==
  CASE how = "reset" /\ (LengthOf(k, flag) > 0 \/ WithFin(k, flag)) -> 0
    [] how = "plain" /\ LengthOf(k, flag) = 0 /\ ~WithFin(k, flag)
         /\ k.timer /\ k.retry > 0 -> k.retry - 1
    [] OTHER -> k.retry

SendTCP(k, flag, how) ==
  LET n == LengthOf(k, flag) IN
    [k EXCEPT
       !.txfin   = @ \/ flag = "FIN",
       !.asap    = FALSE,
       !.asapnr  = TooMuch(k, flag),
       !.half    = FALSE,
       !.ackdue  = FALSE,
       !.unacked = On(@, n),
       !.seq     = @ + n,
       !.rwin    = @ - n,
       !.timer   = @ \/ n > 0 \/ WithFin(k, flag),
       !.retry   = RetriesAfter(k, flag, how),
       !.alive   = IF Keepalive(k, flag, how) THEN @ + 1 ELSE @,
       !.finsent = @ \/ WithFin(k, flag)]

(* The segment SendTCP sends: a keep-alive has a byte of whatever is in    *)
(* the buffer of the controller, before the next one to send.              *)
SegmentOf(k, flag, how) ==
  [seq   |-> IF Keepalive(k, flag, how) THEN k.seq - 1 ELSE k.seq,
   bytes |-> IF Keepalive(k, flag, how) THEN <<Garbage>>
             ELSE [j \in 1 .. LengthOf(k, flag) |-> k.buf[On(k.unacked, j - 1)]],
   fin   |-> WithFin(k, flag),
   rst   |-> flag = "RST"]

CloseSocketUnread(k) ==   \* (mutation) rxTail is left alone
  [k EXCEPT !.st = "listen", !.head = 0, !.unacked = 0, !.tail = 0, !.seq = 0,
            !.rwin = 1, !.timer = FALSE, !.txfin = FALSE, !.finsent = FALSE,
            !.none = 0, !.asap = FALSE, !.asapnr = FALSE, !.half = FALSE,
            !.ackdue = FALSE, !.alive = 0, !.peerfin = FALSE]

(* CloseSocket: the buffer is empty and the socket listens again.          *)
CloseSocket(k) ==
  [k EXCEPT !.st = "listen", !.head = 0, !.unacked = 0, !.tail = 0, !.seq = 0,
            !.rwin = 1, !.timer = FALSE, !.txfin = FALSE, !.finsent = FALSE,
            !.none = 0, !.asap = FALSE, !.asapnr = FALSE, !.half = FALSE,
            !.ackdue = FALSE, !.alive = 0, !.peerfin = FALSE, !.unread = FALSE]

(* What the client has of the connection once it received segment g: it    *)
(* takes bytes and the FIN in order only.                                  *)
NewBytes(g, have) ==
  IF g.seq <= have THEN SubSeq(g.bytes, have - g.seq + 1, Len(g.bytes)) ELSE << >>

Received(c, g) ==
  LET have == Len(c.bytes)
      new == NewBytes(g, have)
  IN CASE g.rst -> [c EXCEPT !.rst = TRUE]
       [] ~g.rst /\ (c.fin \/ c.rst) -> c
       [] OTHER -> [c EXCEPT !.bytes = @ \o new,
                             !.fin = g.fin /\ g.seq + Len(g.bytes) = have + Len(new)]

(* What a handler has done so far: the socket and what the client has by   *)
(* then, for every choice of the segments that are lost.                   *)
Start(k) == {[k |-> k, c |-> client]}
Arrives(c, g) == IF silent THEN {c} ELSE {c, Received(c, g)}
Send(X, flag, how) ==
  UNION {{[k |-> SendTCP(x.k, flag, how), c |-> c] :
            c \in Arrives(x.c, SegmentOf(x.k, flag, how))} : x \in X}
Closed(X) == {[x EXCEPT !.k = CloseSocket(@)] : x \in X}

(* The end of a handler. *)
Done(X) == \E x \in X : sock' = x.k /\ client' = x.c

-----------------------------------------------------------------------------
(* What HandleTCPSeg does with an acknowledgement of a, for segments it    *)
(* accepts. ack is a, less one if it covers a FIN of ours.                 *)
TooFar(k, a) ==
  LET beyond == a - (k.seq + Unsent(k)) IN beyond > 0 /\ ~(k.finsent /\ beyond = 1)

AckOfFin(k, a) == a   \* (mutation) the FIN is counted

AckOf(k, a) == IF a > k.seq + Unsent(k) THEN a - 1 ELSE a

RolledBack(k) == [k EXCEPT !.seq = @ - InFlight(k), !.unacked = k.tail]

(* The third acknowledgement of nothing new has the data sent again.       *)
NothingNew(k) ==
  CASE InFlight(k) = 0 -> k
    [] InFlight(k) > 0 /\ k.none = 2 -> [RolledBack(k) EXCEPT !.asapnr = TRUE]
    [] OTHER -> [k EXCEPT !.none = @ + 1]

(* New bytes are acknowledged, also some that were to be sent again.       *)
FreedBehind(k, n) ==   \* (mutation) MySEQ stays behind
  [k EXCEPT !.tail = On(@, n), !.none = 0, !.half = FALSE,
            !.unacked = IF n > InFlight(k) THEN On(k.tail, n) ELSE @]

Freed(k, n) ==
  [k EXCEPT !.tail = On(@, n), !.none = 0, !.half = FALSE,
            !.unacked = IF n > InFlight(k) THEN On(k.tail, n) ELSE @,
            !.seq = IF n > InFlight(k) THEN @ + n - InFlight(k) ELSE @]

Bytes(k, ack) ==
  LET n == ack - (k.seq - InFlight(k)) IN
    IF n > 0 /\ n <= Cells THEN Freed(k, n) ELSE NothingNew(k)

FinAcked(k, ack) == k.seq = ack /\ k.finsent

(* No retransmission when nothing is left to acknowledge.                  *)
TimerOff(k, ack) ==
  CASE k.head = k.tail /\ ~k.txfin -> [k EXCEPT !.timer = FALSE]
    [] k.head = k.tail /\ k.txfin /\ FinAcked(k, ack) ->
         [k EXCEPT !.timer = FALSE, !.txfin = FALSE]
    [] OTHER -> k

Window(k, ack, w) ==
  LET new == (w - (k.seq - ack)) % Word IN
    [k EXCEPT !.rwin = new, !.asap = @ \/ (k.rwin = 0 /\ new # 0)]

Acked(k, a, w) ==
  LET ack == AckOf(k, a) IN Window(TimerOff(Bytes(k, ack), ack), ack, w)

(* A segment with text or a FIN has an acknowledgement of its own, at once *)
(* for the second of two. TCPGet's own timer is never later than that of   *)
(* the last byte it reads, and left out.                                   *)
Owing(X) ==
  UNION {IF x.k.ackdue THEN Send({x}, "ACK", "reset")
                       ELSE {[x EXCEPT !.k.ackdue = TRUE]} : x \in X}

Text(X, text, fin) ==
  IF ~text /\ ~fin THEN X
  ELSE {[x EXCEPT !.k.unread = x.k.st = "established" /\ (@ \/ text)] : x \in Owing(X)}

(* The client's FIN. There is no TIME_WAIT.                                *)
PeerFin(x, ack) ==
  LET to(st) == {[x EXCEPT !.k.st = st, !.k.peerfin = TRUE]} IN
    CASE x.k.st = "established" -> Send(to("close_wait"), "ACK", "reset")
      [] x.k.st = "fin_wait_2" \/ (x.k.st = "fin_wait_1" /\ x.k.seq = ack) ->
           Closed(Send(to(x.k.st), "ACK", "plain"))
      [] x.k.st = "fin_wait_1" /\ x.k.seq # ack -> Send(to("closing"), "ACK", "reset")

(* HandleTCPSeg after the acknowledgement: what the states do with it.     *)
FinWait2(k, ack) ==
  IF k.st = "fin_wait_1" /\ FinAcked(k, ack)
    THEN [k EXCEPT !.st = "fin_wait_2", !.timer = TRUE] ELSE k

AfterAck(k, ack, text, fin) ==
  CASE k.st = "close_wait" \/ (k.st = "closing" /\ k.seq # ack) -> Start(k)
    [] k.st = "closing" /\ k.seq = ack -> Closed(Start(k))
    [] k.st = "fin_wait_2" /\ ~fin ->
         Closed(Send(Start([k EXCEPT !.seq = ack]), "RST", "plain"))
    [] OTHER -> LET X == Text(Start(FinWait2(k, ack)), text, fin) IN
                  IF fin THEN UNION {PeerFin(x, ack) : x \in X} ELSE X

HandleTCPSeg(k, a, w, text, fin) ==
  CASE k.st = "last_ack" -> IF k.seq + 1 = a THEN Closed(Start(k)) ELSE Start(k)
    [] k.st # "last_ack" /\ TooFar(k, a) -> Send(Start(k), "ACK", "plain")
    [] OTHER -> AfterAck(Acked(k, a, w), AckOf(k, a), text, fin)

Heard(k) == [k EXCEPT !.alive = 0]

Open == sock.st # "listen"

(* A segment of the client that HandleTCPSeg accepts: it acknowledges what *)
(* the client received by now or had before.                               *)
Segment ==
  /\ Open /\ ~silent
  /\ \E a \in 0 .. Len(client.bytes) + 1, w \in Windows, text, fin \in BOOLEAN :
       /\ a = Len(client.bytes) + 1 => client.fin
       /\ sock.peerfin => ~text /\ ~fin
       /\ Done(HandleTCPSeg(Heard(sock), a, w, text, fin))
  /\ UNCHANGED <<asked, put, silent>>

(* A segment that was there before, or that finds no room.                 *)
Unacceptable ==
  /\ Open /\ ~silent
  /\ Done(Send(Start(Heard(sock)), "ACK", "reset"))
  /\ UNCHANGED <<asked, put, silent>>

(* The client gives the connection up.                                     *)
Reset ==
  /\ Open /\ ~silent
  /\ sock' = CloseSocket(sock)
  /\ UNCHANGED <<asked, put, client, silent>>

-----------------------------------------------------------------------------
(* TCPTick: what was put off is sent.                                      *)
TickSends ==
  /\ Open
  /\ \/ /\ sock.asap \/ sock.asapnr
        /\ Done(Send(Start(sock), "ACK", IF sock.asapnr THEN "plain" ELSE "reset"))
     \/ /\ sock.ackdue
        /\ Done(Send(Start(sock), "ACK", "reset"))
  /\ UNCHANGED <<asked, put, silent>>

(* An application that leaves a connection in CLOSE_WAIT is not waited for.*)
CloseWaitTimer ==
  /\ sock.st = "close_wait"
  /\ Done(Send(Start([sock EXCEPT !.st = "last_ack"]), "FIN",
               IF sock.asapnr THEN "plain" ELSE "reset"))
  /\ UNCHANGED <<asked, put, silent>>

(* Everything unacknowledged is sent again, so many times.                 *)
SentAgainLater(k) ==   \* (mutation) MySEQ is not rolled back
  [k EXCEPT !.retry = @ + 1, !.unacked = k.tail, !.rwin = (@ + InFlight(k)) % Word]

SentAgain(k) ==
  [RolledBack(k) EXCEPT !.retry = @ + 1, !.rwin = (@ + InFlight(k)) % Word]

GiveUp(k) == Closed(Send(Start(k), "RST", "reset"))

Expired(k) ==
  CASE k.st = "fin_wait_2" -> GiveUp(k)
    [] k.st # "fin_wait_2" /\ k.retry < MaxRetries ->
         Send(Start(SentAgain(k)),
              IF k.st \in {"fin_wait_1", "last_ack"} THEN "FIN" ELSE "ACK", "plain")
    [] k.st \in {"established", "close_wait"} /\ k.retry = MaxRetries ->
         Send(Start([k EXCEPT !.st = "fin_wait_1"]), "FIN", "reset")
    [] OTHER -> GiveUp(k)

TickTimeout ==
  /\ Open /\ sock.timer
  /\ Done(Expired(sock))
  /\ UNCHANGED <<asked, put, silent>>

-----------------------------------------------------------------------------
(* TCPDisconnect: a FIN with the last of the data, as far as the window    *)
(* allows, or a reset of a connection that had one.                        *)
FinLoop(k) ==
  LET loop[n \in 0 .. Cells] ==
        IF n = 0 THEN Send(Start(k), "FIN", "reset")
        ELSE UNION {IF x.k.rwin = 0 \/ Unsent(x.k) = 0 THEN {x}
                    ELSE Send({x}, "FIN", "reset") : x \in loop[n - 1]}
  IN loop[Cells]

Disconnected(k) ==
  LET e == [k EXCEPT !.unread = FALSE]
      loopTo(st) == {[x EXCEPT !.k.st = st] : x \in FinLoop(e)}
  IN CASE k.st = "established" -> loopTo("fin_wait_1")
       [] k.st = "close_wait" -> loopTo("last_ack")
       [] OTHER -> Closed(Send(Start(e), "RST", "plain"))

TCPDisconnect ==
  /\ Open /\ asked = 0
  /\ Done(Disconnected(sock))
  /\ UNCHANGED <<asked, put, silent>>

(* TCPTick on an idle connection: a keep-alive, and in the end both steps  *)
(* of TCPDisconnect.                                                       *)
TickKeepAlive ==
  /\ sock.st = "established" /\ ~sock.timer
  /\ IF sock.alive = MaxAlive
       THEN Done(Closed(Send(Disconnected(sock), "RST", "plain")))
       ELSE Done(Send(Start(sock), "ACK", "alive"))
  /\ UNCHANGED <<asked, put, silent>>

-----------------------------------------------------------------------------
(* TCPConnectedTask reads what is there, with a window update when it has  *)
(* read the last byte or discards what it has no room for. That a reply    *)
(* must fit first (TCPIsPutReady > 80) is left out: it only delays.        *)
Read ==
  /\ sock.st = "established" /\ sock.unread /\ asked = 0
  /\ LET k == [sock EXCEPT !.unread = FALSE] IN
       \/ Done(Start([k EXCEPT !.asapnr = TRUE]))
       \/ Done(Send(Start(k), "ACK", "reset"))
  /\ asked' = Commands
  /\ UNCHANGED <<put, silent>>

(* What was read is executed, with a reply for some commands; StackTask    *)
(* may run in between, so the connection may be closing by then.           *)
NoReply ==
  /\ asked > 0
  /\ asked' = asked - 1
  /\ UNCHANGED <<sock, put, client, silent>>

(* TCPPutArray and TCPFlush, for a reply of n bytes: what does not fit is  *)
(* left out.                                                               *)
Flush(X) ==
  UNION {IF Unsent(x.k) = 0 THEN {x} ELSE Send({x}, "ACK", "reset") : x \in X}

HalfFull(k) ==
  IF ~k.half /\ PutReady(k) <= Cells \div 2
    THEN {[x EXCEPT !.k.half = TRUE] : x \in Flush(Start(k))} ELSE Start(k)

Stored(k, n) ==
  [k EXCEPT !.head = On(@, n),
            !.buf = [c \in Cell |-> IF Ahead(c, k.head) < n THEN put + Ahead(c, k.head)
                                                            ELSE @[c]]]

Reply(n) ==
  LET room == PutReady(sock)
      m == Least(n, room)
      Y == {[x EXCEPT !.k = Stored(@, m)] : x \in HalfFull(sock)}
  IN /\ Open /\ asked > 0
     /\ put + m <= Total
     /\ Done(CASE room = 0 -> Flush(Flush(Start(sock)))
               [] room > 0 /\ n >= room -> Flush(Flush(Y))
               [] room > 0 /\ n < room -> Flush(Y))
     /\ put' = put + m
     /\ asked' = asked - 1
     /\ UNCHANGED silent

(* The client, or the way to it, is gone and says nothing any more.        *)
Silence ==
  /\ Open /\ ~silent
  /\ silent' = TRUE
  /\ UNCHANGED <<sock, asked, put, client>>

-----------------------------------------------------------------------------
Init ==
  /\ \E w \in Windows :
       sock = [buf |-> [c \in Cell |-> Garbage], st |-> "established",
               head |-> 0, unacked |-> 0, tail |-> 0, seq |-> 0, rwin |-> w,
               retry |-> 0, timer |-> FALSE, txfin |-> FALSE, finsent |-> FALSE,
               none |-> 0, asap |-> FALSE, asapnr |-> FALSE, half |-> FALSE,
               ackdue |-> FALSE, alive |-> 0, peerfin |-> FALSE, unread |-> FALSE]
  /\ asked = 0 /\ put = 0
  /\ client = [bytes |-> << >>, fin |-> FALSE, rst |-> FALSE]
  /\ silent = FALSE

TCPTick == TickSends \/ CloseWaitTimer \/ TickTimeout \/ TickKeepAlive

Next ==
  \/ Segment \/ Unacceptable \/ Reset \/ Silence
  \/ TCPTick
  \/ Read \/ NoReply \/ TCPDisconnect
  \/ \E n \in 1 .. Total : Reply(n)

Spec == Init /\ [][Next]_vars

(* TCPTick is called and its timers run out, commands come to an end, and  *)
(* a client that says nothing is dropped by MyTCPTask, once. Nothing more  *)
(* is needed than that this goes on after the client is gone.              *)
Fairness ==
  /\ WF_vars(silent /\ TCPTick)
  /\ WF_vars(silent /\ NoReply)
  /\ WF_vars(silent /\ sock.st = "established" /\ TCPDisconnect)

FairSpec == Spec /\ Fairness

-----------------------------------------------------------------------------
TypeOK ==
  /\ sock \in Socket
  /\ asked \in 0 .. Commands /\ put \in 0 .. Total /\ silent \in BOOLEAN
  /\ client \in Client

(* The client receives the bytes that were put, in order and without a gap *)
(* or a repetition, and the end after all of them, whatever is lost, sent  *)
(* again or acknowledged twice.                                            *)
Intact ==
  /\ Len(client.bytes) <= put
  /\ client.fin => Len(client.bytes) = put
  /\ \A j \in DOMAIN client.bytes : client.bytes[j] = j - 1

(* MySEQ is the number of the byte at txUnackedTail, and every byte from   *)
(* txTail on is still in the buffer.                                       *)
Position(k) == k.seq + Unsent(k)

SeqMatchesRing ==
  Open => /\ Position(sock) = put
          /\ InFlight(sock) + Unsent(sock) < Cells
          /\ \A j \in 0 .. Cells - 1 :
               j < InFlight(sock) + Unsent(sock) =>
                 sock.buf[On(sock.tail, j)] = sock.seq - InFlight(sock) + j

(* Room is made for the bytes the client has, and no others.               *)
OnlyReceivedFreed ==
  Open => sock.seq - InFlight(sock) <= Len(client.bytes)

(* A connection whose client is gone comes to an end, except one that had  *)
(* to be closed against a window of zero (see StuckClosing).               *)
StuckClosing ==
  sock.st \in Closing /\ sock.rwin = 0 /\ InFlight(sock) = 0

SilentEnds == silent ~> (~Open \/ StuckClosing)

(* The socket as MyTCPTask sees it. *)
S == INSTANCE Socket WITH
  tcp <- IF sock.st \in {"fin_wait_1", "fin_wait_2", "closing"} THEN "fin_wait" ELSE sock.st,
  rx <- sock.unread

IsSocket == S!Spec

(* "These states will close themselves after some delay" (TCP.c:918, of    *)
(* these three): they do, when the client is gone.                         *)
ClosesItself ==
  (silent /\ sock.st \in {"fin_wait_1", "fin_wait_2", "last_ack"}) ~> ~Open
=============================================================================
