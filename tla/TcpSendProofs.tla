--------------------------- MODULE TcpSendProofs ---------------------------
(***************************************************************************)
(* Proofs about TcpSend, for every size of the buffer and of a segment,    *)
(* every number of bytes and every window: whatever is lost, sent again or *)
(* acknowledged late, the client gets what was put, in order and whole.    *)
(***************************************************************************)
EXTENDS TcpSend, SequenceTheorems, WellFoundedInduction, TLAPS

(* What holds of a handler's work x between two of its steps, when p bytes *)
(* have been put: the socket and the client are of their types, ...        *)
Works == [k : Socket, c : Client]

(* ... the client has a prefix of the bytes, and the end only with all, ...*)
Whole(c, p) ==
  /\ Len(c.bytes) <= p
  /\ c.fin => Len(c.bytes) = p
  /\ \A j \in DOMAIN c.bytes : c.bytes[j] = j - 1

(* ... the ring holds what follows, from a byte on that the client has or  *)
(* is to get next, with the timer on for what is in flight.                *)
Base(k) == k.seq - InFlight(k)

Ring(k, p) ==
  /\ Position(k) = p
  /\ InFlight(k) + Unsent(k) < Cells
  /\ \A j \in 0 .. Cells - 1 :
       j < InFlight(k) + Unsent(k) => k.buf[On(k.tail, j)] = Base(k) + j

Linked(k, c) ==
  /\ 0 <= Base(k) /\ Base(k) <= Len(c.bytes)
  /\ InFlight(k) > 0 => k.timer

Good(x, p) == x \in Works /\ Whole(x.c, p) /\ Ring(x.k, p) /\ Linked(x.k, x.c)

(* And at its end: as long as bytes may be put there has been no FIN.      *)
NoFinYet(k, c) == k.st \in {"established", "close_wait"} => ~k.txfin /\ ~c.fin

Settled(x, p) ==
  /\ x \in Works /\ Whole(x.c, p)
  /\ x.k.st # "listen" => Good(x, p) /\ NoFinYet(x.k, x.c)

Now == [k |-> sock, c |-> client]

IInv == TypeOK /\ Settled(Now, put)

-----------------------------------------------------------------------------
(* The circle of cells.                                                    *)
LEMMA OnCell ==
  ASSUME NEW p \in Cell, NEW n \in 0 .. Cells
  PROVE  On(p, n) \in Cell
BY SizesAssumption DEF On, Cell

LEMMA AheadRange ==
  ASSUME NEW p \in Cell, NEW q \in Cell
  PROVE  /\ Ahead(p, q) \in 0 .. Cells - 1
         /\ On(q, Ahead(p, q)) = p
         /\ Ahead(p, q) = 0 <=> p = q
BY SizesAssumption DEF On, Ahead, Cell

LEMMA AheadOn ==
  ASSUME NEW p \in Cell, NEW n \in 0 .. Cells - 1
  PROVE  Ahead(On(p, n), p) = n
BY SizesAssumption DEF On, Ahead, Cell

LEMMA OnOn ==
  ASSUME NEW p \in Cell, NEW a \in 0 .. Cells - 1, NEW b \in 0 .. Cells - 1,
         a + b < Cells
  PROVE  On(On(p, a), b) = On(p, a + b)
BY SizesAssumption DEF On, Cell

(* A pointer moved n cells on towards another.                             *)
LEMMA AheadMoved ==
  ASSUME NEW p \in Cell, NEW q \in Cell, NEW n \in 0 .. Ahead(p, q)
  PROVE  /\ On(q, n) \in Cell
         /\ Ahead(p, On(q, n)) = Ahead(p, q) - n
BY SizesAssumption DEF On, Ahead, Cell

LEMMA AheadAdded ==
  ASSUME NEW p \in Cell, NEW q \in Cell, NEW n \in 0 .. Cells - 1,
         Ahead(p, q) + n < Cells
  PROVE  /\ On(p, n) \in Cell
         /\ Ahead(On(p, n), q) = Ahead(p, q) + n
BY SizesAssumption DEF On, Ahead, Cell

LEMMA AheadCell ==
  ASSUME NEW p \in Cell, NEW q \in Cell, NEW j \in 0 .. Cells - 1
  PROVE  Ahead(On(q, j), p) = IF j >= Ahead(p, q) THEN j - Ahead(p, q)
                                                  ELSE Cells + j - Ahead(p, q)
BY SizesAssumption DEF On, Ahead, Cell

LEMMA AheadSum ==
  ASSUME NEW h \in Cell, NEW u \in Cell, NEW t \in Cell,
         Ahead(u, t) + Ahead(h, u) < Cells
  PROVE  Ahead(h, t) = Ahead(u, t) + Ahead(h, u)
BY SizesAssumption DEF Ahead, Cell

-----------------------------------------------------------------------------
(* SendTCP. How much it may send, and with what.                           *)
LEMMA Lengths ==
  ASSUME NEW k \in Socket, NEW flag
  PROVE  /\ Unsent(k) \in 0 .. Cells - 1 /\ InFlight(k) \in 0 .. Cells - 1
         /\ LengthOf(k, flag) \in 0 .. Unsent(k)
         /\ LengthOf(k, flag) <= k.rwin
         /\ WithFin(k, flag) \in BOOLEAN
         /\ WithFin(k, flag) => LengthOf(k, flag) = Unsent(k)
<1>1. Unsent(k) \in 0 .. Cells - 1 /\ InFlight(k) \in 0 .. Cells - 1
  BY AheadRange DEF Socket, Unsent, InFlight
<1>2. k.rwin \in 0 .. Word - 1
  BY DEF Socket
<1>3. QED
  BY <1>1, <1>2, SizesAssumption DEF LengthOf, WithFin, Least

LEMMA SendTyped ==
  ASSUME NEW k \in Socket, NEW flag, NEW how,
         k.seq + LengthOf(k, flag) <= Total,
         how = "alive" => k.alive < MaxAlive
  PROVE  SendTCP(k, flag, how) \in Socket
<1> DEFINE n == LengthOf(k, flag)
<1>1. n \in 0 .. Cells - 1 /\ n <= k.rwin /\ WithFin(k, flag) \in BOOLEAN
  BY Lengths, SizesAssumption
<1>2. On(k.unacked, n) \in Cell
  BY <1>1, OnCell, SizesAssumption DEF Socket
<1>3. k.seq + n \in 0 .. Total /\ k.rwin - n \in 0 .. Word - 1
  BY <1>1, SizesAssumption DEF Socket
<1>4. RetriesAfter(k, flag, how) \in 0 .. MaxRetries
  BY SizesAssumption DEF RetriesAfter, Socket
<1>5. (IF Keepalive(k, flag, how) THEN k.alive + 1 ELSE k.alive) \in 0 .. MaxAlive
  BY SizesAssumption DEF Keepalive, Socket
<1>6. TooMuch(k, flag) \in BOOLEAN
  BY DEF TooMuch
<1>7. /\ (k.txfin \/ flag = "FIN") \in BOOLEAN
      /\ (k.timer \/ n > 0 \/ WithFin(k, flag)) \in BOOLEAN
      /\ (k.finsent \/ WithFin(k, flag)) \in BOOLEAN
  OBVIOUS
<1> DEFINE f == k.txfin \/ flag = "FIN"
           t == k.timer \/ n > 0 \/ WithFin(k, flag)
           g == k.finsent \/ WithFin(k, flag)
           m == TooMuch(k, flag)
           u == On(k.unacked, n)
           s == k.seq + n
           w == k.rwin - n
           r == RetriesAfter(k, flag, how)
           a == IF Keepalive(k, flag, how) THEN k.alive + 1 ELSE k.alive
<1>8. SendTCP(k, flag, how)
        = [k EXCEPT !.txfin = f, !.asap = FALSE, !.asapnr = m, !.half = FALSE,
                    !.ackdue = FALSE, !.unacked = u, !.seq = s, !.rwin = w, !.timer = t,
                    !.retry = r, !.alive = a, !.finsent = g]
  BY Zenon DEF SendTCP
<1> HIDE DEF f, t, g, m, u, s, w, r, a
<1>9. f \in BOOLEAN /\ g \in BOOLEAN /\ t \in BOOLEAN /\ m \in BOOLEAN
  BY <1>6, <1>7 DEF f, g, t, m
<1>10. /\ u \in Cell /\ s \in 0 .. Total /\ w \in 0 .. Word - 1
       /\ r \in 0 .. MaxRetries /\ a \in 0 .. MaxAlive
  BY <1>2, <1>3, <1>4, <1>5 DEF u, s, w, r, a
<1>11. [k EXCEPT !.txfin = f, !.asap = FALSE, !.asapnr = m, !.half = FALSE,
                 !.ackdue = FALSE, !.unacked = u, !.seq = s, !.rwin = w, !.timer = t,
                 !.retry = r, !.alive = a, !.finsent = g] \in Socket
  BY <1>9, <1>10 DEF Socket
<1>12. QED
  BY <1>8, <1>11

(* What it changes, and what it leaves alone.                              *)
LEMMA SendFields ==
  ASSUME NEW k \in Socket, NEW flag, NEW how
  PROVE  LET n == LengthOf(k, flag)
             l == SendTCP(k, flag, how)
         IN /\ l.unacked = On(k.unacked, n) /\ l.seq = k.seq + n /\ l.rwin = k.rwin - n
            /\ l.head = k.head /\ l.tail = k.tail /\ l.buf = k.buf
            /\ l.st = k.st /\ l.unread = k.unread
            /\ l.timer <=> k.timer \/ n > 0 \/ WithFin(k, flag)
            /\ l.txfin <=> k.txfin \/ flag = "FIN"
BY DEF SendTCP, Socket

LEMMA SendRing ==
  ASSUME NEW k \in Socket, NEW p \in 0 .. Total, Ring(k, p), NEW flag, NEW how,
         how = "alive" => k.alive < MaxAlive
  PROVE  LET l == SendTCP(k, flag, how)
         IN /\ l \in Socket /\ Ring(l, p) /\ Base(l) = Base(k)
            /\ InFlight(l) = InFlight(k) + LengthOf(k, flag)
            /\ Unsent(l) = Unsent(k) - LengthOf(k, flag)
<1> DEFINE l == SendTCP(k, flag, how)
           n == LengthOf(k, flag)
<1>1. /\ Unsent(k) \in 0 .. Cells - 1 /\ InFlight(k) \in 0 .. Cells - 1
      /\ n \in 0 .. Unsent(k)
  BY Lengths
<1>2. k.seq + Unsent(k) = p /\ InFlight(k) + Unsent(k) < Cells
  BY DEF Ring, Position
<1>3. k.seq \in 0 .. Total /\ k.head \in Cell /\ k.unacked \in Cell /\ k.tail \in Cell
  BY DEF Socket
<1>4. l \in Socket
  BY <1>1, <1>2, <1>3, SendTyped, SizesAssumption
<1>5. /\ l.unacked = On(k.unacked, n) /\ l.seq = k.seq + n
      /\ l.head = k.head /\ l.tail = k.tail /\ l.buf = k.buf
  BY SendFields
<1> HIDE DEF l, n
<1>6. Unsent(l) = Unsent(k) - n
  BY <1>1, <1>3, <1>5, AheadMoved DEF Unsent
<1>7. InFlight(l) = InFlight(k) + n
  BY <1>1, <1>2, <1>3, <1>5, AheadAdded, SizesAssumption DEF InFlight
<1>8. Base(l) = Base(k)
  BY <1>1, <1>3, <1>5, <1>7 DEF Base
<1>9. Ring(l, p)
  <2>1. Position(l) = p
    BY <1>1, <1>2, <1>3, <1>5, <1>6 DEF Position
  <2>2. InFlight(l) + Unsent(l) = InFlight(k) + Unsent(k)
    BY <1>1, <1>6, <1>7
  <2>3. QED
    BY <2>1, <2>2, <1>2, <1>5, <1>8 DEF Ring
<1>10. QED
  BY <1>4, <1>6, <1>7, <1>8, <1>9 DEF l, n

(* A segment with data has the bytes from its number on, and a FIN only    *)
(* behind the last that was put. The byte of a keep-alive is an old one.   *)
LEMMA SegmentBytes ==
  ASSUME NEW k \in Socket, NEW p \in 0 .. Total, Ring(k, p), NEW flag, NEW how
  PROVE  LET g == SegmentOf(k, flag, how)
         IN /\ g.bytes \in Seq(Int) /\ g.seq \in Int
            /\ g.fin <=> WithFin(k, flag)
            /\ g.rst <=> flag = "RST"
            /\ ~Keepalive(k, flag, how) =>
                 /\ g.seq = k.seq /\ Len(g.bytes) = LengthOf(k, flag)
                 /\ \A j \in 1 .. Len(g.bytes) : g.bytes[j] = g.seq + j - 1
                 /\ g.seq + Len(g.bytes) <= p
                 /\ g.fin => g.seq + Len(g.bytes) = p
            /\ Keepalive(k, flag, how) =>
                 g.seq = k.seq - 1 /\ Len(g.bytes) = 1 /\ ~g.fin
<1> DEFINE g == SegmentOf(k, flag, how)
           n == LengthOf(k, flag)
           data == [j \in 1 .. n |-> k.buf[On(k.unacked, j - 1)]]
<1>1. /\ Unsent(k) \in 0 .. Cells - 1 /\ InFlight(k) \in 0 .. Cells - 1
      /\ n \in 0 .. Unsent(k)
      /\ WithFin(k, flag) => n = Unsent(k)
  BY Lengths
<1>2. k.seq + Unsent(k) = p /\ InFlight(k) + Unsent(k) < Cells
  BY DEF Ring, Position
<1>3. k.seq \in 0 .. Total /\ k.head \in Cell /\ k.unacked \in Cell /\ k.tail \in Cell
      /\ k.buf \in [Cell -> Garbage .. Total - 1]
  BY DEF Socket
<1>4. g = [seq |-> IF Keepalive(k, flag, how) THEN k.seq - 1 ELSE k.seq,
           bytes |-> IF Keepalive(k, flag, how) THEN <<Garbage>> ELSE data,
           fin |-> WithFin(k, flag), rst |-> flag = "RST"]
  BY Zenon DEF SegmentOf
<1>5. ASSUME NEW j \in 1 .. n
      PROVE  k.buf[On(k.unacked, j - 1)] = k.seq + j - 1
  <2> DEFINE i == InFlight(k) + j - 1
  <2>1. i \in 0 .. Cells - 1 /\ i < InFlight(k) + Unsent(k)
        /\ InFlight(k) + (j - 1) < Cells /\ j - 1 \in 0 .. Cells - 1
    BY <1>1, <1>2, SizesAssumption
  <2>2. k.buf[On(k.tail, i)] = Base(k) + i
    BY <2>1 DEF Ring
  <2>3. On(k.tail, InFlight(k)) = k.unacked
    BY <1>3, AheadRange DEF InFlight
  <2>4. On(k.unacked, j - 1) = On(k.tail, i)
    <3>1. On(On(k.tail, InFlight(k)), j - 1) = On(k.tail, InFlight(k) + (j - 1))
      BY <1>1, <1>3, <2>1, OnOn
    <3>2. QED
      BY <2>3, <3>1, <1>1
  <2>5. QED
    BY <2>2, <2>4, <1>1, <1>3 DEF Base
<1>6. data \in Seq(Int) /\ Len(data) = n
  <2>1. \A j \in 1 .. n : k.seq + j - 1 \in Int
    BY <1>1, <1>3
  <2>2. data = [j \in 1 .. n |-> k.seq + j - 1]
    BY <1>5
  <2>3. QED
    BY <2>1, <2>2, <1>1
<1>7. \A j \in 1 .. n : data[j] = k.seq + j - 1
  BY <1>5
<1> HIDE DEF data, n, g
<1>8. CASE Keepalive(k, flag, how)
  <2>1. ~WithFin(k, flag)
    BY <1>8 DEF Keepalive
  <2>2. g.seq = k.seq - 1 /\ g.bytes = <<Garbage>> /\ ~g.fin
        /\ (g.rst <=> flag = "RST")
    BY <1>4, <1>8, <2>1
  <2>3. g.bytes \in Seq(Int) /\ Len(g.bytes) = 1 /\ g.seq \in Int
    BY <1>3, <2>2 DEF Garbage
  <2>4. QED
    BY <1>8, <2>1, <2>2, <2>3 DEF g
<1>9. CASE ~Keepalive(k, flag, how)
  <2>1. g.seq = k.seq /\ g.bytes = data /\ (g.fin <=> WithFin(k, flag))
        /\ (g.rst <=> flag = "RST")
    BY <1>4, <1>9
  <2>2. k.seq + n <= p /\ (WithFin(k, flag) => k.seq + n = p)
    BY <1>1, <1>2, <1>3
  <2>3. g.bytes \in Seq(Int) /\ g.seq \in Int /\ Len(g.bytes) = n
    BY <1>3, <1>6, <2>1
  <2>4. \A j \in 1 .. Len(g.bytes) : g.bytes[j] = g.seq + j - 1
    BY <1>7, <2>1, <2>3
  <2>5. g.seq + Len(g.bytes) <= p /\ (g.fin => g.seq + Len(g.bytes) = p)
    BY <2>1, <2>2, <2>3
  <2>6. QED
    BY <1>9, <2>1, <2>3, <2>4, <2>5 DEF g, n
<1>10. QED
  BY <1>8, <1>9

(* Behind the bytes it has, the client takes those of a segment that       *)
(* follow: the segment has the bytes from its number on, or old ones.      *)
Follows(g, have, p) ==
  \/ /\ \A j \in 1 .. Len(g.bytes) : g.bytes[j] = g.seq + j - 1
     /\ g.seq + Len(g.bytes) <= p
     /\ g.fin => g.seq + Len(g.bytes) = p
  \/ ~g.fin /\ Len(g.bytes) < have - g.seq + 1

LEMMA BytesTaken ==
  ASSUME NEW g, g.bytes \in Seq(Int), g.seq \in Int,
         NEW have \in Nat, NEW p \in Nat, have <= p, Follows(g, have, p)
  PROVE  LET new == NewBytes(g, have)
         IN /\ new \in Seq(Int)
            /\ \A j \in 1 .. Len(new) : new[j] = have + j - 1
            /\ have + Len(new) <= p
            /\ g.fin /\ g.seq + Len(g.bytes) = have + Len(new) => have + Len(new) = p
<1> DEFINE b == g.bytes
           q == g.seq
           len == Len(b)
           new == NewBytes(g, have)
<1>1. len \in Nat /\ q \in Int /\ b \in Seq(Int)
  OBVIOUS
<1>2. new = IF q <= have THEN SubSeq(b, have - q + 1, len) ELSE << >>
  BY DEF NewBytes
<1>3. \/ /\ \A j \in 1 .. len : b[j] = q + j - 1
         /\ q + len <= p
         /\ g.fin => q + len = p
      \/ ~g.fin /\ len < have - q + 1
  BY DEF Follows
<1> SUFFICES /\ new \in Seq(Int)
             /\ \A j \in 1 .. Len(new) : new[j] = have + j - 1
             /\ have + Len(new) <= p
             /\ g.fin /\ q + len = have + Len(new) => have + Len(new) = p
  OBVIOUS
<1> HIDE DEF b, q, len, new
<1>4. CASE q > have \/ have - q + 1 > len
  <2>1. new = << >>
    BY <1>1, <1>2, <1>4, SubSeqEmpty
  <2>2. new \in Seq(Int) /\ Len(new) = 0
    BY <2>1
  <2>3. g.fin /\ q + len = have => have = p
    BY <1>1, <1>3
  <2>4. QED
    BY <2>2, <2>3
<1>5. CASE q <= have /\ have - q + 1 <= len
  <2>1. have - q + 1 \in 1 .. len
    BY <1>1, <1>5
  <2>2. /\ \A j \in 1 .. len : b[j] = q + j - 1
        /\ q + len <= p
        /\ g.fin => q + len = p
    <3>1. ~(len < have - q + 1)
      BY <1>1, <1>5
    <3>2. QED
      BY <1>3, <3>1
  <2>3. new = SubSeq(b, have - q + 1, len)
    BY <1>2, <1>5
  <2>4. /\ new \in Seq(Int) /\ Len(new) = len - (have - q)
        /\ \A j \in 1 .. Len(new) : new[j] = b[have - q + j]
    <3>1. \A i \in have - q + 1 .. len : b[i] \in Int
      BY <1>1, <2>1 DEF len
    <3>2. QED
      BY <1>1, <2>1, <2>3, <3>1, SubSeqProperties
  <2>5. ASSUME NEW j \in 1 .. Len(new)
        PROVE  new[j] = have + j - 1
    <3>1. have - q + j \in 1 .. len
      BY <1>1, <2>1, <2>4
    <3>2. QED
      BY <1>1, <2>2, <2>4, <3>1
  <2>6. QED
    BY <1>1, <2>2, <2>4, <2>5
<1>6. QED
  BY <1>1, <1>4, <1>5

LEMMA SeqOf ==
  ASSUME NEW A, NEW T, NEW s \in Seq(T), \A j \in 1 .. Len(s) : s[j] \in A
  PROVE  s \in Seq(A)
OBVIOUS

(* What the client has stays a prefix of what was put.                     *)
LEMMA ReceivedWhole ==
  ASSUME NEW c \in Client, NEW p \in 0 .. Total, Whole(c, p), NEW g,
         g.bytes \in Seq(Int), g.seq \in Int, g.fin \in BOOLEAN,
         Follows(g, Len(c.bytes), p)
  PROVE  LET d == Received(c, g)
         IN /\ d \in Client /\ Whole(d, p) /\ Len(c.bytes) <= Len(d.bytes)
            /\ d.fin => c.fin \/ g.fin
<1> DEFINE have == Len(c.bytes)
           len == Len(g.bytes)
           new == NewBytes(g, have)
           d == Received(c, g)
<1>1. c.bytes \in Seq(Garbage .. Total - 1) /\ have \in Nat /\ len \in Nat
      /\ c.fin \in BOOLEAN /\ c.rst \in BOOLEAN
  BY DEF Client
<1>2. have <= p /\ (c.fin => have = p) /\ \A j \in 1 .. have : c.bytes[j] = j - 1
  BY <1>1 DEF Whole
<1>3. d = CASE g.rst -> [c EXCEPT !.rst = TRUE]
            [] ~g.rst /\ (c.fin \/ c.rst) -> c
            [] OTHER -> [c EXCEPT !.bytes = @ \o new,
                                  !.fin = g.fin /\ g.seq + len = have + Len(new)]
  BY DEF Received
<1>4. /\ new \in Seq(Int)
      /\ \A j \in 1 .. Len(new) : new[j] = have + j - 1
      /\ have + Len(new) <= p
      /\ g.fin /\ g.seq + len = have + Len(new) => have + Len(new) = p
  <2>1. have <= p /\ p \in Nat
    BY <1>2, SizesAssumption
  <2>2. QED
    BY <1>1, <2>1, BytesTaken
<1> HIDE DEF new, d, have, len
<1>5. CASE g.rst
  <2>1. d \in Client /\ d.bytes = c.bytes /\ d.fin = c.fin
    BY <1>3, <1>5 DEF Client
  <2>2. QED
    BY <1>1, <1>2, <2>1 DEF Whole, d
<1>6. CASE ~g.rst /\ (c.fin \/ c.rst)
  <2>1. d = c
    BY <1>3, <1>6
  <2>2. QED
    BY <1>1, <2>1 DEF d
<1>7. CASE ~g.rst /\ ~(c.fin \/ c.rst)
  <2> DEFINE f == g.fin /\ g.seq + len = have + Len(new)
             b == c.bytes \o new
  <2>1. d = [c EXCEPT !.bytes = b, !.fin = f]
    BY <1>3, <1>7
  <2>2. /\ Len(b) = have + Len(new) /\ b \in Seq(Int)
        /\ \A j \in 1 .. Len(b) : b[j] = IF j <= have THEN c.bytes[j] ELSE new[j - have]
    <3>1. c.bytes \in Seq(Int)
      BY <1>1, SizesAssumption DEF Garbage
    <3>2. QED
      BY <1>4, <3>1, ConcatProperties DEF have
  <2>5. f \in BOOLEAN
    OBVIOUS
  <2> HIDE DEF f, b
  <2>3. \A j \in 1 .. Len(b) : b[j] = j - 1
    <3>1. ASSUME NEW j \in 1 .. Len(b)
          PROVE  b[j] = j - 1
      <4>1. CASE j <= have
        BY <1>1, <1>2, <2>2, <4>1 DEF have
      <4>2. CASE j > have
        <5>1. j - have \in 1 .. Len(new)
          BY <1>1, <1>4, <2>2, <4>2
        <5>2. b[j] = new[j - have]
          BY <1>1, <2>2, <4>2
        <5>3. QED
          BY <1>1, <1>4, <5>1, <5>2
      <4>3. QED
        BY <1>1, <4>1, <4>2
    <3>2. QED
      BY <3>1
  <2>4. b \in Seq(Garbage .. Total - 1)
    <3>1. Len(b) <= Total
      BY <1>4, <2>2, SizesAssumption
    <3>2. \A j \in 1 .. Len(b) : b[j] \in Garbage .. Total - 1
      BY <2>2, <2>3, <3>1, SizesAssumption DEF Garbage
    <3>3. QED
      BY <2>2, <3>2, SeqOf
  <2>6. f => g.fin /\ Len(b) = p
    BY <1>4, <2>2 DEF f
  <2>7. d \in Client /\ d.bytes = b /\ d.fin = f
    BY <2>1, <2>4, <2>5 DEF Client
  <2>8. Whole(d, p)
    BY <1>1, <1>4, <2>2, <2>3, <2>6, <2>7 DEF Whole
  <2>9. Len(c.bytes) <= Len(b)
    BY <1>1, <1>4, <2>2 DEF have
  <2>10. QED
    BY <2>6, <2>7, <2>8, <2>9 DEF d
<1>8. QED
  BY <1>5, <1>6, <1>7

-----------------------------------------------------------------------------
(* One step of a handler. A work y comes of x when the segment is sent.    *)
LEMMA SendOf ==
  ASSUME NEW X, NEW flag, NEW how, NEW y \in Send(X, flag, how)
  PROVE  \E x \in X : /\ y = [k |-> SendTCP(x.k, flag, how), c |-> y.c]
                       /\ y.c \in {x.c, Received(x.c, SegmentOf(x.k, flag, how))}
BY DEF Send, Arrives

(* A FIN is in a segment only if one was asked for, then or before.        *)
LEMMA SendGood ==
  ASSUME NEW p \in 0 .. Total, NEW x, Good(x, p), NEW flag, NEW how,
         how = "alive" => x.k.alive < MaxAlive /\ InFlight(x.k) = 0,
         NEW y \in Send({x}, flag, how)
  PROVE  /\ Good(y, p)
         /\ y.k.st = x.k.st /\ y.k.unread = x.k.unread
         /\ flag # "FIN" => (y.k.txfin <=> x.k.txfin)
         /\ flag # "FIN" /\ ~x.k.txfin => (y.c.fin => x.c.fin)
         /\ InFlight(y.k) + Unsent(y.k) = InFlight(x.k) + Unsent(x.k)
<1> DEFINE k == x.k
           g == SegmentOf(k, flag, how)
           l == SendTCP(k, flag, how)
<1>1. /\ k \in Socket /\ x.c \in Client /\ Whole(x.c, p) /\ Ring(k, p) /\ Linked(k, x.c)
  BY DEF Good, Works
<1>2. y.k = l /\ y.c \in {x.c, Received(x.c, g)} /\ y = [k |-> y.k, c |-> y.c]
  BY SendOf
<1>3. /\ l \in Socket /\ Ring(l, p) /\ Base(l) = Base(k)
      /\ InFlight(l) = InFlight(k) + LengthOf(k, flag)
      /\ Unsent(l) = Unsent(k) - LengthOf(k, flag)
  BY <1>1, SendRing
<1>4. /\ l.st = k.st /\ l.unread = k.unread
      /\ l.timer <=> k.timer \/ LengthOf(k, flag) > 0 \/ WithFin(k, flag)
      /\ l.txfin <=> k.txfin \/ flag = "FIN"
  BY <1>1, SendFields
<1>5. /\ LengthOf(k, flag) \in 0 .. Unsent(k) /\ Unsent(k) \in 0 .. Cells - 1
      /\ InFlight(k) \in 0 .. Cells - 1
  BY <1>1, Lengths
<1>6. WithFin(k, flag) => flag = "FIN" \/ k.txfin
  BY DEF WithFin
<1>7. k.seq \in Int /\ Len(x.c.bytes) \in Nat
  BY <1>1 DEF Socket, Client
<1>8. Base(k) \in Int /\ 0 <= Base(k) /\ Base(k) <= Len(x.c.bytes)
      /\ (InFlight(k) > 0 => k.timer)
  BY <1>1, <1>5, <1>7 DEF Linked, Base
<1>9. /\ g.bytes \in Seq(Int) /\ g.seq \in Int /\ g.fin \in BOOLEAN
      /\ g.fin <=> WithFin(k, flag)
      /\ Follows(g, Len(x.c.bytes), p)
  <2>1. /\ g.bytes \in Seq(Int) /\ g.seq \in Int
        /\ g.fin <=> WithFin(k, flag)
        /\ ~Keepalive(k, flag, how) =>
             /\ g.seq = k.seq /\ Len(g.bytes) = LengthOf(k, flag)
             /\ \A j \in 1 .. Len(g.bytes) : g.bytes[j] = g.seq + j - 1
             /\ g.seq + Len(g.bytes) <= p
             /\ g.fin => g.seq + Len(g.bytes) = p
        /\ Keepalive(k, flag, how) =>
             g.seq = k.seq - 1 /\ Len(g.bytes) = 1 /\ ~g.fin
    BY <1>1, SegmentBytes
  <2>2. g.fin \in BOOLEAN
    BY DEF SegmentOf, WithFin
  <2>3. Keepalive(k, flag, how) => k.seq = Base(k)
    BY <1>7 DEF Keepalive, Base
  <2> HIDE DEF g
  <2>4. Keepalive(k, flag, how) => Len(g.bytes) < Len(x.c.bytes) - g.seq + 1
    <3>1. SUFFICES ASSUME Keepalive(k, flag, how)
                   PROVE  Len(g.bytes) < Len(x.c.bytes) - g.seq + 1
      OBVIOUS
    <3>2. g.seq = k.seq - 1 /\ Len(g.bytes) = 1 /\ k.seq <= Len(x.c.bytes)
      BY <1>8, <2>1, <2>3, <3>1
    <3>3. QED
      BY <1>7, <3>2
  <2>5. QED
    BY <2>1, <2>2, <2>4 DEF Follows
<1> HIDE DEF g, l
<1>10. LET d == Received(x.c, g)
       IN /\ d \in Client /\ Whole(d, p) /\ Len(x.c.bytes) <= Len(d.bytes)
          /\ d.fin => x.c.fin \/ g.fin
  BY <1>1, <1>9, ReceivedWhole
<1>11. /\ y.c \in Client /\ Whole(y.c, p) /\ Len(x.c.bytes) <= Len(y.c.bytes)
       /\ y.c.fin => x.c.fin \/ g.fin
  BY <1>1, <1>2, <1>7, <1>10
<1>12. Len(y.c.bytes) \in Nat
  BY <1>11 DEF Client
<1>13. Linked(l, y.c)
  BY <1>3, <1>4, <1>5, <1>7, <1>8, <1>11, <1>12 DEF Linked
<1>14. Good(y, p)
  BY <1>2, <1>3, <1>11, <1>13 DEF Good, Works
<1>15. QED
  BY <1>2, <1>3, <1>4, <1>5, <1>6, <1>9, <1>11, <1>14

LEMMA SendEach ==
  ASSUME NEW X, NEW flag, NEW how, NEW y \in Send(X, flag, how)
  PROVE  \E x \in X : y \in Send({x}, flag, how)
BY DEF Send

(* A reset carries nothing, whatever the ring is like by then.             *)
LEMMA SendReset ==
  ASSUME NEW p \in 0 .. Total, NEW x \in Works, Whole(x.c, p), NEW how, how # "alive",
         NEW y \in Send({x}, "RST", how)
  PROVE  y \in Works /\ Whole(y.c, p)
<1> DEFINE g == SegmentOf(x.k, "RST", how)
<1>1. /\ y = [k |-> SendTCP(x.k, "RST", how), c |-> y.c]
      /\ y.c \in {x.c, Received(x.c, g)}
  BY SendOf
<1>2. x.k \in Socket /\ x.c \in Client
  BY DEF Works
<1>3. SendTCP(x.k, "RST", how) \in Socket
  <2>1. x.k.seq + LengthOf(x.k, "RST") <= Total
    BY <1>2 DEF LengthOf, Socket
  <2>2. QED
    BY <1>2, <2>1, SendTyped
<1>4. Received(x.c, g) = [x.c EXCEPT !.rst = TRUE]
  <2>1. g.rst
    BY DEF SegmentOf
  <2> HIDE DEF g
  <2>2. QED
    BY <2>1 DEF Received
<1>5. LET d == Received(x.c, g)
      IN d \in Client /\ d.bytes = x.c.bytes /\ d.fin = x.c.fin
  BY <1>2, <1>4 DEF Client
<1>6. y.c \in Client /\ y.c.bytes = x.c.bytes /\ y.c.fin = x.c.fin
  BY <1>1, <1>2, <1>5
<1>7. Whole(y.c, p)
  BY <1>6 DEF Whole
<1>8. QED
  BY <1>1, <1>3, <1>6, <1>7 DEF Works

LEMMA SocketClosed ==
  ASSUME NEW k \in Socket
  PROVE  /\ CloseSocket(k) \in Socket
         /\ CloseSocket(k).st = "listen" /\ CloseSocket(k).unread = FALSE
<1> DEFINE zero == 0
           one == 1
           no == FALSE
           listen == "listen"
<1>1. /\ zero \in Cell /\ zero \in 0 .. Total /\ one \in 0 .. Word - 1
      /\ zero \in 0 .. MaxAlive /\ zero \in 0 .. 2 /\ no \in BOOLEAN
      /\ listen \in {"listen", "established", "close_wait"} \cup Closing
  BY SizesAssumption DEF Cell
<1>2. CloseSocket(k) \in Socket
  <2> DEFINE l == [k EXCEPT !.st = listen, !.head = zero, !.unacked = zero, !.tail = zero,
                            !.seq = zero, !.rwin = one, !.timer = no, !.txfin = no,
                            !.finsent = no, !.none = zero, !.asap = no, !.asapnr = no,
                            !.half = no, !.ackdue = no, !.alive = zero, !.peerfin = no,
                            !.unread = no]
  <2>1. CloseSocket(k) = l
    BY DEF CloseSocket
  <2> HIDE DEF zero, one, no, listen
  <2>2. l \in Socket
    BY <1>1 DEF Socket
  <2>3. QED
    BY <2>1, <2>2
<1>3. CloseSocket(k).st = "listen" /\ CloseSocket(k).unread = FALSE
  BY DEF CloseSocket, Socket
<1>4. QED
  BY <1>2, <1>3

LEMMA ClosedSettled ==
  ASSUME NEW p, NEW X, \A x \in X : x \in Works /\ Whole(x.c, p), NEW y \in Closed(X)
  PROVE  Settled(y, p) /\ y.k.st = "listen" /\ y.k.unread = FALSE
<1>1. PICK x \in X : y = [x EXCEPT !.k = CloseSocket(@)]
  BY DEF Closed
<1>2. x \in Works /\ Whole(x.c, p) /\ x.k \in Socket
  BY DEF Works
<1>3. y.k = CloseSocket(x.k) /\ y.c = x.c /\ y \in Works
  BY <1>1, <1>2, SocketClosed DEF Works
<1>4. y.k.st = "listen" /\ y.k.unread = FALSE
  BY <1>2, <1>3, SocketClosed
<1>5. QED
  BY <1>2, <1>3, <1>4 DEF Settled

(* What says nothing about the ring may change.                            *)
LEMMA SameRing ==
  ASSUME NEW p, NEW x, Good(x, p), NEW y \in Works, y.c = x.c,
         y.k.buf = x.k.buf, y.k.head = x.k.head, y.k.unacked = x.k.unacked,
         y.k.tail = x.k.tail, y.k.seq = x.k.seq,
         InFlight(x.k) > 0 => y.k.timer
  PROVE  Good(y, p)
<1>1. Unsent(y.k) = Unsent(x.k) /\ InFlight(y.k) = InFlight(x.k)
  BY DEF Unsent, InFlight
<1>2. Base(y.k) = Base(x.k) /\ Position(y.k) = Position(x.k)
  BY <1>1 DEF Base, Position
<1>3. QED
  BY <1>1, <1>2 DEF Good, Ring, Linked

-----------------------------------------------------------------------------
(* The loop of TCPDisconnect. A recursive function over an interval is     *)
(* what its definition says; there is no least place where it is not.      *)
LEMMA LeastNumber ==
  ASSUME NEW T \in SUBSET Nat, T # {}
  PROVE  \E m \in T : \A n \in T : m <= n
<1> DEFINE Less == {ss \in Nat \X Nat : ss[1] < ss[2]}
<1>1. IsWellFoundedOn(Less, Nat)
  BY NatLessThanWellFounded DEF OpToRel
<1>2. PICK m \in T : \A n \in T : <<n, m>> \notin Less
  <2> HIDE DEF Less
  <2>1. QED
    BY <1>1, WFMin
<1>3. \A n \in T : ~(n < m)
  BY <1>2
<1>4. QED
  BY <1>3

Again(X) ==
  UNION {IF x.k.rwin = 0 \/ Unsent(x.k) = 0 THEN {x} ELSE Send({x}, "FIN", "reset") : x \in X}

IsLoop(f, k, m) ==
  f = [n \in 0 .. m |-> IF n = 0 THEN Send(Start(k), "FIN", "reset") ELSE Again(f[n - 1])]

LEMMA LoopExists ==
  ASSUME NEW k
  PROVE  \A m \in Nat : \E f : IsLoop(f, k, m)
<1> DEFINE First == Send(Start(k), "FIN", "reset")
           Bad == {m \in Nat : ~ \E f : IsLoop(f, k, m)}
<1> SUFFICES ASSUME Bad # {} PROVE FALSE
  OBVIOUS
<1>1. Bad \in SUBSET Nat
  OBVIOUS
<1>2. PICK m \in Bad : \A n \in Bad : m <= n
  <2> HIDE DEF Bad
  <2>1. QED
    BY <1>1, LeastNumber
<1>3. m \in Nat
  BY <1>1
<1>4. m # 0
  <2> SUFFICES ASSUME m = 0 PROVE FALSE
    OBVIOUS
  <2> DEFINE f == [n \in 0 .. 0 |-> First]
  <2> HIDE DEF First
  <2>1. f = [n \in 0 .. 0 |-> IF n = 0 THEN First ELSE Again(f[n - 1])]
    <3>1. \A n \in 0 .. 0 : (IF n = 0 THEN First ELSE Again(f[n - 1])) = First
      OBVIOUS
    <3>2. QED
      BY <3>1
  <2>2. IsLoop(f, k, 0)
    BY <2>1 DEF IsLoop, First
  <2>3. QED
    BY <2>2
<1>5. PICK g : IsLoop(g, k, m - 1)
  <2>1. m - 1 \in Nat /\ m - 1 < m
    BY <1>3, <1>4
  <2>2. m - 1 \notin Bad
    <3> HIDE DEF Bad
    <3>1. QED
      BY <1>2, <1>3, <2>1
  <2>3. QED
    BY <2>1, <2>2
<1> DEFINE f == [n \in 0 .. m |-> IF n = 0 THEN First ELSE Again(g[n - 1])]
<1> HIDE DEF First
<1>6. \A n \in 0 .. m - 1 : f[n] = g[n]
  BY <1>3, <1>4, <1>5 DEF IsLoop, First
<1>7. IsLoop(f, k, m)
  <2>1. \A n \in 0 .. m : n # 0 => f[n - 1] = g[n - 1]
    <3> HIDE DEF f
    <3>1. QED
      BY <1>3, <1>6
  <2>2. [n \in 0 .. m |-> IF n = 0 THEN First ELSE Again(f[n - 1])]
          = [n \in 0 .. m |-> IF n = 0 THEN First ELSE Again(g[n - 1])]
    <3> HIDE DEF f
    <3>1. QED
      BY <2>1
  <2>3. QED
    BY <2>2 DEF IsLoop, First
<1>8. QED
  BY <1>3, <1>7

LEMMA LoopStays ==
  ASSUME NEW k, NEW G, Send(Start(k), "FIN", "reset") \subseteq G,
         \A x \in G : Send({x}, "FIN", "reset") \subseteq G
  PROVE  FinLoop(k) \subseteq G
<1> DEFINE loop == CHOOSE f : IsLoop(f, k, Cells)
<1>1. IsLoop(loop, k, Cells)
  BY LoopExists, SizesAssumption
<1>2. FinLoop(k) = loop[Cells]
  BY DEF FinLoop, IsLoop, Again
<1> HIDE DEF loop
<1> DEFINE Out == {n \in 0 .. Cells : ~(loop[n] \subseteq G)}
<1>3. Out = {}
  <2> SUFFICES ASSUME Out # {} PROVE FALSE
    OBVIOUS
  <2>1. Out \in SUBSET Nat
    BY SizesAssumption
  <2>2. PICK n \in Out : \A j \in Out : n <= j
    <3> HIDE DEF Out
    <3>1. QED
      BY <2>1, LeastNumber
  <2>3. n \in 0 .. Cells
    OBVIOUS
  <2>4. CASE n = 0
    BY <1>1, <2>3, <2>4 DEF IsLoop
  <2>5. CASE n # 0
    <3>1. loop[n] = Again(loop[n - 1])
      BY <1>1, <2>3, <2>5 DEF IsLoop
    <3>2. n - 1 \in 0 .. Cells /\ n - 1 < n
      BY <2>3, <2>5, SizesAssumption
    <3>3. n - 1 \notin Out
      <4> HIDE DEF Out
      <4>1. QED
        BY <2>2, <2>3, <3>2
    <3>4. loop[n - 1] \subseteq G
      BY <3>2, <3>3
    <3>5. Again(loop[n - 1]) \subseteq G
      BY <3>4 DEF Again
    <3>6. QED
      BY <3>1, <3>5
  <2>6. QED
    BY <2>4, <2>5
<1>4. QED
  BY <1>2, <1>3, SizesAssumption

-----------------------------------------------------------------------------
(* An acknowledgement. It is of what the client has, its FIN apart.        *)
Work(k, c) == [k |-> k, c |-> c]

(* What it leaves alone.                                                   *)
Kept(k, l) == l.st = k.st /\ l.unread = k.unread /\ (l.txfin => k.txfin)

LEMMA GoodRing ==
  ASSUME NEW k, NEW c, NEW p \in 0 .. Total, Good(Work(k, c), p)
  PROVE  /\ k \in Socket /\ c \in Client /\ Whole(c, p) /\ Ring(k, p) /\ Linked(k, c)
         /\ k.seq \in 0 .. Total /\ k.head \in Cell /\ k.unacked \in Cell /\ k.tail \in Cell
         /\ Unsent(k) \in 0 .. Cells - 1 /\ InFlight(k) \in 0 .. Cells - 1
         /\ InFlight(k) + Unsent(k) < Cells
         /\ Ahead(k.head, k.tail) = InFlight(k) + Unsent(k)
         /\ Len(c.bytes) \in 0 .. p
         /\ Base(k) \in 0 .. Len(c.bytes)
         /\ k.seq = Base(k) + InFlight(k)
         /\ Base(k) + InFlight(k) + Unsent(k) = p
<1>1. k \in Socket /\ c \in Client /\ Whole(c, p) /\ Ring(k, p) /\ Linked(k, c)
  BY DEF Good, Works, Work
<1>2. k.seq \in 0 .. Total /\ k.head \in Cell /\ k.unacked \in Cell /\ k.tail \in Cell
  BY <1>1 DEF Socket
<1>3. Unsent(k) \in 0 .. Cells - 1 /\ InFlight(k) \in 0 .. Cells - 1
  BY <1>1, Lengths
<1>4. InFlight(k) + Unsent(k) < Cells /\ k.seq + Unsent(k) = p
  BY <1>1 DEF Ring, Position
<1>5. Ahead(k.head, k.tail) = InFlight(k) + Unsent(k)
  BY <1>2, <1>4, AheadSum DEF InFlight, Unsent
<1>6. Len(c.bytes) \in 0 .. p
  BY <1>1 DEF Client, Whole
<1>7. 0 <= Base(k) /\ Base(k) <= Len(c.bytes)
  BY <1>1 DEF Linked
<1>8. Base(k) = k.seq - InFlight(k)
  BY DEF Base
<1>9. QED
  BY <1>1, <1>2, <1>3, <1>4, <1>5, <1>6, <1>7, <1>8

LEMMA AckedBytes ==
  ASSUME NEW k, NEW c, NEW p \in 0 .. Total, Good(Work(k, c), p),
         NEW a \in 0 .. Len(c.bytes) + 1, a = Len(c.bytes) + 1 => c.fin
  PROVE  AckOf(k, a) \in 0 .. Len(c.bytes)
<1>1. k.seq + Unsent(k) = p /\ Len(c.bytes) \in 0 .. p
  BY GoodRing
<1>2. c.fin => Len(c.bytes) = p
  BY GoodRing DEF Whole
<1>3. QED
  BY <1>1, <1>2 DEF AckOf

(* Rolling back moves the unsent data's start to the tail.                 *)
LEMMA RolledBackGood ==
  ASSUME NEW k, NEW c, NEW p \in 0 .. Total, Good(Work(k, c), p)
  PROVE  /\ Good(Work(RolledBack(k), c), p) /\ InFlight(RolledBack(k)) = 0
         /\ Kept(k, RolledBack(k))
<1> DEFINE l == RolledBack(k)
<1>1. l = [k EXCEPT !.seq = Base(k), !.unacked = k.tail]
  BY DEF RolledBack, Base
<1>2. Base(k) \in 0 .. Total /\ k.tail \in Cell
  BY GoodRing, SizesAssumption
<1>3. l \in Socket
  <2>1. k \in Socket
    BY GoodRing
  <2> DEFINE base == Base(k)
  <2>2. base \in 0 .. Total
    BY <1>2
  <2> HIDE DEF base
  <2>3. [k EXCEPT !.seq = base, !.unacked = k.tail] \in Socket
    BY <1>2, <2>1, <2>2 DEF Socket
  <2>4. QED
    BY <1>1, <2>3 DEF base
<1>4. /\ l.seq = Base(k) /\ l.unacked = k.tail /\ l.head = k.head /\ l.tail = k.tail
      /\ l.buf = k.buf /\ l.timer = k.timer
      /\ l.st = k.st /\ l.unread = k.unread /\ l.txfin = k.txfin
  BY <1>1, GoodRing DEF Socket
<1> HIDE DEF l
<1>5. InFlight(l) = 0 /\ Unsent(l) = InFlight(k) + Unsent(k)
  BY <1>4, GoodRing, AheadRange DEF InFlight, Unsent
<1>6. Base(l) = Base(k)
  BY <1>2, <1>4, <1>5 DEF Base
<1>7. Ring(l, p)
  <2>1. Position(l) = p
    BY <1>4, <1>5, GoodRing DEF Position
  <2>2. InFlight(l) + Unsent(l) = InFlight(k) + Unsent(k)
    BY <1>5, GoodRing
  <2>3. Ring(k, p)
    BY GoodRing
  <2>4. QED
    BY <1>4, <1>6, <2>1, <2>2, <2>3 DEF Ring
<1>8. Linked(l, c)
  BY <1>5, <1>6, GoodRing DEF Linked
<1>9. QED
  BY <1>3, <1>4, <1>5, <1>7, <1>8, GoodRing DEF Good, Works, Work, Kept, l

LEMMA FreedGood ==
  ASSUME NEW k, NEW c, NEW p \in 0 .. Total, Good(Work(k, c), p),
         NEW ack \in 0 .. Len(c.bytes), Base(k) < ack
  PROVE  /\ Good(Work(Freed(k, ack - Base(k)), c), p)
         /\ Kept(k, Freed(k, ack - Base(k)))
<1> DEFINE n == ack - Base(k)
           l == Freed(k, n)
           u == IF n > InFlight(k) THEN On(k.tail, n) ELSE k.unacked
           s == IF n > InFlight(k) THEN k.seq + n - InFlight(k) ELSE k.seq
           t == On(k.tail, n)
<1>1. /\ k \in Socket /\ c \in Client /\ Whole(c, p) /\ Ring(k, p) /\ Linked(k, c)
      /\ k.seq \in 0 .. Total /\ k.head \in Cell /\ k.unacked \in Cell /\ k.tail \in Cell
      /\ Unsent(k) \in 0 .. Cells - 1 /\ InFlight(k) \in 0 .. Cells - 1
      /\ InFlight(k) + Unsent(k) < Cells
      /\ Ahead(k.head, k.tail) = InFlight(k) + Unsent(k)
      /\ Len(c.bytes) \in 0 .. p
      /\ Base(k) \in 0 .. Len(c.bytes)
      /\ k.seq = Base(k) + InFlight(k)
      /\ Base(k) + InFlight(k) + Unsent(k) = p
  BY GoodRing
<1>2. n \in 1 .. InFlight(k) + Unsent(k) /\ ack = Base(k) + n
  BY <1>1
<1>3. l = [k EXCEPT !.tail = t, !.none = 0, !.half = FALSE, !.unacked = u, !.seq = s]
  BY DEF Freed
<1> HIDE DEF n, l
<1>4. /\ t \in Cell
      /\ Ahead(k.head, t) = InFlight(k) + Unsent(k) - n
      /\ n <= InFlight(k) => Ahead(k.unacked, t) = InFlight(k) - n
  BY <1>1, <1>2, AheadMoved DEF InFlight
<1> HIDE DEF t
<1>5. u \in Cell /\ s \in 0 .. Total
  <2>1. u \in Cell
    BY <1>1, <1>4 DEF t
  <2>2. CASE n > InFlight(k)
    <3>1. s = ack
      BY <1>1, <1>2, <2>2
    <3>2. ack \in 0 .. Len(c.bytes) /\ Len(c.bytes) \in 0 .. p /\ p \in 0 .. Total /\ Total \in Nat
      BY <1>1, SizesAssumption
    <3>3. ack \in 0 .. Total
      BY <3>2
    <3>4. QED
      BY <2>1, <3>1, <3>3
  <2>3. CASE ~(n > InFlight(k))
    BY <1>1, <2>1, <2>3
  <2>4. QED
    <3> HIDE DEF u, s
    <3>1. QED
      BY <2>1, <2>2, <2>3
<1>6. l \in Socket /\ l.st = k.st /\ l.unread = k.unread /\ l.txfin = k.txfin
  <2> DEFINE zero == 0
             no == FALSE
  <2> HIDE DEF u, s
  <2>1. /\ k \in Socket /\ t \in Cell /\ u \in Cell /\ s \in 0 .. Total
        /\ zero \in 0 .. 2 /\ no \in BOOLEAN
    BY <1>1, <1>4, <1>5
  <2> HIDE DEF zero, no
  <2>2. [k EXCEPT !.tail = t, !.none = zero, !.half = no, !.unacked = u, !.seq = s] \in Socket
    BY <2>1 DEF Socket
  <2>3. l \in Socket
    BY <1>3, <2>2 DEF zero, no
  <2>4. l.st = k.st /\ l.unread = k.unread /\ l.txfin = k.txfin
    BY <1>3, <2>1 DEF Socket
  <2>5. QED
    BY <2>3, <2>4
<1>7. /\ l.seq = s /\ l.unacked = u /\ l.head = k.head /\ l.tail = t
      /\ l.buf = k.buf /\ l.timer = k.timer
  <2> HIDE DEF u, s
  <2>1. QED
    BY <1>1, <1>3 DEF Socket
<1>8. /\ InFlight(l) + Unsent(l) = InFlight(k) + Unsent(k) - n
      /\ Base(l) = ack /\ Position(l) = p
      /\ InFlight(l) > 0 => InFlight(k) > 0
  <2> DEFINE A == InFlight(k)
             B == Unsent(k)
  <2>0. /\ A \in Nat /\ B \in Nat /\ Base(k) \in Nat /\ ack \in Nat /\ n \in 1 .. A + B
        /\ k.seq = Base(k) + A /\ Base(k) + A + B = p /\ ack = Base(k) + n
    BY <1>1, <1>2, SizesAssumption
  <2> HIDE DEF A, B
  <2>1. CASE n > InFlight(k)
    <3>1. u = t /\ s = ack
      BY <1>1, <1>2, <2>1 DEF t
    <3>2. InFlight(l) = 0 /\ Unsent(l) = InFlight(k) + Unsent(k) - n
      BY <1>4, <1>7, <3>1, AheadRange DEF InFlight, Unsent
    <3>3. Base(l) = ack /\ Position(l) = ack + (A + B - n)
      BY <2>0, <1>7, <3>1, <3>2 DEF Base, Position, A, B
    <3>4. QED
      BY <2>0, <3>2, <3>3 DEF A, B
  <2>2. CASE n <= InFlight(k)
    <3>1. u = k.unacked /\ s = k.seq
      BY <1>1, <1>2, <2>2
    <3>2. InFlight(l) = InFlight(k) - n /\ Unsent(l) = Unsent(k)
      BY <1>4, <1>7, <2>2, <3>1 DEF InFlight, Unsent
    <3>3. Base(l) = k.seq - (A - n) /\ Position(l) = k.seq + B
      BY <1>7, <3>1, <3>2 DEF Base, Position, A, B
    <3>4. QED
      BY <2>0, <2>2, <3>2, <3>3 DEF A, B
  <2>3. QED
    BY <1>1, <1>2, <2>1, <2>2
<1>9. Ring(l, p)
  <2>0. /\ InFlight(k) \in Nat /\ Unsent(k) \in Nat /\ InFlight(k) + Unsent(k) < Cells
        /\ n \in 1 .. InFlight(k) + Unsent(k) /\ Cells \in Nat
        /\ InFlight(l) + Unsent(l) = InFlight(k) + Unsent(k) - n
    BY <1>1, <1>2, <1>8, SizesAssumption
  <2>1. ASSUME NEW j \in 0 .. Cells - 1, j < InFlight(l) + Unsent(l)
        PROVE  l.buf[On(l.tail, j)] = Base(l) + j
    <3>1. n + j \in 0 .. Cells - 1 /\ n + j < InFlight(k) + Unsent(k) /\ n \in 0 .. Cells - 1
      BY <2>0, <2>1
    <3>2. k.buf[On(k.tail, n + j)] = Base(k) + (n + j)
      BY <1>1, <3>1 DEF Ring
    <3>3. On(t, j) = On(k.tail, n + j)
      BY <1>1, <3>1, OnOn, SizesAssumption DEF t
    <3>4. QED
      BY <1>1, <1>2, <1>7, <1>8, <3>1, <3>2, <3>3
  <2>2. InFlight(l) + Unsent(l) < Cells
    BY <2>0
  <2>3. QED
    BY <1>8, <2>1, <2>2 DEF Ring
<1>10. Linked(l, c)
  BY <1>1, <1>7, <1>8 DEF Linked
<1>11. QED
  BY <1>1, <1>6, <1>9, <1>10 DEF Good, Works, Work, Kept, l, n

(* A change of what the ring does not depend on.                           *)
LEMMA SameGood ==
  ASSUME NEW k, NEW l \in Socket, NEW c, NEW p, Good(Work(k, c), p),
         l.buf = k.buf, l.head = k.head, l.unacked = k.unacked, l.tail = k.tail,
         l.seq = k.seq, InFlight(k) > 0 => l.timer
  PROVE  Good(Work(l, c), p)
<1>1. Work(l, c) \in Works /\ Work(l, c).k = l /\ Work(l, c).c = c /\ Work(k, c).k = k
      /\ Work(k, c).c = c
  BY DEF Good, Works, Work
<1>2. QED
  BY <1>1, SameRing

LEMMA NothingNewGood ==
  ASSUME NEW k, NEW c, NEW p \in 0 .. Total, Good(Work(k, c), p)
  PROVE  Good(Work(NothingNew(k), c), p) /\ Kept(k, NothingNew(k))
<1>1. InFlight(k) \in 0 .. Cells - 1 /\ k \in Socket
  BY GoodRing
<1>2. CASE InFlight(k) = 0
  <2>1. NothingNew(k) = k
    BY <1>2 DEF NothingNew
  <2>2. QED
    BY <2>1 DEF Kept
<1>3. CASE InFlight(k) > 0 /\ k.none = 2
  <2> DEFINE r == RolledBack(k)
             l == [r EXCEPT !.asapnr = TRUE]
  <2>1. NothingNew(k) = l
    BY <1>3 DEF NothingNew
  <2>2. Good(Work(r, c), p) /\ InFlight(r) = 0 /\ Kept(k, r)
    BY RolledBackGood
  <2> HIDE DEF r
  <2>3. r \in Socket
    BY <2>2, GoodRing
  <2>4. l \in Socket /\ Kept(r, l)
    BY <2>3 DEF Socket, Kept
  <2>5. Good(Work(l, c), p)
    <3>1. /\ l.buf = r.buf /\ l.head = r.head /\ l.unacked = r.unacked
          /\ l.tail = r.tail /\ l.seq = r.seq
      BY <2>3 DEF Socket
    <3> HIDE DEF l
    <3>2. QED
      BY <2>2, <2>4, <3>1, SameGood
  <2>6. QED
    BY <2>1, <2>2, <2>4, <2>5 DEF Kept
<1>4. CASE InFlight(k) > 0 /\ k.none # 2
  <2> DEFINE m == k.none + 1
             l == [k EXCEPT !.none = m]
  <2>1. NothingNew(k) = l
    BY <1>1, <1>4, SizesAssumption DEF NothingNew
  <2>2. m \in 0 .. 2
    BY <1>1, <1>4 DEF Socket
  <2> HIDE DEF m
  <2>3. l \in Socket /\ Kept(k, l)
    BY <1>1, <2>2 DEF Socket, Kept
  <2>4. Good(Work(l, c), p)
    <3>1. /\ l.buf = k.buf /\ l.head = k.head /\ l.unacked = k.unacked
          /\ l.tail = k.tail /\ l.seq = k.seq /\ l.timer = k.timer
      BY <1>1 DEF Socket
    <3>2. InFlight(k) > 0 => k.timer
      BY GoodRing DEF Linked
    <3> HIDE DEF l
    <3>3. QED
      BY <2>3, <3>1, <3>2, SameGood
  <2>5. QED
    BY <2>1, <2>3, <2>4
<1>5. QED
  BY <1>1, <1>2, <1>3, <1>4, SizesAssumption

LEMMA BytesGood ==
  ASSUME NEW k, NEW c, NEW p \in 0 .. Total, Good(Work(k, c), p),
         NEW ack \in 0 .. Len(c.bytes)
  PROVE  Good(Work(Bytes(k, ack), c), p) /\ Kept(k, Bytes(k, ack))
<1>1. CASE Bytes(k, ack) = NothingNew(k)
  BY <1>1, NothingNewGood
<1>2. CASE Bytes(k, ack) = Freed(k, ack - Base(k)) /\ Base(k) < ack
  BY <1>2, FreedGood
<1>3. \/ Bytes(k, ack) = NothingNew(k)
      \/ Bytes(k, ack) = Freed(k, ack - Base(k)) /\ ack - Base(k) > 0
  BY DEF Bytes, Base
<1>4. Base(k) \in Int /\ ack \in Int
  BY GoodRing
<1>5. QED
  BY <1>1, <1>2, <1>3, <1>4

(* The timer goes off only with nothing in flight.                         *)
LEMMA TimerOffGood ==
  ASSUME NEW k, NEW c, NEW p \in 0 .. Total, Good(Work(k, c), p), NEW ack
  PROVE  Good(Work(TimerOff(k, ack), c), p) /\ Kept(k, TimerOff(k, ack))
<1> DEFINE l == TimerOff(k, ack)
<1>1. k \in Socket /\ InFlight(k) \in 0 .. Cells - 1 /\ Unsent(k) \in 0 .. Cells - 1
      /\ k.head \in Cell /\ k.tail \in Cell /\ Ahead(k.head, k.tail) = InFlight(k) + Unsent(k)
  BY GoodRing
<1>2. \/ l = k
      \/ k.head = k.tail /\ l = [k EXCEPT !.timer = FALSE]
      \/ k.head = k.tail /\ l = [k EXCEPT !.timer = FALSE, !.txfin = FALSE]
  BY DEF TimerOff
<1>3. k.head = k.tail => InFlight(k) = 0
  BY <1>1, AheadRange, SizesAssumption
<1>4. l \in Socket /\ Kept(k, l)
  BY <1>1, <1>2 DEF Socket, Kept
<1>5. /\ l.buf = k.buf /\ l.head = k.head /\ l.unacked = k.unacked
      /\ l.tail = k.tail /\ l.seq = k.seq
  BY <1>1, <1>2 DEF Socket
<1>6. InFlight(k) > 0 => l.timer
  <2>1. InFlight(k) > 0 => k.timer
    BY GoodRing DEF Linked
  <2>2. QED
    BY <1>1, <1>2, <1>3, <2>1
<1> HIDE DEF l
<1>7. QED
  BY <1>4, <1>5, <1>6, SameGood DEF l

LEMMA WindowGood ==
  ASSUME NEW k, NEW c, NEW p \in 0 .. Total, Good(Work(k, c), p),
         NEW ack \in 0 .. Len(c.bytes), NEW w \in Windows
  PROVE  Good(Work(Window(k, ack, w), c), p) /\ Kept(k, Window(k, ack, w))
<1> DEFINE new == (w - (k.seq - ack)) % Word
           soon == k.asap \/ (k.rwin = 0 /\ new # 0)
           l == [k EXCEPT !.rwin = new, !.asap = soon]
<1>1. Window(k, ack, w) = l
  BY DEF Window
<1>2. k \in Socket /\ k.seq \in Int /\ w \in Int /\ ack \in Int
  BY GoodRing, SizesAssumption
<1>3. new \in 0 .. Word - 1
  BY <1>2, SizesAssumption
<1>4. soon \in BOOLEAN
  OBVIOUS
<1> HIDE DEF new, soon
<1>5. l \in Socket /\ Kept(k, l)
  BY <1>2, <1>3, <1>4 DEF Socket, Kept
<1>6. /\ l.buf = k.buf /\ l.head = k.head /\ l.unacked = k.unacked
      /\ l.tail = k.tail /\ l.seq = k.seq /\ l.timer = k.timer
  BY <1>2 DEF Socket
<1>7. InFlight(k) > 0 => k.timer
  BY GoodRing DEF Linked
<1> HIDE DEF l
<1>8. Good(Work(l, c), p)
  BY <1>5, <1>6, <1>7, SameGood
<1>9. QED
  BY <1>1, <1>5, <1>8

LEMMA AckedGood ==
  ASSUME NEW k, NEW c, NEW p \in 0 .. Total, Good(Work(k, c), p),
         NEW a, AckOf(k, a) \in 0 .. Len(c.bytes), NEW w \in Windows
  PROVE  Good(Work(Acked(k, a, w), c), p) /\ Kept(k, Acked(k, a, w))
<1> DEFINE ack == AckOf(k, a)
           b == Bytes(k, ack)
           t == TimerOff(b, ack)
           l == Window(t, ack, w)
<1>1. Good(Work(b, c), p) /\ Kept(k, b)
  BY BytesGood
<1>2. Good(Work(t, c), p) /\ Kept(b, t)
  BY <1>1, TimerOffGood
<1>3. Good(Work(l, c), p) /\ Kept(t, l)
  BY <1>2, WindowGood
<1>4. Kept(k, l)
  BY <1>1, <1>2, <1>3 DEF Kept
<1>5. Acked(k, a, w) = l
  BY DEF Acked
<1>6. QED
  BY <1>3, <1>4, <1>5

-----------------------------------------------------------------------------
(* What a handler comes to. To MyTCPTask the socket stays as it is or      *)
(* takes a step of module Socket.                                          *)
Tcp(k) == IF k.st \in {"fin_wait_1", "fin_wait_2", "closing"} THEN "fin_wait" ELSE k.st

Moves(k, l) ==
  \/ Tcp(l) = Tcp(k) /\ l.unread = k.unread
  \/ l.st = "listen" /\ l.unread = FALSE
  \/ k.st = "established" /\ l.st = "established"
  \/ k.st = "established" /\ l.st = "close_wait" /\ l.unread \in {k.unread, TRUE}
  \/ /\ k.st \in {"established", "close_wait"} /\ Tcp(l) = "fin_wait"
     /\ l.unread \in {k.unread, FALSE}
  \/ k.st = "close_wait" /\ l.st = "last_ack" /\ l.unread \in {k.unread, FALSE}
  \/ Tcp(k) = "fin_wait" /\ Tcp(l) = "fin_wait" /\ l.unread = FALSE

Sound(x, p) == Good(x, p) /\ NoFinYet(x.k, x.c)

Same(k, l) == l.st = k.st /\ l.unread = k.unread

LEMMA SoundSettled ==
  ASSUME NEW x, NEW p, Sound(x, p)
  PROVE  Settled(x, p)
BY DEF Sound, Settled, Good

LEMMA PlainSend ==
  ASSUME NEW p \in 0 .. Total, NEW x, Sound(x, p), NEW flag, flag # "FIN", NEW how,
         how = "alive" => x.k.alive < MaxAlive /\ InFlight(x.k) = 0,
         NEW y \in Send({x}, flag, how)
  PROVE  /\ Sound(y, p) /\ Same(x.k, y.k)
         /\ InFlight(y.k) + Unsent(y.k) = InFlight(x.k) + Unsent(x.k)
<1>1. Good(x, p) /\ NoFinYet(x.k, x.c)
  BY DEF Sound
<1>2. /\ Good(y, p) /\ y.k.st = x.k.st /\ y.k.unread = x.k.unread
      /\ (y.k.txfin <=> x.k.txfin)
      /\ ~x.k.txfin => (y.c.fin => x.c.fin)
      /\ InFlight(y.k) + Unsent(y.k) = InFlight(x.k) + Unsent(x.k)
  BY <1>1, SendGood
<1>3. NoFinYet(y.k, y.c)
  BY <1>1, <1>2 DEF NoFinYet
<1>4. QED
  BY <1>2, <1>3 DEF Sound, Same

LEMMA FinSend ==
  ASSUME NEW p \in 0 .. Total, NEW x, Good(x, p), x.k.st \notin {"established", "close_wait"},
         NEW flag, NEW how, how # "alive", NEW y \in Send({x}, flag, how)
  PROVE  Sound(y, p) /\ Same(x.k, y.k)
<1>1. Good(y, p) /\ y.k.st = x.k.st /\ y.k.unread = x.k.unread
  BY SendGood
<1>2. QED
  BY <1>1 DEF Sound, NoFinYet, Same

(* The way every reset takes. *)
LEMMA ResetCloses ==
  ASSUME NEW p \in 0 .. Total, NEW X, \A x \in X : x \in Works /\ Whole(x.c, p),
         NEW how, how # "alive", NEW y \in Closed(Send(X, "RST", how))
  PROVE  Settled(y, p) /\ y.k.st = "listen" /\ y.k.unread = FALSE
<1>1. \A z \in Send(X, "RST", how) : z \in Works /\ Whole(z.c, p)
  <2> SUFFICES ASSUME NEW z \in Send(X, "RST", how)
               PROVE  z \in Works /\ Whole(z.c, p)
    OBVIOUS
  <2>1. PICK x \in X : z \in Send({x}, "RST", how)
    BY SendEach
  <2>2. QED
    BY <2>1, SendReset
<1>2. QED
  BY <1>1, ClosedSettled

(* Fields of a sound work that nothing above is about. *)
LEMMA SameSound ==
  ASSUME NEW x, NEW y \in Works, NEW p, Good(x, p), y.c = x.c,
         y.k.buf = x.k.buf, y.k.head = x.k.head, y.k.unacked = x.k.unacked,
         y.k.tail = x.k.tail, y.k.seq = x.k.seq,
         InFlight(x.k) > 0 => y.k.timer,
         NoFinYet(y.k, x.c)
  PROVE  Sound(y, p)
BY SameRing DEF Sound

(* What text does to what TCPGet may read, and a FIN to the state.         *)
TextSeen(k, l) ==
  /\ l.st = k.st
  /\ \/ l.unread = k.unread
     \/ k.st # "established" /\ l.unread = FALSE
     \/ k.st = "established" /\ l.unread = TRUE

FinSeen(k, l) ==
  \/ k.st = "established" /\ l.st = "close_wait" /\ l.unread = k.unread
  \/ Tcp(k) = "fin_wait" /\ Tcp(l) = "fin_wait" /\ l.unread = k.unread
  \/ l.st = "listen" /\ l.unread = FALSE

LEMMA TextSound ==
  ASSUME NEW p \in 0 .. Total, NEW x, Sound(x, p), NEW text \in BOOLEAN, NEW fin \in BOOLEAN,
         NEW y \in Text({x}, text, fin)
  PROVE  Sound(y, p) /\ TextSeen(x.k, y.k)
<1>1. x \in Works /\ x.k \in Socket /\ x.c \in Client /\ Good(x, p) /\ NoFinYet(x.k, x.c)
      /\ (InFlight(x.k) > 0 => x.k.timer)
  BY DEF Sound, Good, Works, Linked
<1>2. CASE ~text /\ ~fin
  BY <1>2 DEF Text, TextSeen
<1>3. CASE text \/ fin
  <2>1. PICK z \in Owing({x}) : y = [z EXCEPT !.k.unread = z.k.st = "established" /\ (@ \/ text)]
    BY <1>3 DEF Text
  <2>2. Sound(z, p) /\ Same(x.k, z.k)
    <3>1. CASE x.k.ackdue
      <4>1. z \in Send({x}, "ACK", "reset")
        BY <3>1 DEF Owing
      <4>2. QED
        BY <4>1, PlainSend
    <3>2. CASE ~x.k.ackdue
      <4>1. z = [x EXCEPT !.k.ackdue = TRUE]
        BY <3>2 DEF Owing
      <4>2. /\ z \in Works /\ z.c = x.c /\ z.k = [x.k EXCEPT !.ackdue = TRUE]
        BY <1>1, <4>1 DEF Works, Socket
      <4>3. /\ z.k.buf = x.k.buf /\ z.k.head = x.k.head /\ z.k.unacked = x.k.unacked
            /\ z.k.tail = x.k.tail /\ z.k.seq = x.k.seq /\ z.k.timer = x.k.timer
            /\ z.k.st = x.k.st /\ z.k.unread = x.k.unread /\ z.k.txfin = x.k.txfin
        BY <1>1, <4>2 DEF Socket
      <4>4. NoFinYet(z.k, x.c)
        BY <1>1, <4>3 DEF NoFinYet
      <4>5. QED
        BY <1>1, <4>2, <4>3, <4>4, SameSound DEF Same
    <3>3. QED
      BY <3>1, <3>2
  <2>3. z \in Works /\ z.k \in Socket /\ z.c \in Client /\ Good(z, p) /\ NoFinYet(z.k, z.c)
        /\ (InFlight(z.k) > 0 => z.k.timer)
    BY <2>2 DEF Sound, Good, Works, Linked
  <2> DEFINE u == z.k.st = "established" /\ (z.k.unread \/ text)
  <2>4. u \in BOOLEAN
    OBVIOUS
  <2>5. y = [z EXCEPT !.k.unread = u]
    BY <2>1
  <2>6. \/ u = z.k.unread
        \/ z.k.st # "established" /\ u = FALSE
        \/ z.k.st = "established" /\ u = TRUE
    <3>1. z.k.unread \in BOOLEAN
      BY <2>3 DEF Socket
    <3>2. CASE z.k.st # "established"
      BY <3>2
    <3>3. CASE z.k.st = "established" /\ z.k.unread = TRUE
      BY <3>3
    <3>4. CASE z.k.st = "established" /\ z.k.unread = FALSE
      BY <3>4
    <3>5. QED
      BY <3>1, <3>2, <3>3, <3>4
  <2> HIDE DEF u
  <2>7. y \in Works /\ y.c = z.c /\ y.k = [z.k EXCEPT !.unread = u]
    BY <2>3, <2>4, <2>5 DEF Works, Socket
  <2>8. /\ y.k.buf = z.k.buf /\ y.k.head = z.k.head /\ y.k.unacked = z.k.unacked
        /\ y.k.tail = z.k.tail /\ y.k.seq = z.k.seq /\ y.k.timer = z.k.timer
        /\ y.k.st = z.k.st /\ y.k.txfin = z.k.txfin /\ y.k.unread = u
    BY <2>3, <2>7 DEF Socket
  <2>9. NoFinYet(y.k, z.c)
    BY <2>3, <2>8 DEF NoFinYet
  <2>10. Sound(y, p)
    BY <2>3, <2>7, <2>8, <2>9, SameSound
  <2>11. QED
    BY <2>2, <2>6, <2>8, <2>10 DEF Same, TextSeen
<1>4. QED
  BY <1>2, <1>3

LEMMA PeerFinSettled ==
  ASSUME NEW p \in 0 .. Total, NEW x, Sound(x, p), NEW ack,
         x.k.st \in {"established", "fin_wait_1", "fin_wait_2"},
         NEW y \in PeerFin(x, ack)
  PROVE  Settled(y, p) /\ FinSeen(x.k, y.k)
<1> DEFINE to(st) == [x EXCEPT !.k.st = st, !.k.peerfin = TRUE]
<1>1. x \in Works /\ x.k \in Socket /\ x.c \in Client /\ Good(x, p) /\ NoFinYet(x.k, x.c)
      /\ (InFlight(x.k) > 0 => x.k.timer)
  BY DEF Sound, Good, Works, Linked
<1>2. ASSUME NEW st \in {"close_wait", "closing", x.k.st},
             st = "close_wait" => x.k.st = "established"
      PROVE  Sound(to(st), p) /\ to(st).k.st = st /\ to(st).k.unread = x.k.unread
  <2>1. st \in {"listen", "established", "close_wait"} \cup Closing
    BY DEF Closing
  <2>2. to(st) \in Works /\ to(st).c = x.c
        /\ to(st).k = [x.k EXCEPT !.st = st, !.peerfin = TRUE]
    BY <1>1, <2>1 DEF Works, Socket
  <2> DEFINE z == to(st)
             on == TRUE
  <2>0. z.k = [x.k EXCEPT !.st = st, !.peerfin = on]
    BY <2>2
  <2> HIDE DEF z, on
  <2>3. /\ z.k.buf = x.k.buf /\ z.k.head = x.k.head /\ z.k.unacked = x.k.unacked
        /\ z.k.tail = x.k.tail /\ z.k.seq = x.k.seq /\ z.k.timer = x.k.timer
        /\ z.k.st = st /\ z.k.unread = x.k.unread /\ z.k.txfin = x.k.txfin
    BY <1>1, <2>0 DEF Socket
  <2>4. NoFinYet(z.k, x.c)
    BY <1>1, <1>2, <2>3 DEF NoFinYet
  <2>5. z \in Works /\ z.c = x.c
    BY <2>2 DEF z
  <2>6. Sound(z, p)
    BY <1>1, <2>3, <2>4, <2>5, SameSound
  <2>7. QED
    BY <2>3, <2>6 DEF z
<1> HIDE DEF to
<1>3. \/ x.k.st = "established" /\ y \in Send({to("close_wait")}, "ACK", "reset")
      \/ y \in Closed(Send({to(x.k.st)}, "ACK", "plain"))
      \/ x.k.st = "fin_wait_1" /\ y \in Send({to("closing")}, "ACK", "reset")
  BY DEF PeerFin, to
<1>4. CASE x.k.st = "established" /\ y \in Send({to("close_wait")}, "ACK", "reset")
  <2>1. Sound(to("close_wait"), p) /\ to("close_wait").k.st = "close_wait"
        /\ to("close_wait").k.unread = x.k.unread
    BY <1>2, <1>4
  <2>2. Sound(y, p) /\ Same(to("close_wait").k, y.k)
    BY <1>4, <2>1, PlainSend
  <2>3. QED
    BY <1>4, <2>1, <2>2, SoundSettled DEF Same, FinSeen
<1>5. CASE y \in Closed(Send({to(x.k.st)}, "ACK", "plain"))
  <2>1. Sound(to(x.k.st), p)
    BY <1>2
  <2>2. \A z \in Send({to(x.k.st)}, "ACK", "plain") : z \in Works /\ Whole(z.c, p)
    BY <2>1, PlainSend DEF Sound, Good
  <2>3. QED
    BY <1>5, <2>2, ClosedSettled DEF FinSeen
<1>6. CASE x.k.st = "fin_wait_1" /\ y \in Send({to("closing")}, "ACK", "reset")
  <2>1. Sound(to("closing"), p) /\ to("closing").k.st = "closing"
        /\ to("closing").k.unread = x.k.unread
    BY <1>2
  <2>2. Sound(y, p) /\ Same(to("closing").k, y.k)
    BY <1>6, <2>1, PlainSend
  <2>3. QED
    BY <1>6, <2>1, <2>2, SoundSettled DEF Same, Tcp, FinSeen
<1>7. QED
  BY <1>3, <1>4, <1>5, <1>6

LEMMA AfterAckSettled ==
  ASSUME NEW p \in 0 .. Total, NEW k, Sound(Work(k, client), p),
         NEW ack \in 0 .. Len(client.bytes), NEW text \in BOOLEAN, NEW fin \in BOOLEAN,
         k.st \notin {"listen", "last_ack"},
         NEW y \in AfterAck(k, ack, text, fin)
  PROVE  Settled(y, p) /\ Moves(k, y.k)
<1>1. /\ k \in Socket /\ client \in Client /\ Whole(client, p) /\ Good(Work(k, client), p)
      /\ ack \in 0 .. Total /\ NoFinYet(k, client) /\ (InFlight(k) > 0 => k.timer)
  <2>1. Good(Work(k, client), p) /\ NoFinYet(k, client)
    BY DEF Sound, Work
  <2>2. QED
    BY <2>1, GoodRing, SizesAssumption DEF Linked
<1>2. Work(k, client).k = k /\ Work(k, client).c = client /\ Start(k) = {Work(k, client)}
      /\ Work(k, client) \in Works
  BY <1>1 DEF Work, Start, Works
<1>3. CASE y \in Start(k)
  BY <1>2, <1>3, SoundSettled DEF Moves
<1>4. CASE y \in Closed(Start(k))
  <2>1. \A x \in Start(k) : x \in Works /\ Whole(x.c, p)
    BY <1>1, <1>2
  <2>2. QED
    BY <1>4, <2>1, ClosedSettled DEF Moves
<1>5. CASE y \in Closed(Send(Start([k EXCEPT !.seq = ack]), "RST", "plain"))
  <2>1. [k EXCEPT !.seq = ack] \in Socket
    BY <1>1 DEF Socket
  <2>2. \A x \in Start([k EXCEPT !.seq = ack]) : x \in Works /\ Whole(x.c, p)
    BY <1>1, <2>1 DEF Start, Works
  <2>3. QED
    BY <1>5, <2>2, ResetCloses DEF Moves
<1> DEFINE f == FinWait2(k, ack)
           X == Text(Start(f), text, fin)
<1>6. CASE /\ k.st \in {"established", "fin_wait_1", "fin_wait_2"}
           /\ y \in IF fin THEN UNION {PeerFin(x, ack) : x \in X} ELSE X
  <2>1. /\ f \in Socket /\ f.buf = k.buf /\ f.head = k.head /\ f.unacked = k.unacked
        /\ f.tail = k.tail /\ f.seq = k.seq /\ f.unread = k.unread
        /\ f.txfin = k.txfin /\ (k.timer => f.timer) /\ Tcp(f) = Tcp(k)
        /\ f.st \in {"established", "fin_wait_1", "fin_wait_2"}
        /\ (f.st = "established" <=> k.st = "established")
    <3>1. CASE f = k
      BY <1>1, <1>6, <3>1
    <3>2. CASE k.st = "fin_wait_1" /\ f = [k EXCEPT !.st = "fin_wait_2", !.timer = TRUE]
      <4>1. "fin_wait_2" \in {"listen", "established", "close_wait"} \cup Closing
        BY DEF Closing
      <4> HIDE DEF f
      <4>2. f.st = "fin_wait_2" /\ f \in Socket /\ f.timer
        BY <1>1, <3>2, <4>1 DEF Socket
      <4>3. /\ f.buf = k.buf /\ f.head = k.head /\ f.unacked = k.unacked
            /\ f.tail = k.tail /\ f.seq = k.seq /\ f.unread = k.unread
            /\ f.txfin = k.txfin
        BY <1>1, <3>2 DEF Socket
      <4>4. QED
        BY <3>2, <4>2, <4>3 DEF Tcp
    <3>3. QED
      BY <3>1, <3>2 DEF FinWait2
  <2> HIDE DEF f
  <2>2. Work(f, client) \in Works /\ Work(f, client).k = f /\ Work(f, client).c = client
        /\ Start(f) = {Work(f, client)}
    BY <1>1, <2>1 DEF Work, Start, Works
  <2>3. Sound(Work(f, client), p)
    <3>1. NoFinYet(f, client)
      BY <1>1, <1>6, <2>1 DEF NoFinYet
    <3>2. QED
      BY <1>1, <1>2, <2>1, <2>2, <3>1, SameSound
  <2>4. ASSUME NEW x \in X
        PROVE  Sound(x, p) /\ TextSeen(f, x.k)
    <3>1. x \in Text({Work(f, client)}, text, fin)
      BY <2>2
    <3> HIDE DEF X
    <3>2. Sound(x, p) /\ TextSeen(Work(f, client).k, x.k)
      BY <2>3, <3>1, TextSound
    <3>3. QED
      BY <2>2, <3>2
  <2> HIDE DEF X
  <2>5. CASE ~fin
    <3>1. Sound(y, p) /\ TextSeen(f, y.k)
      BY <1>6, <2>4, <2>5
    <3>2. Moves(k, y.k)
      BY <2>1, <3>1 DEF TextSeen, Moves, Tcp
    <3>3. QED
      BY <3>1, <3>2, SoundSettled
  <2>6. CASE fin
    <3>1. PICK x \in X : y \in PeerFin(x, ack)
      BY <1>6, <2>6
    <3>2. Sound(x, p) /\ TextSeen(f, x.k)
      BY <2>4
    <3>3. x.k.st \in {"established", "fin_wait_1", "fin_wait_2"}
      BY <2>1, <3>2 DEF TextSeen
    <3>4. Settled(y, p) /\ FinSeen(x.k, y.k)
      BY <3>1, <3>2, <3>3, PeerFinSettled
    <3>5. Moves(k, y.k)
      BY <2>1, <3>2, <3>4 DEF TextSeen, FinSeen, Moves, Tcp
    <3>6. QED
      BY <3>4, <3>5
  <2>7. QED
    BY <2>5, <2>6
<1>7. \/ y \in Start(k)
      \/ y \in Closed(Start(k))
      \/ y \in Closed(Send(Start([k EXCEPT !.seq = ack]), "RST", "plain"))
      \/ /\ k.st \in {"established", "fin_wait_1", "fin_wait_2"}
         /\ y \in IF fin THEN UNION {PeerFin(x, ack) : x \in X} ELSE X
  <2>1. k.st \in {"established", "close_wait", "fin_wait_1", "fin_wait_2", "closing"}
    BY <1>1 DEF Socket, Closing
  <2> HIDE DEF X
  <2>2. AfterAck(k, ack, text, fin)
         = CASE k.st = "close_wait" \/ (k.st = "closing" /\ k.seq # ack) -> Start(k)
             [] k.st = "closing" /\ k.seq = ack -> Closed(Start(k))
             [] k.st = "fin_wait_2" /\ ~fin ->
                  Closed(Send(Start([k EXCEPT !.seq = ack]), "RST", "plain"))
             [] OTHER -> IF fin THEN UNION {PeerFin(x, ack) : x \in X} ELSE X
    BY DEF AfterAck, X
  <2>3. QED
    BY <2>1, <2>2
<1>8. QED
  BY <1>3, <1>4, <1>5, <1>6, <1>7

(* The socket of a handler that may start: it is as the last one left it.  *)
Ready == IInv /\ Open

LEMMA ReadySound ==
  ASSUME Ready
  PROVE  /\ Sound(Work(sock, client), put) /\ Good(Work(sock, client), put)
         /\ NoFinYet(sock, client) /\ Whole(client, put)
         /\ sock \in Socket /\ client \in Client /\ put \in 0 .. Total
         /\ sock.st # "listen"
         /\ InFlight(sock) > 0 => sock.timer
<1>1. /\ TypeOK /\ Settled(Now, put) /\ sock.st # "listen"
  BY DEF Ready, IInv, Open
<1>2. Now = Work(sock, client) /\ Now.k = sock /\ Now.c = client
  BY DEF Now, Work
<1>3. Good(Now, put) /\ NoFinYet(sock, client)
  BY <1>1, <1>2 DEF Settled
<1>4. Whole(client, put) /\ (InFlight(sock) > 0 => sock.timer)
  BY <1>2, <1>3 DEF Good, Linked
<1>5. QED
  BY <1>1, <1>2, <1>3, <1>4 DEF Sound, TypeOK

LEMMA StartOne ==
  ASSUME NEW k \in Socket, client \in Client
  PROVE  /\ Start(k) = {Work(k, client)} /\ Work(k, client) \in Works
         /\ Work(k, client).k = k /\ Work(k, client).c = client
BY DEF Start, Work, Works

(* A socket with the ring and the FINs of another, with the client as it is. *)
Alike(k, l) ==
  /\ l \in Socket
  /\ l.buf = k.buf /\ l.head = k.head /\ l.unacked = k.unacked
  /\ l.tail = k.tail /\ l.seq = k.seq /\ (InFlight(k) > 0 => l.timer)

LEMMA AlikeSound ==
  ASSUME NEW k, NEW l, Alike(k, l), Good(Work(k, client), put), NoFinYet(l, client)
  PROVE  /\ Sound(Work(l, client), put) /\ Start(l) = {Work(l, client)}
         /\ Work(l, client).k = l
<1>1. client \in Client /\ l \in Socket
  BY DEF Good, Works, Work, Alike
<1>2. Good(Work(l, client), put)
  BY SameGood DEF Alike
<1>3. QED
  BY <1>1, <1>2, StartOne DEF Sound

LEMMA StepMoves ==
  ASSUME NEW k, NEW x, NEW y, Moves(k, x.k), Same(x.k, y.k)
  PROVE  Moves(k, y.k)
BY DEF Moves, Same, Tcp

LEMMA SegmentSettled ==
  ASSUME Ready, NEW a \in 0 .. Len(client.bytes) + 1,
         a = Len(client.bytes) + 1 => client.fin,
         NEW w \in Windows, NEW text \in BOOLEAN, NEW fin \in BOOLEAN,
         NEW y \in HandleTCPSeg(Heard(sock), a, w, text, fin)
  PROVE  Settled(y, put) /\ Moves(sock, y.k)
<1> DEFINE k == Heard(sock)
           zero == 0
<1>1. /\ Good(Work(sock, client), put) /\ NoFinYet(sock, client) /\ Whole(client, put)
      /\ sock \in Socket /\ client \in Client /\ put \in 0 .. Total /\ sock.st # "listen"
      /\ (InFlight(sock) > 0 => sock.timer)
  BY ReadySound
<1>2. zero \in 0 .. MaxAlive /\ k = [sock EXCEPT !.alive = zero]
  BY SizesAssumption DEF Heard
<1> HIDE DEF k, zero
<1>3. k \in Socket /\ k.st = sock.st /\ k.unread = sock.unread /\ k.txfin = sock.txfin
  BY <1>1, <1>2 DEF Socket
<1>4. Alike(sock, k) /\ NoFinYet(k, client)
  <2>1. /\ k.buf = sock.buf /\ k.head = sock.head /\ k.unacked = sock.unacked
        /\ k.tail = sock.tail /\ k.seq = sock.seq /\ k.timer = sock.timer
    BY <1>1, <1>2 DEF Socket
  <2>2. QED
    BY <1>1, <1>3, <2>1 DEF Alike, NoFinYet
<1>5. Sound(Work(k, client), put) /\ Start(k) = {Work(k, client)} /\ Work(k, client).k = k
  BY <1>1, <1>4, AlikeSound
<1>6. Good(Work(k, client), put)
  BY <1>5 DEF Sound
<1>7. CASE y \in Start(k)
  BY <1>3, <1>5, <1>7, SoundSettled DEF Moves, Tcp
<1>8. CASE y \in Closed(Start(k))
  <2>1. \A x \in Start(k) : x \in Works /\ Whole(x.c, put)
    BY <1>5, <1>6 DEF Good
  <2>2. QED
    BY <1>8, <2>1, ClosedSettled DEF Moves
<1>9. CASE y \in Send(Start(k), "ACK", "plain")
  <2>1. Sound(y, put) /\ Same(k, y.k)
    BY <1>1, <1>5, <1>9, PlainSend
  <2>2. QED
    BY <1>3, <2>1, SoundSettled DEF Moves, Same, Tcp
<1> DEFINE l == Acked(k, a, w)
           ack == AckOf(k, a)
<1>10. CASE k.st # "last_ack" /\ y \in AfterAck(l, ack, text, fin)
  <2>1. ack \in 0 .. Len(client.bytes)
    BY <1>1, <1>6, AckedBytes
  <2>2. Good(Work(l, client), put) /\ Kept(k, l)
    BY <1>1, <1>6, <2>1, AckedGood
  <2> HIDE DEF l, ack
  <2>3. l.st = sock.st /\ l.unread = sock.unread /\ NoFinYet(l, client)
    BY <1>3, <1>4, <2>2 DEF Kept, NoFinYet
  <2>4. Sound(Work(l, client), put)
    BY <2>2, <2>3 DEF Sound, Work
  <2>5. l.st \notin {"listen", "last_ack"}
    BY <1>1, <1>3, <1>10, <2>3
  <2>6. Settled(y, put) /\ Moves(l, y.k)
    BY <1>1, <1>10, <2>1, <2>4, <2>5, AfterAckSettled
  <2>7. Moves(sock, y.k)
    BY <2>3, <2>6 DEF Moves, Tcp
  <2>8. QED
    BY <2>6, <2>7
<1>11. \/ y \in Start(k)
       \/ y \in Closed(Start(k))
       \/ y \in Send(Start(k), "ACK", "plain")
       \/ k.st # "last_ack" /\ y \in AfterAck(l, ack, text, fin)
  <2>1. HandleTCPSeg(k, a, w, text, fin)
          = CASE k.st = "last_ack" -> IF k.seq + 1 = a THEN Closed(Start(k)) ELSE Start(k)
              [] k.st # "last_ack" /\ TooFar(k, a) -> Send(Start(k), "ACK", "plain")
              [] OTHER -> AfterAck(l, ack, text, fin)
    BY DEF HandleTCPSeg
  <2>2. y \in HandleTCPSeg(k, a, w, text, fin)
    BY DEF k
  <2> HIDE DEF l, ack
  <2>3. QED
    BY <2>1, <2>2
<1>12. QED
  BY <1>7, <1>8, <1>9, <1>10, <1>11

(* A retransmission starts again at the first byte in flight.              *)
LEMMA ExpiredSettled ==
  ASSUME Ready, NEW y \in Expired(sock)
  PROVE  Settled(y, put) /\ Moves(sock, y.k)
<1>1. /\ Good(Work(sock, client), put) /\ NoFinYet(sock, client) /\ Whole(client, put)
      /\ sock \in Socket /\ client \in Client /\ put \in 0 .. Total /\ sock.st # "listen"
      /\ (InFlight(sock) > 0 => sock.timer)
  BY ReadySound
<1>2. CASE y \in GiveUp(sock)
  <2>1. \A x \in Start(sock) : x \in Works /\ Whole(x.c, put)
    BY <1>1, StartOne
  <2>2. QED
    BY <1>1, <1>2, <2>1, ResetCloses DEF GiveUp, Moves
<1>3. CASE /\ sock.retry < MaxRetries
           /\ y \in Send(Start(SentAgain(sock)),
                         IF sock.st \in {"fin_wait_1", "last_ack"} THEN "FIN" ELSE "ACK", "plain")
  <2> DEFINE b == RolledBack(sock)
             more == b.retry + 1
             room == (b.rwin + InFlight(sock)) % Word
             l == [b EXCEPT !.retry = more, !.rwin = room]
  <2>1. Good(Work(b, client), put) /\ Kept(sock, b) /\ InFlight(b) = 0
    BY <1>1, RolledBackGood
  <2>2. b.retry = sock.retry /\ b.rwin = sock.rwin
    BY <1>1 DEF RolledBack, Socket
  <2>3. SentAgain(sock) = l
    BY <1>1, <2>2 DEF SentAgain
  <2>4. b \in Socket
    BY <1>1, <2>1, GoodRing
  <2>5. more \in 0 .. MaxRetries /\ room \in 0 .. Word - 1
    <3>1. InFlight(sock) \in Int /\ sock.rwin \in Int /\ sock.retry \in Nat
      BY <1>1, Lengths DEF Socket
    <3>2. QED
      BY <1>3, <2>2, <3>1, SizesAssumption
  <2> HIDE DEF b, more, room
  <2>6. l \in Socket
    BY <2>4, <2>5 DEF Socket
  <2>7. /\ l.buf = b.buf /\ l.head = b.head /\ l.unacked = b.unacked
        /\ l.tail = b.tail /\ l.seq = b.seq /\ l.timer = b.timer
        /\ l.st = b.st /\ l.unread = b.unread /\ l.txfin = b.txfin
    BY <2>4 DEF Socket
  <2> HIDE DEF l
  <2>8. NoFinYet(l, client) /\ l.st = sock.st /\ l.unread = sock.unread
    BY <1>1, <2>1, <2>7 DEF NoFinYet, Kept
  <2>9. Alike(b, l)
    BY <2>1, <2>6, <2>7 DEF Alike
  <2>10. Sound(Work(l, client), put) /\ Start(l) = {Work(l, client)} /\ Work(l, client).k = l
    BY <2>1, <2>8, <2>9, AlikeSound
  <2>11. Sound(y, put) /\ Same(l, y.k)
    <3>1. CASE sock.st \in {"fin_wait_1", "last_ack"}
      <4>1. y \in Send({Work(l, client)}, "FIN", "plain")
        BY <1>3, <2>3, <2>10, <3>1
      <4> DEFINE x == Work(l, client)
      <4>2. Good(x, put) /\ x.k.st \notin {"established", "close_wait"}
        BY <2>8, <2>10, <3>1 DEF Sound
      <4>3. x.k = l
        BY <2>10
      <4> HIDE DEF x
      <4>4. Sound(y, put) /\ Same(x.k, y.k)
        BY <1>1, <4>1, <4>2, FinSend DEF x
      <4>5. QED
        BY <4>3, <4>4
    <3>2. CASE sock.st \notin {"fin_wait_1", "last_ack"}
      <4>1. y \in Send({Work(l, client)}, "ACK", "plain")
        BY <1>3, <2>3, <2>10, <3>2
      <4>2. QED
        BY <1>1, <2>10, <4>1, PlainSend
    <3>3. QED
      BY <3>1, <3>2
  <2>12. QED
    BY <2>8, <2>11, SoundSettled DEF Moves, Same, Tcp
<1>4. CASE /\ sock.st \in {"established", "close_wait"}
           /\ y \in Send(Start([sock EXCEPT !.st = "fin_wait_1"]), "FIN", "reset")
  <2> DEFINE st == "fin_wait_1"
             l == [sock EXCEPT !.st = st]
  <2>1. st \in {"listen", "established", "close_wait"} \cup Closing
    BY DEF Closing
  <2> HIDE DEF st
  <2>2. l \in Socket
    BY <1>1, <2>1 DEF Socket
  <2>3. /\ l.buf = sock.buf /\ l.head = sock.head /\ l.unacked = sock.unacked
        /\ l.tail = sock.tail /\ l.seq = sock.seq /\ l.timer = sock.timer
        /\ l.st = st /\ l.unread = sock.unread
    BY <1>1 DEF Socket
  <2>4. y \in Send(Start(l), "FIN", "reset")
    BY <1>4 DEF st
  <2> HIDE DEF l
  <2>5. NoFinYet(l, client) /\ Alike(sock, l) /\ l.st = "fin_wait_1"
    BY <1>1, <2>2, <2>3 DEF NoFinYet, Alike, st
  <2>6. Sound(Work(l, client), put) /\ Start(l) = {Work(l, client)} /\ Work(l, client).k = l
    BY <1>1, <2>5, AlikeSound
  <2>7. Sound(y, put) /\ Same(l, y.k)
    <3>1. y \in Send({Work(l, client)}, "FIN", "reset")
      BY <2>4, <2>6
    <3>2. QED
      BY <1>1, <2>5, <2>6, <3>1, FinSend DEF Sound
  <2>8. QED
    BY <1>4, <2>3, <2>5, <2>7, SoundSettled DEF Moves, Same, Tcp
<1>5. \/ y \in GiveUp(sock)
      \/ /\ sock.retry < MaxRetries
         /\ y \in Send(Start(SentAgain(sock)),
                       IF sock.st \in {"fin_wait_1", "last_ack"} THEN "FIN" ELSE "ACK", "plain")
      \/ /\ sock.st \in {"established", "close_wait"}
         /\ y \in Send(Start([sock EXCEPT !.st = "fin_wait_1"]), "FIN", "reset")
  <2>1. Expired(sock)
          = CASE sock.st = "fin_wait_2" -> GiveUp(sock)
              [] sock.st # "fin_wait_2" /\ sock.retry < MaxRetries ->
                   Send(Start(SentAgain(sock)),
                        IF sock.st \in {"fin_wait_1", "last_ack"} THEN "FIN" ELSE "ACK", "plain")
              [] sock.st \in {"established", "close_wait"} /\ sock.retry = MaxRetries ->
                   Send(Start([sock EXCEPT !.st = "fin_wait_1"]), "FIN", "reset")
              [] OTHER -> GiveUp(sock)
    BY DEF Expired
  <2>2. QED
    BY <2>1
<1>6. QED
  BY <1>2, <1>3, <1>4, <1>5

(* TCPDisconnect: the loop leaves the state for its end.                   *)
LEMMA DisconnectedSettled ==
  ASSUME Ready, NEW y \in Disconnected(sock)
  PROVE  Settled(y, put) /\ Moves(sock, y.k)
<1> DEFINE no == FALSE
           e == [sock EXCEPT !.unread = no]
<1>1. /\ Good(Work(sock, client), put) /\ NoFinYet(sock, client) /\ Whole(client, put)
      /\ sock \in Socket /\ client \in Client /\ put \in 0 .. Total /\ sock.st # "listen"
      /\ (InFlight(sock) > 0 => sock.timer)
  BY ReadySound
<1>2. no \in BOOLEAN
  OBVIOUS
<1> HIDE DEF no
<1>3. e \in Socket
  BY <1>1, <1>2 DEF Socket
<1>4. /\ e.buf = sock.buf /\ e.head = sock.head /\ e.unacked = sock.unacked
      /\ e.tail = sock.tail /\ e.seq = sock.seq /\ e.timer = sock.timer
      /\ e.st = sock.st /\ e.unread = no /\ e.txfin = sock.txfin
  BY <1>1 DEF Socket
<1> HIDE DEF e
<1>5. Alike(sock, e) /\ NoFinYet(e, client)
  BY <1>1, <1>3, <1>4 DEF Alike, NoFinYet
<1>6. Sound(Work(e, client), put) /\ Start(e) = {Work(e, client)} /\ Work(e, client).k = e
  BY <1>1, <1>5, AlikeSound
<1>7. CASE y \in Closed(Send(Start(e), "RST", "plain"))
  <2>1. \A x \in Start(e) : x \in Works /\ Whole(x.c, put)
    BY <1>6 DEF Sound, Good
  <2>2. QED
    BY <1>1, <1>7, <2>1, ResetCloses DEF Moves
<1> DEFINE G == {x \in Works : Good(x, put) /\ Same(e, x.k)}
<1>8. FinLoop(e) \subseteq G
  <2>1. \A x, z : /\ Good(x, put) /\ Same(e, x.k) /\ z \in Send({x}, "FIN", "reset")
                  => z \in G
    <3> SUFFICES ASSUME NEW x, NEW z, Good(x, put), Same(e, x.k),
                        z \in Send({x}, "FIN", "reset")
                 PROVE  z \in G
      OBVIOUS
    <3>1. Good(z, put) /\ Same(x.k, z.k)
      BY <1>1, SendGood DEF Same
    <3>2. QED
      BY <3>1 DEF Same, Good
  <2>2. Good(Work(e, client), put) /\ Same(e, Work(e, client).k)
    BY <1>6 DEF Sound, Same
  <2>3. Send(Start(e), "FIN", "reset") \subseteq G
    BY <1>6, <2>1, <2>2
  <2>4. \A x \in G : Send({x}, "FIN", "reset") \subseteq G
    BY <2>1
  <2> HIDE DEF G
  <2>5. QED
    BY <2>3, <2>4, LoopStays
<1>9. ASSUME NEW st \in {"fin_wait_1", "last_ack"}, NEW x \in FinLoop(e),
             y = [x EXCEPT !.k.st = st]
      PROVE  Settled(y, put) /\ y.k.st = st /\ y.k.unread = FALSE
  <2>1. x \in Works /\ Good(x, put) /\ Same(e, x.k)
    BY <1>8
  <2>2. x.k \in Socket /\ x.c \in Client /\ (InFlight(x.k) > 0 => x.k.timer)
    BY <2>1 DEF Works, Good, Linked
  <2>3. st \in {"listen", "established", "close_wait"} \cup Closing
    BY DEF Closing
  <2>4. y \in Works /\ y.c = x.c /\ y.k = [x.k EXCEPT !.st = st]
    BY <1>9, <2>1, <2>2, <2>3 DEF Works, Socket
  <2>5. /\ y.k.buf = x.k.buf /\ y.k.head = x.k.head /\ y.k.unacked = x.k.unacked
        /\ y.k.tail = x.k.tail /\ y.k.seq = x.k.seq /\ y.k.timer = x.k.timer
        /\ y.k.st = st /\ y.k.unread = x.k.unread
    BY <2>2, <2>4 DEF Socket
  <2>6. NoFinYet(y.k, x.c)
    BY <2>5 DEF NoFinYet
  <2>7. Sound(y, put)
    BY <2>1, <2>2, <2>4, <2>5, <2>6, SameSound
  <2>8. y.k.unread = FALSE
    BY <1>4, <2>1, <2>5 DEF Same, no
  <2>9. QED
    BY <2>5, <2>7, <2>8, SoundSettled
<1>10. CASE sock.st = "established" /\ y \in {[x EXCEPT !.k.st = "fin_wait_1"] : x \in FinLoop(e)}
  <2>1. Settled(y, put) /\ y.k.st = "fin_wait_1" /\ y.k.unread = FALSE
    BY <1>9, <1>10
  <2>2. QED
    BY <1>10, <2>1 DEF Moves, Tcp
<1>11. CASE sock.st = "close_wait" /\ y \in {[x EXCEPT !.k.st = "last_ack"] : x \in FinLoop(e)}
  <2>1. Settled(y, put) /\ y.k.st = "last_ack" /\ y.k.unread = FALSE
    BY <1>9, <1>11
  <2>2. QED
    BY <1>11, <2>1 DEF Moves, Tcp
<1>12. QED
  <2>1. Disconnected(sock)
          = CASE sock.st = "established" ->
                   {[x EXCEPT !.k.st = "fin_wait_1"] : x \in FinLoop(e)}
              [] sock.st = "close_wait" -> {[x EXCEPT !.k.st = "last_ack"] : x \in FinLoop(e)}
              [] OTHER -> Closed(Send(Start(e), "RST", "plain"))
    BY DEF Disconnected, e, no
  <2>2. QED
    BY <1>7, <1>10, <1>11, <2>1

-----------------------------------------------------------------------------
(* A reply.                                                                *)
LEMMA FlushSound ==
  ASSUME NEW p \in 0 .. Total, NEW X, NEW y \in Flush(X), \A x \in X : Sound(x, p)
  PROVE  \E x \in X : /\ Sound(y, p) /\ Same(x.k, y.k)
                      /\ InFlight(y.k) + Unsent(y.k) = InFlight(x.k) + Unsent(x.k)
<1>1. PICK x \in X : y \in IF Unsent(x.k) = 0 THEN {x} ELSE Send({x}, "ACK", "reset")
  BY DEF Flush
<1>2. Sound(x, p)
  OBVIOUS
<1>3. CASE Unsent(x.k) = 0
  BY <1>1, <1>2, <1>3 DEF Same
<1>4. CASE Unsent(x.k) # 0
  <2>1. y \in Send({x}, "ACK", "reset")
    BY <1>1, <1>4
  <2>2. QED
    BY <1>2, <2>1, PlainSend
<1>5. QED
  BY <1>3, <1>4

LEMMA HalfFullSound ==
  ASSUME Ready, NEW y \in HalfFull(sock)
  PROVE  /\ Sound(y, put) /\ Same(sock, y.k)
         /\ InFlight(y.k) + Unsent(y.k) = InFlight(sock) + Unsent(sock)
<1> DEFINE w == Work(sock, client)
<1>1. Sound(w, put) /\ Start(sock) = {w} /\ w.k = sock /\ put \in 0 .. Total
  BY ReadySound, StartOne
<1> HIDE DEF w
<1>2. CASE y \in Start(sock)
  BY <1>1, <1>2 DEF Same
<1>3. CASE y \in {[x EXCEPT !.k.half = TRUE] : x \in Flush(Start(sock))}
  <2> DEFINE yes == TRUE
  <2>1. PICK x \in Flush(Start(sock)) : y = [x EXCEPT !.k.half = yes]
    BY <1>3
  <2>2. yes \in BOOLEAN
    OBVIOUS
  <2> HIDE DEF yes
  <2>3. /\ Sound(x, put) /\ Same(sock, x.k)
        /\ InFlight(x.k) + Unsent(x.k) = InFlight(sock) + Unsent(sock)
    BY <1>1, FlushSound
  <2>4. x \in Works /\ x.k \in Socket /\ x.c \in Client /\ Good(x, put) /\ NoFinYet(x.k, x.c)
        /\ (InFlight(x.k) > 0 => x.k.timer)
    BY <2>3 DEF Sound, Good, Works, Linked
  <2>5. y \in Works /\ y.c = x.c /\ y.k = [x.k EXCEPT !.half = yes]
    BY <2>1, <2>2, <2>4 DEF Works, Socket
  <2>6. /\ y.k.buf = x.k.buf /\ y.k.head = x.k.head /\ y.k.unacked = x.k.unacked
        /\ y.k.tail = x.k.tail /\ y.k.seq = x.k.seq /\ y.k.timer = x.k.timer
        /\ y.k.st = x.k.st /\ y.k.unread = x.k.unread /\ y.k.txfin = x.k.txfin
    BY <2>4, <2>5 DEF Socket
  <2>7. NoFinYet(y.k, x.c)
    BY <2>4, <2>6 DEF NoFinYet
  <2>8. Sound(y, put)
    BY <2>4, <2>5, <2>6, <2>7, SameSound
  <2>9. Same(sock, y.k) /\ InFlight(y.k) = InFlight(x.k) /\ Unsent(y.k) = Unsent(x.k)
    BY <2>3, <2>6 DEF Same, InFlight, Unsent
  <2>10. QED
    BY <2>3, <2>8, <2>9
<1>4. QED
  BY <1>2, <1>3 DEF HalfFull

(* What is put goes behind what is there, into free cells only.            *)
LEMMA StoredSound ==
  ASSUME put \in 0 .. Total, NEW x, Sound(x, put), NEW m \in Nat,
         InFlight(x.k) + Unsent(x.k) + m < Cells, put + m <= Total,
         m > 0 => x.k.st \in {"established", "close_wait"},
         NEW y, y = [x EXCEPT !.k = Stored(@, m)]
  PROVE  Sound(y, put + m) /\ Same(x.k, y.k)
<1> DEFINE k == x.k
           l == Stored(k, m)
           h == On(k.head, m)
           B == [c \in Cell |-> IF Ahead(c, k.head) < m THEN put + Ahead(c, k.head)
                                                        ELSE k.buf[c]]
           A == InFlight(k) + Unsent(k)
<1>1. /\ x \in Works /\ k \in Socket /\ x.c \in Client /\ Good(x, put) /\ NoFinYet(k, x.c)
      /\ Whole(x.c, put) /\ Ring(k, put) /\ Linked(k, x.c)
  BY DEF Sound, Good, Works
<1>2. /\ k.seq \in 0 .. Total /\ k.head \in Cell /\ k.unacked \in Cell /\ k.tail \in Cell
      /\ k.buf \in [Cell -> Garbage .. Total - 1]
  BY <1>1 DEF Socket
<1>3. /\ Unsent(k) \in 0 .. Cells - 1 /\ InFlight(k) \in 0 .. Cells - 1
      /\ A \in 0 .. Cells - 1 /\ A + m < Cells /\ m \in 0 .. Cells - 1
      /\ k.seq + Unsent(k) = put
  <2>1. Unsent(k) \in 0 .. Cells - 1 /\ InFlight(k) \in 0 .. Cells - 1
    BY <1>1, Lengths
  <2>2. QED
    BY <1>1, <2>1, SizesAssumption DEF Ring, Position
<1>4. Ahead(k.head, k.tail) = A
  BY <1>2, <1>3, AheadSum, SizesAssumption DEF InFlight, Unsent
<1>5. /\ h \in Cell /\ Ahead(h, k.unacked) = Unsent(k) + m
  BY <1>2, <1>3, AheadAdded, SizesAssumption DEF Unsent
<1>6. B \in [Cell -> Garbage .. Total - 1]
  <2>1. ASSUME NEW c \in Cell
        PROVE  (IF Ahead(c, k.head) < m THEN put + Ahead(c, k.head) ELSE k.buf[c])
                 \in Garbage .. Total - 1
    <3>1. Ahead(c, k.head) \in 0 .. Cells - 1
      BY <1>2, AheadRange
    <3>2. QED
      BY <1>2, <3>1, SizesAssumption DEF Garbage
  <2>2. QED
    BY <2>1
<1>7. l = [k EXCEPT !.head = h, !.buf = B]
  BY DEF Stored
<1> HIDE DEF l, h, B
<1>8. l \in Socket
  BY <1>1, <1>5, <1>6, <1>7 DEF Socket
<1>9. /\ l.head = h /\ l.buf = B /\ l.unacked = k.unacked /\ l.tail = k.tail
      /\ l.seq = k.seq /\ l.timer = k.timer /\ l.st = k.st /\ l.unread = k.unread
      /\ l.txfin = k.txfin
  BY <1>1, <1>7 DEF Socket
<1>10. InFlight(l) = InFlight(k) /\ Unsent(l) = Unsent(k) + m /\ Base(l) = Base(k)
  BY <1>5, <1>9 DEF InFlight, Unsent, Base
<1>11. Base(k) \in Int /\ put = Base(k) + A
  BY <1>2, <1>3 DEF Base
<1>12. Ring(l, put + m)
  <2>1. Position(l) = put + m
    BY <1>2, <1>3, <1>9, <1>10 DEF Position
  <2>2. InFlight(l) + Unsent(l) = A + m
    BY <1>3, <1>10
  <2>3. ASSUME NEW j \in 0 .. Cells - 1, j < A + m
        PROVE  B[On(k.tail, j)] = Base(k) + j
    <3>1. On(k.tail, j) \in Cell
      BY <1>2, OnCell, SizesAssumption
    <3>2. B[On(k.tail, j)] = IF Ahead(On(k.tail, j), k.head) < m
                             THEN put + Ahead(On(k.tail, j), k.head)
                             ELSE k.buf[On(k.tail, j)]
      BY <3>1 DEF B
    <3>3. Ahead(On(k.tail, j), k.head) = IF j >= A THEN j - A ELSE Cells + j - A
      BY <1>2, <1>4, AheadCell
    <3>4. CASE j >= A
      <4>1. Ahead(On(k.tail, j), k.head) = j - A /\ j - A < m
        BY <1>3, <2>3, <3>3, <3>4
      <4>2. QED
        BY <1>3, <1>11, <3>2, <4>1
    <3>5. CASE j < A
      <4>1. ~(Ahead(On(k.tail, j), k.head) < m)
        BY <1>3, <3>3, <3>5, SizesAssumption
      <4>2. k.buf[On(k.tail, j)] = Base(k) + j
        BY <1>1, <3>5 DEF Ring
      <4>3. QED
        BY <3>2, <4>1, <4>2
    <3>6. QED
      BY <1>3, <3>4, <3>5
  <2> HIDE DEF A
  <2>4. QED
    BY <1>3, <1>9, <1>10, <2>1, <2>2, <2>3 DEF Ring
<1>13. y.k = l /\ y.c = x.c /\ y \in Works
  BY <1>1, <1>8 DEF Works, l
<1>14. Whole(x.c, put + m)
  <2>1. CASE m = 0
    BY <1>1, <2>1
  <2>2. CASE m > 0
    <3>1. ~x.c.fin
      BY <1>1, <2>2 DEF NoFinYet
    <3>2. Len(x.c.bytes) \in Nat
      BY <1>1 DEF Client
    <3>3. QED
      BY <1>1, <3>1, <3>2 DEF Whole
  <2>3. QED
    BY <2>1, <2>2
<1>15. Linked(l, x.c)
  BY <1>1, <1>9, <1>10 DEF Linked
<1>16. NoFinYet(l, x.c)
  BY <1>1, <1>9 DEF NoFinYet
<1>17. QED
  BY <1>9, <1>12, <1>13, <1>14, <1>15, <1>16 DEF Sound, Good, Same

LEMMA ReplySettled ==
  ASSUME Ready, NEW n \in 1 .. Total,
         LET room == PutReady(sock)
             m == Least(n, room)
             Y == {[x EXCEPT !.k = Stored(@, m)] : x \in HalfFull(sock)}
         IN /\ put + m <= Total
            /\ Done(CASE room = 0 -> Flush(Flush(Start(sock)))
                      [] room > 0 /\ n >= room -> Flush(Flush(Y))
                      [] room > 0 /\ n < room -> Flush(Y))
            /\ put' = put + m
  PROVE  /\ put' \in 0 .. Total
         /\ \E y : Settled(y, put') /\ Moves(sock, y.k) /\ sock' = y.k /\ client' = y.c
<1> DEFINE room == PutReady(sock)
           m == Least(n, room)
           Y == {[x EXCEPT !.k = Stored(@, m)] : x \in HalfFull(sock)}
           p == put + m
<1>1. /\ Sound(Work(sock, client), put) /\ Good(Work(sock, client), put)
      /\ sock \in Socket /\ client \in Client /\ put \in 0 .. Total
      /\ Start(sock) = {Work(sock, client)} /\ Work(sock, client).k = sock
  BY ReadySound, StartOne
<1>2. /\ InFlight(sock) \in 0 .. Cells - 1 /\ Unsent(sock) \in 0 .. Cells - 1
      /\ InFlight(sock) + Unsent(sock) < Cells
      /\ Ahead(sock.head, sock.tail) = InFlight(sock) + Unsent(sock)
  BY <1>1, GoodRing
<1>3. /\ room \in Nat
      /\ room > 0 => /\ sock.st \in {"established", "close_wait"}
                     /\ InFlight(sock) + Unsent(sock) + room < Cells
  BY <1>2, SizesAssumption DEF PutReady
<1>4. m \in Nat /\ m <= room /\ (room > 0 => m > 0) /\ (room = 0 => m = 0)
  BY <1>3, SizesAssumption DEF Least
<1>5. p \in 0 .. Total /\ put' = p
  BY <1>1, <1>4, SizesAssumption
<1>6. Done(CASE room = 0 -> Flush(Flush(Start(sock)))
             [] room > 0 /\ n >= room -> Flush(Flush(Y))
             [] room > 0 /\ n < room -> Flush(Y))
  OBVIOUS
<1> HIDE DEF room, m, p
<1>7. ASSUME room > 0
      PROVE  \A x \in Y : Sound(x, p) /\ Same(sock, x.k)
  <2> SUFFICES ASSUME NEW z \in HalfFull(sock), NEW x, x = [z EXCEPT !.k = Stored(@, m)]
               PROVE  Sound(x, p) /\ Same(sock, x.k)
    OBVIOUS
  <2>1. /\ Sound(z, put) /\ Same(sock, z.k)
        /\ InFlight(z.k) + Unsent(z.k) = InFlight(sock) + Unsent(sock)
    BY HalfFullSound
  <2>2. z.k.st \in {"established", "close_wait"}
    BY <1>3, <1>7, <2>1 DEF Same
  <2>3. InFlight(z.k) + Unsent(z.k) + m < Cells
    BY <1>2, <1>3, <1>4, <1>7, <2>1, SizesAssumption
  <2>4. put + m <= Total
    BY <1>5, SizesAssumption DEF p
  <2>5. Sound(x, p) /\ Same(z.k, x.k)
    BY <1>1, <1>4, <2>1, <2>2, <2>3, <2>4, StoredSound DEF p
  <2>6. QED
    BY <2>1, <2>5 DEF Same
<1>8. \A X : (\A x \in X : Sound(x, p) /\ Same(sock, x.k))
             => \A y \in Flush(X) : Sound(y, p) /\ Same(sock, y.k)
  <2> SUFFICES ASSUME NEW X, \A x \in X : Sound(x, p) /\ Same(sock, x.k), NEW y \in Flush(X)
               PROVE  Sound(y, p) /\ Same(sock, y.k)
    OBVIOUS
  <2>1. PICK x \in X : Sound(y, p) /\ Same(x.k, y.k)
    BY <1>5, FlushSound
  <2>2. QED
    BY <2>1 DEF Same
<1>9. room = 0 => \A x \in Start(sock) : Sound(x, p) /\ Same(sock, x.k)
  <2>1. room = 0 => p = put
    BY <1>1, <1>4 DEF p
  <2>2. QED
    BY <1>1, <2>1 DEF Same
<1> HIDE DEF Y
<1>10. ASSUME NEW X, Done(X), \A x \in X : Sound(x, p) /\ Same(sock, x.k)
       PROVE  \E y : Settled(y, put') /\ Moves(sock, y.k) /\ sock' = y.k /\ client' = y.c
  <2>1. PICK y \in X : sock' = y.k /\ client' = y.c
    BY <1>10 DEF Done
  <2>2. Sound(y, p) /\ Same(sock, y.k)
    BY <1>10
  <2>3. Settled(y, put') /\ Moves(sock, y.k)
    BY <1>5, <2>2, SoundSettled DEF Same, Moves, Tcp
  <2>4. QED
    BY <2>1, <2>3
<1>11. CASE room = 0
  <2>1. Done(Flush(Flush(Start(sock))))
    BY <1>6, <1>11
  <2>2. \A x \in Flush(Flush(Start(sock))) : Sound(x, p) /\ Same(sock, x.k)
    BY <1>8, <1>9, <1>11
  <2>3. QED
    BY <1>5, <1>10, <2>1, <2>2
<1>12. CASE room > 0
  <2>1. \A x \in Flush(Y) : Sound(x, p) /\ Same(sock, x.k)
    BY <1>7, <1>8, <1>12
  <2>2. \A x \in Flush(Flush(Y)) : Sound(x, p) /\ Same(sock, x.k)
    BY <1>8, <2>1
  <2>3. Done(Flush(Flush(Y))) \/ Done(Flush(Y))
    <3>1. n >= room \/ n < room
      BY <1>3
    <3>2. CASE n >= room
      BY <1>6, <1>12, <3>2, <1>3
    <3>3. CASE n < room /\ ~(n >= room)
      BY <1>6, <1>12, <3>3, <1>3
    <3>4. QED
      BY <1>3, <3>1, <3>2, <3>3
  <2>4. QED
    BY <1>5, <1>10, <2>1, <2>2, <2>3
<1>13. QED
  BY <1>3, <1>11, <1>12

-----------------------------------------------------------------------------
(* Every step keeps the invariant and is none, or one of module Socket.    *)
LEMMA Finished ==
  ASSUME NEW y, Settled(y, put'), Moves(sock, y.k), sock' = y.k, client' = y.c,
         asked' \in 0 .. Commands, put' \in 0 .. Total, silent' \in BOOLEAN
  PROVE  IInv' /\ Moves(sock, sock')
<1>1. y \in Works /\ y.k \in Socket /\ y.c \in Client
  BY DEF Settled, Works
<1>2. y = [k |-> y.k, c |-> y.c]
  BY <1>1 DEF Works
<1>3. TypeOK'
  BY <1>1 DEF TypeOK
<1>4. Now' = y
  BY <1>2 DEF Now
<1>5. Settled(Now, put)'
  BY <1>4 DEF Settled, Works, Whole, Good, Ring, Linked, NoFinYet
<1>6. QED
  BY <1>3, <1>5 DEF IInv

LEMMA Ended ==
  ASSUME Ready, NEW X, Done(X), \A y \in X : Settled(y, put) /\ Moves(sock, y.k),
         asked' \in 0 .. Commands, UNCHANGED <<put, silent>>
  PROVE  IInv' /\ Moves(sock, sock')
<1>1. PICK y \in X : sock' = y.k /\ client' = y.c
  BY DEF Done
<1>2. Settled(y, put') /\ Moves(sock, y.k)
  OBVIOUS
<1>3. put' \in 0 .. Total /\ silent' \in BOOLEAN
  BY DEF Ready, IInv, TypeOK
<1>4. QED
  BY <1>1, <1>2, <1>3, Finished

(* A handler that sends once, without a FIN, from a socket that is the one *)
(* there is but for some fields.                                           *)
LEMMA SentOnce ==
  ASSUME Ready, NEW k, Alike(sock, k), NoFinYet(k, client), Moves(sock, k),
         NEW how, how = "alive" => k.alive < MaxAlive /\ InFlight(k) = 0,
         NEW y \in Send(Start(k), "ACK", how)
  PROVE  Settled(y, put) /\ Moves(sock, y.k)
<1>1. Good(Work(sock, client), put) /\ put \in 0 .. Total
  BY ReadySound
<1>2. Sound(Work(k, client), put) /\ Start(k) = {Work(k, client)} /\ Work(k, client).k = k
  BY <1>1, AlikeSound
<1> DEFINE x == Work(k, client)
<1>3. y \in Send({x}, "ACK", how) /\ x.k = k /\ Sound(x, put)
  BY <1>2
<1> HIDE DEF x
<1>4. Sound(y, put) /\ Same(x.k, y.k)
  BY <1>1, <1>3, PlainSend
<1>5. QED
  BY <1>3, <1>4, SoundSettled, StepMoves

(* What the application does takes no part in the ring. *)
LEMMA AskedType ==
  ASSUME IInv
  PROVE  /\ asked \in 0 .. Commands /\ (asked > 0 => asked - 1 \in 0 .. Commands)
         /\ put \in 0 .. Total /\ silent \in BOOLEAN /\ Commands \in 0 .. Commands
BY SizesAssumption DEF IInv, TypeOK

LEMMA SegmentStep ==
  ASSUME IInv, Segment
  PROVE  IInv' /\ Moves(sock, sock')
<1>1. Ready
  BY DEF Ready, Segment
<1>2. PICK a \in 0 .. Len(client.bytes) + 1, w \in Windows, text \in BOOLEAN, fin \in BOOLEAN :
        /\ a = Len(client.bytes) + 1 => client.fin
        /\ Done(HandleTCPSeg(Heard(sock), a, w, text, fin))
  BY DEF Segment
<1>3. asked' \in 0 .. Commands /\ UNCHANGED <<put, silent>>
  BY AskedType DEF Segment
<1>4. \A y \in HandleTCPSeg(Heard(sock), a, w, text, fin) : Settled(y, put) /\ Moves(sock, y.k)
  BY <1>1, <1>2, SegmentSettled
<1>5. QED
  BY <1>1, <1>2, <1>3, <1>4, Ended

LEMMA UnacceptableStep ==
  ASSUME IInv, Unacceptable
  PROVE  IInv' /\ Moves(sock, sock')
<1> DEFINE zero == 0
           k == [sock EXCEPT !.alive = zero]
<1>1. Ready /\ asked' \in 0 .. Commands /\ UNCHANGED <<put, silent>>
  BY AskedType DEF Ready, Unacceptable
<1>2. zero \in 0 .. MaxAlive /\ Heard(sock) = k
  BY SizesAssumption DEF Heard
<1> HIDE DEF zero
<1>3. sock \in Socket /\ NoFinYet(sock, client) /\ (InFlight(sock) > 0 => sock.timer)
  BY <1>1, ReadySound
<1>4. k \in Socket /\ k.st = sock.st /\ k.unread = sock.unread /\ k.txfin = sock.txfin
  BY <1>2, <1>3 DEF Socket
<1>5. /\ k.buf = sock.buf /\ k.head = sock.head /\ k.unacked = sock.unacked
      /\ k.tail = sock.tail /\ k.seq = sock.seq /\ k.timer = sock.timer
  BY <1>3 DEF Socket
<1> HIDE DEF k
<1>6. Alike(sock, k) /\ NoFinYet(k, client) /\ Moves(sock, k)
  BY <1>3, <1>4, <1>5 DEF Alike, NoFinYet, Moves, Tcp
<1>7. \A y \in Send(Start(k), "ACK", "reset") : Settled(y, put) /\ Moves(sock, y.k)
  BY <1>1, <1>6, SentOnce
<1>8. Done(Send(Start(k), "ACK", "reset"))
  BY <1>2 DEF Unacceptable
<1>9. QED
  BY <1>1, <1>7, <1>8, Ended

LEMMA ResetStep ==
  ASSUME IInv, Reset
  PROVE  IInv' /\ Moves(sock, sock')
<1>1. Ready
  BY DEF Ready, Reset
<1>2. sock \in Socket /\ client \in Client /\ Whole(client, put)
  BY <1>1, ReadySound
<1> DEFINE x == Work(sock, client)
           y == [x EXCEPT !.k = CloseSocket(@)]
<1>3. x \in Works /\ x.k = sock /\ x.c = client
  BY <1>2, StartOne
<1>4. y.k = CloseSocket(sock) /\ y.c = client
  BY <1>3 DEF Works
<1>5. y \in Closed({x})
  BY DEF Closed
<1> HIDE DEF x, y
<1>6. Settled(y, put) /\ y.k.st = "listen" /\ y.k.unread = FALSE
  BY <1>2, <1>3, <1>5, ClosedSettled
<1>7. sock' = y.k /\ client' = y.c /\ put' = put /\ silent' = silent /\ asked' = asked
  BY <1>4 DEF Reset
<1>8. QED
  BY <1>6, <1>7, AskedType, Finished DEF Moves

LEMMA TickSendsStep ==
  ASSUME IInv, TickSends
  PROVE  IInv' /\ Moves(sock, sock')
<1>1. Ready /\ asked' \in 0 .. Commands /\ UNCHANGED <<put, silent>>
  BY AskedType DEF Ready, TickSends
<1>2. Alike(sock, sock) /\ NoFinYet(sock, client) /\ Moves(sock, sock)
  BY <1>1, ReadySound DEF Alike, Moves
<1>3. PICK how \in {"plain", "reset"} : Done(Send(Start(sock), "ACK", how))
  BY DEF TickSends
<1>4. \A y \in Send(Start(sock), "ACK", how) : Settled(y, put) /\ Moves(sock, y.k)
  BY <1>1, <1>2, SentOnce
<1>5. QED
  BY <1>1, <1>3, <1>4, Ended

LEMMA CloseWaitStep ==
  ASSUME IInv, CloseWaitTimer
  PROVE  IInv' /\ Moves(sock, sock')
<1> DEFINE st == "last_ack"
           k == [sock EXCEPT !.st = st]
<1>1. Ready /\ asked' \in 0 .. Commands /\ UNCHANGED <<put, silent>>
  BY AskedType DEF Ready, Open, CloseWaitTimer
<1>2. /\ sock \in Socket /\ Good(Work(sock, client), put) /\ put \in 0 .. Total
      /\ (InFlight(sock) > 0 => sock.timer)
  BY <1>1, ReadySound
<1>3. PICK how \in {"plain", "reset"} : Done(Send(Start(k), "FIN", how))
  BY DEF CloseWaitTimer
<1>4. st \in {"listen", "established", "close_wait"} \cup Closing
  BY DEF Closing
<1>5. sock.st = "close_wait" /\ st = "last_ack"
  BY DEF CloseWaitTimer
<1> HIDE DEF st
<1>6. k \in Socket /\ k.st = st /\ k.unread = sock.unread
  BY <1>2, <1>4 DEF Socket
<1>7. /\ k.buf = sock.buf /\ k.head = sock.head /\ k.unacked = sock.unacked
      /\ k.tail = sock.tail /\ k.seq = sock.seq /\ k.timer = sock.timer
  BY <1>2 DEF Socket
<1> HIDE DEF k
<1>8. Alike(sock, k) /\ NoFinYet(k, client)
  BY <1>2, <1>5, <1>6, <1>7 DEF Alike, NoFinYet
<1>9. Sound(Work(k, client), put) /\ Start(k) = {Work(k, client)} /\ Work(k, client).k = k
  BY <1>2, <1>8, AlikeSound
<1>10. ASSUME NEW y \in Send(Start(k), "FIN", how)
       PROVE  Settled(y, put) /\ Moves(sock, y.k)
  <2> DEFINE x == Work(k, client)
  <2>1. Good(x, put) /\ x.k = k /\ y \in Send({x}, "FIN", how)
    BY <1>9, <1>10 DEF Sound
  <2> HIDE DEF x
  <2>2. Sound(y, put) /\ Same(k, y.k)
    BY <1>2, <1>5, <1>6, <2>1, FinSend
  <2>3. QED
    BY <1>5, <1>6, <2>2, SoundSettled DEF Same, Moves
<1>11. QED
  BY <1>1, <1>3, <1>10, Ended

LEMMA TimeoutStep ==
  ASSUME IInv, TickTimeout
  PROVE  IInv' /\ Moves(sock, sock')
<1>1. Ready /\ asked' \in 0 .. Commands /\ UNCHANGED <<put, silent>> /\ Done(Expired(sock))
  BY AskedType DEF Ready, TickTimeout
<1>2. \A y \in Expired(sock) : Settled(y, put) /\ Moves(sock, y.k)
  BY <1>1, ExpiredSettled
<1>3. QED
  BY <1>1, <1>2, Ended

LEMMA DisconnectStep ==
  ASSUME IInv, TCPDisconnect
  PROVE  IInv' /\ Moves(sock, sock')
<1>1. /\ Ready /\ asked' \in 0 .. Commands /\ UNCHANGED <<put, silent>>
      /\ Done(Disconnected(sock))
  BY AskedType DEF Ready, TCPDisconnect
<1>2. \A y \in Disconnected(sock) : Settled(y, put) /\ Moves(sock, y.k)
  BY <1>1, DisconnectedSettled
<1>3. QED
  BY <1>1, <1>2, Ended

LEMMA KeepAliveStep ==
  ASSUME IInv, TickKeepAlive
  PROVE  IInv' /\ Moves(sock, sock')
<1>1. Ready /\ asked' \in 0 .. Commands /\ UNCHANGED <<put, silent>>
  BY AskedType DEF Ready, Open, TickKeepAlive
<1>2. /\ sock \in Socket /\ NoFinYet(sock, client) /\ put \in 0 .. Total
      /\ (InFlight(sock) > 0 => sock.timer) /\ Good(Work(sock, client), put)
  BY <1>1, ReadySound
<1>3. CASE sock.alive = MaxAlive
  <2>1. Done(Closed(Send(Disconnected(sock), "RST", "plain")))
    BY <1>3 DEF TickKeepAlive
  <2>2. \A x \in Disconnected(sock) : x \in Works /\ Whole(x.c, put)
    BY <1>1, DisconnectedSettled DEF Settled
  <2>3. \A y \in Closed(Send(Disconnected(sock), "RST", "plain")) :
          Settled(y, put) /\ Moves(sock, y.k)
    BY <1>2, <2>2, ResetCloses DEF Moves
  <2>4. QED
    BY <1>1, <2>1, <2>3, Ended
<1>4. CASE sock.alive # MaxAlive
  <2>1. Done(Send(Start(sock), "ACK", "alive"))
    BY <1>4 DEF TickKeepAlive
  <2>2. InFlight(sock) = 0
    <3>1. InFlight(sock) \in 0 .. Cells - 1
      BY <1>2, Lengths
    <3>2. ~sock.timer
      BY DEF TickKeepAlive
    <3>3. QED
      BY <1>2, <3>1, <3>2
  <2>3. sock.alive < MaxAlive
    BY <1>2, <1>4, SizesAssumption DEF Socket
  <2>4. Alike(sock, sock) /\ Moves(sock, sock)
    BY <1>2 DEF Alike, Moves
  <2>5. \A y \in Send(Start(sock), "ACK", "alive") : Settled(y, put) /\ Moves(sock, y.k)
    BY <1>1, <1>2, <2>2, <2>3, <2>4, SentOnce
  <2>6. QED
    BY <1>1, <2>1, <2>5, Ended
<1>5. QED
  BY <1>3, <1>4

LEMMA ReadStep ==
  ASSUME IInv, Read
  PROVE  IInv' /\ Moves(sock, sock')
<1> DEFINE no == FALSE
           yes == TRUE
           k == [sock EXCEPT !.unread = no]
           l == [k EXCEPT !.asapnr = yes]
<1>1. Ready /\ asked' \in 0 .. Commands /\ UNCHANGED <<put, silent>>
  BY AskedType DEF Ready, Open, Read
<1>2. /\ sock \in Socket /\ NoFinYet(sock, client) /\ put \in 0 .. Total
      /\ (InFlight(sock) > 0 => sock.timer) /\ Good(Work(sock, client), put)
  BY <1>1, ReadySound
<1>3. no \in BOOLEAN /\ yes \in BOOLEAN /\ sock.st = "established"
  BY DEF Read
<1>4. Done(Start(l)) \/ Done(Send(Start(k), "ACK", "reset"))
  BY DEF Read
<1> HIDE DEF no, yes
<1>5. k \in Socket /\ k.st = sock.st /\ k.txfin = sock.txfin
  BY <1>2, <1>3 DEF Socket
<1>6. /\ k.buf = sock.buf /\ k.head = sock.head /\ k.unacked = sock.unacked
      /\ k.tail = sock.tail /\ k.seq = sock.seq /\ k.timer = sock.timer
  BY <1>2 DEF Socket
<1>7. Alike(sock, k) /\ NoFinYet(k, client) /\ Moves(sock, k)
  BY <1>2, <1>3, <1>5, <1>6 DEF Alike, NoFinYet, Moves
<1> HIDE DEF k
<1>8. l \in Socket /\ l.st = k.st /\ l.txfin = k.txfin
  BY <1>3, <1>5 DEF Socket
<1>9. /\ l.buf = k.buf /\ l.head = k.head /\ l.unacked = k.unacked
      /\ l.tail = k.tail /\ l.seq = k.seq /\ l.timer = k.timer
  BY <1>5 DEF Socket
<1> HIDE DEF l
<1>10. Alike(sock, l) /\ NoFinYet(l, client) /\ Moves(sock, l)
  BY <1>2, <1>3, <1>5, <1>6, <1>8, <1>9 DEF Alike, NoFinYet, Moves
<1>11. CASE Done(Start(l))
  <2>1. \A y \in Start(l) : Settled(y, put) /\ Moves(sock, y.k)
    BY <1>2, <1>10, AlikeSound, SoundSettled
  <2>2. QED
    BY <1>1, <1>11, <2>1, Ended
<1>12. CASE Done(Send(Start(k), "ACK", "reset"))
  <2>1. \A y \in Send(Start(k), "ACK", "reset") : Settled(y, put) /\ Moves(sock, y.k)
    BY <1>1, <1>7, SentOnce
  <2>2. QED
    BY <1>1, <1>12, <2>1, Ended
<1>13. QED
  BY <1>4, <1>11, <1>12

LEMMA ReplyStep ==
  ASSUME IInv, NEW n \in 1 .. Total, Reply(n)
  PROVE  IInv' /\ Moves(sock, sock')
<1>1. Ready /\ asked' \in 0 .. Commands /\ silent' \in BOOLEAN
  BY AskedType DEF Ready, Reply
<1>2. LET room == PutReady(sock)
          m == Least(n, room)
          Y == {[x EXCEPT !.k = Stored(@, m)] : x \in HalfFull(sock)}
      IN /\ put + m <= Total
         /\ Done(CASE room = 0 -> Flush(Flush(Start(sock)))
                   [] room > 0 /\ n >= room -> Flush(Flush(Y))
                   [] room > 0 /\ n < room -> Flush(Y))
         /\ put' = put + m
  BY Zenon DEF Reply
<1>3. /\ put' \in 0 .. Total
      /\ \E y : Settled(y, put') /\ Moves(sock, y.k) /\ sock' = y.k /\ client' = y.c
  BY <1>1, <1>2, ReplySettled
<1>4. QED
  BY <1>1, <1>3, Finished

LEMMA QuietStep ==
  ASSUME IInv, NoReply \/ Silence \/ UNCHANGED vars
  PROVE  IInv' /\ Moves(sock, sock')
<1>1. sock' = sock /\ client' = client /\ put' = put
  BY DEF NoReply, Silence, vars
<1>2. asked' \in 0 .. Commands /\ silent' \in BOOLEAN
  BY AskedType DEF NoReply, Silence, vars
<1>3. Settled(Now, put) /\ Now.k = sock /\ Now.c = client
  BY DEF IInv, Now
<1>4. put \in 0 .. Total
  BY AskedType
<1>5. QED
  BY <1>1, <1>2, <1>3, <1>4, Finished DEF Moves

LEMMA NextIInv ==
  ASSUME IInv, [Next]_vars
  PROVE  IInv' /\ Moves(sock, sock')
<1>1. \/ Segment \/ Unacceptable \/ Reset \/ TickSends \/ CloseWaitTimer \/ TickTimeout
      \/ TickKeepAlive \/ Read \/ TCPDisconnect \/ NoReply \/ Silence \/ UNCHANGED vars
      \/ \E n \in 1 .. Total : Reply(n)
  BY DEF Next, TCPTick
<1>2. QED
  BY <1>1, SegmentStep, UnacceptableStep, ResetStep, TickSendsStep, CloseWaitStep, TimeoutStep,
     KeepAliveStep, ReadStep, DisconnectStep, QuietStep, ReplyStep

LEMMA InitIInv == Init => IInv
<1> DEFINE empty == [c \in Cell |-> Garbage]
           zero == 0
           no == FALSE
           st == "established"
<1>1. ASSUME NEW w \in Windows, NEW k,
             k = [buf |-> empty, st |-> st, head |-> zero, unacked |-> zero, tail |-> zero,
                  seq |-> zero, rwin |-> w, retry |-> zero, timer |-> no, txfin |-> no,
                  finsent |-> no, none |-> zero, asap |-> no, asapnr |-> no, half |-> no,
                  ackdue |-> no, alive |-> zero, peerfin |-> no, unread |-> no]
      PROVE  /\ k \in Socket /\ k.head = 0 /\ k.unacked = 0 /\ k.tail = 0 /\ k.seq = 0
             /\ k.st = "established" /\ ~k.txfin
  <2>1. empty \in [Cell -> Garbage .. Total - 1]
    BY SizesAssumption DEF Garbage
  <2>2. /\ zero \in Cell /\ zero \in 0 .. Total /\ zero \in 0 .. MaxRetries
        /\ zero \in 0 .. MaxAlive /\ zero \in 0 .. 2 /\ no \in BOOLEAN
        /\ st \in {"listen", "established", "close_wait"} \cup Closing
        /\ w \in 0 .. Word - 1
    BY SizesAssumption DEF Cell
  <2>3. k.head = zero /\ k.unacked = zero /\ k.tail = zero /\ k.seq = zero
        /\ k.st = st /\ k.txfin = no
    BY <1>1
  <2>4. k \in Socket
    <3> HIDE DEF empty, zero, no, st
    <3>1. QED
      BY <1>1, <2>1, <2>2 DEF Socket
  <2>5. QED
    BY <2>3, <2>4
<1> SUFFICES ASSUME Init
             PROVE  IInv
  OBVIOUS
<1>2. /\ sock \in Socket /\ sock.head = 0 /\ sock.unacked = 0 /\ sock.tail = 0 /\ sock.seq = 0
      /\ sock.st = "established" /\ ~sock.txfin
  BY <1>1 DEF Init
<1> HIDE DEF empty, zero, no, st
<1>3. client \in Client /\ Len(client.bytes) = 0 /\ ~client.fin /\ client.bytes = << >>
  BY SizesAssumption DEF Init, Client, Garbage
<1>4. TypeOK
  <2>1. asked = 0 /\ put = 0 /\ silent \in BOOLEAN
    BY Zenon DEF Init
  <2>2. QED
    BY <1>2, <1>3, <2>1, SizesAssumption DEF TypeOK
<1>5. put = 0 /\ Now \in Works /\ Now.k = sock /\ Now.c = client
  BY <1>2, <1>3 DEF Init, Now, Works
<1>6. Unsent(sock) = 0 /\ InFlight(sock) = 0
  BY <1>2, SizesAssumption DEF Unsent, InFlight, Ahead
<1>7. Ring(sock, put) /\ Linked(sock, client)
  BY <1>2, <1>3, <1>5, <1>6, SizesAssumption DEF Ring, Linked, Position, Base
<1>8. Whole(client, put)
  BY <1>3, <1>5 DEF Whole
<1>9. QED
  BY <1>2, <1>3, <1>4, <1>5, <1>7, <1>8 DEF IInv, Settled, Good, NoFinYet

LEMMA Invariance == Spec => []IInv
<1>1. IInv /\ [Next]_vars => IInv'
  BY NextIInv
<1>2. QED
  BY <1>1, InitIInv, PTL DEF Spec

-----------------------------------------------------------------------------
(* The socket, what was put and what the client received stay of their     *)
(* types: no pointer leaves the buffer, no counter runs over its limit.    *)
THEOREM TypeCorrect == Spec => []TypeOK
<1>1. IInv => TypeOK
  BY DEF IInv
<1>2. QED
  BY <1>1, Invariance, PTL

(* The client receives the replies in order, whole and once, and the end   *)
(* of the connection after all of them, whatever is lost, sent again by    *)
(* TCPTick, rolled back by HandleTCPSeg or acknowledged out of order.      *)
THEOREM RepliesIntact == Spec => []Intact
<1>1. IInv => Intact
  BY DEF IInv, Settled, Now, Whole, Intact
<1>2. QED
  BY <1>1, Invariance, PTL

(* MySEQ is the number of the byte at txUnackedTail after every handler of *)
(* TCP.c, and no byte from txTail on has been overwritten by TCPPutArray.  *)
THEOREM SeqMatches == Spec => []SeqMatchesRing
<1>1. ASSUME IInv, Open
      PROVE  Ring(sock, put)
  BY <1>1 DEF IInv, Settled, Good, Now, Open
<1>2. IInv => SeqMatchesRing
  BY <1>1 DEF Ring, Base, SeqMatchesRing
<1>3. QED
  BY <1>2, Invariance, PTL

(* HandleTCPSeg frees no byte of the buffer the client has not received.   *)
THEOREM NoneLost == Spec => []OnlyReceivedFreed
<1>1. ASSUME IInv, Open
      PROVE  Linked(sock, client)
  BY <1>1 DEF IInv, Settled, Good, Now, Open
<1>2. IInv => OnlyReceivedFreed
  BY <1>1 DEF Linked, Base, OnlyReceivedFreed
<1>3. QED
  BY <1>2, Invariance, PTL

-----------------------------------------------------------------------------
(* A move of the socket is a step of module Socket, or none.               *)
LEMMA MovesSocket ==
  ASSUME sock \in Socket, sock' \in Socket, Moves(sock, sock')
  PROVE  [S!Next]_(S!svars)
<1> DEFINE t == Tcp(sock)
           u == Tcp(sock')
           r == sock.unread
           v == sock'.unread
<1>1. t # "closed" /\ r \in BOOLEAN /\ v \in BOOLEAN
  BY DEF Tcp, Socket, Closing
<1>2. \/ u = t /\ v = r
      \/ u = "listen" /\ v = FALSE
      \/ t = "established" /\ u = "established"
      \/ t = "established" /\ u = "close_wait" /\ v \in {r, TRUE}
      \/ t \in {"established", "close_wait"} /\ u = "fin_wait" /\ v \in {r, FALSE}
      \/ t = "close_wait" /\ u = "last_ack" /\ v \in {r, FALSE}
      \/ t = "fin_wait" /\ u = "fin_wait" /\ v = FALSE
  BY DEF Moves, Tcp
<1>3. QED
  BY <1>1, <1>2 DEF Tcp, S!Next, S!svars, S!Ends, S!Text, S!ClientCloses, S!Closes,
     S!Forgets, S!Move

(* To MyTCPTask the socket of TCP.c is the one TcpServer is written for:   *)
(* every handler, timer and call takes it from one state of module Socket  *)
(* to the next, with the text to read coming and going as it says.         *)
THEOREM ImplementsSocket == Spec => IsSocket
<1>1. Init => S!Init
  BY DEF Init, S!Init
<1>2. IInv /\ IInv' /\ [Next]_vars => [S!Next]_(S!svars)
  <2> SUFFICES ASSUME IInv, IInv', [Next]_vars
               PROVE  [S!Next]_(S!svars)
    OBVIOUS
  <2>1. sock \in Socket /\ sock' \in Socket
    BY DEF IInv, TypeOK
  <2>2. QED
    BY <2>1, NextIInv, MovesSocket
<1>3. QED
  BY <1>1, <1>2, Invariance, PTL DEF Spec, IsSocket, S!Spec
=============================================================================
