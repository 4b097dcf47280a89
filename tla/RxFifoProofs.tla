---------------------------- MODULE RxFifoProofs ----------------------------
(***************************************************************************)
(* Proofs about RxFifo, for every size of the buffer and every length of   *)
(* the stream: in whatever order and cut the segments arrive, the          *)
(* application reads what the client sent.                                 *)
(***************************************************************************)
EXTENDS RxFifo, TLAPS

IInv == TypeOK /\ InOrder /\ FutureHeld /\ AckedArrived /\ FinIsLast

-----------------------------------------------------------------------------
(* The circle of cells.                                                    *)
LEMMA OnCell ==
  ASSUME NEW p \in Cell, NEW n \in 0 .. Cells
  PROVE  On(p, n) \in Cell
BY CellsAssumption DEF On, Cell

LEMMA AheadRange ==
  ASSUME NEW p \in Cell, NEW q \in Cell
  PROVE  Ahead(p, q) \in 0 .. Cells - 1 /\ On(q, Ahead(p, q)) = p
BY CellsAssumption DEF On, Ahead, Cell

LEMMA AheadOn ==
  ASSUME NEW p \in Cell, NEW n \in 0 .. Cells - 1
  PROVE  Ahead(On(p, n), p) = n
BY CellsAssumption DEF On, Ahead, Cell

LEMMA OnOn ==
  ASSUME NEW p \in Cell, NEW a \in 0 .. Cells - 1, NEW b \in 0 .. Cells - 1
  PROVE  /\ a + b < Cells => On(On(p, a), b) = On(p, a + b)
         /\ a + b >= Cells => On(On(p, a), b) = On(p, a + b - Cells)
BY CellsAssumption DEF On, Cell

LEMMA AheadOnOn ==
  ASSUME NEW p \in Cell, NEW m \in 0 .. Cells - 1, NEW k \in 0 .. Cells - 1
  PROVE  Ahead(On(p, k), On(p, m)) = IF k >= m THEN k - m ELSE k - m + Cells
BY CellsAssumption DEF On, Ahead, Cell

(* The n cells from cell p on that were copied have what was copied, the   *)
(* others what they had.                                                   *)
LEMMA CopiedHere ==
  ASSUME NEW p \in Cell, NEW n \in Nat, NEW first, NEW k \in 0 .. Cells - 1
  PROVE  Copied(p, first, n)[On(p, k)]
           = IF k < n THEN first + k ELSE buf[On(p, k)]
<1>1. On(p, k) \in Cell
  BY OnCell, CellsAssumption
<1>2. Ahead(On(p, k), p) = k
  BY AheadOn
<1>3. QED
  BY <1>1, <1>2 DEF Copied

LEMMA CopiedType ==
  ASSUME TypeOK, NEW p \in Cell, NEW first \in 0 .. StreamLen, NEW n \in 0 .. Cells - 1,
         first + n <= StreamLen
  PROVE  Copied(p, first, n) \in [Cell -> 0 .. StreamLen \cup {Nothing}]
<1> SUFFICES ASSUME NEW c \in Cell
             PROVE  (IF Ahead(c, p) < n THEN first + Ahead(c, p) ELSE buf[c])
                      \in 0 .. StreamLen \cup {Nothing}
  BY DEF Copied
<1>1. Ahead(c, p) \in 0 .. Cells - 1
  BY AheadRange
<1>2. buf[c] \in 0 .. StreamLen \cup {Nothing}
  BY DEF TypeOK
<1>3. QED
  BY <1>1, <1>2, CellsAssumption, StreamAssumption

(* What the tests of the sequence number let pass joins the window.        *)
LEMMA Window ==
  ASSUME TypeOK, NEW seq \in 0 .. StreamLen, NEW len \in 0 .. StreamLen,
         NEW fin \in {0, 1}, Segment(seq, len, fin), len > 0,
         Acceptable(seq - nxt, len + fin)
  PROVE  /\ Short(seq - nxt) = seq - nxt
         /\ Free \in 1 .. Cells - 1
         /\ seq - nxt < Free
         /\ seq + len >= nxt
<1>1. Ready \in 0 .. Cells - 1
  BY AheadRange DEF Ready, TypeOK
<1>2. Free \in 0 .. Cells - 1
  BY <1>1, CellsAssumption DEF Free
<1> DEFINE m == seq - nxt
           n == len + fin
<1>3. m \in Int /\ n \in Int /\ n > 0 /\ n <= Half /\ m >= -Half
  BY StreamAssumption, HalfAssumption DEF Segment, TypeOK
<1>4. Free > 0 /\ (\/ m >= 0 /\ m < Free
                   \/ m + n > 0 /\ m <= Short(Free - n)
                   \/ m < Free /\ Short(m) + n > 0)
  BY <1>3 DEF Acceptable
<1>5. Short(Free - n) = Free - n
  BY <1>2, <1>3, CellsAssumption, HalfAssumption DEF Short
<1>6. m < Free
  BY <1>2, <1>3, <1>4, <1>5
<1>7. Short(m) = m
  BY <1>2, <1>3, <1>6, CellsAssumption, HalfAssumption DEF Short
<1>8. m + n > 0
  BY <1>2, <1>3, <1>4, <1>5, <1>7
<1>9. QED
  BY <1>2, <1>3, <1>4, <1>6, <1>7, <1>8, StreamAssumption DEF TypeOK

-----------------------------------------------------------------------------
(* What storing text does to the cells, said without their layout: the     *)
(* bytes that wait stay, those that are new in order follow them, and what *)
(* is behind the hole is where it belongs. None of it depends on where the *)
(* application reads.                                                      *)
Stored ==
  /\ buf' \in [Cell -> 0 .. StreamLen \cup {Nothing}]
  /\ nxt' \in nxt .. StreamLen /\ nxt' - nxt <= Free
  /\ head' = On(head, nxt' - nxt)
  /\ hole' \in -1 .. Cells - 1 /\ hole' # 0 /\ future' \in 0 .. Cells - 1
  /\ \A k \in 0 .. Cells - 1 : k < Ready => buf'[On(tail, k)] = buf[On(tail, k)]
  /\ \A k \in 0 .. Cells - 1 : k < nxt' - nxt => buf'[On(head, k)] = nxt + k
  /\ \A p \in nxt .. nxt' - 1 : p \in arrived'
  /\ hole' # -1 =>
       /\ future' > 0 /\ nxt' - nxt + hole' + future' <= Free
       /\ \A k \in 0 .. Cells - 1 : k >= hole' /\ k < hole' + future' =>
            buf'[On(head', k)] = nxt' + k /\ nxt' + k \in arrived'

(* The cells that wait are the ones behind the free space. *)
LEMMA WaitingAt ==
  ASSUME TypeOK, NEW k \in 0 .. Cells - 1, k < Ready
  PROVE  /\ k + Free + 1 \in 0 .. Cells - 1
         /\ On(tail, k) = On(head, k + Free + 1)
<1>1. Ready \in 0 .. Cells - 1 /\ On(tail, Ready) = head
  BY AheadRange DEF Ready, TypeOK
<1>2. k + Free + 1 \in 0 .. Cells - 1
  BY <1>1, CellsAssumption DEF Free
<1>3. QED
  BY <1>1, <1>2, CellsAssumption DEF Free, On, TypeOK, Cell

LEMMA InOrderStored ==
  ASSUME IInv, NEW seq \in 0 .. StreamLen, NEW len \in 0 .. StreamLen,
         NEW fin \in {0, 1}, Segment(seq, len, fin), len > 0,
         Acceptable(seq - nxt, len + fin), seq <= nxt,
         InOrderText(seq - nxt, len),
         arrived' = arrived \cup (seq .. seq + len - 1)
  PROVE  Stored
<1> DEFINE m == seq - nxt
           n == Fits(m, len)
           j == Joined(n)
<1> USE CellsAssumption, StreamAssumption
<1>1. TypeOK /\ InOrder /\ FutureHeld
  BY DEF IInv
<1>2. Free \in 1 .. Cells - 1 /\ seq + len >= nxt /\ seq + len <= StreamLen
  BY <1>1, Window DEF Segment
<1>3. nxt \in 0 .. StreamLen /\ head \in Cell /\ hole \in -1 .. Cells - 1 /\ hole # 0
      /\ future \in 0 .. Cells - 1
  BY <1>1 DEF TypeOK
<1>4. m \in Int /\ m <= 0 /\ len + m >= 0
  BY <1>2, <1>3
<1>5. n \in 0 .. Free /\ n <= len + m
  BY <1>2, <1>4 DEF Fits
<1>6. /\ buf' = Copied(head, nxt, n) /\ nxt' = nxt + n + j
      /\ head' = On(On(head, n), j)
      /\ hole' = (IF hole - n > 0 THEN hole - n ELSE -1)
      /\ future' = future
  BY DEF InOrderText
<1>7. hole # -1 => /\ future > 0 /\ hole + future <= Free
                   /\ \A k \in 0 .. Cells - 1 : k >= hole /\ k < hole + future =>
                        buf[On(head, k)] = nxt + k /\ nxt + k \in arrived
  BY <1>1 DEF FutureHeld, NoHole
<1>8. /\ j \in 0 .. Cells - 1 /\ n + j <= Free
      /\ j > 0 => hole # -1 /\ hole <= n /\ n + j = hole + future
  BY <1>2, <1>3, <1>5, <1>7 DEF Joined, NoHole
<1> HIDE DEF n, j
<1>9. \A k \in 0 .. Cells - 1 :
        buf'[On(head, k)] = IF k < n THEN nxt + k ELSE buf[On(head, k)]
  <2> TAKE k \in 0 .. Cells - 1
  <2>1. Copied(head, nxt, n)[On(head, k)]
          = IF k < n THEN nxt + k ELSE buf[On(head, k)]
    BY <1>2, <1>3, <1>5, CopiedHere
  <2>2. QED
    BY <2>1, <1>6
<1>10. \A k \in 0 .. Cells - 1 : k < n + j => buf'[On(head, k)] = nxt + k
  <2> SUFFICES ASSUME NEW k \in 0 .. Cells - 1, k < n + j
               PROVE  buf'[On(head, k)] = nxt + k
    OBVIOUS
  <2>1. CASE k < n
    BY <2>1, <1>9
  <2>2. CASE k >= n
    BY <2>2, <1>3, <1>5, <1>7, <1>8, <1>9
  <2>3. QED
    BY <2>1, <2>2, <1>5
<1>11. head' = On(head, n + j)
  <2>1. n \in 0 .. Cells - 1 /\ j \in 0 .. Cells - 1 /\ n + j < Cells
    BY <1>2, <1>5, <1>8
  <2>2. QED
    BY <2>1, <1>3, <1>6, OnOn
<1>12. \A p \in nxt .. nxt + n + j - 1 : p \in arrived'
  <2> SUFFICES ASSUME NEW p \in nxt .. nxt + n + j - 1
               PROVE  p \in arrived'
    OBVIOUS
  <2>1. CASE p < nxt + n
    BY <2>1, <1>3, <1>4, <1>5
  <2>2. CASE p >= nxt + n
    <3>1. p - nxt \in 0 .. Cells - 1 /\ p - nxt >= hole /\ p - nxt < hole + future /\ hole # -1
      BY <2>2, <1>2, <1>3, <1>5, <1>8
    <3>2. nxt + (p - nxt) \in arrived
      BY <3>1, <1>7
    <3>3. QED
      BY <3>2, <1>3
  <2>3. QED
    BY <2>1, <2>2, <1>3, <1>5
<1>13. nxt + n + j <= StreamLen
  <2>1. CASE j = 0
    BY <2>1, <1>2, <1>3, <1>4, <1>5
  <2>2. CASE j > 0
    <3>1. nxt + n + j - 1 \in arrived'
      BY <2>2, <1>3, <1>5, <1>8, <1>12
    <3>2. arrived' \subseteq 0 .. StreamLen - 1
      BY <1>1, <1>2 DEF TypeOK
    <3>3. QED
      BY <3>1, <3>2, <1>3, <1>5, <1>8
  <2>3. QED
    BY <2>1, <2>2, <1>8
<1>14. buf' \in [Cell -> 0 .. StreamLen \cup {Nothing}]
  BY <1>1, <1>2, <1>3, <1>4, <1>5, <1>6, CopiedType
<1>15. \A k \in 0 .. Cells - 1 : k < Ready => buf'[On(tail, k)] = buf[On(tail, k)]
  <2> SUFFICES ASSUME NEW k \in 0 .. Cells - 1, k < Ready
               PROVE  buf'[On(tail, k)] = buf[On(tail, k)]
    OBVIOUS
  <2>1. k + Free + 1 \in 0 .. Cells - 1 /\ On(tail, k) = On(head, k + Free + 1)
    BY <1>1, WaitingAt
  <2>2. QED
    BY <2>1, <1>2, <1>5, <1>9
<1>16. hole' # -1 =>
         /\ future' > 0 /\ n + j + hole' + future' <= Free
         /\ \A k \in 0 .. Cells - 1 : k >= hole' /\ k < hole' + future' =>
              buf'[On(head', k)] = nxt' + k /\ nxt' + k \in arrived'
  <2> SUFFICES ASSUME hole' # -1
               PROVE  /\ future' > 0 /\ n + j + hole' + future' <= Free
                      /\ \A k \in 0 .. Cells - 1 : k >= hole' /\ k < hole' + future' =>
                           buf'[On(head', k)] = nxt' + k /\ nxt' + k \in arrived'
    OBVIOUS
  <2>1. hole - n > 0 /\ hole' = hole - n /\ hole # -1
    BY <1>3, <1>5, <1>6
  <2>2. j = 0
    BY <2>1, <1>3, <1>5, <1>8
  <2>3. future' > 0 /\ n + j + hole' + future' <= Free
    BY <2>1, <2>2, <1>3, <1>5, <1>6, <1>7
  <2>4. ASSUME NEW k \in 0 .. Cells - 1, k >= hole', k < hole' + future'
        PROVE  buf'[On(head', k)] = nxt' + k /\ nxt' + k \in arrived'
    <3>1. n + k \in 0 .. Cells - 1 /\ n + k >= hole /\ n + k < hole + future
      BY <2>1, <2>4, <1>2, <1>3, <1>5, <1>6, <1>7
    <3>2. On(head', k) = On(head, n + k)
      BY <3>1, <2>2, <1>2, <1>3, <1>5, <1>11, OnOn
    <3>3. buf[On(head, n + k)] = nxt + (n + k) /\ nxt + (n + k) \in arrived
      BY <3>1, <2>1, <1>7
    <3>4. buf'[On(head, n + k)] = buf[On(head, n + k)]
      BY <3>1, <1>5, <1>9
    <3>5. QED
      BY <3>2, <3>3, <3>4, <2>2, <1>3, <1>5, <1>6
  <2>5. QED
    BY <2>3, <2>4
<1>17. hole' \in -1 .. Cells - 1 /\ hole' # 0 /\ future' \in 0 .. Cells - 1
  BY <1>3, <1>5, <1>6
<1>18. nxt' - nxt = n + j
  BY <1>3, <1>5, <1>6, <1>8
<1>19. nxt' \in nxt .. StreamLen
  BY <1>3, <1>5, <1>6, <1>8, <1>13
<1>20. nxt' - 1 = nxt + n + j - 1
  BY <1>3, <1>5, <1>6, <1>8
<1>21. QED
  BY <1>8, <1>10, <1>11, <1>12, <1>14, <1>15, <1>16, <1>17, <1>18, <1>19, <1>20
     DEF Stored

LEMMA LaterStored ==
  ASSUME IInv, NEW seq \in 0 .. StreamLen, NEW len \in 0 .. StreamLen,
         NEW fin \in {0, 1}, Segment(seq, len, fin), len > 0,
         Acceptable(seq - nxt, len + fin), seq > nxt,
         LaterText(seq - nxt, len),
         arrived' = arrived \cup (seq .. seq + len - 1)
  PROVE  Stored
<1> DEFINE m == seq - nxt
           n == IF len + m > Free THEN Free - m ELSE len
<1> USE CellsAssumption, StreamAssumption
<1>1. TypeOK /\ InOrder /\ FutureHeld
  BY DEF IInv
<1>2. Free \in 1 .. Cells - 1 /\ m < Free /\ seq + len <= StreamLen
  BY <1>1, Window DEF Segment
<1>3. nxt \in 0 .. StreamLen /\ head \in Cell /\ hole \in -1 .. Cells - 1 /\ hole # 0
      /\ future \in 0 .. Cells - 1
  BY <1>1 DEF TypeOK
<1>4. m \in 1 .. Cells - 1
  BY <1>2, <1>3
<1>5. n \in 1 .. Cells - 1 /\ m + n <= Free /\ n <= len
  BY <1>2, <1>4
<1>6. /\ buf' = Copied(On(head, m), nxt + m, n)
      /\ Remembered(m, n) /\ nxt' = nxt /\ head' = head
  BY DEF LaterText
<1>7. hole # -1 => /\ future > 0 /\ hole + future <= Free
                   /\ \A k \in 0 .. Cells - 1 : k >= hole /\ k < hole + future =>
                        buf[On(head, k)] = nxt + k /\ nxt + k \in arrived
  BY <1>1 DEF FutureHeld, NoHole
<1>8. nxt + m = seq
  BY <1>3
<1> HIDE DEF m, n
<1>9. \A k \in 0 .. Cells - 1 :
        buf'[On(head, k)] = IF k >= m /\ k < m + n THEN nxt + k ELSE buf[On(head, k)]
  <2> TAKE k \in 0 .. Cells - 1
  <2>1. Copied(On(head, m), seq, n)[On(head, k)]
          = IF k >= m /\ k < m + n THEN seq + k - m ELSE buf[On(head, k)]
    <3>1. On(head, k) \in Cell
      BY <1>3, OnCell
    <3>2. Ahead(On(head, k), On(head, m)) = IF k >= m THEN k - m ELSE k - m + Cells
      BY <1>3, <1>4, AheadOnOn
    <3>3. Ahead(On(head, k), On(head, m)) < n <=> k >= m /\ k < m + n
      BY <3>2, <1>2, <1>4, <1>5
    <3>4. k >= m => seq + Ahead(On(head, k), On(head, m)) = seq + k - m
      BY <3>2, <1>4
    <3>5. QED
      BY <3>1, <3>3, <3>4 DEF Copied
  <2>2. seq + k - m = nxt + k
    BY <1>3, <1>4, <1>8
  <2>3. QED
    BY <2>1, <2>2, <1>6, <1>8
<1>10. \A k \in 0 .. Cells - 1 : k >= m /\ k < m + n => nxt + k \in arrived'
  BY <1>3, <1>4, <1>5, <1>8
<1>11. buf' \in [Cell -> 0 .. StreamLen \cup {Nothing}]
  <2>1. On(head, m) \in Cell
    BY <1>3, <1>4, OnCell
  <2>2. seq + n <= StreamLen
    BY <1>2, <1>5
  <2>3. QED
    BY <2>1, <2>2, <1>1, <1>5, <1>6, <1>8, CopiedType
<1>12. \A k \in 0 .. Cells - 1 : k < Ready => buf'[On(tail, k)] = buf[On(tail, k)]
  <2> SUFFICES ASSUME NEW k \in 0 .. Cells - 1, k < Ready
               PROVE  buf'[On(tail, k)] = buf[On(tail, k)]
    OBVIOUS
  <2>1. k + Free + 1 \in 0 .. Cells - 1 /\ On(tail, k) = On(head, k + Free + 1)
    BY <1>1, WaitingAt
  <2>2. QED
    BY <2>1, <1>2, <1>4, <1>5, <1>9
<1>13. head' = On(head, nxt' - nxt)
  BY <1>3, <1>6 DEF On, Cell
<1>14. /\ hole' \in 1 .. Cells - 1 /\ future' \in 1 .. Cells - 1
       /\ hole' + future' <= Free
       /\ \A k \in 0 .. Cells - 1 : k >= hole' /\ k < hole' + future' =>
            \/ k >= m /\ k < m + n
            \/ hole # -1 /\ k >= hole /\ k < hole + future
  <2>1. CASE hole = -1
    BY <2>1, <1>2, <1>4, <1>5, <1>6 DEF Remembered, NoHole
  <2>2. CASE hole # -1 /\ m < hole
    BY <2>2, <1>2, <1>3, <1>4, <1>5, <1>6, <1>7 DEF Remembered, NoHole
  <2>3. CASE hole # -1 /\ m >= hole
    BY <2>3, <1>2, <1>3, <1>4, <1>5, <1>6, <1>7 DEF Remembered, NoHole
  <2>4. QED
    BY <2>1, <2>2, <2>3, <1>3, <1>4
<1>15. \A k \in 0 .. Cells - 1 : k >= hole' /\ k < hole' + future' =>
         buf'[On(head', k)] = nxt' + k /\ nxt' + k \in arrived'
  <2> SUFFICES ASSUME NEW k \in 0 .. Cells - 1, k >= hole', k < hole' + future'
               PROVE  buf'[On(head, k)] = nxt + k /\ nxt + k \in arrived'
    BY <1>6
  <2>1. CASE k >= m /\ k < m + n
    BY <2>1, <1>9, <1>10
  <2>2. CASE ~(k >= m /\ k < m + n)
    BY <2>2, <1>7, <1>9, <1>14
  <2>3. QED
    BY <2>1, <2>2
<1>16. /\ nxt' \in nxt .. StreamLen /\ nxt' - nxt = 0 /\ nxt' - 1 = nxt - 1
       /\ nxt' - nxt <= Free /\ nxt' - nxt + hole' + future' = hole' + future'
  BY <1>2, <1>3, <1>6, <1>14
<1>17. \A k \in 0 .. Cells - 1 : ~(k < nxt' - nxt)
  BY <1>16
<1>18. \A p \in nxt .. nxt' - 1 : p \in arrived'
  BY <1>3, <1>6
<1>19. hole' \in -1 .. Cells - 1 /\ hole' # 0 /\ future' > 0 /\ future' \in 0 .. Cells - 1
  BY <1>14
<1>20. QED
  BY <1>11, <1>12, <1>13, <1>14, <1>15, <1>16, <1>17, <1>18, <1>19 DEF Stored

(* An acceptable segment stores its text in one way or the other. *)
LEMMA TextStored ==
  ASSUME IInv, NEW seq \in 0 .. StreamLen, NEW len \in 0 .. StreamLen,
         NEW fin \in {0, 1}, Segment(seq, len, fin),
         Acceptable(seq - nxt, len + fin), Text(seq, len),
         arrived' = arrived \cup (seq .. seq + len - 1)
  PROVE  Stored
<1> USE CellsAssumption, StreamAssumption
<1>1. CASE len = 0
  <2>1. UNCHANGED <<buf, nxt, head, hole, future>>
    BY <1>1 DEF Text
  <2>2. TypeOK /\ FutureHeld
    BY DEF IInv
  <2>3. Free \in 0 .. Cells - 1
    BY <2>2, AheadRange DEF Ready, Free, TypeOK
  <2>4. head = On(head, 0)
    BY <2>2 DEF On, Cell, TypeOK
  <2>5. nxt' - nxt = 0 /\ nxt' - 1 = nxt - 1 /\ nxt' \in nxt .. StreamLen
    BY <2>1, <2>2 DEF TypeOK
  <2>6. arrived \subseteq arrived'
    OBVIOUS
  <2>7. hole' # -1 =>
          /\ future' > 0 /\ hole' + future' <= Free
          /\ \A k \in 0 .. Cells - 1 : k >= hole' /\ k < hole' + future' =>
               buf'[On(head', k)] = nxt' + k /\ nxt' + k \in arrived'
    BY <2>1, <2>2, <2>6 DEF FutureHeld, NoHole
  <2>8. /\ buf' \in [Cell -> 0 .. StreamLen \cup {Nothing}]
        /\ hole' \in -1 .. Cells - 1 /\ hole' # 0 /\ future' \in 0 .. Cells - 1
    BY <2>1, <2>2 DEF TypeOK
  <2>9. QED
    BY <2>1, <2>2, <2>3, <2>4, <2>5, <2>7, <2>8 DEF Stored, TypeOK
<1>2. TypeOK /\ nxt \in 0 .. StreamLen
  BY DEF IInv, TypeOK
<1>3. CASE len > 0
  <2>1. Short(seq - nxt) = seq - nxt
    BY <1>2, <1>3, Window
  <2>2. CASE seq <= nxt
    <3>1. InOrderText(seq - nxt, len)
      BY <1>2, <1>3, <2>1, <2>2 DEF Text
    <3>2. QED
      BY <1>3, <2>2, <3>1, InOrderStored
  <2>3. CASE seq > nxt
    <3>1. LaterText(seq - nxt, len)
      BY <1>2, <1>3, <2>1, <2>3 DEF Text
    <3>2. QED
      BY <1>3, <2>3, <3>1, LaterStored
  <2>4. QED
    BY <1>2, <2>2, <2>3
<1>4. QED
  BY <1>1, <1>3

-----------------------------------------------------------------------------
(* What is behind the hole after a step, with f cells free.                *)
Held(f) ==
  hole' # -1 =>
    /\ future' > 0 /\ hole' + future' <= f
    /\ \A k \in 0 .. Cells - 1 : k >= hole' /\ k < hole' + future' =>
         buf'[On(head', k)] = nxt' + k /\ nxt' + k \in arrived'

LEMMA FutureIsHeld == FutureHeld' <=> Held(Free')
BY DEF FutureHeld, NoHole, Held

LEMMA FreeRange ==
  ASSUME TypeOK
  PROVE  /\ Ready \in 0 .. Cells - 1 /\ On(tail, Ready) = head
         /\ Free \in 0 .. Cells - 1 /\ Free = Cells - 1 - Ready
<1>1. Ready \in 0 .. Cells - 1 /\ On(tail, Ready) = head
  BY AheadRange DEF Ready, TypeOK
<1>2. QED
  BY <1>1, CellsAssumption DEF Free

LEMMA StoredRange ==
  ASSUME TypeOK, Stored
  PROVE  /\ nxt' - nxt \in 0 .. Free /\ nxt' \in 0 .. StreamLen
         /\ nxt' = nxt + (nxt' - nxt) /\ head' = On(head, nxt' - nxt)
         /\ head' \in Cell
         /\ hole' \in -1 .. Cells - 1 /\ future' \in 0 .. Cells - 1
         /\ Held(Free - (nxt' - nxt)) /\ Held(Free)
<1>1. /\ nxt' \in nxt .. StreamLen /\ nxt' - nxt <= Free
      /\ head' = On(head, nxt' - nxt)
      /\ hole' \in -1 .. Cells - 1 /\ future' \in 0 .. Cells - 1
  BY DEF Stored
<1>2. nxt \in 0 .. StreamLen /\ head \in Cell
  BY DEF TypeOK
<1>3. Free \in 0 .. Cells - 1
  BY FreeRange
<1>4. /\ nxt' - nxt \in 0 .. Free /\ nxt' \in 0 .. StreamLen
      /\ nxt' = nxt + (nxt' - nxt) /\ nxt' - nxt \in 0 .. Cells
  <2>1. PICK n : nxt' = n
    OBVIOUS
  <2>2. QED
    BY <2>1, <1>1, <1>2, <1>3, CellsAssumption, StreamAssumption
<1>5. head' \in Cell
  BY <1>1, <1>2, <1>4, OnCell
<1>6. ASSUME hole' # -1
      PROVE  /\ future' > 0 /\ nxt' - nxt + hole' + future' <= Free
             /\ \A k \in 0 .. Cells - 1 : k >= hole' /\ k < hole' + future' =>
                  buf'[On(head', k)] = nxt' + k /\ nxt' + k \in arrived'
  BY <1>6 DEF Stored
<1>7. nxt' - nxt + hole' + future' <= Free =>
        /\ hole' + future' <= Free - (nxt' - nxt)
        /\ hole' + future' <= Free
  <2>1. PICK n, h, f : nxt' = n /\ hole' = h /\ future' = f
    OBVIOUS
  <2>2. n - nxt \in 0 .. Free /\ h \in -1 .. Cells - 1 /\ f \in 0 .. Cells - 1
    BY <2>1, <1>1, <1>4
  <2>3. QED
    BY <2>1, <2>2, <1>3, CellsAssumption
<1>8. Held(Free - (nxt' - nxt)) /\ Held(Free)
  BY <1>6, <1>7 DEF Held
<1>9. QED
  BY <1>1, <1>4, <1>5, <1>8

(* The invariant. What text adds keeps it, whether it waits to be read...  *)
LEMMA Waits ==
  ASSUME IInv, Stored, UNCHANGED <<tail, taken>>
  PROVE  /\ Ready' = Ready + (nxt' - nxt)
         /\ InOrder' /\ FutureHeld' /\ taken' \in 0 .. nxt'
<1> DEFINE g == nxt' - nxt
<1> USE CellsAssumption
<1>1. TypeOK /\ InOrder
  BY DEF IInv
<1>2. head \in Cell /\ tail \in Cell /\ nxt \in Int /\ taken \in 0 .. nxt
  BY <1>1, StreamAssumption DEF TypeOK
<1>3. Ready \in 0 .. Cells - 1 /\ On(tail, Ready) = head /\ Free = Cells - 1 - Ready
  BY <1>1, FreeRange
<1>4. g \in 0 .. Free /\ nxt' = nxt + g /\ head' = On(head, g) /\ Held(Free - g)
  BY <1>1, StoredRange
<1>5. /\ \A k \in 0 .. Cells - 1 : k < Ready => buf'[On(tail, k)] = buf[On(tail, k)]
      /\ \A k \in 0 .. Cells - 1 : k < g => buf'[On(head, k)] = nxt + k
  BY DEF Stored
<1>6. /\ taken + Ready = nxt
      /\ \A k \in 0 .. Cells - 1 : k < Ready => buf[On(tail, k)] = taken + k
  BY <1>1 DEF InOrder
<1> HIDE DEF g
<1>7. g \in 0 .. Cells - 1 /\ Ready + g \in 0 .. Cells - 1 /\ Ready + g < Cells
  BY <1>3, <1>4
<1>8. head' = On(tail, Ready + g)
  BY <1>2, <1>3, <1>4, <1>7, OnOn
<1>9. Ready' = Ready + g
  BY <1>2, <1>7, <1>8, AheadOn DEF Ready
<1>10. taken' + Ready' = nxt' /\ taken' \in 0 .. nxt'
  BY <1>2, <1>3, <1>4, <1>6, <1>9
<1>11. ASSUME NEW k \in 0 .. Cells - 1, k < Ready'
       PROVE  buf'[On(tail', k)] = taken' + k
  <2>1. CASE k < Ready
    BY <2>1, <1>5, <1>6
  <2>2. CASE k >= Ready
    <3>1. k - Ready \in 0 .. Cells - 1 /\ k - Ready < g
          /\ Ready + (k - Ready) = k /\ Ready + (k - Ready) < Cells
      BY <2>2, <1>3, <1>7, <1>9, <1>11
    <3>2. On(tail, k) = On(head, k - Ready)
      BY <3>1, <1>2, <1>3, OnOn
    <3>3. buf'[On(head, k - Ready)] = nxt + (k - Ready)
      BY <3>1, <1>5
    <3>4. nxt + (k - Ready) = taken + k
      BY <1>2, <1>3, <1>6
    <3>5. QED
      BY <3>2, <3>3, <3>4
  <2>3. QED
    BY <2>1, <2>2, <1>3
<1>12. InOrder'
  BY <1>10, <1>11 DEF InOrder
<1>13. Free' = Free - g
  BY <1>3, <1>7, <1>9 DEF Free
<1>14. FutureHeld'
  BY <1>4, <1>13, FutureIsHeld
<1>15. QED
  BY <1>9, <1>10, <1>12, <1>14 DEF g

(* ... or is thrown away with what waited.                                 *)
LEMMA ThrownAway ==
  ASSUME NEW f \in 0 .. Cells - 1, Held(f), head' \in Cell, nxt' \in 0 .. StreamLen,
         hole' \in -1 .. Cells - 1, future' \in 0 .. Cells - 1,
         tail' = head', taken' = nxt'
  PROVE  Ready' = 0 /\ InOrder' /\ FutureHeld' /\ tail' \in Cell /\ taken' \in 0 .. nxt'
<1> PICK n, h, hl, fu : nxt' = n /\ head' = h /\ hole' = hl /\ future' = fu
  OBVIOUS
<1>1. Ahead(h, h) = 0
  BY CellsAssumption DEF Ahead, Cell
<1>2. Ready' = 0
  BY <1>1 DEF Ready
<1>3. taken' + Ready' = nxt' /\ taken' \in 0 .. nxt'
  BY <1>2, StreamAssumption
<1>4. \A k \in 0 .. Cells - 1 : ~(k < Ready')
  BY <1>2, CellsAssumption
<1>5. InOrder'
  BY <1>3, <1>4 DEF InOrder
<1>6. Free' = Cells - 1
  BY <1>2, CellsAssumption DEF Free
<1>7. hole' + future' <= f => hole' + future' <= Free'
  BY <1>6, CellsAssumption
<1>8. FutureHeld'
  BY <1>7, FutureIsHeld DEF Held
<1>9. QED
  BY <1>2, <1>3, <1>5, <1>8

LEMMA SegmentKeeps ==
  ASSUME IInv, Arrives
  PROVE  IInv'
<1>1. PICK seq \in 0 .. StreamLen, len \in 0 .. StreamLen, fin \in {0, 1} :
        Segment(seq, len, fin) /\ HandleTCPSeg(seq, len, fin)
  BY DEF Arrives
<1>2. Stored
  BY <1>1, TextStored DEF HandleTCPSeg
<1>3. TypeOK /\ AckedArrived
  BY DEF IInv
<1>4. head \in Cell /\ tail \in Cell /\ nxt \in 0 .. StreamLen /\ taken \in 0 .. nxt
  BY <1>3 DEF TypeOK
<1>5. Free \in 0 .. Cells - 1
  BY <1>3, FreeRange
<1>6. /\ nxt' - nxt \in 0 .. Free /\ nxt' \in 0 .. StreamLen
      /\ head' \in Cell
      /\ hole' \in -1 .. Cells - 1 /\ future' \in 0 .. Cells - 1 /\ Held(Free)
  BY <1>2, <1>3, StoredRange
<1>7. InOrder' /\ FutureHeld' /\ tail' \in Cell /\ taken' \in 0 .. nxt'
  <2>1. CASE UNCHANGED <<tail, taken>>
    BY <2>1, <1>2, <1>4, Waits
  <2>2. CASE tail' = head' /\ taken' = nxt'
    BY <2>2, <1>5, <1>6, ThrownAway
  <2>3. QED
    BY <2>1, <2>2, <1>1 DEF HandleTCPSeg
<1>8. seq + len <= StreamLen /\ arrived' = arrived \cup (seq .. seq + len - 1)
  BY <1>1 DEF Segment, HandleTCPSeg
<1>9. arrived' \subseteq 0 .. StreamLen - 1
  BY <1>3, <1>8, StreamAssumption DEF TypeOK
<1>10. state' \in {"established", "fin_wait", "over"}
  BY <1>1, <1>3 DEF HandleTCPSeg, TypeOK
<1>11. /\ buf' \in [Cell -> 0 .. StreamLen \cup {Nothing}] /\ hole' # 0
       /\ \A p \in nxt .. nxt' - 1 : p \in arrived'
  BY <1>2 DEF Stored
<1>12. TypeOK'
  BY <1>6, <1>7, <1>9, <1>10, <1>11 DEF TypeOK
<1>13. AckedArrived'
  <2> SUFFICES ASSUME NEW p \in 0 .. nxt' - 1
               PROVE  p \in arrived'
    BY DEF AckedArrived
  <2>1. CASE p < nxt
    <3>1. p \in 0 .. nxt - 1
      BY <2>1, <1>4
    <3>2. QED
      BY <3>1, <1>3, <1>8 DEF AckedArrived
  <2>2. CASE p >= nxt
    <3>1. PICK n : nxt' = n
      OBVIOUS
    <3>2. p \in nxt .. nxt' - 1
      BY <3>1, <2>2, <1>4, <1>6
    <3>3. QED
      BY <3>2, <1>11
  <2>3. QED
    BY <2>1, <2>2, <1>4
<1>14. FinIsLast'
  <2> SUFFICES ASSUME state' = "over"
               PROVE  nxt' = StreamLen
    BY DEF FinIsLast
  <2>1. state # "over"
    BY <1>1 DEF HandleTCPSeg
  <2>2. FinInOrder(seq, len, fin)
    BY <2>1, <1>1 DEF HandleTCPSeg
  <2>3. QED
    BY <2>2, <1>1, StreamAssumption DEF FinInOrder, Segment
<1>15. QED
  BY <1>7, <1>12, <1>13, <1>14 DEF IInv

LEMMA ReadKeeps ==
  ASSUME IInv, TCPGet
  PROVE  /\ IInv'
         /\ Ready' = Ready - 1
         /\ \A k \in 0 .. Cells - 2 : On(tail', k) = On(tail, k + 1)
<1> USE CellsAssumption
<1>1. TypeOK /\ InOrder
  BY DEF IInv
<1>2. head \in Cell /\ tail \in Cell /\ nxt \in 0 .. StreamLen /\ taken \in 0 .. nxt
  BY <1>1 DEF TypeOK
<1>3. Ready \in 1 .. Cells - 1 /\ On(tail, Ready) = head
  BY <1>2, AheadRange DEF Ready, TCPGet
<1>4. /\ tail' = On(tail, 1) /\ taken' = taken + 1
      /\ UNCHANGED <<buf, head, nxt, hole, future, state, arrived>>
  BY DEF TCPGet
<1>5. tail' \in Cell
  BY <1>2, <1>4, OnCell
<1>6. \A k \in 0 .. Cells - 2 : On(tail', k) = On(tail, k + 1)
  <2> TAKE k \in 0 .. Cells - 2
  <2>1. k \in 0 .. Cells - 1 /\ 1 \in 0 .. Cells - 1 /\ 1 + k < Cells /\ 1 + k = k + 1
    OBVIOUS
  <2>2. QED
    BY <2>1, <1>2, <1>4, OnOn
<1>7. head = On(tail', Ready - 1)
  BY <1>3, <1>6
<1>8. Ready' = Ready - 1
  <2>1. Ahead(On(tail', Ready - 1), tail') = Ready - 1
    BY <1>3, <1>5, AheadOn
  <2>2. QED
    BY <2>1, <1>4, <1>7 DEF Ready
<1>9. taken + Ready = nxt
  BY <1>1 DEF InOrder
<1>10. InOrder'
  <2>1. taken' + Ready' = nxt'
    BY <1>2, <1>3, <1>4, <1>8, <1>9
  <2>2. ASSUME NEW k \in 0 .. Cells - 1, k < Ready'
        PROVE  buf'[On(tail', k)] = taken' + k
    <3>1. k \in 0 .. Cells - 2 /\ k + 1 \in 0 .. Cells - 1 /\ k + 1 < Ready
      BY <2>2, <1>3, <1>8
    <3>2. buf[On(tail, k + 1)] = taken + (k + 1)
      BY <3>1, <1>1 DEF InOrder
    <3>3. QED
      BY <3>1, <3>2, <1>2, <1>4, <1>6
  <2>3. QED
    BY <2>1, <2>2 DEF InOrder
<1>11. FutureHeld'
  <2>1. Free' = Free + 1 /\ Free \in Int
    BY <1>3, <1>8 DEF Free
  <2>2. hole \in Int /\ future \in Int
    BY <1>1 DEF TypeOK
  <2>3. FutureHeld
    BY DEF IInv
  <2>4. QED
    BY <2>1, <2>2, <2>3, <1>4 DEF FutureHeld, NoHole
<1>12. taken' \in 0 .. nxt'
  BY <1>2, <1>3, <1>4, <1>9
<1>13. TypeOK'
  BY <1>1, <1>4, <1>5, <1>12 DEF TypeOK
<1>14. AckedArrived' /\ FinIsLast'
  BY <1>4 DEF IInv, AckedArrived, FinIsLast
<1>15. QED
  BY <1>6, <1>8, <1>10, <1>11, <1>13, <1>14 DEF IInv

LEMMA DiscardKeeps ==
  ASSUME IInv, TCPDiscard \/ TCPDisconnect
  PROVE  IInv' /\ Ready' = 0
<1>1. TypeOK /\ FutureHeld
  BY DEF IInv
<1>2. /\ tail' = head' /\ taken' = nxt'
      /\ UNCHANGED <<buf, head, nxt, hole, future, arrived>>
      /\ state' \in {"established", "fin_wait"}
  BY DEF TCPDiscard, TCPDisconnect
<1>3. /\ head' \in Cell /\ tail \in Cell /\ nxt' \in 0 .. StreamLen
      /\ hole' \in -1 .. Cells - 1 /\ future' \in 0 .. Cells - 1
  BY <1>1, <1>2 DEF TypeOK
<1>4. Free \in 0 .. Cells - 1
  BY <1>1, FreeRange
<1>5. Held(Free)
  BY <1>1, <1>2 DEF FutureHeld, NoHole, Held
<1>6. Ready' = 0 /\ InOrder' /\ FutureHeld' /\ tail' \in Cell /\ taken' \in 0 .. nxt'
  BY <1>2, <1>3, <1>4, <1>5, ThrownAway
<1>7. TypeOK'
  BY <1>1, <1>2, <1>3, <1>6 DEF TypeOK
<1>8. AckedArrived' /\ FinIsLast'
  BY <1>2 DEF IInv, AckedArrived, FinIsLast
<1>9. QED
  BY <1>6, <1>7, <1>8 DEF IInv

LEMMA InitHolds == Init => IInv
<1> SUFFICES ASSUME Init PROVE IInv
  OBVIOUS
<1>1. Ready = 0
  BY CellsAssumption DEF Init, Ready, Ahead, Cell
<1>2. TypeOK
  BY CellsAssumption, StreamAssumption DEF Init, TypeOK, Cell
<1>3. QED
  BY <1>1, <1>2 DEF Init, IInv, InOrder, FutureHeld, NoHole, AckedArrived, FinIsLast

LEMMA NextKeeps == IInv /\ [Next]_vars => IInv'
<1> SUFFICES ASSUME IInv, [Next]_vars PROVE IInv'
  OBVIOUS
<1>1. CASE Arrives
  BY <1>1, SegmentKeeps
<1>2. CASE TCPGet
  BY <1>2, ReadKeeps
<1>3. CASE TCPDiscard \/ TCPDisconnect
  BY <1>3, DiscardKeeps
<1>4. CASE UNCHANGED vars
  BY <1>4 DEF vars, IInv, TypeOK, InOrder, FutureHeld, AckedArrived, FinIsLast,
              NoHole, Free, Ready
<1>5. QED
  BY <1>1, <1>2, <1>3, <1>4 DEF Next

(* The invariant holds at all times: HandleTCPSeg, TCPGet, TCPDiscard and  *)
(* TCPDisconnect keep it.                                                  *)
THEOREM Invariance == Spec => []IInv
  BY InitHolds, NextKeeps, PTL DEF Spec

(* Positions, counts and cells stay in range for every buffer and stream.  *)
THEOREM TypeCorrect == Spec => []TypeOK
<1>1. IInv => TypeOK
  BY DEF IInv
<1>2. QED
  BY <1>1, Invariance, PTL

(* Bytes wait to be read in the order the client sent them, without a gap, *)
(* however the segments were cut, reordered and repeated.                  *)
THEOREM ReadInOrder == Spec => []InOrder
<1>1. IInv => InOrder
  BY DEF IInv
<1>2. QED
  BY <1>1, Invariance, PTL

(* What is kept behind the hole stays intact until the hole is closed.     *)
THEOREM HoleKept == Spec => []FutureHeld
<1>1. IInv => FutureHeld
  BY DEF IInv
<1>2. QED
  BY <1>1, Invariance, PTL

(* No byte is acknowledged before it arrived.                              *)
THEOREM AckTruthful == Spec => []AckedArrived
<1>1. IInv => AckedArrived
  BY DEF IInv
<1>2. QED
  BY <1>1, Invariance, PTL

(* The client's FIN is accepted only when all its bytes are in.            *)
THEOREM EndIsLast == Spec => []FinIsLast
<1>1. IInv => FinIsLast
  BY DEF IInv
<1>2. QED
  BY <1>1, Invariance, PTL

-----------------------------------------------------------------------------
(* RxFifo implements ByteStream. What waits is known from its length.      *)
Run(t, r) == [k \in 1 .. r |-> t + k - 1]

LEMMA RunLen ==
  ASSUME NEW t \in Int, NEW r \in Nat
  PROVE  /\ Len(Run(t, r)) = r /\ Run(t, r) \in Seq(Int)
         /\ Run(t, 0) = << >>
         /\ r > 0 => Run(t, r) # << >> /\ Tail(Run(t, r)) = Run(t + 1, r - 1)
<1>1. Run(t, r) \in Seq(Int) /\ Len(Run(t, r)) = r
  BY DEF Run
<1>2. Run(t, 0) = << >>
  BY DEF Run
<1>3. ASSUME r > 0
      PROVE  Run(t, r) # << >> /\ Tail(Run(t, r)) = Run(t + 1, r - 1)
  BY <1>1, <1>3 DEF Run
<1>4. QED
  BY <1>1, <1>2, <1>3

LEMMA RunLonger ==
  ASSUME NEW t \in Int, NEW r \in Nat, NEW n \in Nat
  PROVE  Run(t, r + n) = [k \in 1 .. Len(Run(t, r)) + n |->
                            IF k <= Len(Run(t, r)) THEN Run(t, r)[k] ELSE t + k - 1]
<1>1. Len(Run(t, r)) = r
  BY RunLen
<1>2. \A k \in 1 .. r : Run(t, r)[k] = t + k - 1
  BY DEF Run
<1>3. QED
  BY <1>1, <1>2 DEF Run

(* What the application could read. *)
Waiting == [k \in 1 .. Ready |-> buf[On(tail, k - 1)]]

LEMMA WaitingBefore ==
  ASSUME IInv
  PROVE  Waiting = Run(taken, Ready) /\ taken + Ready = nxt
         /\ taken \in Int /\ Ready \in 0 .. Cells - 1 /\ nxt \in 0 .. StreamLen
<1>1. TypeOK /\ InOrder
  BY DEF IInv
<1>2. taken \in Int /\ nxt \in 0 .. StreamLen
  BY <1>1, StreamAssumption DEF TypeOK
<1>3. Ready \in 0 .. Cells - 1
  BY <1>1, FreeRange
<1>4. /\ taken + Ready = nxt
      /\ \A k \in 0 .. Cells - 1 : k < Ready => buf[On(tail, k)] = taken + k
  BY <1>1 DEF InOrder
<1>5. Waiting = Run(taken, Ready)
  <2>1. ASSUME NEW k \in 1 .. Ready
        PROVE  buf[On(tail, k - 1)] = taken + k - 1
    <3>1. k - 1 \in 0 .. Cells - 1 /\ k - 1 < Ready /\ taken + (k - 1) = taken + k - 1
      BY <1>2, <1>3, CellsAssumption
    <3>2. QED
      BY <3>1, <1>4
  <2>2. QED
    BY <2>1 DEF Waiting, Run
<1>6. QED
  BY <1>2, <1>3, <1>4, <1>5

LEMMA WaitingAfter ==
  ASSUME IInv', Ready' \in 0 .. Cells - 1
  PROVE  Waiting' = Run(taken', Ready') /\ taken' + Ready' = nxt'
<1>1. taken' \in Int
  BY StreamAssumption DEF IInv, TypeOK
<1>2. /\ taken' + Ready' = nxt'
      /\ \A k \in 0 .. Cells - 1 : k < Ready' => buf'[On(tail', k)] = taken' + k
  BY DEF IInv, InOrder
<1>3. ASSUME NEW k \in 1 .. Ready'
      PROVE  buf'[On(tail', k - 1)] = taken' + k - 1
  <2>1. PICK t, r : taken' = t /\ Ready' = r
    OBVIOUS
  <2>2. k - 1 \in 0 .. Cells - 1 /\ k - 1 < Ready' /\ taken' + (k - 1) = taken' + k - 1
    BY <2>1, <1>1, <1>3, CellsAssumption
  <2>3. QED
    BY <2>2, <1>2
<1>4. QED
  BY <1>2, <1>3 DEF Waiting, Run

LEMMA SegmentStreams ==
  ASSUME IInv, Arrives
  PROVE  \E n \in 0 .. StreamLen : Stream!Receive(n)
<1>1. IInv'
  BY SegmentKeeps
<1>2. PICK seq \in 0 .. StreamLen, len \in 0 .. StreamLen, fin \in {0, 1} :
        Segment(seq, len, fin) /\ HandleTCPSeg(seq, len, fin)
  BY DEF Arrives
<1>3. Stored
  BY <1>2, TextStored DEF HandleTCPSeg
<1>4. TypeOK
  BY DEF IInv
<1>5. PICK n : n = nxt' - nxt
  OBVIOUS
<1>6. n \in 0 .. Free /\ nxt' \in 0 .. StreamLen /\ nxt' = nxt + n
  BY <1>3, <1>4, <1>5, StoredRange
<1>7. Ready \in 0 .. Cells - 1 /\ Free = Cells - 1 - Ready
  BY <1>4, FreeRange
<1>8. /\ Waiting = Run(taken, Ready) /\ taken + Ready = nxt
      /\ taken \in Int /\ nxt \in 0 .. StreamLen /\ Len(Waiting) = Ready
  BY <1>7, WaitingBefore, RunLen
<1>9. n \in 0 .. StreamLen /\ taken + Len(Waiting) + n <= StreamLen
  BY <1>6, <1>7, <1>8, StreamAssumption, CellsAssumption
<1>10. ~(state = "over")
  BY <1>2 DEF HandleTCPSeg
<1>11. taken + Len(Waiting) + n = nxt'
  BY <1>6, <1>8
<1>12. (state' = "over") \in {FALSE, taken + Len(Waiting) + n = StreamLen}
  <2>1. state' = "over" => nxt' = StreamLen
    BY <1>1 DEF IInv, FinIsLast
  <2>2. QED
    BY <2>1, <1>11
<1>13. \/ Waiting' = Stream!Longer(n) /\ taken' = taken
       \/ Waiting' = << >> /\ taken' = taken + Len(Waiting) + n
  <2>1. CASE UNCHANGED <<tail, taken>>
    <3>1. Ready' = Ready + n
      BY <2>1, <1>3, <1>5, Waits
    <3>2. Ready' \in 0 .. Cells - 1
      BY <3>1, <1>6, <1>7, CellsAssumption
    <3>3. Waiting' = Run(taken, Ready + n)
      BY <3>1, <3>2, <2>1, <1>1, WaitingAfter
    <3>4. Stream!Longer(n) = Run(taken, Ready + n)
      <4>1. Stream!Longer(n) = [k \in 1 .. Len(Waiting) + n |->
                                 IF k <= Len(Waiting) THEN Waiting[k] ELSE taken + k - 1]
        BY DEF Stream!Longer, Waiting
      <4>2. n \in Nat /\ Ready \in Nat
        BY <1>6, <1>7, CellsAssumption
      <4>3. Run(taken, Ready + n)
              = [k \in 1 .. Len(Run(taken, Ready)) + n |->
                   IF k <= Len(Run(taken, Ready)) THEN Run(taken, Ready)[k]
                                                  ELSE taken + k - 1]
        BY <4>2, <1>8, RunLonger
      <4>4. QED
        BY <4>1, <4>3, <1>8
    <3>5. QED
      BY <3>3, <3>4, <2>1
  <2>2. CASE tail' = head' /\ taken' = nxt'
    <3>1. Ready' = 0
      <4>1. PICK h : head' = h
        OBVIOUS
      <4>2. h \in Cell
        BY <4>1, <1>3, <1>4, StoredRange
      <4>3. QED
        BY <4>1, <4>2, <2>2, CellsAssumption DEF Ready, Ahead, Cell
    <3>2. Waiting' = Run(taken', 0)
      BY <3>1, <1>1, WaitingAfter, CellsAssumption
    <3>3. taken' \in Int
      BY <2>2, <1>6, StreamAssumption
    <3>4. QED
      BY <3>2, <3>3, <2>2, <1>11, RunLen
  <2>3. QED
    BY <2>1, <2>2, <1>2 DEF HandleTCPSeg
<1>14. Stream!Receive(n)
  BY <1>9, <1>10, <1>12, <1>13 DEF Stream!Receive, Stream!Longer, Waiting
<1>15. QED
  BY <1>9, <1>14

LEMMA ReadStreams ==
  ASSUME IInv, TCPGet
  PROVE  Stream!Take
<1>1. IInv' /\ Ready' = Ready - 1
  BY ReadKeeps
<1>2. /\ Waiting = Run(taken, Ready) /\ taken \in Int /\ Ready \in 0 .. Cells - 1
  BY WaitingBefore
<1>3. Ready > 0 /\ taken' = taken + 1 /\ state' = state
  BY DEF TCPGet
<1>4. Waiting' = Run(taken + 1, Ready - 1)
  BY <1>1, <1>2, <1>3, CellsAssumption, WaitingAfter
<1>5. Ready \in Nat
  BY <1>2, CellsAssumption
<1>6. Waiting # << >> /\ Waiting' = Tail(Waiting)
  BY <1>2, <1>3, <1>4, <1>5, RunLen, Zenon
<1>7. QED
  BY <1>3, <1>6 DEF Stream!Take, Waiting

LEMMA DiscardStreams ==
  ASSUME IInv, TCPDiscard \/ TCPDisconnect
  PROVE  Stream!Discard
<1>1. IInv' /\ Ready' = 0
  BY DiscardKeeps
<1>2. /\ Waiting = Run(taken, Ready) /\ taken \in Int /\ Ready \in 0 .. Cells - 1
      /\ taken + Ready = nxt
  BY WaitingBefore
<1>3. taken' = nxt /\ (state' = "over") = (state = "over")
  BY DEF TCPDiscard, TCPDisconnect
<1>4. Waiting' = Run(nxt, 0) /\ nxt \in Int
  BY <1>1, <1>2, <1>3, CellsAssumption, WaitingAfter
<1>5. Ready \in Nat /\ 0 \in Nat
  BY <1>2, CellsAssumption
<1>6. Waiting' = << >> /\ Len(Waiting) = Ready
  BY <1>2, <1>4, <1>5, RunLen, Zenon
<1>7. taken' = taken + Len(Waiting)
  BY <1>2, <1>3, <1>6
<1>8. QED
  BY <1>3, <1>6, <1>7 DEF Stream!Discard, Waiting

(* The socket is the stream of bytes ByteStream promises: every step of    *)
(* RxFifo receives, takes or discards, or changes nothing of it.           *)
THEOREM Refinement == Spec => IsByteStream
<1>1. Init => Stream!Init
  <2> SUFFICES ASSUME Init PROVE Stream!Init
    OBVIOUS
  <2>1. Ready = 0 /\ taken = 0 /\ state = "established"
    BY CellsAssumption DEF Init, Ready, Ahead, Cell
  <2>2. IInv
    BY InitHolds
  <2>3. Waiting = << >>
    BY <2>1, <2>2, WaitingBefore, RunLen
  <2>4. QED
    BY <2>1, <2>3 DEF Stream!Init, Waiting
<1>2. IInv /\ [Next]_vars => [Stream!Next]_Stream!bvars
  <2> SUFFICES ASSUME IInv, [Next]_vars PROVE [Stream!Next]_Stream!bvars
    OBVIOUS
  <2>1. CASE Arrives
    BY <2>1, SegmentStreams DEF Stream!Next
  <2>2. CASE TCPGet
    BY <2>2, ReadStreams DEF Stream!Next
  <2>3. CASE TCPDiscard \/ TCPDisconnect
    BY <2>3, DiscardStreams DEF Stream!Next
  <2>4. CASE UNCHANGED vars
    BY <2>4 DEF vars, Stream!bvars, Ready
  <2>5. QED
    BY <2>1, <2>2, <2>3, <2>4 DEF Next
<1>3. QED
  BY <1>1, <1>2, Invariance, PTL DEF Spec, IsByteStream, Stream!Spec
=============================================================================
