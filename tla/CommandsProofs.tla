--------------------------- MODULE CommandsProofs ---------------------------
(***************************************************************************)
(* Proofs about Commands, for every set of clients and of orders they may  *)
(* send, every size of the buffers and of the parameters. The parser goes  *)
(* over a text character by character; what holds of the start and is kept *)
(* by Scan holds of what it returns (ParseKeeps), and so it is shown that  *)
(*   - a command needs a start of line (CommandStarts),                    *)
(*   - no parameter keeps characters of former texts (Fresh),              *)
(*   - the parameters of a whole line are its fields (LineAt).             *)
(***************************************************************************)
EXTENDS Commands, SequenceTheorems, FiniteSetTheorems, WellFoundedInduction, TLAPS

-----------------------------------------------------------------------------
(* The characters of the text, one by one.                                 *)
LEMMA Least ==
  ASSUME NEW S \in SUBSET Nat, S # {}
  PROVE  \E n \in S : \A m \in S : n <= m
<1> DEFINE Less == {ss \in Nat \X Nat : ss[1] < ss[2]}
<1>1. IsWellFoundedOn(Less, Nat)
  BY NatLessThanWellFounded DEF OpToRel
<1>2. PICK n \in S : \A m \in S : <<m, n>> \notin Less
  <2> HIDE DEF Less
  <2>1. QED
    BY <1>1, WFMin
<1>3. \A m \in S : m < n => <<m, n>> \in Less
  OBVIOUS
<1> HIDE DEF Less
<1>4. \A m \in S : ~(m < n)
  BY <1>2, <1>3
<1>5. \A m \in S : m \in Nat /\ n \in Nat
  OBVIOUS
<1>6. \A m \in S : n <= m
  BY <1>4, <1>5
<1>7. QED
  BY <1>6

(* From one number to the next, up to a bound.                             *)
LEMMA UpTo ==
  ASSUME NEW m \in Nat, NEW T, 0 \in T, \A n \in 1 .. m : n - 1 \in T => n \in T
  PROVE  \A n \in 0 .. m : n \in T
<1> DEFINE Out == {n \in 0 .. m : n \notin T}
<1> SUFFICES ASSUME Out # {} PROVE FALSE
  OBVIOUS
<1>1. Out \in SUBSET Nat
  OBVIOUS
<1> HIDE DEF Out
<1>2. PICK n \in Out : \A j \in Out : n <= j
  BY <1>1, Least
<1> USE DEF Out
<1>3. n \in 1 .. m /\ n - 1 \in 0 .. m
  BY <1>2
<1>4. n - 1 \in T
  BY <1>2, <1>3
<1>5. QED
  BY <1>3, <1>4

CharAt(text, k) == IF k <= Len(text) THEN text[k] ELSE NUL

IsScan(f, text, m) ==
  f = [k \in 0 .. m |-> IF k = 0 THEN Start ELSE Scan(f[k - 1], CharAt(text, k))]

LEMMA ScanExists ==
  ASSUME NEW text, NEW m \in Nat
  PROVE  \E f : IsScan(f, text, m)
<1> DEFINE T == {n \in 0 .. m : \E f : IsScan(f, text, n)}
<1>1. 0 \in T
  <2> DEFINE f == [k \in 0 .. 0 |-> Start]
  <2>1. f = [k \in 0 .. 0 |-> IF k = 0 THEN Start ELSE Scan(f[k - 1], CharAt(text, k))]
    <3>1. \A k \in 0 .. 0 : (IF k = 0 THEN Start ELSE Scan(f[k - 1], CharAt(text, k))) = Start
      OBVIOUS
    <3>2. QED
      BY <3>1
  <2>2. IsScan(f, text, 0)
    BY <2>1 DEF IsScan
  <2>3. QED
    BY <2>2
<1>2. ASSUME NEW n \in 1 .. m, n - 1 \in T
      PROVE  n \in T
  <2>1. PICK g : IsScan(g, text, n - 1)
    BY <1>2
  <2> DEFINE f == [k \in 0 .. n |-> IF k = 0 THEN Start ELSE Scan(g[k - 1], CharAt(text, k))]
  <2>2. \A k \in 0 .. n - 1 : f[k] = g[k]
    BY <2>1 DEF IsScan
  <2>3. \A k \in 0 .. n : k # 0 => f[k - 1] = g[k - 1]
    <3> HIDE DEF f
    <3>1. QED
      BY <2>2
  <2>4. [k \in 0 .. n |-> IF k = 0 THEN Start ELSE Scan(f[k - 1], CharAt(text, k))]
          = [k \in 0 .. n |-> IF k = 0 THEN Start ELSE Scan(g[k - 1], CharAt(text, k))]
    <3> HIDE DEF f
    <3>1. QED
      BY <2>3
  <2>5. IsScan(f, text, n)
    BY <2>4 DEF IsScan
  <2>6. QED
    BY <2>5
<1> HIDE DEF T
<1>3. \A n \in 0 .. m : n \in T
  BY <1>1, <1>2, UpTo
<1>4. QED
  BY <1>3 DEF T

(* What holds of the parser before the text, and after each character if   *)
(* it did before, holds after the text.                                    *)
LEMMA ParseKeeps ==
  ASSUME NEW text, NEW G, <<0, Start>> \in G,
         \A k \in 1 .. MaxLine : \A ps :
           <<k - 1, ps>> \in G => <<k, Scan(ps, CharAt(text, k))>> \in G
  PROVE  <<MaxLine, Parse(text)>> \in G
<1> DEFINE scanned == CHOOSE f : IsScan(f, text, MaxLine)
<1>0. MaxLine \in Nat
  BY SizesAssumption
<1>1. IsScan(scanned, text, MaxLine)
  BY <1>0, ScanExists
<1>2. Parse(text) = scanned[MaxLine]
  BY DEF Parse, IsScan, CharAt
<1> HIDE DEF scanned
<1> DEFINE T == {k \in 0 .. MaxLine : <<k, scanned[k]>> \in G}
<1>3. 0 \in T
  BY <1>0, <1>1 DEF IsScan
<1>4. ASSUME NEW k \in 1 .. MaxLine, k - 1 \in T
      PROVE  k \in T
  <2>1. scanned[k] = Scan(scanned[k - 1], CharAt(text, k))
    BY <1>0, <1>1 DEF IsScan
  <2>2. QED
    BY <1>0, <1>4, <2>1
<1> HIDE DEF T
<1>5. MaxLine \in T
  BY <1>0, <1>3, <1>4, UpTo
<1>6. QED
  BY <1>2, <1>5 DEF T

-----------------------------------------------------------------------------
(* What one character does to the parser. Char is STRING, only that no      *)
(* prover knows that a string in quotes is in STRING.                      *)
Char == STRING \cup Special

Param == [1 .. LenParam -> Char]

ParserState ==
  [st : {"invalid", "valid", "overrun"}, p : 1 .. NumParam + 1, c : 0 .. LenParam,
   last : Char, params : [Params -> Param]]

(* As long as there is a command, the next character has its place.        *)
Parser == {ps \in ParserState : ps.st = "valid" => ps.p \in Params /\ ps.c < LenParam}

Stored(P, p, c, ch) == [P EXCEPT ![p][c + 1] = ch]

LEMMA StoredIs ==
  ASSUME NEW P \in [Params -> Param], NEW p \in Params, NEW c \in 0 .. LenParam - 1,
         NEW ch \in Char
  PROVE  /\ Stored(P, p, c, ch) \in [Params -> Param]
         /\ \A q \in Params : q # p => Stored(P, p, c, ch)[q] = P[q]
         /\ Stored(P, p, c, ch)[p][c + 1] = ch
         /\ \A i \in 1 .. LenParam : i # c + 1 => Stored(P, p, c, ch)[p][i] = P[p][i]
<1>1. c + 1 \in 1 .. LenParam
  BY SizesAssumption
<1> DEFINE d == c + 1
<1>2. d \in 1 .. LenParam
  BY <1>1
<1> HIDE DEF d
<1>3. /\ [P EXCEPT ![p][d] = ch] \in [Params -> Param]
      /\ \A q \in Params : q # p => [P EXCEPT ![p][d] = ch][q] = P[q]
      /\ [P EXCEPT ![p][d] = ch][p][d] = ch
      /\ \A i \in 1 .. LenParam : i # d => [P EXCEPT ![p][d] = ch][p][i] = P[p][i]
  BY <1>2 DEF Param
<1>4. QED
  BY <1>3 DEF Stored, d

State(st, p, c, last, P) == [st |-> st, p |-> p, c |-> c, last |-> last, params |-> P]

LEMMA StateIs ==
  ASSUME NEW ps \in Parser
  PROVE  ps = State(ps.st, ps.p, ps.c, ps.last, ps.params)
BY DEF Parser, ParserState, State

LEMMA StateType ==
  ASSUME NEW st \in {"invalid", "valid", "overrun"}, NEW p \in 1 .. NumParam + 1,
         NEW c \in 0 .. LenParam, NEW last \in Char, NEW P \in [Params -> Param],
         st = "valid" => p \in Params /\ c < LenParam
  PROVE  State(st, p, c, last, P) \in Parser
BY DEF State, Parser, ParserState

LEMMA StateFields ==
  ASSUME NEW st, NEW p, NEW c, NEW last, NEW P
  PROVE  LET ps == State(st, p, c, last, P)
         IN ps.st = st /\ ps.p = p /\ ps.c = c /\ ps.last = last /\ ps.params = P
BY DEF State

(* The steps of the parser as states: what changes, and the rest.          *)
WithLast(ps, ch) == [ps EXCEPT !.last = ch]
Begun(ps) == [ps EXCEPT !.st = "valid", !.p = 1, !.c = 0]

LEMMA WithLastIs ==
  ASSUME NEW st, NEW p, NEW c, NEW last, NEW P, NEW ch
  PROVE  WithLast(State(st, p, c, last, P), ch) = State(st, p, c, ch, P)
BY DEF WithLast, State

LEMMA BegunIs ==
  ASSUME NEW st, NEW p, NEW c, NEW last, NEW P
  PROVE  Begun(State(st, p, c, last, P)) = State("valid", 1, 0, last, P)
<1> DEFINE ps == State(st, p, c, last, P)
           valid == "valid"
           one == 1
           zero == 0
<1> HIDE DEF ps, valid, one, zero
<1>1. Begun(ps) = [[[ps EXCEPT !.st = valid] EXCEPT !.p = one] EXCEPT !.c = zero]
  BY DEF Begun, valid, one, zero
<1>2. [ps EXCEPT !.st = valid] = State(valid, p, c, last, P)
  BY DEF State, ps
<1>3. [State(valid, p, c, last, P) EXCEPT !.p = one] = State(valid, one, c, last, P)
  BY DEF State
<1>4. [State(valid, one, c, last, P) EXCEPT !.c = zero] = State(valid, one, zero, last, P)
  BY DEF State
<1>5. QED
  BY <1>1, <1>2, <1>3, <1>4 DEF ps, valid, one, zero

LEMMA EndParamIs ==
  ASSUME NEW st, NEW p, NEW c, NEW last, NEW P
  PROVE  EndParam(State(st, p, c, last, P)) = State(st, p, c, last, Stored(P, p, c, NUL))
<1> DEFINE ps == State(st, p, c, last, P)
           d == c + 1
           N == [P EXCEPT ![p][d] = NUL]
<1>1. ps.p = p /\ ps.c = c /\ ps.params = P
  BY StateFields
<1> HIDE DEF ps, d
<1>2. EndParam(ps) = [ps EXCEPT !.params[p][d] = NUL]
  BY <1>1 DEF EndParam, d
<1>3. [ps EXCEPT !.params[p][d] = NUL] = [ps EXCEPT !.params = N]
  BY <1>1
<1> HIDE DEF N
<1>4. [ps EXCEPT !.params = N] = State(st, p, c, last, N)
  BY DEF ps, State
<1>5. QED
  BY <1>2, <1>3, <1>4 DEF ps, N, d, Stored

LEMMA NextParamIs ==
  ASSUME NEW p, NEW c, NEW last, NEW P
  PROVE  NextParam(State("valid", p, c, last, P))
           = State(IF p + 1 > NumParam THEN "overrun" ELSE "valid", p + 1, 0, last,
                   Stored(P, p, c, NUL))
<1> DEFINE N == Stored(P, p, c, NUL)
           es == State("valid", p, c, last, N)
           st == IF p + 1 > NumParam THEN "overrun" ELSE "valid"
           zero == 0
           q == p + 1
           ps == State("valid", p, c, last, P)
<1>1. es.p = p /\ es.st = "valid" /\ ps.p = p /\ ps.st = "valid"
  BY StateFields
<1>2. EndParam(ps) = es
  BY EndParamIs
<1> HIDE DEF N, es, zero, q, ps
<1>3. NextParam(ps) = [[[es EXCEPT !.c = zero] EXCEPT !.p = q] EXCEPT !.st = st]
  BY <1>1, <1>2 DEF NextParam, zero, q
<1> HIDE DEF st
<1>4. [es EXCEPT !.c = zero] = State("valid", p, zero, last, N)
  BY DEF State, es
<1>5. [State("valid", p, zero, last, N) EXCEPT !.p = q] = State("valid", q, zero, last, N)
  BY DEF State
<1>6. [State("valid", q, zero, last, N) EXCEPT !.st = st] = State(st, q, zero, last, N)
  BY DEF State
<1>7. QED
  BY <1>3, <1>4, <1>5, <1>6 DEF N, st, zero, q, ps

LEMMA PutIs ==
  ASSUME NEW p, NEW c, NEW last, NEW P, NEW ch
  PROVE  Put(State("valid", p, c, last, P), ch)
           = State(IF c + 1 >= LenParam THEN "overrun" ELSE "valid", p, c + 1, last,
                   Stored(P, p, c, ch))
<1> DEFINE ps == State("valid", p, c, last, P)
           d == c + 1
           N == [P EXCEPT ![p][d] = ch]
           st == IF d >= LenParam THEN "overrun" ELSE "valid"
<1>1. ps.p = p /\ ps.c = c /\ ps.params = P /\ ps.st = "valid"
  BY StateFields
<1> HIDE DEF ps, d
<1>2. Put(ps, ch) = [[[ps EXCEPT !.params[p][d] = ch] EXCEPT !.c = d] EXCEPT !.st = st]
  BY <1>1 DEF Put, d
<1>3. [ps EXCEPT !.params[p][d] = ch] = [ps EXCEPT !.params = N]
  BY <1>1
<1> HIDE DEF N, st
<1>4. [ps EXCEPT !.params = N] = State("valid", p, c, last, N)
  BY DEF ps, State
<1>5. [State("valid", p, c, last, N) EXCEPT !.c = d] = State("valid", p, d, last, N)
  BY DEF State
<1>6. [State("valid", p, d, last, N) EXCEPT !.st = st] = State(st, p, d, last, N)
  BY DEF State
<1>7. QED
  BY <1>2, <1>3, <1>4, <1>5, <1>6 DEF ps, N, st, d, Stored

(* Nothing more is looked at.                                              *)
LEMMA ScanOver ==
  ASSUME NEW ps, NEW ch, ps.st = "overrun" \/ ps.last = EOL
  PROVE  Scan(ps, ch) = ps
BY DEF Scan

(* Before a start of line characters are passed over; at one a command     *)
(* starts, for the first time or again.                                    *)
LEMMA ScanStart ==
  ASSUME NEW st, NEW p, NEW c, NEW last, NEW P, NEW ch, st # "overrun", last # EOL
  PROVE  LET ps == State(st, p, c, last, P)
         IN /\ ch = SOL => Scan(ps, ch) = State("valid", 1, 0, ch, P)
            /\ ch # SOL /\ st = "invalid" => Scan(ps, ch) = State(st, p, c, ch, P)
<1> DEFINE ps == State(st, p, c, last, P)
<1>1. ps.st = st /\ ps.last = last /\ Begun(ps) = State("valid", 1, 0, last, P)
  BY StateFields, BegunIs
<1>2. /\ WithLast(ps, ch) = State(st, p, c, ch, P)
      /\ WithLast(State("valid", 1, 0, last, P), ch) = State("valid", 1, 0, ch, P)
  BY WithLastIs
<1> HIDE DEF ps
<1>3. Scan(ps, ch) = WithLast(Take(ps, ch), ch)
  BY <1>1 DEF Scan, WithLast
<1>4. ch = SOL => Take(ps, ch) = Begun(ps)
  BY DEF Take, Begun
<1>5. ch # SOL /\ st = "invalid" => Take(ps, ch) = ps
  BY <1>1 DEF Take
<1>6. QED
  BY <1>1, <1>2, <1>3, <1>4, <1>5 DEF ps

(* Within a command.                                                       *)
LEMMA ScanValid ==
  ASSUME NEW p, NEW c, NEW last, NEW P, NEW ch, last # EOL, ch # SOL
  PROVE  LET ps == State("valid", p, c, last, P)
             ended == Stored(P, p, c, NUL)
             more == IF p + 1 > NumParam THEN "overrun" ELSE "valid"
             full == IF c + 1 >= LenParam THEN "overrun" ELSE "valid"
         IN /\ ch = CR => Scan(ps, ch) = State("valid", p, c, ch, P)
            /\ ch = EOL => Scan(ps, ch) = State("valid", p, c, ch, ended)
            /\ ch = Comma /\ ~InSerialData(ps) => Scan(ps, ch) = State(more, p + 1, 0, ch, ended)
            /\ ch \notin {CR, EOL, Comma} \/ (ch = Comma /\ InSerialData(ps)) =>
                 Scan(ps, ch) = State(full, p, c + 1, ch, Stored(P, p, c, ch))
<1> DEFINE ps == State("valid", p, c, last, P)
           ended == Stored(P, p, c, NUL)
           more == IF p + 1 > NumParam THEN "overrun" ELSE "valid"
           full == IF c + 1 >= LenParam THEN "overrun" ELSE "valid"
<1>1. ps.st = "valid" /\ ps.last = last
  BY StateFields
<1>2. /\ EndParam(ps) = State("valid", p, c, last, ended)
      /\ NextParam(ps) = State(more, p + 1, 0, last, ended)
      /\ Put(ps, ch) = State(full, p, c + 1, last, Stored(P, p, c, ch))
  BY EndParamIs, NextParamIs, PutIs
<1> HIDE DEF more, full, ended
<1>3. /\ WithLast(ps, ch) = State("valid", p, c, ch, P)
      /\ WithLast(State("valid", p, c, last, ended), ch) = State("valid", p, c, ch, ended)
      /\ WithLast(State(more, p + 1, 0, last, ended), ch) = State(more, p + 1, 0, ch, ended)
      /\ WithLast(State(full, p, c + 1, last, Stored(P, p, c, ch)), ch)
           = State(full, p, c + 1, ch, Stored(P, p, c, ch))
  BY WithLastIs
<1> HIDE DEF ps
<1>4. Scan(ps, ch) = WithLast(Take(ps, ch), ch)
  BY <1>1 DEF Scan, WithLast
<1>5. /\ ch = CR => Take(ps, ch) = ps
      /\ ch = EOL => Take(ps, ch) = EndParam(ps)
      /\ ch = Comma /\ ~InSerialData(ps) => Take(ps, ch) = NextParam(ps)
      /\ ch \notin {CR, EOL, Comma} \/ (ch = Comma /\ InSerialData(ps)) =>
           Take(ps, ch) = Put(ps, ch)
  BY <1>1 DEF Take, SOL, EOL, CR, Comma
<1>6. QED
  BY <1>2, <1>3, <1>4, <1>5 DEF ps, ended, more, full

(* One character, every case.                                              *)
LEMMA ScanIs ==
  ASSUME NEW ps \in Parser, NEW ch \in Char
  PROVE  LET ended == Stored(ps.params, ps.p, ps.c, NUL)
             more == IF ps.p + 1 > NumParam THEN "overrun" ELSE "valid"
             full == IF ps.c + 1 >= LenParam THEN "overrun" ELSE "valid"
             data == ch = Comma /\ InSerialData(ps)
         IN \/ (ps.st = "overrun" \/ ps.last = EOL) /\ Scan(ps, ch) = ps
            \/ /\ ps.st # "overrun" /\ ps.last # EOL
               /\ \/ ch = SOL /\ Scan(ps, ch) = State("valid", 1, 0, ch, ps.params)
                  \/ /\ ps.st = "invalid" /\ ch # SOL
                     /\ Scan(ps, ch) = State("invalid", ps.p, ps.c, ch, ps.params)
                  \/ /\ ps.st = "valid" /\ ch = CR
                     /\ Scan(ps, ch) = State("valid", ps.p, ps.c, ch, ps.params)
                  \/ /\ ps.st = "valid" /\ ch = EOL
                     /\ Scan(ps, ch) = State("valid", ps.p, ps.c, ch, ended)
                  \/ /\ ps.st = "valid" /\ ch = Comma /\ ~data
                     /\ Scan(ps, ch) = State(more, ps.p + 1, 0, ch, ended)
                  \/ /\ ps.st = "valid" /\ (ch \notin {SOL, CR, EOL, Comma} \/ data)
                     /\ Scan(ps, ch) = State(full, ps.p, ps.c + 1, ch,
                                             Stored(ps.params, ps.p, ps.c, ch))
<1> DEFINE ended == Stored(ps.params, ps.p, ps.c, NUL)
           more == IF ps.p + 1 > NumParam THEN "overrun" ELSE "valid"
           full == IF ps.c + 1 >= LenParam THEN "overrun" ELSE "valid"
           data == ch = Comma /\ InSerialData(ps)
<1>1. /\ ps = State(ps.st, ps.p, ps.c, ps.last, ps.params)
      /\ ps.st \in {"invalid", "valid", "overrun"}
  BY StateIs DEF Parser, ParserState
<1> HIDE DEF ended, more, full
<1>2. CASE ps.st = "overrun" \/ ps.last = EOL
  BY <1>2, ScanOver
<1>3. CASE ps.st # "overrun" /\ ps.last # EOL /\ (ch = SOL \/ ps.st = "invalid")
  BY <1>1, <1>3, ScanStart
<1>4. CASE ps.st = "valid" /\ ps.last # EOL /\ ch # SOL
  <2>1. ps = State("valid", ps.p, ps.c, ps.last, ps.params)
    BY <1>1, <1>4
  <2>2. /\ ch = CR => Scan(ps, ch) = State("valid", ps.p, ps.c, ch, ps.params)
        /\ ch = EOL => Scan(ps, ch) = State("valid", ps.p, ps.c, ch, ended)
        /\ ch = Comma /\ ~InSerialData(ps) => Scan(ps, ch) = State(more, ps.p + 1, 0, ch, ended)
        /\ ch \notin {CR, EOL, Comma} \/ (ch = Comma /\ InSerialData(ps)) =>
             Scan(ps, ch) = State(full, ps.p, ps.c + 1, ch, Stored(ps.params, ps.p, ps.c, ch))
    BY <1>4, <2>1, ScanValid DEF ended, more, full
  <2>3. QED
    BY <1>4, <2>2 DEF ended, more, full
<1>5. QED
  BY <1>1, <1>2, <1>3, <1>4 DEF ended, more, full

LEMMA ScanType ==
  ASSUME NEW ps \in Parser, NEW ch \in Char
  PROVE  Scan(ps, ch) \in Parser
<1>1. /\ ps.st \in {"invalid", "valid", "overrun"} /\ ps.p \in 1 .. NumParam + 1
      /\ ps.c \in 0 .. LenParam /\ ps.params \in [Params -> Param]
      /\ ps.st = "valid" => ps.p \in Params /\ ps.c \in 0 .. LenParam - 1
  BY SizesAssumption DEF Parser, ParserState
<1>2. /\ LenParam \in Nat \ {0} /\ NumParam \in Nat \ {0} /\ 1 \in Params
      /\ 0 \in 0 .. LenParam /\ 0 < LenParam /\ 1 \in 1 .. NumParam + 1
  BY SizesAssumption DEF Params
<1>3. NUL \in Char
  BY DEF Char, Special
<1> DEFINE ended == Stored(ps.params, ps.p, ps.c, NUL)
           put == Stored(ps.params, ps.p, ps.c, ch)
           more == IF ps.p + 1 > NumParam THEN "overrun" ELSE "valid"
           full == IF ps.c + 1 >= LenParam THEN "overrun" ELSE "valid"
<1>4. ps.st = "valid" => ended \in [Params -> Param] /\ put \in [Params -> Param]
  BY <1>1, <1>3, StoredIs
<1> HIDE DEF ended, put
<1>5. State("valid", 1, 0, ch, ps.params) \in Parser
  BY <1>1, <1>2, StateType
<1>6. ps.st = "invalid" => State("invalid", ps.p, ps.c, ch, ps.params) \in Parser
  BY <1>1, StateType
<1>7. ASSUME ps.st = "valid"
      PROVE  /\ State("valid", ps.p, ps.c, ch, ps.params) \in Parser
             /\ State("valid", ps.p, ps.c, ch, ended) \in Parser
  <2>1. ps.p \in Params /\ ps.c < LenParam
    BY <1>1, <1>2, <1>7
  <2>2. QED
    BY <1>1, <1>4, <1>7, <2>1, StateType
<1>8. ASSUME ps.st = "valid"
      PROVE  State(more, ps.p + 1, 0, ch, ended) \in Parser
  <2>1. /\ ps.p + 1 \in 1 .. NumParam + 1 /\ more \in {"invalid", "valid", "overrun"}
        /\ more = "valid" => ps.p + 1 \in Params
    BY <1>1, <1>2, <1>8 DEF Params
  <2> HIDE DEF more
  <2>2. QED
    BY <1>2, <1>4, <1>8, <2>1, StateType
<1>9. ASSUME ps.st = "valid"
      PROVE  State(full, ps.p, ps.c + 1, ch, put) \in Parser
  <2>1. /\ ps.c + 1 \in 0 .. LenParam /\ full \in {"invalid", "valid", "overrun"}
        /\ full = "valid" => ps.c + 1 < LenParam
    BY <1>1, <1>2, <1>9
  <2> HIDE DEF full
  <2>2. QED
    BY <1>1, <1>4, <1>9, <2>1, StateType
<1>10. QED
  BY <1>5, <1>6, <1>7, <1>8, <1>9, ScanIs DEF ended, put

-----------------------------------------------------------------------------
(* The types, and that every parameter is the empty string between two     *)
(* commands; at most one command waits.                                    *)
AllEmpty(P) == \A p \in Params : P[p][1] = NUL

TypeInv ==
  /\ params \in [Params -> Param] /\ (waiting = {} => AllEmpty(params))
  /\ thr \in Seq(Char)
  /\ waiting = {} \/ \E c \in Clients : waiting = {c}
  /\ wire \in [Clients -> Seq(Char)] /\ rx \in [Clients -> Seq(Char)]
  /\ owed \in [Clients -> Int]

LEMMA NulIsChar == NUL \in Char
BY DEF Char, Special

LEMMA CharIs ==
  ASSUME NEW text \in Seq(Char), NEW k \in Nat \ {0}
  PROVE  CharAt(text, k) \in Char
<1>1. k <= Len(text) => text[k] \in Char
  BY ElementOfSeq, LenProperties
<1>2. QED
  BY <1>1, NulIsChar DEF CharAt

LEMMA StartType ==
  ASSUME TypeInv
  PROVE  Start \in Parser
<1>1. Start = State("invalid", 1, 0, NUL, params)
  BY DEF Start, State
<1>2. 1 \in 1 .. NumParam + 1 /\ 0 \in 0 .. LenParam /\ NUL \in Char
  BY SizesAssumption, NulIsChar
<1>3. QED
  BY <1>1, <1>2, StateType DEF TypeInv

LEMMA TextIs ==
  ASSUME TypeInv, NEW c \in Clients
  PROVE  /\ Text(c) \in Seq(Char)
         /\ Len(Text(c)) <= Len(rx[c])
         /\ \A i \in 1 .. Len(Text(c)) : Text(c)[i] = rx[c][i]
         /\ Len(rx[c]) <= RxSize => Text(c) = rx[c]
<1>1. rx[c] \in Seq(Char) /\ Len(rx[c]) \in Nat /\ RxSize \in Nat
  BY LenProperties, SizesAssumption DEF TypeInv
<1> DEFINE n == IF Len(rx[c]) < RxSize THEN Len(rx[c]) ELSE RxSize
<1>2. n \in 0 .. Len(rx[c]) /\ Text(c) = SubSeq(rx[c], 1, n)
  BY <1>1 DEF Text
<1> HIDE DEF n
<1>3. \A i \in 1 .. n : rx[c][i] \in Char
  BY <1>1, <1>2, ElementOfSeq
<1>4. /\ Text(c) \in Seq(Char) /\ Len(Text(c)) = n
      /\ \A i \in 1 .. n : Text(c)[i] = rx[c][i]
  BY <1>1, <1>2, <1>3, SubSeqProperties
<1>5. Len(rx[c]) <= RxSize => Text(c) = rx[c]
  BY <1>1, <1>2, SubSeqFull DEF n
<1>6. QED
  BY <1>1, <1>2, <1>4, <1>5

LEMMA ParserTyped ==
  ASSUME TypeInv, NEW text \in Seq(Char)
  PROVE  Parse(text) \in Parser
<1> DEFINE G == {<<k, ps>> : k \in Nat, ps \in Parser}
<1>1. <<0, Start>> \in G
  BY StartType
<1>2. ASSUME NEW k \in 1 .. MaxLine, NEW ps, <<k - 1, ps>> \in G
      PROVE  <<k, Scan(ps, CharAt(text, k))>> \in G
  <2>1. ps \in Parser /\ k \in Nat \ {0}
    BY <1>2
  <2>2. Scan(ps, CharAt(text, k)) \in Parser
    BY <2>1, CharIs, ScanType
  <2>3. QED
    BY <2>1, <2>2
<1>3. <<MaxLine, Parse(text)>> \in G
  <2> HIDE DEF G
  <2>1. QED
    BY <1>1, <1>2, ParseKeeps
<1>4. QED
  BY <1>3

-----------------------------------------------------------------------------
(* A parameter as a string: what is before its first NUL.                  *)
LEMMA StrIs ==
  ASSUME NEW P \in Param, NEW e \in 1 .. LenParam, P[e] = NUL,
         \A i \in 1 .. e - 1 : P[i] # NUL
  PROVE  /\ Str(P) \in Seq(Char) /\ Len(Str(P)) = e - 1
         /\ \A i \in 1 .. e - 1 : Str(P)[i] = P[i]
<1>0. LenParam \in Nat /\ e \in Nat /\ NUL \in Char /\ \A i \in 1 .. LenParam : P[i] \in Char
  BY SizesAssumption, NulIsChar DEF Param
<1>1. Len(P) = LenParam
  BY <1>0 DEF Param
<1> DEFINE I == {i \in 1 .. Len(P) : P[i] = NUL}
<1>2. e \in I /\ \A i \in I : e <= i
  BY <1>0, <1>1
<1>3. Min(I) = e
  <2>1. \A x \in I : (\A y \in I : x <= y) => x = e
    BY <1>0, <1>1, <1>2
  <2>2. Min(I) = CHOOSE x \in I : \A y \in I : x <= y
    BY DEF Min
  <2> HIDE DEF I
  <2>3. QED
    BY <1>2, <2>1, <2>2
<1>4. Str(P) = SubSeq(P, 1, e - 1)
  <2> DEFINE nul == SelectInSeq(P, LAMBDA ch : ch = NUL)
  <2>1. nul = e
    BY <1>2, <1>3 DEF SelectInSeq
  <2>2. Str(P) = IF nul = 0 THEN P ELSE SubSeq(P, 1, nul - 1)
    BY DEF Str
  <2> HIDE DEF nul
  <2>3. QED
    BY <1>0, <2>1, <2>2
<1>5. \A i \in 1 .. e - 1 : P[i] \in Char
  BY <1>0
<1>6. QED
  BY <1>0, <1>4, <1>5, SubSeqProperties

LEMMA StrOfUnended ==
  ASSUME NEW P \in Param, \A e \in 1 .. LenParam : P[e] # NUL
  PROVE  Str(P) = P /\ P \in Seq(Char)
<1>1. LenParam \in Nat /\ Len(P) = LenParam /\ P \in Seq(Char)
  BY SizesAssumption DEF Param
<1>2. SelectInSeq(P, LAMBDA ch : ch = NUL) = 0
  BY <1>1 DEF SelectInSeq
<1>3. QED
  BY <1>1, <1>2 DEF Str

LEMMA FirstNul ==
  ASSUME NEW P \in Param, NEW e \in 1 .. LenParam, P[e] = NUL
  PROVE  \E f \in 1 .. e : P[f] = NUL /\ \A i \in 1 .. f - 1 : P[i] # NUL
<1> DEFINE I == {i \in 1 .. LenParam : P[i] = NUL}
<1>1. LenParam \in Nat /\ e \in I
  BY SizesAssumption
<1>2. PICK f \in I : \A i \in I : f <= i
  <2>1. I \in SUBSET Nat /\ I # {}
    BY <1>1
  <2> HIDE DEF I
  <2>2. QED
    BY <2>1, Least
<1>3. QED
  BY <1>1, <1>2

LEMMA StrType ==
  ASSUME NEW P \in Param
  PROVE  Str(P) \in Seq(Char)
<1>1. CASE \A e \in 1 .. LenParam : P[e] # NUL
  BY <1>1, StrOfUnended
<1>2. CASE \E e \in 1 .. LenParam : P[e] = NUL
  <2>1. PICK e \in 1 .. LenParam : P[e] = NUL
    BY <1>2
  <2>2. PICK f \in 1 .. e : P[f] = NUL /\ \A i \in 1 .. f - 1 : P[i] # NUL
    BY <2>1, FirstNul
  <2>3. f \in 1 .. LenParam
    BY SizesAssumption
  <2>4. QED
    BY <2>2, <2>3, StrIs
<1>3. QED
  BY <1>1, <1>2

-----------------------------------------------------------------------------
(* The lines.                                                              *)
LEMMA LineType ==
  ASSUME NEW c \in Clients, NEW o \in Orders[c]
  PROVE  Line(o) \in Seq(Char)
<1>1. o \in Order
  BY OrdersAssumption
<1>2. {SOL, Comma, o.name, o.end} \subseteq Char
  BY <1>1 DEF Order, Char, Special
<1>3. o.key \in Seq(Char) /\ o.val \in Seq(Char)
  <2>1. o.key \in Seq(STRING) /\ o.val \in Seq(STRING) /\ STRING \subseteq Char
    BY <1>1 DEF Order, Char
  <2>2. QED
    BY <2>1, SeqMonotonic
<1> DEFINE A == <<SOL, o.name>>
           B == IF o.key = <<>> /\ o.val = <<>> THEN <<>> ELSE <<Comma>> \o o.key
           C == IF o.val = <<>> THEN <<>> ELSE <<Comma>> \o o.val
           D == <<o.end>>
<1>4. A \in Seq(Char) /\ B \in Seq(Char) /\ C \in Seq(Char) /\ D \in Seq(Char)
  <2>1. <<Comma>> \in Seq(Char) /\ <<>> \in Seq(Char) /\ A \in Seq(Char) /\ D \in Seq(Char)
    BY <1>2
  <2>2. <<Comma>> \o o.key \in Seq(Char) /\ <<Comma>> \o o.val \in Seq(Char)
    BY <1>3, <2>1, ConcatProperties
  <2>3. QED
    BY <2>1, <2>2
<1>5. Line(o) = A \o B \o C \o D
  BY DEF Line
<1> HIDE DEF A, B, C, D
<1>6. QED
  BY <1>4, <1>5, ConcatProperties
-----------------------------------------------------------------------------
(* The types hold, and between two commands every parameter is empty.      *)
LEMMA DispatchType ==
  ASSUME NEW P \in [Params -> Param], thr \in Seq(Char), Overrun \/ Dispatch(P)
  PROVE  thr' \in Seq(Char)
<1>1. Str(P[3]) \in Seq(Char)
  <2>1. 3 \in Params
    BY SizesAssumption DEF Params
  <2>2. QED
    BY <2>1, StrType
<1>2. CASE Overrun \/ UNCHANGED settings
  BY <1>2 DEF Overrun, settings
<1>3. CASE SetMaskByte(P)
  BY <1>3 DEF SetMaskByte, BadParam, settings
<1>4. CASE SetThresholdValue(P)
  BY <1>1, <1>4 DEF SetThresholdValue, BadParam, settings
<1>5. CASE GetThresholdValue(P)
  BY <1>5 DEF GetThresholdValue, BadParam, settings
<1>6. CASE SystemReset(P) \/ GetSerialConfig(P) \/ BadCmd
  BY <1>6 DEF SystemReset, GetSerialConfig, BadCmd, settings
<1>7. Dispatch(P) => \/ SetMaskByte(P) \/ SetThresholdValue(P) \/ GetThresholdValue(P)
                     \/ SystemReset(P) \/ GetSerialConfig(P) \/ BadCmd
  BY Zenon DEF Dispatch
<1>8. QED
  BY <1>2, <1>3, <1>4, <1>5, <1>6, <1>7

LEMMA EmptiedIs ==
  ASSUME NEW P \in [Params -> Param]
  PROVE  Emptied(P) \in [Params -> Param] /\ AllEmpty(Emptied(P))
BY NulIsChar, SizesAssumption DEF Emptied, AllEmpty, Param

LEMMA BlankIs == Blank \in [Params -> Param] /\ AllEmpty(Blank)
BY NulIsChar, SizesAssumption DEF Blank, AllEmpty, Param

LEMMA EmptyIsText == <<>> \in Seq(Char) /\ Len(<<>>) = 0
OBVIOUS

LEMMA Pieces ==
  ASSUME NEW s \in Seq(Char), NEW n \in 1 .. Len(s)
  PROVE  /\ SubSeq(s, 1, n) \in Seq(Char) /\ SubSeq(s, n + 1, Len(s)) \in Seq(Char)
         /\ SubSeq(s, 1, n) \o SubSeq(s, n + 1, Len(s)) = s
<1>1. Len(s) \in Nat /\ \A i \in 1 .. Len(s) : s[i] \in Char
  BY LenProperties, ElementOfSeq
<1>2. SubSeq(s, 1, n) \in Seq(Char) /\ SubSeq(s, n + 1, Len(s)) \in Seq(Char)
  <2>1. (\A i \in 1 .. n : s[i] \in Char) /\ (\A i \in n + 1 .. Len(s) : s[i] \in Char)
    BY <1>1
  <2>2. QED
    BY <1>1, <2>1, SubSeqProperties
<1>3. SubSeq(s, 1, n) \o SubSeq(s, n + 1, Len(s)) = SubSeq(s, 1, Len(s))
  BY <1>1, ConcatAdjacentSubSeq
<1>4. QED
  BY <1>2, <1>3, SubSeqFull

LEMMA TypeStep ==
  ASSUME TypeInv, [Next]_vars
  PROVE  TypeInv'
<1>1. CASE UNCHANGED vars
  BY <1>1 DEF TypeInv, vars, settings, history, AllEmpty
<1>2. ASSUME NEW c \in Clients, TCPConnectedTask(c)
      PROVE  TypeInv'
  <2> DEFINE ps == Parse(Text(c))
  <2>1. ps \in Parser /\ ps.params \in [Params -> Param]
    <3>1. ps \in Parser
      BY TextIs, ParserTyped
    <3>2. QED
      BY <3>1 DEF Parser, ParserState
  <2> HIDE DEF ps
  <2>2. /\ waiting = {}
        /\ Execute(c, ps) \/ SendSerial(c, ps) \/ Ignore(c, ps) \/ Reboot(c, ps)
    BY <1>2 DEF TCPConnectedTask, ps
  <2>3. CASE Execute(c, ps)
    <3>1. thr' \in Seq(Char)
      BY <2>1, <2>3, DispatchType DEF Execute, TypeInv
    <3>2. params' \in [Params -> Param] /\ AllEmpty(params')
      BY <2>1, <2>3, EmptiedIs DEF Execute, PutReply
    <3>3. wire' = wire /\ rx' \in [Clients -> Seq(Char)] /\ waiting' = waiting
      BY <2>3, EmptyIsText DEF Execute, TypeInv
    <3>4. owed' \in [Clients -> Int]
      BY <2>3 DEF Execute, PutReply, TypeInv
    <3>5. QED
      BY <3>1, <3>2, <3>3, <3>4 DEF TypeInv, AllEmpty
  <2>4. CASE SendSerial(c, ps)
    <3>1. params' \in [Params -> Param] /\ waiting' = {c} /\ rx' \in [Clients -> Seq(Char)]
      BY <2>1, <2>4, EmptyIsText DEF SendSerial, TypeInv
    <3>2. thr' = thr /\ wire' = wire /\ owed' = owed
      BY <2>4 DEF SendSerial, settings, history
    <3>3. QED
      BY <3>1, <3>2 DEF TypeInv
  <2>5. CASE Ignore(c, ps)
    <3>1. /\ params' = params /\ thr' = thr /\ waiting' = waiting /\ wire' = wire /\ owed' = owed
          /\ rx' \in [Clients -> Seq(Char)]
      BY <2>5, EmptyIsText DEF Ignore, TypeInv, settings, history
    <3>2. QED
      BY <3>1 DEF TypeInv, AllEmpty
  <2>6. CASE Reboot(c, ps)
    <3>1. params' \in [Params -> Param] /\ AllEmpty(params')
      BY <2>6, BlankIs DEF Reboot
    <3>2. /\ thr' = thr /\ wire' \in [Clients -> Seq(Char)] /\ rx' \in [Clients -> Seq(Char)]
          /\ owed' \in [Clients -> Int] /\ waiting' = waiting
      BY <2>6, EmptyIsText DEF Reboot, settings
    <3>3. QED
      BY <3>1, <3>2 DEF TypeInv, AllEmpty
  <2>7. QED
    BY <2>2, <2>3, <2>4, <2>5, <2>6
<1>3. ASSUME NEW c \in Clients, SerialReturns(c)
      PROVE  TypeInv'
  <2>1. params' \in [Params -> Param] /\ AllEmpty(params')
    BY <1>3, EmptiedIs DEF SerialReturns, PutReply, TypeInv
  <2>2. thr' = thr /\ wire' = wire /\ rx' = rx /\ waiting' = {} /\ owed' \in [Clients -> Int]
    BY <1>3 DEF SerialReturns, PutReply, TypeInv, settings
  <2>3. QED
    BY <2>1, <2>2 DEF TypeInv, AllEmpty
<1>4. ASSUME NEW c \in Clients, NEW o \in Orders[c], Send(c, o)
      PROVE  TypeInv'
  <2>1. wire[c] \o Line(o) \in Seq(Char)
    BY LineType, ConcatProperties DEF TypeInv
  <2>2. wire' \in [Clients -> Seq(Char)]
    BY <1>4, <2>1 DEF Send, TypeInv
  <2>3. /\ params' = params /\ thr' = thr /\ waiting' = waiting /\ rx' = rx
        /\ owed' \in [Clients -> Int]
    BY <1>4 DEF Send, TypeInv, settings
  <2>4. QED
    BY <2>2, <2>3 DEF TypeInv, AllEmpty
<1>5. ASSUME NEW c \in Clients, NEW n \in 1 .. RxFifo, Arrive(c, n)
      PROVE  TypeInv'
  <2>1. SubSeq(wire[c], 1, n) \in Seq(Char) /\ SubSeq(wire[c], n + 1, Len(wire[c])) \in Seq(Char)
    BY <1>5, Pieces DEF Arrive, TypeInv
  <2>2. rx[c] \o SubSeq(wire[c], 1, n) \in Seq(Char)
    BY <2>1, ConcatProperties DEF TypeInv
  <2>3. wire' \in [Clients -> Seq(Char)] /\ rx' \in [Clients -> Seq(Char)]
    BY <1>5, <2>1, <2>2 DEF Arrive, TypeInv
  <2>4. params' = params /\ thr' = thr /\ waiting' = waiting /\ owed' = owed
    BY <1>5 DEF Arrive, settings, history
  <2>5. QED
    BY <2>3, <2>4 DEF TypeInv, AllEmpty
<1>6. ASSUME NEW c \in Clients, Reconnect(c)
      PROVE  TypeInv'
  <2>1. /\ wire' \in [Clients -> Seq(Char)] /\ rx' \in [Clients -> Seq(Char)]
        /\ owed' \in [Clients -> Int]
    BY <1>6, EmptyIsText DEF Reconnect, TypeInv
  <2>2. params' = params /\ thr' = thr /\ waiting' = waiting
    BY <1>6 DEF Reconnect, settings
  <2>3. QED
    BY <2>1, <2>2 DEF TypeInv, AllEmpty
<1>7. QED
  BY <1>1, <1>2, <1>3, <1>4, <1>5, <1>6 DEF Next

LEMMA TypeInit == Init => TypeInv
BY BlankIs, EmptyIsText DEF Init, TypeInv, AllEmpty

-----------------------------------------------------------------------------
(* Starts of lines.                                                        *)
Starts(s) == {i \in 1 .. Len(s) : s[i] = SOL}
NumStarts(s) == Cardinality(Starts(s))

LEMMA StartsType ==
  ASSUME NEW s \in Seq(Char)
  PROVE  IsFiniteSet(Starts(s)) /\ NumStarts(s) \in Nat
<1>1. Len(s) \in Nat
  BY LenProperties
<1>2. IsFiniteSet(1 .. Len(s))
  BY <1>1, FS_Interval
<1>3. Starts(s) \in SUBSET (1 .. Len(s))
  BY DEF Starts
<1>4. QED
  BY <1>2, <1>3, FS_Subset, FS_CardinalityType DEF NumStarts

LEMMA NoStarts ==
  ASSUME NEW s \in Seq(Char), \A i \in 1 .. Len(s) : s[i] # SOL
  PROVE  NumStarts(s) = 0
<1>1. Starts(s) = {}
  BY DEF Starts
<1>2. QED
  BY <1>1, FS_EmptySet DEF NumStarts

LEMMA StartsOfConcat ==
  ASSUME NEW s \in Seq(Char), NEW t \in Seq(Char)
  PROVE  NumStarts(s \o t) = NumStarts(s) + NumStarts(t)
<1>1. /\ Len(s) \in Nat /\ Len(t) \in Nat /\ Len(s \o t) = Len(s) + Len(t)
      /\ \A i \in 1 .. Len(s) + Len(t) : (s \o t)[i] = IF i <= Len(s) THEN s[i] ELSE t[i - Len(s)]
  BY LenProperties, ConcatProperties
<1> DEFINE Behind == {i \in Len(s) + 1 .. Len(s) + Len(t) : t[i - Len(s)] = SOL}
           f == [j \in Starts(t) |-> j + Len(s)]
<1>2. Starts(s \o t) = Starts(s) \cup Behind
  BY <1>1 DEF Starts
<1>3. Starts(s) \cap Behind = {}
  BY <1>1 DEF Starts
<1>4. f \in Bijection(Starts(t), Behind)
  <2>1. f \in [Starts(t) -> Behind]
    BY <1>1 DEF Starts
  <2>2. \A a, b \in Starts(t) : f[a] = f[b] => a = b
    BY <1>1 DEF Starts
  <2>3. \A i \in Behind : \E j \in Starts(t) : f[j] = i
    <3> SUFFICES ASSUME NEW i \in Behind PROVE \E j \in Starts(t) : f[j] = i
      OBVIOUS
    <3>1. i - Len(s) \in Starts(t) /\ (i - Len(s)) + Len(s) = i
      BY <1>1 DEF Starts
    <3>2. QED
      BY <3>1
  <2> HIDE DEF f, Behind
  <2>4. QED
    BY <2>1, <2>2, <2>3 DEF Bijection, Injection, Surjection, IsInjective
<1>5. IsFiniteSet(Starts(s)) /\ IsFiniteSet(Starts(t))
  BY StartsType
<1>6. IsFiniteSet(Behind) /\ Cardinality(Behind) = Cardinality(Starts(t))
  <2>1. ExistsBijection(Starts(t), Behind)
    BY <1>4 DEF ExistsBijection
  <2> HIDE DEF Behind
  <2>2. QED
    BY <1>5, <2>1, FS_Bijection
<1> HIDE DEF Behind
<1>7. Cardinality(Starts(s \o t)) = Cardinality(Starts(s)) + Cardinality(Behind) - Cardinality({})
  BY <1>2, <1>3, <1>5, <1>6, FS_Union
<1>8. Cardinality({}) = 0 /\ NumStarts(s) \in Nat /\ NumStarts(t) \in Nat
  BY FS_EmptySet, StartsType
<1>9. QED
  BY <1>6, <1>7, <1>8 DEF NumStarts

LEMMA LineParts ==
  ASSUME NEW c \in Clients, NEW o \in Orders[c]
  PROVE  /\ o.name \in Char /\ o.end \in {EOL, CR} /\ o.name \notin Special
         /\ o.key \in Seq(Char) /\ o.val \in Seq(Char)
         /\ \A i \in 1 .. Len(o.key) : o.key[i] \notin Special
         /\ \A i \in 1 .. Len(o.val) :
              /\ o.val[i] \notin {SOL, EOL, CR, NUL}
              /\ o.val[i] = Comma => o.name = "#"
<1>1. /\ o \in Order /\ o.name \notin Special /\ Range(o.key) \cap Special = {}
      /\ Range(o.val) \cap Special \subseteq (IF o.name = "#" THEN {Comma} ELSE {})
  BY OrdersAssumption
<1>2. o.key \in Seq(STRING) /\ o.val \in Seq(STRING) /\ o.name \in STRING /\ o.end \in {EOL, CR}
  BY <1>1 DEF Order
<1>3. STRING \subseteq Char
  BY DEF Char
<1>4. o.key \in Seq(Char) /\ o.val \in Seq(Char)
  BY <1>2, <1>3, SeqMonotonic
<1>5. \A i \in 1 .. Len(o.key) : o.key[i] \in Range(o.key)
  BY <1>2, LenProperties DEF Range
<1>6. \A i \in 1 .. Len(o.val) : o.val[i] \in Range(o.val)
  BY <1>2, LenProperties DEF Range
<1>7. \A i \in 1 .. Len(o.val) : o.val[i] \in Special => o.val[i] = Comma /\ o.name = "#"
  BY <1>1, <1>6
<1>8. Comma \notin {SOL, EOL, CR, NUL} /\ {SOL, EOL, CR, NUL, Comma} = Special
  BY DEF Comma, SOL, EOL, CR, NUL, Special
<1>9. QED
  BY <1>1, <1>2, <1>3, <1>4, <1>5, <1>7, <1>8

LEMMA NoMoreStarts ==
  ASSUME NEW s \in Seq(Char), NEW t \in Seq(Char), NumStarts(t) = 0
  PROVE  s \o t \in Seq(Char) /\ NumStarts(s \o t) = NumStarts(s)
<1>1. NumStarts(s) \in Nat /\ NumStarts(s \o t) = NumStarts(s) + NumStarts(t)
  BY StartsType, StartsOfConcat
<1>2. QED
  BY <1>1, ConcatProperties

LEMMA StartsOfLine ==
  ASSUME NEW c \in Clients, NEW o \in Orders[c]
  PROVE  NumStarts(Line(o)) = 1
<1> DEFINE A == <<SOL, o.name>>
           B == IF o.key = <<>> /\ o.val = <<>> THEN <<>> ELSE <<Comma>> \o o.key
           C == IF o.val = <<>> THEN <<>> ELSE <<Comma>> \o o.val
           D == <<o.end>>
<1>1. Line(o) = A \o B \o C \o D
  BY DEF Line
<1>2. /\ {SOL, Comma, o.name, o.end} \subseteq Char
      /\ SOL \notin {Comma, o.name, o.end}
      /\ o.key \in Seq(Char) /\ \A i \in 1 .. Len(o.key) : o.key[i] # SOL
      /\ o.val \in Seq(Char) /\ \A i \in 1 .. Len(o.val) : o.val[i] # SOL
  BY LineParts DEF Char, Special, SOL, Comma, EOL, CR
<1>3. A \in Seq(Char) /\ NumStarts(A) = 1
  <2>1. A \in Seq(Char) /\ Len(A) = 2 /\ A[1] = SOL /\ A[2] # SOL
    BY <1>2
  <2>2. Starts(A) = {1}
    BY <2>1 DEF Starts
  <2>3. QED
    BY <2>1, <2>2, FS_Singleton DEF NumStarts
<1>4. <<>> \in Seq(Char) /\ NumStarts(<<>>) = 0
  <2>1. <<>> \in Seq(Char) /\ \A i \in 1 .. Len(<<>>) : (<<>>)[i] # SOL
    OBVIOUS
  <2>2. QED
    BY <2>1, NoStarts
<1>5. <<Comma>> \in Seq(Char) /\ NumStarts(<<Comma>>) = 0
  <2>1. <<Comma>> \in Seq(Char) /\ \A i \in 1 .. Len(<<Comma>>) : (<<Comma>>)[i] # SOL
    BY <1>2
  <2>2. QED
    BY <2>1, NoStarts
<1>6. B \in Seq(Char) /\ NumStarts(B) = 0
  <2>1. NumStarts(o.key) = 0
    BY <1>2, NoStarts
  <2> DEFINE comma == <<Comma>>
  <2>2. comma \in Seq(Char) /\ NumStarts(comma) = 0
    BY <1>5
  <2> HIDE DEF comma
  <2>3. comma \o o.key \in Seq(Char) /\ NumStarts(comma \o o.key) = 0
    BY <1>2, <2>1, <2>2, NoMoreStarts
  <2>4. QED
    BY <1>4, <2>3 DEF comma
<1>7. C \in Seq(Char) /\ NumStarts(C) = 0
  <2>1. NumStarts(o.val) = 0
    BY <1>2, NoStarts
  <2> DEFINE comma == <<Comma>>
  <2>2. comma \in Seq(Char) /\ NumStarts(comma) = 0
    BY <1>5
  <2> HIDE DEF comma
  <2>3. comma \o o.val \in Seq(Char) /\ NumStarts(comma \o o.val) = 0
    BY <1>2, <2>1, <2>2, NoMoreStarts
  <2>4. QED
    BY <1>4, <2>3 DEF comma
<1>8. D \in Seq(Char) /\ NumStarts(D) = 0
  <2>1. D \in Seq(Char) /\ \A i \in 1 .. Len(D) : D[i] # SOL
    BY <1>2
  <2>2. QED
    BY <2>1, NoStarts
<1> HIDE DEF A, B, C, D
<1>9. A \o B \in Seq(Char) /\ NumStarts(A \o B) = 1
  BY <1>3, <1>6, NoMoreStarts
<1> DEFINE AB == A \o B
<1> HIDE DEF AB
<1>10. AB \o C \in Seq(Char) /\ NumStarts(AB \o C) = 1
  BY <1>7, <1>9, NoMoreStarts DEF AB
<1> DEFINE ABC == AB \o C
<1> HIDE DEF ABC
<1>11. NumStarts(ABC \o D) = 1
  BY <1>8, <1>10, NoMoreStarts DEF ABC
<1>12. QED
  BY <1>1, <1>11 DEF AB, ABC

(* There is no command without a start of line.                            *)
LEMMA CommandStarts ==
  ASSUME TypeInv, NEW text \in Seq(Char), Parse(text).st # "invalid"
  PROVE  \E i \in 1 .. Len(text) : text[i] = SOL
<1> DEFINE Begins == \E i \in 1 .. Len(text) : text[i] = SOL
           G == {<<k, ps>> : k \in Nat, ps \in {q \in Parser : q.st = "invalid" \/ Begins}}
<1>1. <<0, Start>> \in G
  BY StartType DEF Start
<1>2. ASSUME NEW k \in 1 .. MaxLine, NEW ps, <<k - 1, ps>> \in G
      PROVE  <<k, Scan(ps, CharAt(text, k))>> \in G
  <2> DEFINE ch == CharAt(text, k)
  <2>1. ps \in Parser /\ k \in Nat \ {0} /\ (ps.st = "invalid" \/ Begins)
    BY <1>2
  <2>2. ch \in Char
    BY <2>1, CharIs
  <2>3. ch = SOL => Begins
    <3>1. SOL # NUL
      BY DEF SOL, NUL
    <3>2. Len(text) \in Nat
      BY LenProperties
    <3>3. QED
      BY <2>1, <3>1, <3>2 DEF CharAt
  <2> HIDE DEF ch, Begins
  <2>4. Scan(ps, ch) \in Parser
    BY <2>1, <2>2, ScanType
  <2>5. Begins \/ Scan(ps, ch).st = "invalid"
    <3> SUFFICES ASSUME ~Begins PROVE Scan(ps, ch).st = "invalid"
      OBVIOUS
    <3>1. Scan(ps, ch) = ps \/ Scan(ps, ch) = State("invalid", ps.p, ps.c, ch, ps.params)
      BY <2>1, <2>2, <2>3, ScanIs
    <3>2. QED
      BY <2>1, <3>1, StateFields
  <2>6. QED
    BY <2>1, <2>4, <2>5 DEF ch
<1>3. <<MaxLine, Parse(text)>> \in G
  <2> HIDE DEF G
  <2>1. QED
    BY <1>1, <1>2, ParseKeeps
<1>4. QED
  BY <1>3

(* Every start of a line that is still to be looked at, and a command that *)
(* waits, is an answer the client still waits for: but for the command     *)
(* that waited when it connected.                                          *)
Due(c) == NumStarts(rx[c]) + NumStarts(wire[c]) + (IF c \in waiting THEN 1 ELSE 0)
Expected(c) == owed[c] + (IF c \in heirs THEN 1 ELSE 0)

AnswerInv ==
  /\ TypeInv
  /\ \A c \in Clients : Due(c) <= Expected(c)

LEMMA AnswerStep ==
  ASSUME AnswerInv, [Next]_vars
  PROVE  AnswerInv'
<1> USE DEF AnswerInv
<1>1. TypeInv'
  BY TypeStep
<1>2. \A d \in Clients :
        /\ rx[d] \in Seq(Char) /\ wire[d] \in Seq(Char) /\ owed[d] \in Int
        /\ NumStarts(rx[d]) \in Nat /\ NumStarts(wire[d]) \in Nat
  BY StartsType DEF TypeInv
<1>3. NumStarts(<<>>) = 0
  <2>1. <<>> \in Seq(Char) /\ \A i \in 1 .. Len(<<>>) : (<<>>)[i] # SOL
    OBVIOUS
  <2>2. QED
    BY <2>1, NoStarts
<1> DEFINE Owing == \A d \in Clients : Due(d) <= Expected(d)
<1>4. CASE UNCHANGED vars
  BY <1>1, <1>4 DEF vars, history, Due, Expected
<1>5. ASSUME NEW c \in Clients, TCPConnectedTask(c)
      PROVE  Owing'
  <2> DEFINE ps == Parse(Text(c))
  <2>1. ps.st # "invalid" => NumStarts(rx[c]) >= 1
    <3> SUFFICES ASSUME ps.st # "invalid" PROVE NumStarts(rx[c]) >= 1
      OBVIOUS
    <3>1. PICK i \in 1 .. Len(Text(c)) : Text(c)[i] = SOL
      BY TextIs, CommandStarts
    <3>2. i \in Starts(rx[c])
      <4>1. Len(Text(c)) \in Nat /\ Len(rx[c]) \in Nat
        BY <1>2, TextIs, LenProperties
      <4>2. QED
        BY <3>1, <4>1, TextIs DEF Starts
    <3>3. NumStarts(rx[c]) # 0
      BY <1>2, <3>2, StartsType, FS_EmptySet DEF NumStarts
    <3>4. QED
      BY <1>2, <3>3
  <2> HIDE DEF ps
  <2>2. /\ waiting = {}
        /\ Execute(c, ps) \/ SendSerial(c, ps) \/ Ignore(c, ps) \/ Reboot(c, ps)
    BY <1>5 DEF TCPConnectedTask, ps
  <2>3. CASE Execute(c, ps)
    <3>1. /\ wire' = wire /\ rx' = [rx EXCEPT ![c] = <<>>] /\ waiting' = waiting /\ heirs' = heirs
          /\ owed' = [owed EXCEPT ![c] = IF retData' = <<>> THEN @ ELSE @ - 1]
          /\ ps.st # "invalid"
      BY <2>3 DEF Execute, PutReply
    <3>2. ASSUME NEW d \in Clients
          PROVE  Due(d)' <= Expected(d)'
      <4>1. CASE d = c
        <5>1. rx'[c] = <<>> /\ (owed'[c] = owed[c] \/ owed'[c] = owed[c] - 1)
          BY <3>1 DEF TypeInv
        <5>2. QED
          BY <1>2, <1>3, <2>1, <3>1, <4>1, <5>1 DEF Due, Expected
      <4>2. CASE d # c
        BY <3>1, <4>2 DEF TypeInv, Due, Expected
      <4>3. QED
        BY <4>1, <4>2
    <3>3. QED
      BY <3>2
  <2>4. CASE SendSerial(c, ps)
    <3>1. /\ wire' = wire /\ rx' = [rx EXCEPT ![c] = <<>>] /\ waiting' = {c}
          /\ heirs' = heirs /\ owed' = owed /\ ps.st # "invalid"
      BY <2>4 DEF SendSerial, IsSerial, history
    <3>2. ASSUME NEW d \in Clients
          PROVE  Due(d)' <= Expected(d)'
      <4>1. CASE d = c
        <5>1. rx'[c] = <<>>
          BY <3>1 DEF TypeInv
        <5>2. QED
          BY <1>2, <1>3, <2>1, <2>2, <3>1, <4>1, <5>1 DEF Due, Expected
      <4>2. CASE d # c
        BY <2>2, <3>1, <4>2 DEF TypeInv, Due, Expected
      <4>3. QED
        BY <4>1, <4>2
    <3>3. QED
      BY <3>2
  <2>5. CASE Ignore(c, ps)
    <3>1. /\ wire' = wire /\ owed' = owed /\ rx' = [rx EXCEPT ![c] = <<>>]
          /\ waiting' = waiting /\ heirs' = heirs
      BY <2>5 DEF Ignore, history
    <3>2. \A d \in Clients : rx'[d] = rx[d] \/ rx'[d] = <<>>
      BY <3>1 DEF TypeInv
    <3>3. QED
      BY <1>2, <1>3, <3>1, <3>2 DEF Due, Expected
  <2>6. CASE Reboot(c, ps)
    <3>1. /\ \A d \in Clients : rx'[d] = <<>> /\ wire'[d] = <<>> /\ owed'[d] = 0
          /\ waiting' = {} /\ heirs' = {}
      BY <2>2, <2>6 DEF Reboot
    <3>2. QED
      BY <1>3, <3>1 DEF Due, Expected
  <2>7. QED
    BY <2>2, <2>3, <2>4, <2>5, <2>6
<1>6. ASSUME NEW c \in Clients, NEW o \in Orders[c], Send(c, o)
      PROVE  Owing'
  <2>1. /\ wire' = [wire EXCEPT ![c] = wire[c] \o Line(o)] /\ rx' = rx
        /\ owed' = [owed EXCEPT ![c] = owed[c] + 1] /\ waiting' = waiting /\ heirs' = heirs
    BY <1>6 DEF Send
  <2>2. NumStarts(wire[c] \o Line(o)) = NumStarts(wire[c]) + 1
    BY <1>2, LineType, StartsOfLine, StartsOfConcat
  <2>3. ASSUME NEW d \in Clients
        PROVE  Due(d)' <= Expected(d)'
    <3>1. CASE d = c
      <4>1. wire'[c] = wire[c] \o Line(o) /\ owed'[c] = owed[c] + 1
        BY <2>1 DEF TypeInv
      <4>2. QED
        BY <1>2, <2>1, <2>2, <3>1, <4>1 DEF Due, Expected
    <3>2. CASE d # c
      BY <2>1, <3>2 DEF TypeInv, Due, Expected
    <3>3. QED
      BY <3>1, <3>2
  <2>4. QED
    BY <2>3
<1>7. ASSUME NEW c \in Clients, NEW n \in 1 .. RxFifo, Arrive(c, n)
      PROVE  Owing'
  <2> DEFINE S == SubSeq(wire[c], 1, n)
             T == SubSeq(wire[c], n + 1, Len(wire[c]))
  <2>1. /\ n \in 1 .. Len(wire[c]) /\ rx' = [rx EXCEPT ![c] = rx[c] \o S]
        /\ wire' = [wire EXCEPT ![c] = T] /\ owed' = owed
        /\ waiting' = waiting /\ heirs' = heirs
    BY <1>7 DEF Arrive, history
  <2>2. S \in Seq(Char) /\ T \in Seq(Char) /\ S \o T = wire[c]
    BY <1>2, <2>1, Pieces
  <2> HIDE DEF S, T
  <2>3. /\ NumStarts(rx[c] \o S) = NumStarts(rx[c]) + NumStarts(S)
        /\ NumStarts(wire[c]) = NumStarts(S) + NumStarts(T)
        /\ NumStarts(S) \in Nat /\ NumStarts(T) \in Nat
    BY <1>2, <2>2, StartsOfConcat, StartsType
  <2>4. ASSUME NEW d \in Clients
        PROVE  Due(d)' <= Expected(d)'
    <3>1. CASE d = c
      <4>1. rx'[c] = rx[c] \o S /\ wire'[c] = T
        BY <2>1 DEF TypeInv
      <4>2. QED
        BY <1>2, <2>1, <2>3, <3>1, <4>1 DEF Due, Expected
    <3>2. CASE d # c
      BY <2>1, <3>2 DEF TypeInv, Due, Expected
    <3>3. QED
      BY <3>1, <3>2
  <2>5. QED
    BY <2>4
<1>8. ASSUME NEW c \in Clients, Reconnect(c)
      PROVE  Owing'
  <2>1. /\ rx' = [rx EXCEPT ![c] = <<>>] /\ wire' = [wire EXCEPT ![c] = <<>>]
        /\ owed' = [owed EXCEPT ![c] = 0] /\ waiting' = waiting
        /\ heirs' = IF c \in waiting THEN heirs \cup {c} ELSE heirs \ {c}
    BY <1>8 DEF Reconnect
  <2>2. ASSUME NEW d \in Clients
        PROVE  Due(d)' <= Expected(d)'
    <3>1. CASE d = c
      <4>1. rx'[c] = <<>> /\ wire'[c] = <<>> /\ owed'[c] = 0
        BY <2>1 DEF TypeInv
      <4>2. c \in waiting' => c \in heirs'
        BY <2>1
      <4>3. QED
        BY <1>3, <3>1, <4>1, <4>2 DEF Due, Expected
    <3>2. CASE d # c
      BY <2>1, <3>2 DEF TypeInv, Due, Expected
    <3>3. QED
      BY <3>1, <3>2
  <2>3. QED
    BY <2>2
<1>9. ASSUME NEW c \in Clients, SerialReturns(c)
      PROVE  Owing'
  <2>1. /\ rx' = rx /\ wire' = wire /\ heirs' = heirs /\ c \in waiting /\ waiting' = {}
        /\ owed' = [owed EXCEPT ![c] = IF retData' = <<>> THEN @ ELSE @ - 1]
    BY <1>9 DEF SerialReturns, PutReply
  <2>2. ASSUME NEW d \in Clients
        PROVE  Due(d)' <= Expected(d)'
    <3>1. CASE d = c
      <4>1. owed'[c] = owed[c] \/ owed'[c] = owed[c] - 1
        BY <2>1 DEF TypeInv
      <4>2. QED
        BY <1>2, <2>1, <3>1, <4>1 DEF Due, Expected
    <3>2. CASE d # c
      BY <1>2, <2>1, <3>2 DEF TypeInv, Due, Expected
    <3>3. QED
      BY <3>1, <3>2
  <2>3. QED
    BY <2>2
<1>10. QED
  BY <1>1, <1>4, <1>5, <1>6, <1>7, <1>8, <1>9 DEF Next

LEMMA AnswerInit == Init => AnswerInv
<1> SUFFICES ASSUME Init PROVE AnswerInv
  OBVIOUS
<1>1. /\ \A c \in Clients : rx[c] = <<>> /\ wire[c] = <<>> /\ owed[c] = 0
      /\ waiting = {} /\ heirs = {}
  BY DEF Init
<1>2. NumStarts(<<>>) = 0
  <2>1. <<>> \in Seq(Char) /\ \A i \in 1 .. Len(<<>>) : (<<>>)[i] # SOL
    OBVIOUS
  <2>2. QED
    BY <2>1, NoStarts
<1>3. QED
  BY <1>1, <1>2, TypeInit DEF AnswerInv, Due, Expected

(* However lines are cut and joined on the way, and however often the      *)
(* parser starts again in the middle of a text, a client has no more       *)
(* answers than it sent lines, and whoever takes a socket over while a     *)
(* serial command waits at most one more: an answer takes a start of line  *)
(* out of what has arrived, or ends a wait that did (AnswerInv).           *)
THEOREM OneAnswerEach == Spec => []AtMostOneAnswer
<1>1. AnswerInv => AtMostOneAnswer
  <2> SUFFICES ASSUME AnswerInv, NEW c \in Clients PROVE owed[c] >= IF c \in heirs THEN -1 ELSE 0
    BY DEF AtMostOneAnswer
  <2>1. NumStarts(rx[c]) \in Nat /\ NumStarts(wire[c]) \in Nat /\ owed[c] \in Int
    BY StartsType DEF AnswerInv, TypeInv
  <2>2. QED
    BY <2>1 DEF AnswerInv, Due, Expected
<1>2. QED
  BY <1>1, AnswerInit, AnswerStep, PTL DEF Spec
-----------------------------------------------------------------------------
(* What is in the parameters comes from the text.                          *)
EndedIn(P, R) == \E e \in 1 .. LenParam : P[e] = NUL /\ \A i \in 1 .. e - 1 : P[i] \in R

LEMMA EndedIs ==
  ASSUME NEW P \in Param, NEW R, EndedIn(P, R)
  PROVE  Range(Str(P)) \subseteq R
<1>1. PICK e \in 1 .. LenParam : P[e] = NUL /\ \A i \in 1 .. e - 1 : P[i] \in R
  BY DEF EndedIn
<1>2. PICK f \in 1 .. e : P[f] = NUL /\ \A i \in 1 .. f - 1 : P[i] # NUL
  BY <1>1, FirstNul
<1>3. LenParam \in Nat /\ f \in 1 .. LenParam
  BY SizesAssumption
<1>4. /\ Str(P) \in Seq(Char) /\ Len(Str(P)) = f - 1
      /\ \A i \in 1 .. f - 1 : Str(P)[i] = P[i]
  BY <1>2, <1>3, StrIs
<1>5. DOMAIN Str(P) = 1 .. f - 1
  BY <1>4, LenProperties
<1>6. \A i \in 1 .. f - 1 : P[i] \in R
  BY <1>1, <1>3
<1>7. QED
  BY <1>4, <1>5, <1>6 DEF Range

(* The parameter that is ended now, or was ended further on before.        *)
LEMMA EndedNow ==
  ASSUME NEW P \in [Params -> Param], NEW p \in Params, NEW c \in 0 .. LenParam - 1, NEW R,
         (\A i \in 1 .. c : P[p][i] \in R) \/ EndedIn(P[p], R)
  PROVE  EndedIn(Stored(P, p, c, NUL)[p], R)
<1>0. LenParam \in Nat /\ NUL \in Char /\ c + 1 \in 1 .. LenParam
  BY SizesAssumption, NulIsChar
<1> DEFINE N == Stored(P, p, c, NUL)[p]
<1>1. N[c + 1] = NUL /\ \A i \in 1 .. LenParam : i # c + 1 => N[i] = P[p][i]
  BY <1>0, StoredIs
<1> HIDE DEF N
<1>2. CASE \A i \in 1 .. c : P[p][i] \in R
  <2>1. \A i \in 1 .. (c + 1) - 1 : N[i] \in R
    BY <1>0, <1>1, <1>2
  <2>2. QED
    BY <1>0, <1>1, <2>1 DEF EndedIn, N
<1>3. CASE EndedIn(P[p], R)
  <2>1. PICK e \in 1 .. LenParam : P[p][e] = NUL /\ \A i \in 1 .. e - 1 : P[p][i] \in R
    BY <1>3 DEF EndedIn
  <2>2. CASE e <= c
    <3>1. N[e] = NUL /\ \A i \in 1 .. e - 1 : N[i] \in R
      BY <1>0, <1>1, <2>1, <2>2
    <3>2. QED
      BY <3>1 DEF EndedIn, N
  <2>3. CASE e > c
    <3>1. \A i \in 1 .. (c + 1) - 1 : N[i] \in R
      BY <1>0, <1>1, <2>1, <2>3
    <3>2. QED
      BY <1>0, <1>1, <3>1 DEF EndedIn, N
  <2>4. QED
    BY <1>0, <2>2, <2>3
<1>4. QED
  BY <1>2, <1>3

Alone(text) ==
  \A i, j \in 1 .. Len(text) : text[i] = SOL /\ text[j] = SOL => i = j

HasStart(text, k) == \E i \in 1 .. Len(text) : i <= k /\ text[i] = SOL

(* Of the parameters P, those before the p-th are strings of characters of *)
(* R, of the p-th the first c characters are in R, those behind the p-th   *)
(* are empty.                                                              *)
FormerIn(P, p, R) == \A q \in Params : q < p => EndedIn(P[q], R)
PartIn(P, p, c, R) == \A i \in 1 .. c : P[p][i] \in R
LaterEmpty(P, p) == \A q \in Params : q > p => P[q][1] = NUL

LEMMA StoredKeeps ==
  ASSUME NEW P \in [Params -> Param], NEW p \in Params, NEW c \in 0 .. LenParam - 1,
         NEW R, NEW ch \in Char, FormerIn(P, p, R)
  PROVE  /\ FormerIn(Stored(P, p, c, ch), p, R)
         /\ LaterEmpty(P, p) => LaterEmpty(Stored(P, p, c, ch), p)
         /\ PartIn(P, p, c, R) /\ ch \in R => PartIn(Stored(P, p, c, ch), p, c + 1, R)
<1> DEFINE N == Stored(P, p, c, ch)
<1>1. /\ \A q \in Params : q # p => N[q] = P[q]
      /\ N[p][c + 1] = ch
      /\ \A i \in 1 .. LenParam : i # c + 1 => N[p][i] = P[p][i]
  BY StoredIs
<1>2. LenParam \in Nat /\ p \in Nat /\ c + 1 \in 1 .. LenParam
  BY SizesAssumption DEF Params
<1> HIDE DEF N
<1>3. \A q \in Params : q \in Nat
  BY DEF Params
<1>4. FormerIn(N, p, R) /\ (LaterEmpty(P, p) => LaterEmpty(N, p))
  BY <1>1, <1>2, <1>3 DEF FormerIn, LaterEmpty
<1>5. PartIn(P, p, c, R) /\ ch \in R => PartIn(N, p, c + 1, R)
  <2> SUFFICES ASSUME PartIn(P, p, c, R), ch \in R, NEW i \in 1 .. c + 1
               PROVE  N[p][i] \in R
    BY DEF PartIn
  <2>1. CASE i = c + 1
    BY <1>1, <2>1
  <2>2. CASE i # c + 1
    <3>1. i \in 1 .. c /\ i \in 1 .. LenParam
      BY <1>2, <2>2
    <3>2. QED
      BY <1>1, <2>2, <3>1 DEF PartIn
  <2>3. QED
    BY <2>1, <2>2
<1>6. QED
  BY <1>4, <1>5 DEF N

LEMMA NextKeeps ==
  ASSUME NEW P, NEW p \in Params, NEW R, FormerIn(P, p, R), EndedIn(P[p], R)
  PROVE  /\ FormerIn(P, p + 1, R) /\ PartIn(P, p + 1, 0, R)
         /\ LaterEmpty(P, p) => LaterEmpty(P, p + 1)
<1>1. \A q \in Params : q \in Nat /\ (q < p + 1 => q < p \/ q = p) /\ (q > p + 1 => q > p)
  BY DEF Params
<1>2. QED
  BY <1>1 DEF FormerIn, PartIn, LaterEmpty

(* Behind k characters of the text.                                        *)
Fresh(k, ps, text) ==
  LET R == Range(text)
  IN /\ ps.st = "invalid" => AllEmpty(ps.params)
     /\ ps.st = "valid" =>
          /\ HasStart(text, k) /\ FormerIn(ps.params, ps.p, R)
          /\ IF ps.last = EOL \/ k > Len(text) THEN EndedIn(ps.params[ps.p], R)
                                               ELSE PartIn(ps.params, ps.p, ps.c, R)
          /\ Alone(text) => LaterEmpty(ps.params, ps.p)

LEMMA FreshStep ==
  ASSUME NEW text \in Seq(Char), NEW k \in Nat \ {0}, NEW ps \in Parser,
         Fresh(k - 1, ps, text)
  PROVE  Fresh(k, Scan(ps, CharAt(text, k)), text)
<1> DEFINE ch == CharAt(text, k)
           ns == Scan(ps, ch)
           R == Range(text)
           N == Len(text)
           P == ps.params
           p == ps.p
           c == ps.c
<1> SUFFICES Fresh(k, ns, text)
  OBVIOUS
<1>1. /\ LenParam \in Nat \ {0} /\ NumParam \in Nat \ {0} /\ N \in Nat
      /\ P \in [Params -> Param] /\ ps.st \in {"invalid", "valid", "overrun"}
      /\ ps.st = "valid" => p \in Params /\ c \in 0 .. LenParam - 1
  BY SizesAssumption, LenProperties DEF Parser, ParserState
<1>2. /\ ch \in Char
      /\ k <= N => ch = text[k] /\ ch \in R
      /\ k > N => ch = NUL
  <2>1. DOMAIN text = 1 .. N
    BY LenProperties
  <2>2. QED
    BY <1>1, <2>1, CharIs DEF CharAt, Range
<1>3. NUL \notin {SOL, EOL, CR, Comma} /\ NUL \in Char /\ EOL \notin {SOL, CR, Comma}
  BY NulIsChar DEF NUL, SOL, EOL, CR, Comma
<1>4. /\ ps.st = "invalid" => AllEmpty(P)
      /\ ps.st = "valid" =>
           /\ HasStart(text, k - 1) /\ FormerIn(P, p, R)
           /\ IF ps.last = EOL \/ k - 1 > N THEN EndedIn(P[p], R) ELSE PartIn(P, p, c, R)
           /\ Alone(text) => LaterEmpty(P, p)
  BY DEF Fresh
<1>5. (k <= N \/ k > N) /\ (k - 1 > N => k > N) /\ (k <= N => k \in 1 .. N)
  BY <1>1
<1>6. HasStart(text, k - 1) => HasStart(text, k)
  BY DEF HasStart
<1>7. \/ (ps.st = "overrun" \/ ps.last = EOL) /\ ns = ps
      \/ /\ ps.st # "overrun" /\ ps.last # EOL
         /\ \/ ch = SOL /\ ns = State("valid", 1, 0, ch, P)
            \/ ps.st = "invalid" /\ ch # SOL /\ ns = State("invalid", p, c, ch, P)
            \/ ps.st = "valid" /\ ch = CR /\ ns = State("valid", p, c, ch, P)
            \/ ps.st = "valid" /\ ch = EOL /\ ns = State("valid", p, c, ch, Stored(P, p, c, NUL))
            \/ /\ ps.st = "valid" /\ ch = Comma
               /\ ns = State(IF p + 1 > NumParam THEN "overrun" ELSE "valid", p + 1, 0, ch,
                             Stored(P, p, c, NUL))
            \/ /\ ps.st = "valid" /\ (ch \notin {SOL, CR, EOL, Comma} \/ ch = Comma)
               /\ ns = State(IF c + 1 >= LenParam THEN "overrun" ELSE "valid", p, c + 1, ch,
                             Stored(P, p, c, ch))
  BY <1>2, ScanIs
<1> HIDE DEF ch, ns, R, N, P, p, c
<1>8. CASE (ps.st = "overrun" \/ ps.last = EOL) /\ ns = ps
  BY <1>4, <1>6, <1>8 DEF Fresh, N, R, P, p, c
<1>9. CASE ps.st # "overrun" /\ ch = SOL /\ ns = State("valid", 1, 0, ch, P)
  <2>1. ns.st = "valid" /\ ns.p = 1 /\ ns.c = 0 /\ ns.last = SOL /\ ns.params = P
    BY <1>9, StateFields
  <2>2. k <= N /\ k \in 1 .. N /\ text[k] = SOL /\ HasStart(text, k)
    BY <1>2, <1>3, <1>5, <1>9 DEF HasStart, N
  <2>3. Alone(text) => LaterEmpty(P, 1)
    <3> SUFFICES ASSUME Alone(text) PROVE AllEmpty(P)
      BY DEF AllEmpty, LaterEmpty
    <3>1. ~HasStart(text, k - 1)
      BY <2>2 DEF Alone, HasStart, N
    <3>2. QED
      BY <1>1, <1>4, <1>9, <3>1
  <2>4. FormerIn(P, 1, R) /\ PartIn(P, 1, 0, R)
    BY DEF FormerIn, PartIn, Params
  <2>5. SOL # EOL /\ ~(k > N)
    BY <1>1, <1>3, <2>2
  <2>6. QED
    BY <2>1, <2>2, <2>3, <2>4, <2>5 DEF Fresh, N, R
<1>10. CASE ps.st = "invalid" /\ ns = State("invalid", p, c, ch, P)
  <2>1. ns.st = "invalid" /\ ns.params = P
    BY <1>10, StateFields
  <2>2. QED
    BY <1>4, <1>10, <2>1 DEF Fresh
<1>11. ASSUME ps.st = "valid", ps.last # EOL
       PROVE  /\ p \in Params /\ c \in 0 .. LenParam - 1
              /\ HasStart(text, k) /\ FormerIn(P, p, R)
              /\ k <= N => PartIn(P, p, c, R)
              /\ PartIn(P, p, c, R) \/ EndedIn(P[p], R)
              /\ Alone(text) => LaterEmpty(P, p)
  <2>1. k <= N => ~(k - 1 > N)
    BY <1>1
  <2>2. QED
    BY <1>1, <1>4, <1>6, <1>11, <2>1
<1> DEFINE E == Stored(P, p, c, NUL)
<1>12. ASSUME ps.st = "valid", ps.last # EOL
       PROVE  FormerIn(E, p, R) /\ EndedIn(E[p], R) /\ (Alone(text) => LaterEmpty(E, p))
  <2>1. (\A i \in 1 .. c : P[p][i] \in R) \/ EndedIn(P[p], R)
    BY <1>11, <1>12 DEF PartIn
  <2>2. EndedIn(E[p], R)
    BY <1>1, <1>11, <1>12, <2>1, EndedNow
  <2>3. QED
    BY <1>1, <1>3, <1>11, <1>12, <2>2, StoredKeeps
<1> HIDE DEF E
<1>13. CASE ps.st = "valid" /\ ps.last # EOL /\ ch = CR /\ ns = State("valid", p, c, ch, P)
  <2>1. ns.st = "valid" /\ ns.p = p /\ ns.c = c /\ ns.last = CR /\ ns.params = P
    BY <1>13, StateFields
  <2>2. CR # EOL /\ k <= N /\ ~(k > N)
    BY <1>1, <1>2, <1>3, <1>5, <1>13
  <2>3. QED
    BY <1>11, <1>13, <2>1, <2>2 DEF Fresh, N, R
<1>14. CASE ps.st = "valid" /\ ps.last # EOL /\ ch = EOL /\ ns = State("valid", p, c, ch, E)
  <2>1. ns.st = "valid" /\ ns.p = p /\ ns.c = c /\ ns.last = EOL /\ ns.params = E
    BY <1>14, StateFields
  <2>2. QED
    BY <1>11, <1>12, <1>14, <2>1 DEF Fresh, N, R
<1>15. ASSUME NEW st \in {"overrun", "valid"}, ps.st = "valid", ps.last # EOL, ch = Comma,
              ns = State(st, p + 1, 0, ch, E)
       PROVE  Fresh(k, ns, text)
  <2>1. ns.st = st /\ ns.p = p + 1 /\ ns.c = 0 /\ ns.last = Comma /\ ns.params = E
    BY <1>15, StateFields
  <2>2. Comma # EOL /\ k <= N /\ ~(k > N) /\ st # "invalid"
    BY <1>1, <1>2, <1>3, <1>5, <1>15
  <2>3. /\ FormerIn(E, p + 1, R) /\ PartIn(E, p + 1, 0, R)
        /\ LaterEmpty(E, p) => LaterEmpty(E, p + 1)
    BY <1>11, <1>12, <1>15, NextKeeps
  <2>4. QED
    BY <1>11, <1>12, <1>15, <2>1, <2>2, <2>3 DEF Fresh, N, R
<1>16. ASSUME NEW st \in {"overrun", "valid"}, ps.st = "valid", ps.last # EOL, ch # EOL,
              ns = State(st, p, c + 1, ch, Stored(P, p, c, ch))
       PROVE  Fresh(k, ns, text)
  <2> DEFINE S == Stored(P, p, c, ch)
  <2>1. ns.st = st /\ ns.p = p /\ ns.c = c + 1 /\ ns.last = ch /\ ns.params = S
    BY <1>16, StateFields
  <2>2. st # "invalid"
    OBVIOUS
  <2>3. /\ FormerIn(S, p, R) /\ (LaterEmpty(P, p) => LaterEmpty(S, p))
        /\ PartIn(P, p, c, R) /\ ch \in R => PartIn(S, p, c + 1, R)
    BY <1>1, <1>2, <1>11, <1>16, StoredKeeps
  <2>4. k > N => EndedIn(S[p], R)
    BY <1>2, <1>12, <1>16 DEF E
  <2>5. k <= N => PartIn(S, p, c + 1, R)
    BY <1>2, <1>11, <1>16, <2>3
  <2> HIDE DEF S
  <2>6. QED
    BY <1>5, <1>11, <1>16, <2>1, <2>2, <2>3, <2>4, <2>5 DEF Fresh, N, R
<1>17. QED
  <2>1. /\ (IF p + 1 > NumParam THEN "overrun" ELSE "valid") \in {"overrun", "valid"}
        /\ (IF c + 1 >= LenParam THEN "overrun" ELSE "valid") \in {"overrun", "valid"}
    OBVIOUS
  <2> DEFINE more == IF p + 1 > NumParam THEN "overrun" ELSE "valid"
             full == IF c + 1 >= LenParam THEN "overrun" ELSE "valid"
  <2>2. EOL # Comma
    BY <1>3
  <2> HIDE DEF more, full
  <2>3. more \in {"overrun", "valid"} /\ full \in {"overrun", "valid"}
    BY <2>1 DEF more, full
  <2>4. QED
    BY <1>1, <1>7, <1>8, <1>9, <1>10, <1>13, <1>14, <1>15, <1>16, <2>2, <2>3 DEF E, more, full

LEMMA FreshParse ==
  ASSUME TypeInv, waiting = {}, NEW text \in Seq(Char)
  PROVE  Fresh(MaxLine, Parse(text), text)
<1> DEFINE H == {q \in Nat \X Parser : Fresh(q[1], q[2], text)}
<1>1. <<0, Start>> \in H
  <2>1. Start \in Parser /\ Start.st = "invalid" /\ Start.params = params
    BY StartType DEF Start
  <2>2. Fresh(0, Start, text)
    BY <2>1 DEF Fresh, TypeInv
  <2>3. QED
    BY <2>1, <2>2
<1>2. ASSUME NEW k \in 1 .. MaxLine, NEW ps, <<k - 1, ps>> \in H
      PROVE  <<k, Scan(ps, CharAt(text, k))>> \in H
  <2>1. ps \in Parser /\ k \in Nat \ {0} /\ Fresh(k - 1, ps, text)
    BY <1>2
  <2>2. Scan(ps, CharAt(text, k)) \in Parser
    BY <2>1, CharIs, ScanType
  <2>3. Fresh(k, Scan(ps, CharAt(text, k)), text)
    BY <2>1, FreshStep
  <2>4. QED
    BY <2>1, <2>2, <2>3
<1>3. <<MaxLine, Parse(text)>> \in H
  <2> HIDE DEF H
  <2>1. QED
    BY <1>1, <1>2, ParseKeeps
<1>4. QED
  BY <1>3

(* Whatever came before, from whichever client: the strings a handler gets *)
(* are of characters of this text. The params that both sockets share keep *)
(* the characters of former commands, but executeCmd ends every parameter  *)
(* before it is used, and empties all of them afterwards; a parameter that *)
(* is left out is empty unless an earlier start in the same text wrote it. *)
THEOREM NothingLeftOver == Spec => []NoLeftovers
<1>1. TypeInv => NoLeftovers
  <2> SUFFICES ASSUME TypeInv, NEW c \in Clients
               PROVE  LET ps == Parse(Text(c))
                          alone == \A i, j \in DOMAIN rx[c] :
                                     rx[c][i] = SOL /\ rx[c][j] = SOL => i = j
                      IN waiting = {} /\ Len(rx[c]) < MaxLine /\ ps.st = "valid" =>
                           \A p \in Params : p <= ps.p \/ alone =>
                             Range(Str(ps.params[p])) \subseteq Range(rx[c])
    BY DEF NoLeftovers
  <2> DEFINE ps == Parse(Text(c))
             alone == \A i, j \in DOMAIN rx[c] : rx[c][i] = SOL /\ rx[c][j] = SOL => i = j
  <2> SUFFICES ASSUME waiting = {}, Len(rx[c]) < MaxLine, ps.st = "valid",
                      NEW p \in Params, p <= ps.p \/ alone
               PROVE  Range(Str(ps.params[p])) \subseteq Range(rx[c])
    BY Zenon
  <2>1. rx[c] \in Seq(Char) /\ Text(c) = rx[c]
    <3>1. rx[c] \in Seq(Char) /\ Len(rx[c]) \in Nat
      BY LenProperties DEF TypeInv
    <3>2. Len(rx[c]) <= RxSize
      BY <3>1, SizesAssumption
    <3>3. QED
      BY <3>1, <3>2, TextIs
  <2>2. ps \in Parser /\ Fresh(MaxLine, ps, rx[c])
    BY <2>1, ParserTyped, FreshParse
  <2>3. alone => Alone(rx[c])
    BY <2>1, LenProperties DEF Alone
  <2> HIDE DEF ps, alone
  <2>4. ps.params[p] \in Param /\ ps.p \in Params
    BY <2>2 DEF Parser, ParserState
  <2>5. MaxLine > Len(rx[c])
    BY <2>1, LenProperties, SizesAssumption
  <2>6. /\ FormerIn(ps.params, ps.p, Range(rx[c])) /\ EndedIn(ps.params[ps.p], Range(rx[c]))
        /\ Alone(rx[c]) => LaterEmpty(ps.params, ps.p)
    BY <2>2, <2>5 DEF Fresh
  <2>7. CASE p < ps.p
    BY <2>4, <2>6, <2>7, EndedIs DEF FormerIn
  <2>8. CASE p = ps.p
    BY <2>4, <2>6, <2>8, EndedIs
  <2>9. CASE p > ps.p
    <3>1. ~(p <= ps.p)
      BY <2>4, <2>9 DEF Params
    <3>2. ps.params[p][1] = NUL
      BY <2>3, <2>6, <2>9, <3>1 DEF LaterEmpty
    <3>3. EndedIn(ps.params[p], Range(rx[c]))
      BY <3>2, SizesAssumption DEF EndedIn
    <3>4. QED
      BY <2>4, <3>3, EndedIs
  <2>10. QED
    BY <2>4, <2>7, <2>8, <2>9 DEF Params
<1>2. QED
  BY <1>1, TypeInit, TypeStep, PTL DEF Spec
-----------------------------------------------------------------------------
(* A line and its fields: the name, and up to two parameters.              *)
Field(o, q) == IF q = 1 THEN <<o.name>> ELSE IF q = 2 THEN o.key ELSE o.val

NumFields(o) == IF o.val # <<>> THEN 3 ELSE IF o.key # <<>> THEN 2 ELSE 1

(* What is before a field.                                                 *)
Before(o, q) == IF q = 1 THEN 1 ELSE IF q = 2 THEN 3 ELSE 4 + Len(o.key)

LEMMA FieldIs ==
  ASSUME NEW c \in Clients, NEW o \in Orders[c], NEW q \in 1 .. 3
  PROVE  /\ Field(o, q) \in Seq(Char)
         /\ \A i \in 1 .. Len(Field(o, q)) :
              /\ Field(o, q)[i] \in Char
              /\ Field(o, q)[i] \notin {SOL, EOL, CR, NUL}
              /\ Field(o, q)[i] = Comma => q = 3 /\ o.name = "#"
         /\ NumFields(o) \in 1 .. 3 /\ (q > NumFields(o) => Field(o, q) = <<>>)
<1>1. /\ o.name \in Char /\ o.name \notin Special
      /\ o.key \in Seq(Char) /\ o.val \in Seq(Char)
      /\ \A i \in 1 .. Len(o.key) : o.key[i] \notin Special
      /\ \A i \in 1 .. Len(o.val) : /\ o.val[i] \notin {SOL, EOL, CR, NUL}
                                    /\ o.val[i] = Comma => o.name = "#"
  BY LineParts
<1>2. {SOL, EOL, CR, NUL, Comma} = Special
  BY DEF Special
<1>3. NumFields(o) \in 1 .. 3 /\ (q > NumFields(o) => Field(o, q) = <<>>)
  BY DEF NumFields, Field
<1>4. CASE q = 1
  <2>1. Field(o, q) = <<o.name>>
    BY <1>4 DEF Field
  <2>2. <<o.name>> \in Seq(Char) /\ Len(<<o.name>>) = 1 /\ <<o.name>>[1] = o.name
    BY <1>1
  <2>3. \A i \in 1 .. 1 : i = 1
    OBVIOUS
  <2>4. QED
    BY <1>1, <1>2, <1>3, <2>1, <2>2, <2>3
<1>5. CASE q = 2
  <2>1. Field(o, q) = o.key
    BY <1>5 DEF Field
  <2>2. \A i \in 1 .. Len(o.key) : o.key[i] \in Char
    BY <1>1, ElementOfSeq
  <2>3. QED
    BY <1>1, <1>2, <1>3, <2>1, <2>2
<1>6. CASE q = 3
  <2>1. Field(o, q) = o.val
    BY <1>6 DEF Field
  <2>2. \A i \in 1 .. Len(o.val) : o.val[i] \in Char
    BY <1>1, ElementOfSeq
  <2>3. QED
    BY <1>1, <1>3, <1>6, <2>1, <2>2
<1>7. QED
  BY <1>4, <1>5, <1>6

(* The text s is in L, behind m characters.                                *)
Has(L, m, s) == m + Len(s) <= Len(L) /\ \A i \in 1 .. Len(s) : L[m + i] = s[i]

LEMMA HasJoined ==
  ASSUME NEW s \in Seq(Char), NEW t \in Seq(Char)
  PROVE  /\ s \o t \in Seq(Char) /\ Len(s \o t) = Len(s) + Len(t)
         /\ Has(s \o t, Len(s), t)
         /\ \A m \in Nat : \A x \in Seq(Char) : Has(s, m, x) => Has(s \o t, m, x)
<1>1. /\ Len(s) \in Nat /\ Len(t) \in Nat /\ s \o t \in Seq(Char)
      /\ Len(s \o t) = Len(s) + Len(t)
      /\ \A i \in 1 .. Len(s) + Len(t) : (s \o t)[i] = IF i <= Len(s) THEN s[i] ELSE t[i - Len(s)]
  BY LenProperties, ConcatProperties
<1>2. Has(s \o t, Len(s), t)
  <2>1. ASSUME NEW i \in 1 .. Len(t) PROVE (s \o t)[Len(s) + i] = t[i]
    <3> DEFINE j == Len(s) + i
    <3>1. j \in 1 .. Len(s) + Len(t) /\ ~(j <= Len(s)) /\ j - Len(s) = i
      BY <1>1
    <3> HIDE DEF j
    <3>2. (s \o t)[j] = t[i]
      BY <1>1, <3>1
    <3>3. QED
      BY <3>2 DEF j
  <2>2. QED
    BY <1>1, <2>1 DEF Has
<1>3. ASSUME NEW m \in Nat, NEW x \in Seq(Char), Has(s, m, x)
      PROVE  Has(s \o t, m, x)
  <2>1. Len(x) \in Nat /\ m + Len(x) <= Len(s)
    BY <1>3, LenProperties DEF Has
  <2>2. ASSUME NEW i \in 1 .. Len(x) PROVE (s \o t)[m + i] = x[i]
    <3> DEFINE j == m + i
    <3>1. j \in 1 .. Len(s) + Len(t) /\ j <= Len(s) /\ s[j] = x[i]
      BY <1>1, <1>3, <2>1 DEF Has
    <3> HIDE DEF j
    <3>2. (s \o t)[j] = x[i]
      BY <1>1, <3>1
    <3>3. QED
      BY <3>2 DEF j
  <2>3. QED
    BY <1>1, <2>1, <2>2 DEF Has
<1>4. QED
  BY <1>1, <1>2, <1>3

LEMMA HasJoinedAs ==
  ASSUME NEW s \in Seq(Char), NEW t \in Seq(Char), NEW j, j = s \o t
  PROVE  /\ j \in Seq(Char) /\ Len(j) = Len(s) + Len(t)
         /\ Has(j, Len(s), t)
         /\ \A m \in Nat : \A x \in Seq(Char) : Has(s, m, x) => Has(j, m, x)
BY HasJoined

AfterComma(x) == <<Comma>> \o x

LEMMA AfterCommaType ==
  ASSUME NEW x \in Seq(Char)
  PROVE  AfterComma(x) \in Seq(Char)
<1>1. <<Comma>> \in Seq(Char)
  BY DEF Char, Special
<1>2. QED
  BY <1>1, ConcatProperties DEF AfterComma

LEMMA HasAfterComma ==
  ASSUME NEW L \in Seq(Char), NEW m \in Nat, NEW x \in Seq(Char), Has(L, m, AfterComma(x))
  PROVE  Len(AfterComma(x)) = 1 + Len(x) /\ L[m + 1] = Comma /\ Has(L, m + 1, x)
<1> DEFINE y == <<Comma>>
           z == AfterComma(x)
<1>0. y \in Seq(Char) /\ Len(y) = 1 /\ y[1] = Comma /\ z = y \o x
  BY DEF Char, Special, AfterComma
<1> HIDE DEF y, z
<1>1. Len(z) = 1 + Len(x) /\ Has(z, 1, x) /\ Len(x) \in Nat /\ Len(L) \in Nat
  BY <1>0, HasJoined, LenProperties
<1>2. z[1] = Comma
  BY <1>0, <1>1, ConcatProperties
<1>3. m + 1 + Len(x) <= Len(L) /\ \A i \in 1 .. 1 + Len(x) : L[m + i] = z[i]
  BY <1>1 DEF Has, z
<1>4. \A i \in 1 .. Len(x) : z[1 + i] = x[i]
  BY <1>1 DEF Has
<1>5. ASSUME NEW i \in 1 .. Len(x) PROVE L[m + 1 + i] = x[i]
  <2>1. 1 + i \in 1 .. 1 + Len(x) /\ m + (1 + i) = m + 1 + i
    BY <1>1
  <2>2. L[m + (1 + i)] = z[1 + i]
    BY <1>3, <2>1
  <2>3. QED
    BY <1>4, <2>1, <2>2
<1>6. L[m + 1] = z[1]
  BY <1>1, <1>3
<1>7. QED
  BY <1>1, <1>2, <1>3, <1>5, <1>6 DEF Has, z

(* The order of a line: what is where.                                     *)
IsLine(L, o, n) ==
  /\ L \in Seq(Char) /\ L[1] = SOL
  /\ \A q \in 1 .. n : Has(L, Before(o, q), Field(o, q))
  /\ \A q \in 1 .. n - 1 :
       /\ Before(o, q + 1) = Before(o, q) + Len(Field(o, q)) + 1
       /\ L[Before(o, q + 1)] = Comma
  /\ Len(L) = Before(o, n) + Len(Field(o, n)) + 1
  /\ L[Len(L)] = o.end

LEMMA LineIs ==
  ASSUME NEW c \in Clients, NEW o \in Orders[c]
  PROVE  IsLine(Line(o), o, NumFields(o))
<1> DEFINE A == <<SOL, o.name>>
           B == IF o.key = <<>> /\ o.val = <<>> THEN <<>> ELSE AfterComma(o.key)
           C == IF o.val = <<>> THEN <<>> ELSE AfterComma(o.val)
           D == <<o.end>>
           N == <<o.name>>
           K == Len(o.key)
           V == Len(o.val)
<1>1. Line(o) = A \o B \o C \o D
  BY DEF Line, AfterComma
<1>2. {SOL, Comma, o.name, o.end} \subseteq Char /\ o.key \in Seq(Char) /\ o.val \in Seq(Char)
  BY LineParts DEF Char, Special
<1>3. /\ A \in Seq(Char) /\ D \in Seq(Char) /\ N \in Seq(Char)
      /\ Len(A) = 2 /\ Len(D) = 1 /\ Len(N) = 1
  BY <1>2
<1>4. A[1] = SOL /\ A[2] = o.name /\ D[1] = o.end /\ N[1] = o.name
  BY <1>2
<1>5. K \in Nat /\ V \in Nat
  BY <1>2, LenProperties
<1>6. Field(o, 1) = N /\ Field(o, 2) = o.key /\ Field(o, 3) = o.val
  BY DEF Field
<1>7. Before(o, 1) = 1 /\ Before(o, 2) = 3 /\ Before(o, 3) = 4 + K
  BY DEF Before
<1>8. /\ B = IF o.key = <<>> /\ o.val = <<>> THEN <<>> ELSE AfterComma(o.key)
      /\ C = IF o.val = <<>> THEN <<>> ELSE AfterComma(o.val)
  OBVIOUS
<1> HIDE DEF A, B, C, D, N, K, V
<1>9. B \in Seq(Char) /\ C \in Seq(Char) /\ Len(B) \in Nat /\ Len(C) \in Nat
  <2>1. AfterComma(o.key) \in Seq(Char) /\ AfterComma(o.val) \in Seq(Char)
    BY <1>2, AfterCommaType
  <2>2. B \in Seq(Char) /\ C \in Seq(Char)
    BY <1>8, <2>1, EmptyIsText
  <2>3. QED
    BY <2>2, LenProperties
<1>10. Has(A, 0, A)
  BY <1>3 DEF Has
<1> DEFINE AB == A \o B
           ABC == AB \o C
           L == ABC \o D
<1>11. /\ AB = A \o B /\ ABC = AB \o C /\ L = ABC \o D
       /\ Line(o) = L
  BY <1>1
<1> HIDE DEF AB, ABC, L
<1>12. AB \in Seq(Char) /\ Len(AB) = 2 + Len(B) /\ Has(AB, 0, A) /\ Has(AB, 2, B)
  <2>1. /\ AB \in Seq(Char) /\ Len(AB) = Len(A) + Len(B) /\ Has(AB, Len(A), B)
        /\ \A m \in Nat : \A x \in Seq(Char) : Has(A, m, x) => Has(AB, m, x)
    BY <1>3, <1>9, <1>11, HasJoinedAs
  <2>2. QED
    BY <1>3, <1>10, <2>1
<1>13. /\ L \in Seq(Char) /\ Len(L) = 2 + Len(B) + Len(C) + 1
       /\ Has(L, 0, A) /\ Has(L, 2, B) /\ Has(L, 2 + Len(B), C) /\ Has(L, 2 + Len(B) + Len(C), D)
  <2>1. /\ ABC \in Seq(Char) /\ Len(ABC) = Len(AB) + Len(C) /\ Has(ABC, Len(AB), C)
        /\ \A m \in Nat : \A x \in Seq(Char) : Has(AB, m, x) => Has(ABC, m, x)
    BY <1>9, <1>11, <1>12, HasJoinedAs
  <2>2. /\ L \in Seq(Char) /\ Len(L) = Len(ABC) + Len(D) /\ Has(L, Len(ABC), D)
        /\ \A m \in Nat : \A x \in Seq(Char) : Has(ABC, m, x) => Has(L, m, x)
    BY <1>3, <1>11, <2>1, HasJoinedAs
  <2>3. 2 + Len(B) \in Nat /\ Len(AB) \in Nat /\ Len(AB) = 2 + Len(B)
    BY <1>9, <1>12
  <2>4. Has(ABC, 0, A) /\ Has(ABC, 2, B) /\ Has(ABC, Len(AB), C)
    BY <1>3, <1>9, <1>12, <2>1
  <2>5. Has(L, 0, A) /\ Has(L, 2, B) /\ Has(L, Len(AB), C)
    BY <1>3, <1>9, <2>2, <2>3, <2>4
  <2>6. Len(ABC) = 2 + Len(B) + Len(C) /\ Len(L) = 2 + Len(B) + Len(C) + 1
    BY <1>3, <2>1, <2>2, <2>3
  <2>7. QED
    BY <2>2, <2>3, <2>5, <2>6
<1>14. Len(Field(o, 1)) = 1 /\ Len(Field(o, 2)) = K /\ Len(Field(o, 3)) = V
  BY <1>3, <1>6 DEF K, V
<1>15. L[1] = SOL /\ L[2] = o.name /\ L[2 + Len(B) + Len(C) + 1] = o.end
  <2>1. /\ \A i \in 1 .. 2 : L[0 + i] = A[i]
        /\ \A i \in 1 .. 1 : L[2 + Len(B) + Len(C) + i] = D[i]
    BY <1>3, <1>13 DEF Has
  <2>2. L[0 + 1] = A[1] /\ L[0 + 2] = A[2] /\ L[2 + Len(B) + Len(C) + 1] = D[1]
    BY <2>1
  <2>3. 0 + 1 = 1 /\ 0 + 2 = 2
    OBVIOUS
  <2>4. QED
    BY <1>4, <2>2, <2>3
<1>16. Has(L, 1, N)
  <2>1. 1 + Len(N) <= Len(L)
    BY <1>3, <1>9, <1>13
  <2>2. ASSUME NEW i \in 1 .. Len(N) PROVE L[1 + i] = N[i]
    <3>1. i = 1 /\ 1 + i = 2
      BY <1>3
    <3>2. QED
      BY <1>4, <1>15, <3>1
  <2>3. QED
    BY <2>1, <2>2 DEF Has
<1>17. CASE o.val # <<>>
  <2>1. NumFields(o) = 3 /\ B = AfterComma(o.key) /\ C = AfterComma(o.val)
    BY <1>8, <1>17 DEF NumFields
  <2>2. Len(B) = 1 + K /\ L[3] = Comma /\ Has(L, 3, o.key)
    <3> DEFINE x == o.key
               m == 2
    <3>1. m \in Nat /\ x \in Seq(Char) /\ B = AfterComma(x) /\ Has(L, m, AfterComma(x))
      BY <1>2, <1>13, <2>1
    <3> HIDE DEF x, m
    <3>2. Len(B) = 1 + Len(x) /\ L[m + 1] = Comma /\ Has(L, m + 1, x)
      BY <1>13, <3>1, HasAfterComma
    <3>3. m + 1 = 3
      BY DEF m
    <3>4. QED
      BY <3>2, <3>3 DEF K, x
  <2>3. Len(C) = 1 + V /\ L[4 + K] = Comma /\ Has(L, 4 + K, o.val)
    <3> DEFINE x == o.val
               m == 2 + Len(B)
    <3>1. m \in Nat /\ x \in Seq(Char) /\ C = AfterComma(x) /\ Has(L, m, AfterComma(x))
      BY <1>2, <1>9, <1>13, <2>1
    <3>2. m + 1 = 4 + K
      BY <1>5, <2>2
    <3> HIDE DEF x, m
    <3>3. Len(C) = 1 + Len(x) /\ L[m + 1] = Comma /\ Has(L, m + 1, x)
      BY <1>13, <3>1, HasAfterComma
    <3>4. QED
      BY <3>2, <3>3 DEF V, x
  <2>4. Len(L) = 4 + K + V + 1 /\ L[4 + K + V + 1] = o.end
    <3>1. 2 + Len(B) + Len(C) + 1 = 4 + K + V + 1
      BY <1>5, <2>2, <2>3
    <3>2. QED
      BY <1>13, <1>15, <3>1
  <2>5. \A q \in 1 .. 3 : Has(L, Before(o, q), Field(o, q))
    <3>1. \A q \in 1 .. 3 : q = 1 \/ q = 2 \/ q = 3
      OBVIOUS
    <3>2. QED
      BY <1>6, <1>7, <1>16, <2>2, <2>3, <3>1
  <2>6. ASSUME NEW q \in 1 .. 3 - 1
        PROVE  Before(o, q + 1) = Before(o, q) + Len(Field(o, q)) + 1 /\ L[Before(o, q + 1)] = Comma
    <3>1. q = 1 \/ q = 2
      OBVIOUS
    <3>2. CASE q = 1
      <4>1. q + 1 = 2
        BY <3>2
      <4>2. Before(o, 2) = 3 /\ Before(o, 1) + Len(Field(o, 1)) + 1 = 3
        <5> DEFINE b == Before(o, 1)
                   f == Len(Field(o, 1))
        <5>1. b = 1 /\ f = 1 /\ Before(o, 2) = 3
          BY <1>7, <1>14
        <5> HIDE DEF b, f
        <5>2. b + f + 1 = 3
          BY <5>1
        <5>3. QED
          BY <5>1, <5>2 DEF b, f
      <4>3. QED
        BY <2>2, <3>2, <4>1, <4>2
    <3>3. CASE q = 2
      <4>1. q + 1 = 3
        BY <3>3
      <4>2. QED
        BY <1>5, <1>7, <1>14, <2>3, <3>3, <4>1
    <3>4. QED
      BY <3>1, <3>2, <3>3
  <2>7. Len(L) = Before(o, 3) + Len(Field(o, 3)) + 1
    BY <1>5, <1>7, <1>14, <2>4
  <2>8. QED
    BY <1>11, <1>13, <1>15, <2>1, <2>4, <2>5, <2>6, <2>7 DEF IsLine
<1>18. CASE o.val = <<>> /\ o.key # <<>>
  <2>1. NumFields(o) = 2 /\ B = AfterComma(o.key) /\ C = <<>>
    BY <1>8, <1>18 DEF NumFields
  <2>2. Len(B) = 1 + K /\ L[3] = Comma /\ Has(L, 3, o.key)
    <3> DEFINE x == o.key
               m == 2
    <3>1. m \in Nat /\ x \in Seq(Char) /\ B = AfterComma(x) /\ Has(L, m, AfterComma(x))
      BY <1>2, <1>13, <2>1
    <3> HIDE DEF x, m
    <3>2. Len(B) = 1 + Len(x) /\ L[m + 1] = Comma /\ Has(L, m + 1, x)
      BY <1>13, <3>1, HasAfterComma
    <3>3. m + 1 = 3
      BY DEF m
    <3>4. QED
      BY <3>2, <3>3 DEF K, x
  <2>3. Len(L) = 3 + K + 1 /\ L[3 + K + 1] = o.end
    <3>1. 2 + Len(B) + Len(C) + 1 = 3 + K + 1
      BY <1>5, <2>1, <2>2, EmptyIsText
    <3>2. QED
      BY <1>13, <1>15, <3>1
  <2>4. \A q \in 1 .. 2 : Has(L, Before(o, q), Field(o, q))
    <3>1. \A q \in 1 .. 2 : q = 1 \/ q = 2
      OBVIOUS
    <3>2. QED
      BY <1>6, <1>7, <1>16, <2>2, <3>1
  <2>5. ASSUME NEW q \in 1 .. 2 - 1
        PROVE  Before(o, q + 1) = Before(o, q) + Len(Field(o, q)) + 1 /\ L[Before(o, q + 1)] = Comma
    <3>1. q = 1 /\ q + 1 = 2
      OBVIOUS
    <3>2. Before(o, 2) = 3 /\ Before(o, 1) + Len(Field(o, 1)) + 1 = 3
      <4> DEFINE b == Before(o, 1)
                 f == Len(Field(o, 1))
      <4>1. b = 1 /\ f = 1 /\ Before(o, 2) = 3
        BY <1>7, <1>14
      <4> HIDE DEF b, f
      <4>2. b + f + 1 = 3
        BY <4>1
      <4>3. QED
        BY <4>1, <4>2 DEF b, f
    <3>3. QED
      BY <2>2, <3>1, <3>2
  <2>6. Len(L) = Before(o, 2) + Len(Field(o, 2)) + 1
    BY <1>5, <1>7, <1>14, <2>3
  <2>7. QED
    BY <1>11, <1>13, <1>15, <2>1, <2>3, <2>4, <2>5, <2>6 DEF IsLine
<1>19. CASE o.val = <<>> /\ o.key = <<>>
  <2>1. NumFields(o) = 1 /\ B = <<>> /\ C = <<>>
    BY <1>8, <1>19 DEF NumFields
  <2>2. Len(L) = 3 /\ L[3] = o.end
    BY <1>13, <1>15, <2>1, EmptyIsText
  <2>3. \A q \in 1 .. 1 : Has(L, Before(o, q), Field(o, q))
    <3>1. \A q \in 1 .. 1 : q = 1
      OBVIOUS
    <3>2. QED
      BY <1>6, <1>7, <1>16, <3>1
  <2>4. Len(L) = Before(o, 1) + Len(Field(o, 1)) + 1
    <3> DEFINE b == Before(o, 1)
               f == Len(Field(o, 1))
               len == Len(L)
    <3>1. b = 1 /\ f = 1 /\ len = 3
      BY <1>7, <1>14, <2>2
    <3> HIDE DEF b, f, len
    <3>2. len = b + f + 1
      BY <3>1
    <3>3. QED
      BY <3>2 DEF b, f, len
  <2>5. \A q \in 1 .. 1 - 1 : FALSE
    OBVIOUS
  <2>6. QED
    BY <1>11, <1>13, <1>15, <2>1, <2>2, <2>3, <2>4, <2>5 DEF IsLine
<1>20. QED
  BY <1>17, <1>18, <1>19

LEMMA LineFacts ==
  ASSUME NEW c \in Clients, NEW o \in Orders[c], NEW q \in 1 .. NumFields(o)
  PROVE  LET L == Line(o)
             F == Field(o, q)
             b == Before(o, q)
         IN /\ b \in Nat \ {0} /\ Len(F) \in Nat /\ Len(L) \in Nat
            /\ b + Len(F) + 1 <= Len(L)
            /\ \A i \in 1 .. Len(F) : L[b + i] = F[i]
            /\ q < NumFields(o) => /\ b + Len(F) + 1 < Len(L)
                                   /\ Before(o, q + 1) = b + Len(F) + 1
                                   /\ L[b + Len(F) + 1] = Comma
            /\ q = NumFields(o) => b + Len(F) + 1 = Len(L)
<1> DEFINE L == Line(o)
           n == NumFields(o)
<1>1. n \in 1 .. 3
  BY FieldIs
<1>2. q \in 1 .. 3 /\ (q < n => q + 1 \in 1 .. n /\ q \in 1 .. n - 1)
  BY <1>1
<1>3. Len(L) \in Nat
  BY LineType, LenProperties
<1>4. ASSUME NEW r \in 1 .. n
      PROVE  Before(o, r) \in Nat \ {0} /\ Len(Field(o, r)) \in Nat
  <2>1. r \in 1 .. 3
    BY <1>1
  <2>2. Len(Field(o, r)) \in Nat
    BY <2>1, FieldIs, LenProperties
  <2>3. Len(o.key) \in Nat
    BY LineParts, LenProperties
  <2>4. QED
    BY <2>1, <2>2, <2>3 DEF Before
<1>5. IsLine(L, o, n)
  BY LineIs
<1> HIDE DEF L, n
<1>6. \A i \in 1 .. Len(Field(o, q)) : L[Before(o, q) + i] = Field(o, q)[i]
  <2>1. q \in 1 .. n
    BY DEF n
  <2>2. QED
    BY <1>5, <2>1 DEF IsLine, Has
<1>7. CASE q < n
  <2>1. /\ Before(o, q + 1) = Before(o, q) + Len(Field(o, q)) + 1
        /\ L[Before(o, q + 1)] = Comma
    BY <1>2, <1>5, <1>7 DEF IsLine
  <2>2. Before(o, q + 1) + Len(Field(o, q + 1)) + 1 <= Len(L)
    <3>1. Before(o, q + 1) \in Nat /\ Len(Field(o, q + 1)) \in Nat
      BY <1>2, <1>4, <1>7
    <3>2. CASE q + 1 = n
      BY <1>3, <1>5, <3>1, <3>2 DEF IsLine
    <3>3. CASE q + 1 < n
      <4>1. (q + 1) + 1 \in 1 .. n /\ q + 1 \in 1 .. n - 1
        BY <1>1, <1>2, <1>7, <3>3 DEF n
      <4>2. Before(o, (q + 1) + 1) = Before(o, q + 1) + Len(Field(o, q + 1)) + 1
        BY <1>5, <4>1 DEF IsLine
      <4>3. Before(o, (q + 1) + 1) + Len(Field(o, (q + 1) + 1)) <= Len(L)
        BY <1>5, <4>1 DEF IsLine, Has
      <4>4. Before(o, (q + 1) + 1) \in Nat /\ Len(Field(o, (q + 1) + 1)) \in Nat
        BY <1>4, <4>1
      <4>5. QED
        BY <1>3, <3>1, <4>2, <4>3, <4>4
    <3>4. QED
      BY <1>1, <1>2, <1>7, <3>2, <3>3 DEF n
  <2>3. /\ Before(o, q) \in Nat \ {0} /\ Len(Field(o, q)) \in Nat
        /\ Before(o, q + 1) \in Nat /\ Len(Field(o, q + 1)) \in Nat
    BY <1>2, <1>4, <1>7 DEF n
  <2>4. Before(o, q) + Len(Field(o, q)) + 1 < Len(L)
    BY <1>3, <2>1, <2>2, <2>3
  <2>5. q # n
    BY <1>1, <1>2, <1>7
  <2>6. QED
    BY <1>3, <1>6, <1>7, <2>1, <2>3, <2>4, <2>5 DEF L, n
<1>8. CASE q = n
  <2>1. Before(o, q) + Len(Field(o, q)) + 1 = Len(L)
    BY <1>5, <1>8 DEF IsLine
  <2>2. Before(o, q) \in Nat \ {0} /\ Len(Field(o, q)) \in Nat
    BY <1>4 DEF n
  <2>3. ~(q < n)
    BY <1>1, <1>8
  <2>4. QED
    BY <1>3, <1>6, <1>8, <2>1, <2>2, <2>3 DEF L, n
<1>9. QED
  BY <1>1, <1>2, <1>7, <1>8 DEF n

-----------------------------------------------------------------------------
(* The parser in the middle of a whole line.                               *)
PartOf(P, F, c) == \A i \in 1 .. c : P[i] = F[i]
Complete(P, F) == PartOf(P, F, Len(F)) /\ P[Len(F) + 1] = NUL

(* Behind k characters of the line: the fields before the p-th are         *)
(* complete, the p-th is being read, the parameters behind it are empty.   *)
Within(k, ps, o) ==
  /\ ps.st = "valid" /\ ps.last # EOL /\ ps.p \in 1 .. NumFields(o)
  /\ \A q \in 1 .. NumFields(o) : q < ps.p => Complete(ps.params[q], Field(o, q))
  /\ LaterEmpty(ps.params, ps.p)
  /\ k = Before(o, ps.p) + ps.c /\ ps.c <= Len(Field(o, ps.p))
  /\ PartOf(ps.params[ps.p], Field(o, ps.p), ps.c)

(* Behind the end of the line. After an EOL nothing more is read; a CR is  *)
(* passed over, and the NULs behind the text are put into the parameter.   *)
AtEnd(k, ps, o) ==
  LET n == NumFields(o)
      F == Field(o, n)
      P == ps.params
  IN /\ ps.st = "valid" /\ ps.p = n
     /\ \A q \in 1 .. n : q < n => Complete(P[q], Field(o, q))
     /\ LaterEmpty(P, n) /\ PartOf(P[n], F, Len(F))
     /\ IF o.end = EOL
          THEN ps.last = EOL /\ P[n][Len(F) + 1] = NUL
          ELSE /\ ps.last # EOL /\ ps.c = Len(F) + (k - Len(Line(o)))
               /\ k > Len(Line(o)) => P[n][Len(F) + 1] = NUL

LineAt(k, ps, o) ==
  IF k = 0 THEN ps.st = "invalid" /\ ps.last # EOL /\ AllEmpty(ps.params)
  ELSE IF k < Len(Line(o)) THEN Within(k, ps, o) ELSE AtEnd(k, ps, o)

(* The first character starts the command.                                 *)
LEMMA LineBegins ==
  ASSUME NEW c \in Clients, NEW o \in Orders[c], NEW ps \in Parser, LineAt(0, ps, o)
  PROVE  LineAt(1, Scan(ps, CharAt(Line(o), 1)), o)
<1> DEFINE L == Line(o)
           n == NumFields(o)
           ns == Scan(ps, CharAt(L, 1))
<1>1. /\ n \in 1 .. 3 /\ 1 \in 1 .. n /\ Before(o, 1) = 1
      /\ 3 <= Len(L) /\ Len(L) \in Nat /\ Len(Field(o, 1)) \in Nat
  <2>1. n \in 1 .. 3 /\ 1 \in 1 .. n
    BY FieldIs
  <2>2. /\ Before(o, 1) + Len(Field(o, 1)) + 1 <= Len(L)
        /\ Len(L) \in Nat /\ Len(Field(o, 1)) \in Nat
    BY <2>1, LineFacts
  <2>3. Before(o, 1) = 1 /\ Field(o, 1) = <<o.name>> /\ Len(<<o.name>>) = 1
    BY DEF Before, Field
  <2> DEFINE b == Before(o, 1)
             f == Len(Field(o, 1))
  <2>4. b = 1 /\ f = 1 /\ b + f + 1 <= Len(L) /\ Len(L) \in Nat
    BY <2>2, <2>3
  <2> HIDE DEF b, f
  <2>5. 3 <= Len(L)
    BY <2>4
  <2>6. QED
    BY <2>1, <2>2, <2>3, <2>5
<1>2. CharAt(L, 1) = SOL
  BY <1>1, LineIs DEF CharAt, IsLine
<1>3. ps.st = "invalid" /\ ps.last # EOL /\ AllEmpty(ps.params)
  BY DEF LineAt
<1>4. SOL \in Char /\ SOL # EOL
  BY DEF Char, Special, SOL, EOL
<1>5. ns = State("valid", 1, 0, SOL, ps.params)
  BY <1>2, <1>3, <1>4, ScanIs
<1>6. ns.st = "valid" /\ ns.p = 1 /\ ns.c = 0 /\ ns.last = SOL /\ ns.params = ps.params
  BY <1>5, StateFields
<1> HIDE DEF ns, n, L
<1>7. \A q \in 1 .. n : ~(q < 1)
  BY <1>1
<1>8. LaterEmpty(ps.params, 1) /\ PartOf(ps.params[1], Field(o, 1), 0)
  BY <1>3 DEF AllEmpty, LaterEmpty, PartOf
<1>9. 1 < Len(L) /\ 1 = Before(o, 1) + 0 /\ 0 <= Len(Field(o, 1)) /\ 1 # 0
  BY <1>1
<1>10. LineAt(1, ns, o)
  BY <1>1, <1>4, <1>6, <1>7, <1>8, <1>9 DEF LineAt, Within, n, L
<1>11. QED
  BY <1>10 DEF ns, L

(* One more character of a field.                                          *)
LEMMA FieldGrows ==
  ASSUME NEW c \in Clients, NEW o \in Orders[c], NEW k \in Nat \ {0}, NEW ps \in Parser,
         Len(Line(o)) <= MaxLine, Within(k - 1, ps, o), ps.c < Len(Field(o, ps.p))
  PROVE  Within(k, Scan(ps, CharAt(Line(o), k)), o) /\ k < Len(Line(o))
<1> DEFINE L == Line(o)
           n == NumFields(o)
           F == Field(o, ps.p)
           P == ps.params
           p == ps.p
           x == ps.c
           ch == CharAt(L, k)
           ns == Scan(ps, ch)
           S == Stored(P, p, x, ch)
           b == Before(o, p)
           f == Len(F)
           len == Len(L)
<1>1. /\ n \in 1 .. 3 /\ p \in 1 .. n /\ p \in 1 .. 3 /\ p \in Params
      /\ x \in Nat /\ b \in Nat \ {0} /\ f \in Nat /\ len \in Nat
      /\ P \in [Params -> Param] /\ LenParam \in Nat /\ len <= LenParam
  <2>1. n \in 1 .. 3 /\ p \in 1 .. n
    BY FieldIs DEF Within
  <2>2. b \in Nat \ {0} /\ f \in Nat /\ len \in Nat
    BY <2>1, LineFacts
  <2>3. x \in Nat /\ P \in [Params -> Param]
    BY SizesAssumption DEF Parser, ParserState
  <2>4. \A i \in 1 .. 3 : i \in Params
    BY SizesAssumption DEF Params
  <2>5. MaxLine \in Nat /\ LenParam \in Nat /\ MaxLine <= LenParam
    BY SizesAssumption
  <2> HIDE DEF n, p, x, b, f, len, P
  <2>6. len <= LenParam
    BY <2>2, <2>5 DEF len, L
  <2>7. p \in 1 .. 3
    BY <2>1
  <2>8. QED
    BY <2>1, <2>2, <2>3, <2>4, <2>5, <2>6, <2>7
<1>2. /\ ps.st = "valid" /\ ps.last # EOL
      /\ \A q \in 1 .. n : q < p => Complete(P[q], Field(o, q))
      /\ LaterEmpty(P, p) /\ PartOf(P[p], F, x)
      /\ k - 1 = b + x /\ x < f
  BY DEF Within
<1>3. b + f + 1 <= len /\ \A i \in 1 .. f : L[b + i] = F[i]
  BY <1>1, LineFacts
<1>4. \A i \in 1 .. f : /\ F[i] \in Char /\ F[i] \notin {SOL, EOL, CR, NUL}
                        /\ F[i] = Comma => p = 3 /\ o.name = "#"
  BY <1>1, FieldIs
<1>5. \A i \in Nat : CharAt(L, i) = IF i <= len THEN L[i] ELSE NUL
  BY DEF CharAt
<1>6. p > 1 => P[1][1] = o.name
  <2> SUFFICES ASSUME p > 1 PROVE P[1][1] = o.name
    OBVIOUS
  <2>1. 1 \in 1 .. n /\ 1 < p
    BY <1>1
  <2>2. PartOf(P[1], Field(o, 1), Len(Field(o, 1)))
    BY <1>2, <2>1 DEF Complete
  <2>3. Field(o, 1) = <<o.name>> /\ Len(<<o.name>>) = 1 /\ <<o.name>>[1] = o.name
    BY DEF Field
  <2>4. 1 \in 1 .. Len(Field(o, 1)) /\ Field(o, 1)[1] = o.name
    BY <2>3
  <2> HIDE DEF P
  <2>5. QED
    BY <2>2, <2>4 DEF PartOf
<1>7. InSerialData(ps) <=> p = 3 /\ P[1][1] = "#"
  BY DEF InSerialData
<1> HIDE DEF n, F, P, p, x, b, f, len, L
<1>8. k = b + (x + 1) /\ k < len /\ k <= len /\ x + 1 \in 1 .. f /\ x + 1 < LenParam
      /\ x \in 0 .. LenParam - 1 /\ ~(x + 1 >= LenParam) /\ k \in Nat
  BY <1>1, <1>2, <1>3
<1>9. ch = F[x + 1]
  <2>1. CharAt(L, k) = L[k] /\ L[b + (x + 1)] = F[x + 1]
    BY <1>3, <1>5, <1>8
  <2>2. QED
    BY <1>8, <2>1
<1>10. /\ ch \in Char /\ ch \notin {SOL, EOL, CR, NUL} /\ ch # EOL
       /\ ch = Comma => p = 3 /\ o.name = "#"
  BY <1>4, <1>8, <1>9
<1>11. ch \in Char /\ ch \notin {SOL, CR, EOL} /\ (ch = Comma => InSerialData(ps))
  BY <1>6, <1>7, <1>10
<1>12. ns = State(IF x + 1 >= LenParam THEN "overrun" ELSE "valid", p, x + 1, ch, S)
  <2> HIDE DEF ch
  <2>1. QED
    BY <1>2, <1>11, ScanIs DEF ns, P, p, x
<1> HIDE DEF ch
<1>13. ns.st = "valid" /\ ns.p = p /\ ns.c = x + 1 /\ ns.last = ch /\ ns.params = S
  <2>1. ns = State("valid", p, x + 1, ch, S)
    BY <1>8, <1>12
  <2>2. QED
    BY <2>1, StateFields
<1>14. /\ \A q \in Params : q # p => S[q] = P[q]
       /\ S[p][x + 1] = ch
       /\ \A i \in 1 .. LenParam : i # x + 1 => S[p][i] = P[p][i]
  <2> HIDE DEF ns
  <2>1. P \in [Params -> Param] /\ p \in Params /\ x \in 0 .. LenParam - 1 /\ ch \in Char
    BY <1>1, <1>8, <1>10
  <2>2. QED
    BY <2>1, StoredIs
<1> HIDE DEF ns, S
<1>15. \A q \in 1 .. n : q < p => Complete(S[q], Field(o, q))
  <2>1. \A q \in 1 .. n : q < p => q \in Params /\ q # p
    BY <1>1, SizesAssumption DEF Params
  <2>2. QED
    BY <1>2, <1>14, <2>1
<1>16. LaterEmpty(S, p)
  <2>1. \A q \in Params : q > p => q # p
    BY <1>1 DEF Params
  <2>2. QED
    BY <1>2, <1>14, <2>1 DEF LaterEmpty
<1>17. PartOf(S[p], F, x + 1)
  <2> SUFFICES ASSUME NEW i \in 1 .. x + 1 PROVE S[p][i] = F[i]
    BY DEF PartOf
  <2>1. CASE i = x + 1
    BY <1>9, <1>14, <2>1
  <2>2. CASE i # x + 1
    <3>1. i \in 1 .. x /\ i \in 1 .. LenParam
      BY <1>1, <1>8, <2>2
    <3>2. QED
      BY <1>2, <1>14, <2>2, <3>1 DEF PartOf
  <2>3. QED
    BY <2>1, <2>2
<1>18. x + 1 <= f
  BY <1>8, <1>1
<1>19. Within(k, ns, o)
  <2>1. /\ ns.st = "valid" /\ ns.last # EOL /\ ns.p \in 1 .. NumFields(o)
        /\ k = Before(o, ns.p) + ns.c /\ ns.c <= Len(Field(o, ns.p))
    BY <1>1, <1>8, <1>10, <1>13, <1>18 DEF n, b, f, F, p
  <2>2. /\ \A q \in 1 .. NumFields(o) : q < ns.p => Complete(ns.params[q], Field(o, q))
        /\ LaterEmpty(ns.params, ns.p)
        /\ PartOf(ns.params[ns.p], Field(o, ns.p), ns.c)
    BY <1>13, <1>15, <1>16, <1>17 DEF n, F, p
  <2>3. QED
    BY <2>1, <2>2 DEF Within
<1>20. QED
  BY <1>8, <1>19 DEF ns, ch, len, L

(* The comma behind a field.                                               *)
LEMMA FieldEnds ==
  ASSUME NEW c \in Clients, NEW o \in Orders[c], NEW k \in Nat \ {0}, NEW ps \in Parser,
         Len(Line(o)) <= MaxLine, Within(k - 1, ps, o),
         ps.c = Len(Field(o, ps.p)), ps.p < NumFields(o)
  PROVE  Within(k, Scan(ps, CharAt(Line(o), k)), o) /\ k < Len(Line(o))
<1> DEFINE L == Line(o)
           n == NumFields(o)
           P == ps.params
           p == ps.p
           x == ps.c
           F == Field(o, p)
           ns == Scan(ps, CharAt(L, k))
           S == Stored(P, p, x, NUL)
           b == Before(o, p)
           b1 == Before(o, p + 1)
           len == Len(L)
<1>1. n \in 1 .. 3 /\ p \in 1 .. n /\ p < n
  BY FieldIs DEF Within
<1>2. /\ b \in Nat \ {0} /\ x \in Nat /\ len \in Nat
      /\ b + x + 1 < len /\ b1 = b + x + 1 /\ L[b + x + 1] = Comma
  BY <1>1, LineFacts
<1>3. /\ ps.st = "valid" /\ ps.last # EOL
      /\ \A q \in 1 .. n : q < p => Complete(P[q], Field(o, q))
      /\ LaterEmpty(P, p) /\ PartOf(P[p], F, x)
      /\ k - 1 = b + x /\ Len(F) = x
  BY DEF Within
<1>4. P \in [Params -> Param] /\ x \in 0 .. LenParam
  BY DEF Parser, ParserState
<1>5. MaxLine \in Nat /\ LenParam \in Nat /\ MaxLine <= LenParam /\ len <= MaxLine
      /\ NumParam \in Nat /\ 3 <= NumParam
  BY SizesAssumption
<1>6. CharAt(L, k) = IF k <= len THEN L[k] ELSE NUL
  BY DEF CharAt
<1>7. InSerialData(ps) => p = 3
  BY DEF InSerialData
<1>8. Len(Field(o, p + 1)) \in Nat
  <2>1. p + 1 \in 1 .. n
    BY <1>1
  <2>2. QED
    BY <2>1, LineFacts
<1> HIDE DEF L, n, P, p, x, F, b, b1, len
<1>9. k = b + x + 1 /\ k = b1 + 0 /\ k < len /\ k <= len /\ ~InSerialData(ps)
      /\ p \in Nat /\ p + 1 \in 1 .. n
      /\ x \in 0 .. LenParam - 1 /\ p \in Params /\ ~(p + 1 > NumParam)
  BY <1>1, <1>2, <1>3, <1>4, <1>5, <1>7 DEF Params
<1>10. CharAt(L, k) = Comma
  BY <1>2, <1>6, <1>9
<1>11. Comma \in Char /\ NUL \in Char /\ Comma \notin {SOL, CR, EOL}
  BY DEF Char, Special, Comma, SOL, CR, EOL
<1>12. ns = State("valid", p + 1, 0, Comma, S)
  <2>1. ns = State(IF p + 1 > NumParam THEN "overrun" ELSE "valid", p + 1, 0, Comma, S)
    BY <1>3, <1>9, <1>10, <1>11, ScanIs DEF P, p, x
  <2> HIDE DEF ns, S
  <2>2. QED
    BY <1>9, <2>1
<1>13. /\ \A q \in Params : q # p => S[q] = P[q]
       /\ S[p][x + 1] = NUL
       /\ \A i \in 1 .. LenParam : i # x + 1 => S[p][i] = P[p][i]
  <2> HIDE DEF ns
  <2>1. P \in [Params -> Param] /\ p \in Params /\ x \in 0 .. LenParam - 1 /\ NUL \in Char
    BY <1>4, <1>9, <1>11
  <2>2. QED
    BY <2>1, StoredIs
<1> HIDE DEF ns, S
<1>14. ns.st = "valid" /\ ns.p = p + 1 /\ ns.c = 0 /\ ns.last = Comma /\ ns.params = S
  BY <1>12, StateFields
<1>15. ASSUME NEW q \in 1 .. n, q < p + 1
       PROVE  Complete(S[q], Field(o, q))
  <2>1. q \in Params /\ (q < p \/ q = p)
    BY <1>1, <1>5, <1>9, <1>15 DEF Params
  <2>2. CASE q < p
    BY <1>3, <1>9, <1>13, <2>1, <2>2
  <2>3. CASE q = p
    <3>1. \A i \in 1 .. x : i \in 1 .. LenParam /\ i # x + 1
      BY <1>2, <1>4, <1>5
    <3>2. PartOf(S[p], F, x)
      BY <1>3, <1>13, <3>1 DEF PartOf
    <3>3. QED
      BY <1>3, <1>13, <2>3, <3>2 DEF Complete, F
  <2>4. QED
    BY <2>1, <2>2, <2>3
<1>16. LaterEmpty(S, p + 1)
  <2>1. \A q \in Params : q > p + 1 => q > p /\ q # p
    BY <1>9 DEF Params
  <2>2. QED
    BY <1>3, <1>13, <2>1 DEF LaterEmpty
<1>17. PartOf(S[p + 1], Field(o, p + 1), 0) /\ 0 <= Len(Field(o, p + 1))
  BY <1>8 DEF PartOf
<1>18. Within(k, ns, o)
  <2>1. /\ ns.st = "valid" /\ ns.last # EOL /\ ns.p \in 1 .. NumFields(o)
        /\ k = Before(o, ns.p) + ns.c /\ ns.c <= Len(Field(o, ns.p))
    BY <1>9, <1>11, <1>14, <1>17 DEF n, b1
  <2>2. /\ \A q \in 1 .. NumFields(o) : q < ns.p => Complete(ns.params[q], Field(o, q))
        /\ LaterEmpty(ns.params, ns.p)
        /\ PartOf(ns.params[ns.p], Field(o, ns.p), ns.c)
    BY <1>14, <1>15, <1>16, <1>17 DEF n
  <2>3. QED
    BY <2>1, <2>2 DEF Within
<1>19. QED
  BY <1>9, <1>18 DEF ns, len, L

(* The character that ends the line.                                       *)
LEMMA LineEnds ==
  ASSUME NEW c \in Clients, NEW o \in Orders[c], NEW k \in Nat \ {0}, NEW ps \in Parser,
         Len(Line(o)) <= MaxLine, Within(k - 1, ps, o),
         ps.c = Len(Field(o, ps.p)), ps.p = NumFields(o)
  PROVE  AtEnd(k, Scan(ps, CharAt(Line(o), k)), o) /\ k = Len(Line(o))
<1> DEFINE L == Line(o)
           P == ps.params
           p == ps.p
           x == ps.c
           F == Field(o, p)
           ns == Scan(ps, CharAt(L, k))
           S == Stored(P, p, x, NUL)
           b == Before(o, p)
           len == Len(L)
<1>1. NumFields(o) \in 1 .. 3 /\ p = NumFields(o) /\ p \in 1 .. NumFields(o) /\ p \in 1 .. 3
  BY FieldIs DEF Within
<1>2. b \in Nat \ {0} /\ x \in Nat /\ len \in Nat /\ b + x + 1 = len
  BY <1>1, LineFacts
<1>3. /\ ps.st = "valid" /\ ps.last # EOL
      /\ \A q \in 1 .. NumFields(o) : q < p => Complete(P[q], Field(o, q))
      /\ LaterEmpty(P, p) /\ PartOf(P[p], F, x)
      /\ k - 1 = b + x /\ Len(F) = x
  BY DEF Within
<1>4. P \in [Params -> Param] /\ x \in 0 .. LenParam
  BY DEF Parser, ParserState
<1>5. MaxLine \in Nat /\ LenParam \in Nat /\ MaxLine <= LenParam /\ len <= MaxLine
      /\ NumParam \in Nat /\ 3 <= NumParam
  BY SizesAssumption
<1>6. /\ CharAt(L, k) = IF k <= len THEN L[k] ELSE NUL
      /\ L[len] = o.end /\ o.end \in {EOL, CR}
  BY LineIs, LineParts DEF CharAt, IsLine
<1> HIDE DEF L, P, p, x, F, b, len
<1>7. /\ k = len /\ k <= len /\ x \in 0 .. LenParam - 1 /\ p \in Params
      /\ \A q \in 1 .. NumFields(o) : q < p => q \in Params /\ q # p
      /\ \A q \in Params : q > p => q # p
      /\ ~(k > len) /\ x = x + (k - len)
      /\ \A i \in 1 .. x : i \in 1 .. LenParam /\ i # x + 1
  <2> DEFINE n == NumFields(o)
  <2>1. n \in 1 .. 3 /\ p \in 1 .. 3
    BY <1>1
  <2> HIDE DEF ns, S, n
  <2>2. k = len /\ k <= len /\ ~(k > len) /\ x = x + (k - len)
    BY <1>2, <1>3
  <2>3. x \in 0 .. LenParam - 1
    BY <1>2, <1>4, <1>5
  <2>4. p \in Params /\ \A q \in Params : q > p => q # p
    BY <1>5, <2>1 DEF Params
  <2>5. \A q \in 1 .. n : q < p => q \in Params /\ q # p
    BY <1>5, <2>1 DEF Params
  <2>6. \A i \in 1 .. x : i \in 1 .. LenParam /\ i # x + 1
    BY <1>2, <1>5, <2>3
  <2>7. QED
    BY <2>2, <2>3, <2>4, <2>5, <2>6 DEF n
<1>8. CharAt(L, k) = o.end
  BY <1>6, <1>7
<1>9. {EOL, CR, NUL} \subseteq Char /\ EOL \notin {SOL, CR, Comma} /\ CR \notin {SOL, EOL, Comma}
  BY DEF Char, Special, SOL, EOL, CR, Comma
<1>10. /\ \A q \in Params : q # p => S[q] = P[q]
       /\ S[p][x + 1] = NUL
       /\ \A i \in 1 .. LenParam : i # x + 1 => S[p][i] = P[p][i]
  <2> HIDE DEF ns
  <2>1. P \in [Params -> Param] /\ p \in Params /\ x \in 0 .. LenParam - 1 /\ NUL \in Char
    BY <1>4, <1>7, <1>9
  <2>2. QED
    BY <2>1, StoredIs
<1>11. CASE o.end = EOL
  <2>1. ns = State("valid", p, x, EOL, S)
    BY <1>3, <1>8, <1>9, <1>11, ScanIs DEF P, p, x
  <2> HIDE DEF ns, S
  <2>2. ns.st = "valid" /\ ns.p = p /\ ns.c = x /\ ns.last = EOL /\ ns.params = S
    BY <2>1, StateFields
  <2>3. \A q \in 1 .. NumFields(o) : q < p => Complete(S[q], Field(o, q))
    BY <1>3, <1>7, <1>10
  <2>4. LaterEmpty(S, p) /\ PartOf(S[p], F, x)
    BY <1>3, <1>7, <1>10 DEF LaterEmpty, PartOf
  <2>5. AtEnd(k, ns, o)
    BY <1>1, <1>3, <1>10, <1>11, <2>2, <2>3, <2>4 DEF AtEnd, F
  <2>6. QED
    BY <1>7, <2>5 DEF ns, len, L
<1>12. CASE o.end = CR
  <2>1. ns = State("valid", p, x, CR, P)
    BY <1>3, <1>8, <1>9, <1>12, ScanIs DEF P, p, x
  <2> HIDE DEF ns, S
  <2>2. ns.st = "valid" /\ ns.p = p /\ ns.c = x /\ ns.last = CR /\ ns.params = P
    BY <2>1, StateFields
  <2>3. ns.last # EOL /\ o.end # EOL
    BY <1>9, <1>12, <2>2
  <2>4. AtEnd(k, ns, o)
    BY <1>1, <1>3, <1>7, <2>2, <2>3 DEF AtEnd, F, len, L
  <2>5. QED
    BY <1>7, <2>4 DEF ns, len, L
<1>13. QED
  BY <1>6, <1>11, <1>12

(* Behind the line there is nothing but the NULs rxData is filled with.    *)
LEMMA AfterEnd ==
  ASSUME NEW c \in Clients, NEW o \in Orders[c], NEW k \in Nat \ {0}, NEW ps \in Parser,
         Len(Line(o)) <= k - 1, k <= MaxLine, AtEnd(k - 1, ps, o)
  PROVE  AtEnd(k, Scan(ps, CharAt(Line(o), k)), o)
<1> DEFINE L == Line(o)
           n == NumFields(o)
           P == ps.params
           p == ps.p
           x == ps.c
           F == Field(o, n)
           f == Len(F)
           ns == Scan(ps, CharAt(L, k))
           S == Stored(P, p, x, NUL)
           b == Before(o, n)
           len == Len(L)
<1>1. n \in 1 .. 3 /\ n \in 1 .. n
  BY FieldIs
<1>2. b \in Nat \ {0} /\ f \in Nat /\ len \in Nat /\ b + f + 1 = len
  BY <1>1, LineFacts
<1>3. /\ ps.st = "valid" /\ p = n
      /\ \A q \in 1 .. n : q < n => Complete(P[q], Field(o, q))
      /\ LaterEmpty(P, n) /\ PartOf(P[n], F, f)
      /\ IF o.end = EOL
           THEN ps.last = EOL /\ P[n][f + 1] = NUL
           ELSE /\ ps.last # EOL /\ x = f + (k - 1 - len)
                /\ k - 1 > len => P[n][f + 1] = NUL
  BY DEF AtEnd
<1>4. CASE o.end = EOL
  <2>1. ns = ps
    BY <1>3, <1>4, ScanOver
  <2> HIDE DEF ns
  <2>2. QED
    BY <1>4, <2>1 DEF AtEnd, ns, L
<1>5. CASE o.end # EOL
  <2>1. P \in [Params -> Param] /\ x \in 0 .. LenParam
    BY DEF Parser, ParserState
  <2>2. MaxLine \in Nat /\ LenParam \in Nat /\ MaxLine <= LenParam
        /\ NumParam \in Nat /\ 3 <= NumParam
    BY SizesAssumption
  <2>3. CharAt(L, k) = IF k <= len THEN L[k] ELSE NUL
    BY DEF CharAt
  <2>4. len <= k - 1
    OBVIOUS
  <2>5. ps.last # EOL /\ x = f + (k - 1 - len) /\ (k - 1 > len => P[n][f + 1] = NUL)
    BY <1>3, <1>5
  <2> HIDE DEF L, n, P, p, x, F, f, b, len, S, ns
  <2>6. /\ x \in 0 .. LenParam - 1 /\ ~(x + 1 >= LenParam) /\ ~(k <= len)
        /\ x + 1 = f + (k - len) /\ f <= x /\ f + 1 \in 1 .. LenParam
    BY <1>2, <2>1, <2>2, <2>4, <2>5
  <2>7. p \in Params /\ p = n
    BY <1>1, <1>3, <2>2 DEF Params
  <2>8. CharAt(L, k) = NUL
    BY <2>3, <2>6
  <2>9. NUL \in Char /\ NUL \notin {SOL, CR, EOL, Comma} /\ NUL # EOL
    BY DEF Char, Special, NUL, SOL, CR, EOL, Comma
  <2>10. ns = State("valid", p, x + 1, NUL, S)
    <3>1. ns = State(IF x + 1 >= LenParam THEN "overrun" ELSE "valid", p, x + 1, NUL, S)
      BY <1>3, <2>5, <2>8, <2>9, ScanIs DEF ns, P, p, x, S
    <3>2. QED
      BY <2>6, <3>1
  <2>11. ns.st = "valid" /\ ns.p = n /\ ns.c = x + 1 /\ ns.last = NUL /\ ns.params = S
    BY <2>7, <2>10, StateFields
  <2>12. /\ \A q \in Params : q # p => S[q] = P[q]
         /\ S[p][x + 1] = NUL
         /\ \A i \in 1 .. LenParam : i # x + 1 => S[p][i] = P[p][i]
    BY <2>1, <2>6, <2>7, <2>9, StoredIs DEF S
  <2>13. \A q \in 1 .. n : q < n => Complete(S[q], Field(o, q))
    <3>1. \A q \in 1 .. n : q < n => q \in Params /\ q # p
      BY <1>1, <2>2, <2>7 DEF Params
    <3>2. QED
      BY <1>3, <2>12, <3>1 DEF n
  <2>14. LaterEmpty(S, n)
    <3>1. \A q \in Params : q > n => q # p
      BY <1>1, <2>7 DEF Params
    <3>2. QED
      BY <1>3, <2>12, <3>1 DEF LaterEmpty
  <2>15. PartOf(S[n], F, f)
    <3>1. \A i \in 1 .. f : i \in 1 .. LenParam /\ i # x + 1
      BY <1>2, <2>2, <2>6
    <3>2. QED
      BY <1>3, <2>7, <2>12, <3>1 DEF PartOf
  <2>16. S[n][f + 1] = NUL
    <3>1. CASE x = f
      BY <2>7, <2>12, <3>1
    <3>2. CASE x # f
      <4>1. k - 1 > len /\ f + 1 # x + 1
        BY <1>2, <2>4, <2>5, <3>2
      <4>2. QED
        BY <2>5, <2>6, <2>7, <2>12, <4>1
    <3>3. QED
      BY <3>1, <3>2
  <2>17. AtEnd(k, ns, o)
    BY <1>5, <2>6, <2>9, <2>11, <2>13, <2>14, <2>15, <2>16 DEF AtEnd, n, F, f, len, L
  <2>18. QED
    BY <2>17 DEF ns, L
<1>6. QED
  BY <1>4, <1>5

(* One character of the line, or of what is behind it.                     *)
LEMMA LineStep ==
  ASSUME NEW c \in Clients, NEW o \in Orders[c], NEW k \in 1 .. MaxLine, NEW ps \in Parser,
         Len(Line(o)) <= MaxLine, LineAt(k - 1, ps, o)
  PROVE  LineAt(k, Scan(ps, CharAt(Line(o), k)), o)
<1> DEFINE len == Len(Line(o))
           ns == Scan(ps, CharAt(Line(o), k))
<1>1. k \in Nat \ {0} /\ k # 0 /\ k <= MaxLine /\ len \in Nat
  BY SizesAssumption, LineType, LenProperties
<1> HIDE DEF len, ns
<1>2. CASE k = 1
  <2>1. k - 1 = 0
    BY <1>2
  <2>2. LineAt(0, ps, o)
    BY <2>1
  <2>3. QED
    BY <1>2, <2>2, LineBegins
<1>3. CASE k # 1 /\ k - 1 < len
  <2>1. Within(k - 1, ps, o)
    <3>1. k - 1 # 0
      BY <1>1, <1>3
    <3>2. QED
      BY <1>3, <3>1 DEF LineAt, len
  <2>2. CASE ps.c < Len(Field(o, ps.p))
    <3>1. Within(k, ns, o) /\ k < len
      BY <1>1, <2>1, <2>2, FieldGrows DEF ns, len
    <3>2. QED
      BY <1>1, <3>1 DEF LineAt, ns, len
  <2>3. ps.p \in 1 .. NumFields(o) /\ NumFields(o) \in 1 .. 3 /\ ps.c <= Len(Field(o, ps.p))
    BY <2>1, FieldIs DEF Within
  <2>4. ps.c \in Nat /\ Len(Field(o, ps.p)) \in Nat
    BY <2>3, LineFacts DEF Parser, ParserState
  <2>5. CASE ps.c = Len(Field(o, ps.p)) /\ ps.p < NumFields(o)
    <3>1. Within(k, ns, o) /\ k < len
      BY <1>1, <2>1, <2>5, FieldEnds DEF ns, len
    <3>2. QED
      BY <1>1, <3>1 DEF LineAt, ns, len
  <2>6. CASE ps.c = Len(Field(o, ps.p)) /\ ps.p = NumFields(o)
    <3>1. AtEnd(k, ns, o) /\ k = len
      BY <1>1, <2>1, <2>6, LineEnds DEF ns, len
    <3>2. ~(k < len)
      BY <1>1, <3>1
    <3>3. QED
      BY <1>1, <3>1, <3>2 DEF LineAt, ns, len
  <2>7. QED
    BY <2>2, <2>3, <2>4, <2>5, <2>6
<1>4. CASE k # 1 /\ ~(k - 1 < len)
  <2>1. k - 1 # 0 /\ len <= k - 1 /\ ~(k < len)
    BY <1>1, <1>4
  <2>2. AtEnd(k - 1, ps, o)
    BY <1>4, <2>1 DEF LineAt, len
  <2>3. AtEnd(k, ns, o)
    BY <1>1, <2>1, <2>2, AfterEnd DEF ns, len
  <2>4. QED
    BY <1>1, <2>1, <2>3 DEF LineAt, ns, len
<1>5. QED
  BY <1>2, <1>3, <1>4

LEMMA LineParse ==
  ASSUME TypeInv, waiting = {}, NEW c \in Clients, NEW o \in Orders[c], Len(Line(o)) <= MaxLine
  PROVE  Parse(Line(o)) \in Parser /\ AtEnd(MaxLine, Parse(Line(o)), o)
<1> DEFINE L == Line(o)
           H == {q \in Nat \X Parser : LineAt(q[1], q[2], o)}
<1>1. <<0, Start>> \in H
  <2>1. Start \in Parser /\ Start.st = "invalid" /\ Start.params = params /\ Start.last = NUL
    BY StartType DEF Start
  <2>2. NUL # EOL
    BY DEF NUL, EOL
  <2>3. LineAt(0, Start, o)
    BY <2>1, <2>2 DEF LineAt, TypeInv
  <2>4. QED
    BY <2>1, <2>3
<1>2. ASSUME NEW k \in 1 .. MaxLine, NEW ps, <<k - 1, ps>> \in H
      PROVE  <<k, Scan(ps, CharAt(L, k))>> \in H
  <2>1. ps \in Parser /\ k \in Nat \ {0} /\ LineAt(k - 1, ps, o)
    BY <1>2
  <2>2. Scan(ps, CharAt(L, k)) \in Parser
    BY <2>1, LineType, CharIs, ScanType
  <2>3. LineAt(k, Scan(ps, CharAt(L, k)), o)
    BY <2>1, LineStep
  <2>4. QED
    BY <2>1, <2>2, <2>3
<1>3. <<MaxLine, Parse(L)>> \in H
  <2> HIDE DEF H, L
  <2>1. QED
    BY <1>1, <1>2, ParseKeeps
<1>4. Parse(L) \in Parser /\ LineAt(MaxLine, Parse(L), o)
  BY <1>3
<1>5. MaxLine # 0 /\ ~(MaxLine < Len(L))
  BY SizesAssumption, LineType, LenProperties
<1>6. QED
  BY <1>4, <1>5 DEF LineAt

(* The parameters of a whole line are its fields, as strings...            *)
LEMMA StrComplete ==
  ASSUME NEW P \in Param, NEW F \in Seq(Char), Len(F) < LenParam, Complete(P, F),
         \A i \in 1 .. Len(F) : F[i] # NUL
  PROVE  Str(P) = F
<1> DEFINE e == Len(F) + 1
<1>1. Len(F) \in Nat /\ LenParam \in Nat
  BY SizesAssumption, LenProperties
<1>2. e \in 1 .. LenParam /\ e - 1 = Len(F) /\ P[e] = NUL
  BY <1>1 DEF Complete
<1>3. \A i \in 1 .. Len(F) : P[i] = F[i]
  BY DEF Complete, PartOf
<1> HIDE DEF e
<1>4. \A i \in 1 .. e - 1 : P[i] # NUL
  BY <1>2, <1>3
<1>5. /\ Str(P) \in Seq(Char) /\ Len(Str(P)) = e - 1
      /\ \A i \in 1 .. e - 1 : Str(P)[i] = P[i]
  BY <1>2, <1>4, StrIs
<1>6. \A i \in 1 .. Len(F) : Str(P)[i] = F[i]
  BY <1>2, <1>3, <1>5
<1>7. QED
  BY <1>2, <1>5, <1>6, SeqEqual

(* ... and the data is where the handlers look for single characters.      *)
LEMMA LineMeans ==
  ASSUME TypeInv, waiting = {}, NEW c \in Clients, NEW o \in Orders[c], Fits(o)
  PROVE  LET ps == Parse(Line(o))
         IN /\ ps.st = "valid" /\ ps.params \in [Params -> Param]
            /\ Str(ps.params[1]) = <<o.name>>
            /\ Str(ps.params[2]) = o.key
            /\ Str(ps.params[3]) = o.val
            /\ \A i \in 1 .. Len(o.val) : ps.params[3][i] = o.val[i]
<1> DEFINE L == Line(o)
           n == NumFields(o)
           ps == Parse(L)
           P == ps.params
           len == Len(L)
<1>1. /\ len \in Nat /\ MaxLine \in Nat /\ LenParam \in Nat /\ MaxLine <= LenParam
      /\ NumParam \in Nat /\ 3 <= NumParam
  BY SizesAssumption, LineType, LenProperties
<1>2. len <= MaxLine /\ (o.end = CR => MaxLine > len)
  <2>1. len + (IF o.end = CR THEN 1 ELSE 0) <= MaxLine
    BY DEF Fits
  <2> HIDE DEF len
  <2>2. QED
    BY <1>1, <2>1
<1>3. ps \in Parser /\ AtEnd(MaxLine, ps, o)
  BY <1>2, LineParse
<1> HIDE DEF ps
<1>4. ps.st = "valid" /\ P \in [Params -> Param]
  BY <1>3 DEF AtEnd, Parser, ParserState
<1>5. n \in 1 .. 3
  BY FieldIs
<1>6. /\ LaterEmpty(P, n)
      /\ \A q \in 1 .. n : q < n => Complete(P[q], Field(o, q))
      /\ PartOf(P[n], Field(o, n), Len(Field(o, n)))
      /\ P[n][Len(Field(o, n)) + 1] = NUL
  <2>1. o.end = EOL \/ o.end = CR
    BY LineParts
  <2>2. P[n][Len(Field(o, n)) + 1] = NUL
    BY <1>2, <1>3, <2>1 DEF AtEnd
  <2>3. QED
    BY <1>3, <2>2 DEF AtEnd
<1>7. ASSUME NEW q \in 1 .. 3
      PROVE  /\ Complete(P[q], Field(o, q)) /\ Len(Field(o, q)) < LenParam
             /\ Str(P[q]) = Field(o, q)
  <2> DEFINE F == Field(o, q)
             f == Len(F)
             b == Before(o, q)
  <2>1. F \in Seq(Char) /\ f \in Nat /\ \A i \in 1 .. f : F[i] # NUL
    BY FieldIs, LenProperties
  <2>2. q \in Params /\ P[q] \in Param
    BY <1>1, <1>4 DEF Params
  <2>3. CASE q \in 1 .. n
    <3>1. b \in Nat \ {0} /\ b + f + 1 <= len
      BY <2>3, LineFacts
    <3> HIDE DEF F, f, b, n, L, len
    <3>2. f < LenParam
      BY <1>1, <1>2, <2>1, <3>1
    <3>3. q < n \/ q = n
      BY <1>5, <2>3
    <3>4. Complete(P[q], F)
      BY <1>6, <2>3, <3>3 DEF Complete, F
    <3>5. QED
      BY <2>1, <2>2, <3>2, <3>4, StrComplete DEF F, f
  <2>4. CASE q > n
    <3>1. F = <<>>
      BY <2>4, FieldIs
    <3>2. f = 0 /\ P[q][1] = NUL
      BY <1>6, <2>2, <2>4, <3>1 DEF LaterEmpty
    <3> HIDE DEF F
    <3>3. Complete(P[q], F) /\ f < LenParam
      BY <3>2, SizesAssumption DEF Complete, PartOf
    <3>4. QED
      BY <2>1, <2>2, <3>3, StrComplete DEF F
  <2>5. QED
    BY <1>5, <2>3, <2>4
<1>8. Field(o, 1) = <<o.name>> /\ Field(o, 2) = o.key /\ Field(o, 3) = o.val
  BY DEF Field
<1>9. \A i \in 1 .. Len(o.val) : P[3][i] = o.val[i]
  <2>1. Complete(P[3], o.val)
    BY <1>7, <1>8
  <2>2. QED
    BY <2>1 DEF Complete, PartOf
<1> HIDE DEF P
<1>10. Str(P[1]) = <<o.name>> /\ Str(P[2]) = o.key /\ Str(P[3]) = o.val
  BY <1>7, <1>8
<1>11. QED
  BY <1>4, <1>9, <1>10 DEF P, ps, L

(* The handler a name stands for.                                          *)
LEMMA DispatchIs ==
  ASSUME NEW P, NEW name, Str(P[1]) = <<name>>, Dispatch(P)
  PROVE  /\ name = "sMask" => SetMaskByte(P)
         /\ name = "sThr"  => SetThresholdValue(P)
         /\ name = "gThr"  => GetThresholdValue(P)
         /\ name = "gSer"  => GetSerialConfig(P)
         /\ name = "reset" => SystemReset(P)
         /\ name \notin {"sMask", "sThr", "gThr", "gSer", "reset"} => BadCmd
<1> DEFINE w == Str(P[1])
           Is(s) == w = <<s>>
<1>1. \A s : Is(s) <=> s = name
  BY SMT
<1> HIDE DEF w, Is
<1>2. /\ Is("sMask") => SetMaskByte(P)
      /\ Is("sThr") => SetThresholdValue(P)
      /\ Is("gThr") => GetThresholdValue(P)
      /\ Is("gSer") => GetSerialConfig(P)
      /\ Is("reset") => SystemReset(P)
      /\ ~Is("sMask") /\ ~Is("sThr") /\ ~Is("gThr") /\ ~Is("gSer") /\ ~Is("reset") => BadCmd
  BY <1>1 DEF Dispatch, Is, w
<1>3. QED
  BY <1>1, <1>2

LEMMA PrefixIsText ==
  ASSUME NEW s, NEW t \in Seq(Char)
  PROVE  <<s>> \o t # <<>>
<1> DEFINE u == <<s>>
           T == Char \cup {s}
<1>1. u \in Seq(T) /\ u # <<>>
  OBVIOUS
<1>2. t \in Seq(T)
  BY SeqMonotonic
<1> HIDE DEF u, T
<1>3. u \o t # <<>>
  BY <1>1, <1>2, ConcatEmptySeq
<1>4. QED
  BY <1>3 DEF u

(* What a handler does with the fields of an order is what the order says, *)
(* and the reply is the order's own, and no empty string.                  *)
LEMMA HandlerMeans ==
  ASSUME TypeInv, NEW c \in Clients, NEW o \in Orders[c], NEW P \in [Params -> Param],
         Str(P[1]) = <<o.name>>, Str(P[2]) = o.key, Str(P[3]) = o.val,
         \A i \in 1 .. Len(o.val) : P[3][i] = o.val[i],
         o.name # "#", ~(o.name = "reset" /\ o.key = <<"sys">>),
         waiting = {}, waiting' = {}, Dispatch(P)
  PROVE  Does(c, o) /\ (Answers(o) => retData' = ReplyOf(o) /\ retData' # <<>>)
<1>1. o.val \in Seq(Char) /\ thr \in Seq(Char)
  BY LineParts DEF TypeInv
<1>2. \A s : <<s>> \o o.val # <<>> /\ <<s>> \o thr # <<>> /\ <<s>> # <<>>
  BY <1>1, PrefixIsText
<1>3. BadParam => retData' = <<"INVALID PARAMETER">> /\ UNCHANGED <<thr, mask>>
  BY DEF BadParam, settings
<1>4. CASE o.name = "sMask"
  <2>1. SetMaskByte(P)
    BY <1>4, DispatchIs
  <2>2. CASE o.key = <<"low">>
    <3>1. /\ mask' = [k \in 1 .. MaskWidth |-> IF P[3][k] = "1" THEN "1" ELSE "0"]
          /\ retData' = mask' /\ UNCHANGED thr
      BY <2>1, <2>2 DEF SetMaskByte
    <3>2. \A k \in 1 .. MaskWidth : k <= Len(o.val) => (mask'[k] = "1" <=> o.val[k] = "1")
      <4>1. ASSUME NEW k \in 1 .. MaskWidth, k <= Len(o.val)
            PROVE  mask'[k] = "1" <=> o.val[k] = "1"
        <5>1. Len(o.val) \in Nat /\ MaskWidth \in Nat
          BY <1>1, LenProperties, SizesAssumption
        <5>2. k \in 1 .. Len(o.val)
          BY <4>1, <5>1
        <5>3. P[3][k] = o.val[k]
          BY <5>2
        <5>4. QED
          BY <3>1, <5>3
      <4>2. QED
        BY <4>1
    <3>3. mask' # <<>>
      <4>1. DOMAIN mask' = 1 .. MaskWidth /\ 1 \in DOMAIN mask'
        BY <3>1, SizesAssumption
      <4>2. 1 \notin DOMAIN <<>>
        OBVIOUS
      <4>3. QED
        BY <4>1, <4>2, Zenon
    <3>4. Does(c, o)
      BY <1>4, <2>2, <3>1, <3>2 DEF Does
    <3>5. ReplyOf(o) = mask'
      BY <1>4, <2>2 DEF ReplyOf
    <3>6. QED
      BY <3>1, <3>3, <3>4, <3>5
  <2>3. CASE o.key # <<"low">>
    <3>1. BadParam
      BY <2>1, <2>3 DEF SetMaskByte
    <3>2. Does(c, o)
      BY <1>3, <1>4, <2>3, <3>1 DEF Does
    <3>3. ReplyOf(o) = <<"INVALID PARAMETER">>
      BY <1>4, <2>3 DEF ReplyOf
    <3>4. QED
      BY <1>2, <1>3, <3>1, <3>2, <3>3
  <2>4. QED
    BY <2>2, <2>3
<1>5. CASE o.name = "sThr"
  <2>1. SetThresholdValue(P)
    BY <1>5, DispatchIs
  <2>2. CASE o.key = <<"low">>
    <3>1. thr' = o.val /\ retData' = <<"=">> \o o.val /\ UNCHANGED mask
      BY <2>1, <2>2 DEF SetThresholdValue
    <3>2. Does(c, o)
      BY <1>5, <2>2, <3>1 DEF Does
    <3>3. ReplyOf(o) = <<"=">> \o thr'
      BY <1>5, <2>2 DEF ReplyOf
    <3>4. QED
      BY <1>2, <3>1, <3>2, <3>3
  <2>3. CASE o.key # <<"low">>
    <3>1. BadParam
      BY <2>1, <2>3 DEF SetThresholdValue
    <3>2. Does(c, o)
      BY <1>3, <1>5, <2>3, <3>1 DEF Does
    <3>3. ReplyOf(o) = <<"INVALID PARAMETER">>
      BY <1>5, <2>3 DEF ReplyOf
    <3>4. QED
      BY <1>2, <1>3, <3>1, <3>2, <3>3
  <2>4. QED
    BY <2>2, <2>3
<1>6. CASE o.name = "gThr"
  <2>1. GetThresholdValue(P)
    BY <1>6, DispatchIs
  <2>2. CASE o.key = <<"low">>
    <3>1. retData' = <<"=">> \o thr /\ UNCHANGED <<thr, mask>>
      BY <2>1, <2>2 DEF GetThresholdValue, settings
    <3>2. Does(c, o)
      BY <1>6, <3>1 DEF Does
    <3>3. ReplyOf(o) = <<"=">> \o thr'
      BY <1>6, <2>2 DEF ReplyOf
    <3>4. QED
      BY <1>2, <3>1, <3>2, <3>3
  <2>3. CASE o.key # <<"low">>
    <3>1. BadParam
      BY <2>1, <2>3 DEF GetThresholdValue
    <3>2. Does(c, o)
      BY <1>3, <1>6, <3>1 DEF Does
    <3>3. ReplyOf(o) = <<"INVALID PARAMETER">>
      BY <1>6, <2>3 DEF ReplyOf
    <3>4. QED
      BY <1>2, <1>3, <3>1, <3>2, <3>3
  <2>4. QED
    BY <2>2, <2>3
<1>7. CASE o.name = "gSer"
  <2>1. UNCHANGED <<thr, mask>>
    BY <1>7, DispatchIs DEF GetSerialConfig, settings
  <2>2. QED
    BY <1>7, <2>1 DEF Does, Answers
<1>8. CASE o.name = "reset"
  <2>1. /\ UNCHANGED <<thr, mask>>
        /\ o.key = <<"eth">> => retData' = <<"SUCCESS">>
    BY <1>8, DispatchIs DEF SystemReset, settings
  <2>2. Does(c, o)
    BY <1>8, <2>1 DEF Does
  <2>3. ReplyOf(o) = <<"SUCCESS">>
    BY <1>8 DEF ReplyOf
  <2>4. QED
    BY <1>2, <1>8, <2>1, <2>2, <2>3 DEF Answers
<1>9. CASE o.name \notin {"sMask", "sThr", "gThr", "gSer", "reset"}
  <2>1. retData' = <<"INVALID COMMAND">> /\ UNCHANGED <<thr, mask>>
    BY <1>9, DispatchIs DEF BadCmd, settings
  <2>2. Does(c, o)
    BY <1>9, <2>1 DEF Does
  <2>3. ReplyOf(o) = <<"INVALID COMMAND">>
    BY <1>9 DEF ReplyOf
  <2>4. QED
    BY <1>2, <2>1, <2>2, <2>3
<1>10. QED
  BY <1>4, <1>5, <1>6, <1>7, <1>8, <1>9

(* A line that came whole, at most as long as executeCmd looks, does what  *)
(* its command says and no more, and is answered with its own reply if it  *)
(* builds one, whatever was sent before it by this client or the other:    *)
(* the parser hands each handler exactly the fields of the line, though    *)
(* the params are shared and are never wiped; a serial command sends       *)
(* exactly its data.                                                       *)
THEOREM LinesObeyed == Spec => MeansWhatItSays
<1> DEFINE Obeys ==
      \A c \in Clients : \A o \in Orders[c] :
        /\ rx[c] = Line(o) /\ Fits(o)
        /\ ~(o.name = "reset" /\ o.key = <<"sys">>)
        /\ TCPConnectedTask(c)
        => /\ Does(c, o)
           /\ Answers(o) => retData' = ReplyOf(o) /\ owed'[c] = owed[c] - 1
<1>1. TypeInv => Obeys
  <2> SUFFICES ASSUME TypeInv, NEW c \in Clients, NEW o \in Orders[c],
                      rx[c] = Line(o), Fits(o),
                      ~(o.name = "reset" /\ o.key = <<"sys">>),
                      TCPConnectedTask(c)
               PROVE  /\ Does(c, o)
                      /\ Answers(o) => retData' = ReplyOf(o) /\ owed'[c] = owed[c] - 1
    BY Zenon
  <2> DEFINE ps == Parse(Line(o))
  <2>1. Text(c) = Line(o)
    <3>1. Len(Line(o)) + (IF o.end = CR THEN 1 ELSE 0) <= MaxLine
      BY DEF Fits
    <3>2. Len(Line(o)) \in Nat
      BY LineType, LenProperties
    <3> DEFINE len == Len(Line(o))
    <3> HIDE DEF len
    <3>3. len <= RxSize
      BY <3>1, <3>2, SizesAssumption DEF len
    <3>4. QED
      BY <3>3, TextIs DEF len
  <2>2. /\ waiting = {}
        /\ Execute(c, ps) \/ SendSerial(c, ps) \/ Ignore(c, ps) \/ Reboot(c, ps)
    BY <2>1 DEF TCPConnectedTask
  <2>3. /\ ps.st = "valid" /\ ps.params \in [Params -> Param]
        /\ Str(ps.params[1]) = <<o.name>>
        /\ Str(ps.params[2]) = o.key
        /\ Str(ps.params[3]) = o.val
        /\ \A i \in 1 .. Len(o.val) : ps.params[3][i] = o.val[i]
    BY <2>2, LineMeans
  <2> HIDE DEF ps
  <2>4. \A s : <<o.name>> = <<s>> <=> o.name = s
    OBVIOUS
  <2>5. ~IsReboot(ps) /\ (IsSerial(ps) <=> o.name = "#")
    BY <2>3, <2>4 DEF IsReboot, IsSerial
  <2>6. CASE o.name = "#"
    <3>1. SendSerial(c, ps)
      BY <2>2, <2>3, <2>5, <2>6 DEF Execute, Ignore, Reboot
    <3>2. params' = ps.params /\ waiting' = {c} /\ UNCHANGED <<thr, mask>>
      BY <3>1 DEF SendSerial, settings
    <3>3. Does(c, o)
      BY <2>3, <2>6, <3>2 DEF Does
    <3>4. QED
      BY <2>6, <3>3 DEF Answers
  <2>7. CASE o.name # "#"
    <3>1. Execute(c, ps)
      BY <2>2, <2>3, <2>5, <2>7 DEF SendSerial, Ignore, Reboot
    <3>2. /\ Dispatch(ps.params) /\ waiting' = {}
          /\ owed' = [owed EXCEPT ![c] = IF retData' = <<>> THEN @ ELSE @ - 1]
      BY <2>2, <2>3, <3>1 DEF Execute, PutReply
    <3>3. Does(c, o) /\ (Answers(o) => retData' = ReplyOf(o) /\ retData' # <<>>)
      BY <2>2, <2>3, <2>7, <3>2, HandlerMeans
    <3>4. retData' # <<>> => owed'[c] = owed[c] - 1
      BY <3>2 DEF TypeInv
    <3>5. QED
      BY <3>3, <3>4
  <2>8. QED
    BY <2>6, <2>7
<1>2. TypeInv /\ [Next]_vars
        => [ \A c \in Clients : \A o \in Orders[c] :
               /\ rx[c] = Line(o) /\ Fits(o)
               /\ ~(o.name = "reset" /\ o.key = <<"sys">>)
               /\ TCPConnectedTask(c)
               => /\ Does(c, o)
                  /\ Answers(o) => retData' = ReplyOf(o) /\ owed'[c] = owed[c] - 1 ]_vars
  BY <1>1
<1>3. QED
  BY <1>2, TypeInit, TypeStep, PTL DEF Spec, MeansWhatItSays
-----------------------------------------------------------------------------
(* A text that begins with a start of line is a command.                   *)
LEMMA CommandFound ==
  ASSUME TypeInv, NEW text \in Seq(Char), Len(text) >= 1, text[1] = SOL
  PROVE  Parse(text).st # "invalid"
<1> DEFINE G == {q \in Nat \X Parser :
                   IF q[1] = 0 THEN q[2].st = "invalid" /\ q[2].last = NUL
                               ELSE q[2].st # "invalid"}
<1>1. <<0, Start>> \in G
  BY StartType DEF Start
<1>2. ASSUME NEW k \in 1 .. MaxLine, NEW ps, <<k - 1, ps>> \in G
      PROVE  <<k, Scan(ps, CharAt(text, k))>> \in G
  <2> DEFINE ch == CharAt(text, k)
             ns == Scan(ps, ch)
  <2>1. /\ ps \in Parser /\ k \in Nat \ {0}
        /\ IF k - 1 = 0 THEN ps.st = "invalid" /\ ps.last = NUL ELSE ps.st # "invalid"
    BY <1>2
  <2>2. ch \in Char /\ ns \in Parser
    BY <2>1, CharIs, ScanType
  <2>3. k = 1 => ch = SOL
    BY DEF CharAt
  <2> HIDE DEF ch
  <2>4. CASE k = 1
    <3>1. ps.st # "overrun" /\ ps.last # EOL
      BY <2>1, <2>4 DEF NUL, EOL
    <3>2. ns = State("valid", 1, 0, ch, ps.params)
      BY <2>1, <2>2, <2>3, <2>4, <3>1, ScanIs
    <3>3. ns.st = "valid"
      BY <3>2, StateFields
    <3> HIDE DEF ns
    <3>4. QED
      BY <2>1, <2>2, <3>3 DEF ns, ch
  <2>5. CASE k # 1
    <3>1. ps.st # "invalid"
      BY <2>1, <2>5
    <3>2. ns.st # "invalid"
      <4> DEFINE more == IF ps.p + 1 > NumParam THEN "overrun" ELSE "valid"
                 full == IF ps.c + 1 >= LenParam THEN "overrun" ELSE "valid"
      <4>1. more # "invalid" /\ full # "invalid"
        OBVIOUS
      <4> HIDE DEF more, full
      <4>2. \/ ns = ps
            \/ \E p, c, P : \E st \in {"valid", more, full} : ns = State(st, p, c, ch, P)
        BY <2>1, <2>2, <3>1, ScanIs DEF more, full
      <4> HIDE DEF ns
      <4>3. QED
        BY <3>1, <4>1, <4>2, StateFields
    <3> HIDE DEF ns
    <3>3. QED
      BY <2>1, <2>2, <3>2 DEF ns, ch
  <2>6. QED
    BY <2>4, <2>5
<1>3. <<MaxLine, Parse(text)>> \in G
  <2> HIDE DEF G
  <2>1. QED
    BY <1>1, <1>2, ParseKeeps
<1>4. MaxLine # 0
  BY SizesAssumption
<1>5. QED
  BY <1>3, <1>4

(* A careful client has nothing under way, or it is owed one answer and    *)
(* its one line is on its way, or has arrived, or waits, or had an empty   *)
(* reply.                                                                  *)
WholeLine(s) == Len(s) >= 1 /\ s[1] = SOL

Under(c) ==
  \/ wire[c] = <<>> /\ rx[c] = <<>> /\ c \notin waiting /\ owed[c] = 0
  \/ WholeLine(wire[c]) /\ rx[c] = <<>> /\ c \notin waiting /\ owed[c] = 1
  \/ wire[c] = <<>> /\ WholeLine(rx[c]) /\ c \notin waiting /\ owed[c] = 1
  \/ wire[c] = <<>> /\ rx[c] = <<>> /\ c \in waiting /\ owed[c] = 1
  \/ wire[c] = <<>> /\ rx[c] = <<>> /\ c \notin waiting /\ owed[c] = 1 /\ c \in unsaid

CarefulInv ==
  /\ TypeInv
  /\ \A c \in Careful : Under(c)

LEMMA LineIsWhole ==
  ASSUME NEW c \in Clients, NEW o \in Orders[c]
  PROVE  <<>> \o Line(o) = Line(o) /\ WholeLine(Line(o))
<1>1. Line(o) \in Seq(Char)
  BY LineType
<1>2. <<>> \o Line(o) = Line(o)
  BY <1>1, ConcatEmptySeq
<1>3. Line(o)[1] = SOL
  BY LineIs DEF IsLine
<1>4. Len(Line(o)) >= 1
  <2>1. NumFields(o) \in 1 .. NumFields(o)
    BY FieldIs
  <2>2. /\ Before(o, NumFields(o)) \in Nat \ {0} /\ Len(Field(o, NumFields(o))) \in Nat
        /\ Len(Line(o)) = Before(o, NumFields(o)) + Len(Field(o, NumFields(o))) + 1
    BY <2>1, LineFacts
  <2>3. QED
    BY <2>2
<1>5. WholeLine(Line(o))
  BY <1>3, <1>4 DEF WholeLine
<1>6. QED
  BY <1>2, <1>5

LEMMA WholeTaken ==
  ASSUME NEW s \in Seq(Char)
  PROVE  /\ <<>> \o SubSeq(s, 1, Len(s)) = s
         /\ SubSeq(s, Len(s) + 1, Len(s)) = <<>>
<1>1. SubSeq(s, 1, Len(s)) = s
  BY SubSeqFull
<1>2. <<>> \o s = s
  BY ConcatEmptySeq
<1>3. SubSeq(s, Len(s) + 1, Len(s)) = <<>>
  BY LenProperties
<1>4. QED
  BY <1>1, <1>2, <1>3

LEMMA CarefulStep ==
  ASSUME CarefulInv, [Next]_vars
  PROVE  CarefulInv'
<1> USE DEF CarefulInv
<1>1. TypeInv'
  BY TypeStep
<1>2. \A d \in Careful :
        /\ d \in Clients /\ rx[d] \in Seq(Char) /\ wire[d] \in Seq(Char) /\ owed[d] \in Int
        /\ Under(d)
  BY SizesAssumption DEF TypeInv
<1> DEFINE AllUnder == \A d \in Careful : Under(d)
<1>3. ~WholeLine(<<>>)
  BY DEF WholeLine
<1>4. CASE UNCHANGED vars
  BY <1>1, <1>4 DEF vars, history, Under, WholeLine
<1>5. ASSUME NEW c \in Clients, TCPConnectedTask(c)
      PROVE  AllUnder'
  <2> DEFINE ps == Parse(Text(c))
  <2>1. WholeLine(rx[c]) => ps.st # "invalid"
    <3> SUFFICES ASSUME WholeLine(rx[c]) PROVE ps.st # "invalid"
      OBVIOUS
    <3>1. Text(c) \in Seq(Char) /\ Len(Text(c)) >= 1 /\ Text(c)[1] = SOL
      <4> DEFINE n == IF Len(rx[c]) < RxSize THEN Len(rx[c]) ELSE RxSize
      <4>1. rx[c] \in Seq(Char) /\ Len(rx[c]) \in Nat /\ Len(rx[c]) >= 1 /\ rx[c][1] = SOL
        BY LenProperties DEF TypeInv, WholeLine
      <4>2. n \in 1 .. Len(rx[c])
        BY <4>1, SizesAssumption
      <4>3. Text(c) = SubSeq(rx[c], 1, n)
        BY DEF Text
      <4> HIDE DEF n
      <4>4. Len(Text(c)) = n /\ Text(c)[1] = rx[c][1]
        BY <4>1, <4>2, <4>3, ElementOfSeq, SubSeqProperties
      <4>5. QED
        BY <4>1, <4>2, <4>4, TextIs
    <3>2. QED
      BY <3>1, CommandFound
  <2> HIDE DEF ps
  <2>2. /\ waiting = {} /\ rx[c] # <<>>
        /\ Execute(c, ps) \/ SendSerial(c, ps) \/ Ignore(c, ps) \/ Reboot(c, ps)
    BY <1>5 DEF TCPConnectedTask, ps
  <2>3. c \in Careful => wire[c] = <<>> /\ WholeLine(rx[c]) /\ owed[c] = 1
    BY <1>2, <2>2 DEF Under
  <2>4. CASE Execute(c, ps)
    <3>1. /\ wire' = wire /\ rx' = [rx EXCEPT ![c] = <<>>] /\ waiting' = waiting
          /\ owed' = [owed EXCEPT ![c] = IF retData' = <<>> THEN @ ELSE @ - 1]
          /\ unsaid' = IF retData' = <<>> THEN unsaid \cup ({c} \cap Careful) ELSE unsaid \ {c}
      BY <2>4 DEF Execute, PutReply
    <3>2. ASSUME NEW d \in Careful PROVE Under(d)'
      <4>1. CASE d = c
        <5>1. rx'[c] = <<>> /\ wire'[c] = <<>> /\ c \notin waiting'
          BY <2>2, <2>3, <3>1, <4>1 DEF TypeInv
        <5>2. owed'[c] = 0 \/ (owed'[c] = 1 /\ c \in unsaid')
          BY <2>3, <3>1, <4>1 DEF TypeInv
        <5>3. QED
          BY <4>1, <5>1, <5>2 DEF Under
      <4>2. CASE d # c
        <5>1. /\ rx'[d] = rx[d] /\ wire'[d] = wire[d] /\ owed'[d] = owed[d] /\ waiting' = waiting
              /\ d \in unsaid' <=> d \in unsaid
          BY <1>2, <3>1, <4>2 DEF TypeInv
        <5>2. QED
          BY <1>2, <5>1 DEF Under
      <4>3. QED
        BY <4>1, <4>2
    <3>3. QED
      BY <3>2
  <2>5. CASE SendSerial(c, ps)
    <3>1. /\ wire' = wire /\ rx' = [rx EXCEPT ![c] = <<>>] /\ waiting' = {c}
          /\ owed' = owed /\ unsaid' = unsaid
      BY <2>5 DEF SendSerial, history
    <3>2. ASSUME NEW d \in Careful PROVE Under(d)'
      <4>1. CASE d = c
        <5>1. rx'[c] = <<>> /\ wire'[c] = <<>> /\ c \in waiting' /\ owed'[c] = 1
          BY <2>3, <3>1, <4>1 DEF TypeInv
        <5>2. QED
          BY <4>1, <5>1 DEF Under
      <4>2. CASE d # c
        <5>1. /\ rx'[d] = rx[d] /\ wire'[d] = wire[d] /\ owed'[d] = owed[d]
              /\ d \notin waiting' /\ d \notin waiting /\ unsaid' = unsaid
          BY <1>2, <2>2, <3>1, <4>2 DEF TypeInv
        <5>2. QED
          BY <1>2, <5>1 DEF Under
      <4>3. QED
        BY <4>1, <4>2
    <3>3. QED
      BY <3>2
  <2>6. CASE Ignore(c, ps)
    <3>1. /\ wire' = wire /\ rx' = [rx EXCEPT ![c] = <<>>] /\ waiting' = waiting
          /\ owed' = owed /\ unsaid' = unsaid /\ c \notin Careful
      BY <2>1, <2>3, <2>6 DEF Ignore, history
    <3>2. \A d \in Careful : rx'[d] = rx[d]
      BY <1>2, <3>1 DEF TypeInv
    <3>3. QED
      BY <1>2, <3>1, <3>2 DEF Under
  <2>7. CASE Reboot(c, ps)
    <3>1. /\ \A d \in Clients : rx'[d] = <<>> /\ wire'[d] = <<>> /\ owed'[d] = 0
          /\ waiting' = {}
      BY <2>2, <2>7 DEF Reboot
    <3>2. QED
      BY <1>2, <3>1 DEF Under
  <2>8. QED
    BY <2>2, <2>4, <2>5, <2>6, <2>7
<1>6. ASSUME NEW c \in Clients, SerialReturns(c)
      PROVE  AllUnder'
  <2>1. /\ wire' = wire /\ rx' = rx /\ waiting = {c} /\ waiting' = {}
        /\ owed' = [owed EXCEPT ![c] = IF retData' = <<>> THEN @ ELSE @ - 1]
        /\ unsaid' = IF retData' = <<>> THEN unsaid \cup ({c} \cap Careful) ELSE unsaid \ {c}
    BY <1>6 DEF SerialReturns, PutReply, TypeInv
  <2>2. ASSUME NEW d \in Careful PROVE Under(d)'
    <3>1. CASE d = c
      <4>1. wire[c] = <<>> /\ rx[c] = <<>> /\ owed[c] = 1
        BY <1>2, <2>1, <3>1 DEF Under
      <4>2. owed'[c] = 0 \/ (owed'[c] = 1 /\ c \in unsaid')
        BY <2>1, <3>1, <4>1 DEF TypeInv
      <4>3. QED
        BY <2>1, <3>1, <4>1, <4>2 DEF Under
    <3>2. CASE d # c
      <4>1. /\ rx'[d] = rx[d] /\ wire'[d] = wire[d] /\ owed'[d] = owed[d]
            /\ d \notin waiting' /\ d \notin waiting /\ (d \in unsaid' <=> d \in unsaid)
        BY <1>2, <2>1, <3>2 DEF TypeInv
      <4>2. QED
        BY <1>2, <4>1 DEF Under
    <3>3. QED
      BY <3>1, <3>2
  <2>3. QED
    BY <2>2
<1>7. ASSUME NEW c \in Clients, NEW o \in Orders[c], Send(c, o)
      PROVE  AllUnder'
  <2>1. /\ wire' = [wire EXCEPT ![c] = wire[c] \o Line(o)] /\ rx' = rx
        /\ owed' = [owed EXCEPT ![c] = owed[c] + 1] /\ waiting' = waiting
        /\ unsaid' = unsaid \ {c} /\ (c \in Careful => owed[c] = 0)
    BY <1>7 DEF Send
  <2>2. ASSUME NEW d \in Careful PROVE Under(d)'
    <3>1. CASE d = c
      <4>1. wire[c] = <<>> /\ rx[c] = <<>> /\ c \notin waiting /\ owed[c] = 0
        BY <1>2, <2>1, <3>1 DEF Under
      <4>2. wire'[c] = Line(o) /\ rx'[c] = <<>> /\ c \notin waiting' /\ owed'[c] = 1
        BY <2>1, <4>1, LineIsWhole DEF TypeInv
      <4>3. WholeLine(wire[c])'
        BY <4>2, LineIsWhole DEF WholeLine
      <4>4. QED
        BY <3>1, <4>2, <4>3 DEF Under
    <3>2. CASE d # c
      <4>1. /\ rx'[d] = rx[d] /\ wire'[d] = wire[d] /\ owed'[d] = owed[d] /\ waiting' = waiting
            /\ d \in unsaid' <=> d \in unsaid
        BY <1>2, <2>1, <3>2 DEF TypeInv
      <4>2. QED
        BY <1>2, <4>1 DEF Under, WholeLine
    <3>3. QED
      BY <3>1, <3>2
  <2>3. QED
    BY <2>2
<1>8. ASSUME NEW c \in Clients, NEW n \in 1 .. RxFifo, Arrive(c, n)
      PROVE  AllUnder'
  <2>1. /\ n \in 1 .. Len(wire[c]) /\ (c \in Careful => n = Len(wire[c]))
        /\ rx' = [rx EXCEPT ![c] = rx[c] \o SubSeq(wire[c], 1, n)]
        /\ wire' = [wire EXCEPT ![c] = SubSeq(wire[c], n + 1, Len(wire[c]))]
        /\ owed' = owed /\ waiting' = waiting /\ unsaid' = unsaid
    BY <1>8 DEF Arrive, history
  <2>2. ASSUME NEW d \in Careful PROVE Under(d)'
    <3>1. CASE d = c
      <4>1. wire[c] # <<>> /\ wire[c] \in Seq(Char) /\ n = Len(wire[c])
        BY <1>2, <2>1, <3>1
      <4>2. WholeLine(wire[c]) /\ rx[c] = <<>> /\ c \notin waiting /\ owed[c] = 1
        BY <1>2, <3>1, <4>1 DEF Under
      <4>3. rx'[c] = <<>> \o SubSeq(wire[c], 1, Len(wire[c])) /\ rx'[c] = wire[c]
        BY <2>1, <4>1, <4>2, WholeTaken DEF TypeInv
      <4>4. wire'[c] = <<>>
        BY <2>1, <4>1, WholeTaken DEF TypeInv
      <4>5. WholeLine(rx[c])'
        BY <4>2, <4>3 DEF WholeLine
      <4>6. QED
        BY <2>1, <3>1, <4>2, <4>4, <4>5 DEF Under
    <3>2. CASE d # c
      <4>1. rx'[d] = rx[d] /\ wire'[d] = wire[d]
        BY <1>2, <2>1, <3>2 DEF TypeInv
      <4>2. QED
        BY <1>2, <2>1, <4>1 DEF Under, WholeLine
    <3>3. QED
      BY <3>1, <3>2
  <2>3. QED
    BY <2>2
<1>9. ASSUME NEW c \in Clients, Reconnect(c)
      PROVE  AllUnder'
  <2>1. /\ rx' = [rx EXCEPT ![c] = <<>>] /\ wire' = [wire EXCEPT ![c] = <<>>]
        /\ owed' = [owed EXCEPT ![c] = 0] /\ waiting' = waiting /\ unsaid' = unsaid \ {c}
        /\ c \in Careful => c \notin waiting
    BY <1>9 DEF Reconnect
  <2>2. ASSUME NEW d \in Careful PROVE Under(d)'
    <3>1. CASE d = c
      <4>1. rx'[c] = <<>> /\ wire'[c] = <<>> /\ owed'[c] = 0
        BY <2>1 DEF TypeInv
      <4>2. QED
        BY <2>1, <3>1, <4>1 DEF Under
    <3>2. CASE d # c
      <4>1. /\ rx'[d] = rx[d] /\ wire'[d] = wire[d] /\ owed'[d] = owed[d]
            /\ d \in unsaid' <=> d \in unsaid
        BY <1>2, <2>1, <3>2 DEF TypeInv
      <4>2. QED
        BY <1>2, <2>1, <4>1 DEF Under, WholeLine
    <3>3. QED
      BY <3>1, <3>2
  <2>3. QED
    BY <2>2
<1>10. QED
  BY <1>1, <1>4, <1>5, <1>6, <1>7, <1>8, <1>9 DEF Next

(* A client that sends a whole line and waits is answered, but for a reply *)
(* that is an empty string: its line is found where it begins, and nothing *)
(* else is in the text that is dropped with it (CommandFound, CarefulInv). *)
THEOREM WholeLinesAnswered == Spec => []CarefulAnswered
<1>1. Init => CarefulInv
  <2> SUFFICES ASSUME Init PROVE CarefulInv
    OBVIOUS
  <2>1. \A c \in Clients : rx[c] = <<>> /\ wire[c] = <<>> /\ owed[c] = 0 /\ c \notin waiting
    BY DEF Init
  <2>2. QED
    BY <2>1, TypeInit, SizesAssumption DEF CarefulInv, Under
<1>2. CarefulInv => CarefulAnswered
  <2>1. ASSUME CarefulInv, NEW c \in Careful, owed[c] > 0
        PROVE  wire[c] # <<>> \/ rx[c] # <<>> \/ c \in waiting \/ c \in unsaid
    <3>1. ~WholeLine(<<>>)
      BY DEF WholeLine
    <3>2. QED
      BY <2>1, <3>1 DEF CarefulInv, Under
  <2>2. QED
    BY <2>1 DEF CarefulAnswered
<1>3. QED
  BY <1>1, <1>2, CarefulStep, PTL DEF Spec
=============================================================================
