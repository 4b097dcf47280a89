-------------------------- MODULE TcpServerProofs --------------------------
(***************************************************************************)
(* Proofs about TcpServer, for any number of sockets and any timeouts: a   *)
(* client MyTCPTask has seen arrive is dropped neither early nor late.     *)
(*                                                                         *)
(* Both bounds follow from where lastTick stands: between the last reply   *)
(* to the client and the start of the pass in which it was sent (Patience).*)
(* KnownGone carries the rest: a socket that is being dropped and is       *)
(* connected has a new client, which nobody has seen arrive.               *)
(***************************************************************************)
EXTENDS TcpServer, TLAPS

(* currTick - lastTick, an unsigned difference, does not wrap. *)
NoWrap ==
  \A s \in Sockets :
    pc # "stack" /\ state[s] \in {"connected", "disconnect"} => lag <= age[s]

Patience ==
  \A s \in Sockets :
    known[s] /\ state[s] = "connected" =>
      idle[s] <= age[s] /\ age[s] <= idle[s] + MaxLag

KnownGone ==
  \A s \in Sockets :
    /\ tcp[s] \in {"closed", "listen", "syn_received"} => ~known[s]
    /\ state[s] = "disconnect" /\ Connected(s) => ~known[s]
    /\ state[s] \in {"init", "new"} => tcp[s] = "closed"

IInv == TypeOK /\ NoWrap /\ Patience /\ KnownGone

USE SocketsAssumption, TimesAssumption

LEMMA CapType == Cap \in Nat /\ MaxLag <= Cap
BY DEF Cap

(* The initial state satisfies the invariant. *)
LEMMA InitIInv == Init => IInv
<1> SUFFICES ASSUME Init PROVE IInv OBVIOUS
<1>. USE DEF Init
<1>1. TypeOK
  <2>1. 1 \in Sockets /\ 0 \in 0 .. Cap /\ 0 \in 0 .. MaxLag
    BY CapType DEF Sockets
  <2>. QED BY <2>1 DEF TypeOK
<1>2. NoWrap /\ Patience
  BY DEF NoWrap, Patience
<1>3. KnownGone
  BY DEF KnownGone, Connected
<1>. QED BY <1>1, <1>2, <1>3 DEF IInv

(* The clients and the timers of TCP.c do not touch what MyTCPTask keeps. *)
LEMMA StackStep ==
  ASSUME IInv, NEW s \in Sockets, StackTask(s)
  PROVE  IInv'
<1>1. TypeOK'
  BY DEF IInv, TypeOK, StackTask, SynArrives, HandshakeEnds, DataArrives, AckArrives,
         FinArrives, CloseWaitEnds, RetriesEnd, CloseSocket, clock
<1>2. NoWrap'
  BY DEF IInv, NoWrap, StackTask, SynArrives, HandshakeEnds, DataArrives, AckArrives,
         FinArrives, CloseWaitEnds, RetriesEnd, CloseSocket, clock, InStack
<1>3. Patience'
  BY DEF IInv, TypeOK, Patience, StackTask, SynArrives, HandshakeEnds, DataArrives,
         AckArrives, FinArrives, CloseWaitEnds, RetriesEnd, CloseSocket, clock
<1>4. KnownGone'
  BY DEF IInv, TypeOK, KnownGone, StackTask, SynArrives, HandshakeEnds, DataArrives,
         AckArrives, FinArrives, CloseWaitEnds, RetriesEnd, CloseSocket, clock, Connected
<1>. QED BY <1>1, <1>2, <1>3, <1>4 DEF IInv

LEMMA ElapseStep ==
  ASSUME IInv, Elapse
  PROVE  IInv'
<1>1. \A t \in 0 .. Cap : Later(t) \in 0 .. Cap /\ Later(t) >= t /\ (t < Cap => Later(t) = t + 1)
                          /\ Later(t) <= t + 1
  BY CapType DEF Later
<1>2. TypeOK'
  BY <1>1, CapType DEF IInv, TypeOK, Elapse, sock
<1>3. NoWrap'
  <2> SUFFICES ASSUME NEW s \in Sockets, pc # "stack",
                      state[s] \in {"connected", "disconnect"}
               PROVE  lag' <= age'[s]
    BY DEF NoWrap, Elapse
  <2>1. /\ lag <= age[s] /\ age[s] \in 0 .. Cap /\ lag \in 0 .. MaxLag
        /\ lag < MaxLag /\ lag' = lag + 1 /\ age'[s] = Later(age[s])
    BY DEF IInv, NoWrap, TypeOK, Elapse
  <2>. QED BY <2>1, CapType DEF Later
<1>4. Patience'
  <2> SUFFICES ASSUME NEW s \in Sockets, known[s], state[s] = "connected"
               PROVE  idle'[s] <= age'[s] /\ age'[s] <= idle'[s] + MaxLag
    BY DEF Patience, Elapse
  <2>1. /\ idle[s] <= age[s] /\ age[s] <= idle[s] + MaxLag
        /\ idle[s] \in 0 .. Cap /\ age[s] \in 0 .. Cap
        /\ idle'[s] = Later(idle[s]) /\ age'[s] = Later(age[s])
    BY DEF IInv, TypeOK, Patience, Elapse
  <2>. QED BY <2>1, CapType DEF Later
<1>5. KnownGone'
  BY DEF IInv, KnownGone, Elapse, sock, Connected
<1>. QED BY <1>2, <1>3, <1>4, <1>5 DEF IInv

LEMMA NextSocketType ==
  ASSUME IInv, NextSocket
  PROVE  i' \in Sockets /\ pc' \in {"poll", "stack"} /\ (pc' = "poll" => pc # "stack" \/ i < NumSockets)
BY DEF IInv, TypeOK, NextSocket, Sockets

LEMMA DisconnectType ==
  ASSUME NEW s \in Sockets
  PROVE  Disconnected(s) \in {"fin_wait", "last_ack", "listen"}
BY DEF Disconnected

(* MyTCPTask. *)
LEMMA TaskStep ==
  ASSUME IInv, MyTCPTask
  PROVE  IInv'
<1>. USE CapType DEF IInv, TypeOK, NoWrap, Patience, KnownGone, clock, sock
<1>1. CASE ReadClock
  <2>. USE <1>1 DEF ReadClock
  <2>1. TypeOK' BY DEF Sockets
  <2>2. NoWrap' OBVIOUS
  <2>3. Patience' OBVIOUS
  <2>4. KnownGone' BY DEF Connected
  <2>. QED BY <2>1, <2>2, <2>3, <2>4
<1>. USE NextSocketType
<1>2. CASE Prepare
  BY <1>2 DEF Prepare, Poll, Goto, Connected
<1>3. CASE Open
  BY <1>3 DEF Open, Poll, Goto, Connected
<1>4. CASE Listening
  <2>. USE <1>4 DEF Listening, Poll, Goto, Stamp
  <2>0. lag \in 0 .. Cap /\ 0 \in 0 .. Cap OBVIOUS
  <2>1. TypeOK' BY <2>0
  <2>2. NoWrap' OBVIOUS
  <2>3. Patience' OBVIOUS
  <2>4. KnownGone' BY DEF Connected
  <2>. QED BY <2>1, <2>2, <2>3, <2>4
<1>5. CASE IdleOut
  <2>. USE <1>5, DisconnectType DEF IdleOut, Poll, Goto, Stamp, TCPDisconnect
  <2>1. TypeOK' OBVIOUS
  <2>2. NoWrap' OBVIOUS
  <2>3. Patience' OBVIOUS
  <2>4. KnownGone' BY DEF Connected
  <2>. QED BY <2>1, <2>2, <2>3, <2>4
<1>6. CASE Serve
  BY <1>6 DEF Serve, Poll, Connected
<1>7. CASE Reply
  <2>. USE <1>7 DEF Reply, Stamp
  <2>0. lag \in 0 .. Cap /\ 0 \in 0 .. Cap OBVIOUS
  <2>1. TypeOK' BY <2>0 DEF Connected
  <2>2. NoWrap' OBVIOUS
  <2>3. Patience' OBVIOUS
  <2>4. KnownGone' BY DEF Connected
  <2>. QED BY <2>1, <2>2, <2>3, <2>4
<1>8. CASE StillThere
  <2>. USE <1>8 DEF StillThere, Poll, Goto
  <2>1. TypeOK' OBVIOUS
  <2>2. NoWrap' OBVIOUS
  <2>3. Patience' OBVIOUS
  <2>4. KnownGone' BY DEF Connected
  <2>. QED BY <2>1, <2>2, <2>3, <2>4
<1>9. CASE Disconnect
  <2>. USE <1>9, DisconnectType DEF Disconnect, Poll, Goto, TCPDisconnect
  <2>1. TypeOK' OBVIOUS
  <2>2. NoWrap' OBVIOUS
  <2>3. Patience' OBVIOUS
  <2>4. KnownGone' BY DEF Connected
  <2>. QED BY <2>1, <2>2, <2>3, <2>4
<1>. QED BY <1>1, <1>2, <1>3, <1>4, <1>5, <1>6, <1>7, <1>8, <1>9 DEF MyTCPTask

LEMMA NextIInv == IInv /\ [Next]_vars => IInv'
<1>. SUFFICES ASSUME IInv, [Next]_vars PROVE IInv'
  OBVIOUS
<1>1. CASE MyTCPTask BY <1>1, TaskStep
<1>2. CASE Elapse BY <1>2, ElapseStep
<1>3. ASSUME NEW s \in Sockets, StackTask(s) PROVE IInv'
  BY <1>3, StackStep
<1>4. CASE UNCHANGED vars
  BY <1>4 DEF IInv, TypeOK, NoWrap, Patience, KnownGone, vars, Connected
<1>. QED BY <1>1, <1>2, <1>3, <1>4 DEF Next

(* The inductive invariant holds in every reachable state; with it every   *)
(* variable keeps its type and the unsigned currTick - lastTick of         *)
(* MyTCPTask never wraps.                                                  *)
THEOREM Invariance == Spec => []IInv
<1>1. Init => IInv BY InitIInv
<1>2. IInv /\ [Next]_vars => IInv' BY NextIInv
<1>. QED BY <1>1, <1>2, PTL DEF Spec

-----------------------------------------------------------------------------
(* Only IdleOut drops a client that was seen to arrive. *)
LEMMA EarlyStep ==
  IInv /\ [Next]_vars =>
    \A s \in Sockets : Dropped(s) /\ known[s] => idle[s] + MaxLag > IdleTO
<1>. SUFFICES ASSUME IInv, [Next]_vars, NEW s \in Sockets, Dropped(s), known[s]
              PROVE  idle[s] + MaxLag > IdleTO
  OBVIOUS
<1>1. pc = "poll" /\ Connected(s) /\ tcp'[s] # tcp[s]
  BY DEF Dropped, Connected
<1>2. ~Elapse /\ ~(UNCHANGED vars) /\ \A t \in Sockets : ~StackTask(t)
  BY <1>1 DEF Elapse, vars, StackTask, SynArrives, HandshakeEnds, DataArrives,
     AckArrives, FinArrives, CloseWaitEnds, RetriesEnd, CloseSocket, InStack
<1>3. MyTCPTask
  BY <1>2 DEF Next
<1>4. ~ReadClock /\ ~Prepare /\ ~Listening /\ ~Serve /\ ~Reply /\ ~StillThere
  BY <1>1 DEF ReadClock, Prepare, Listening, Serve, Reply, StillThere, sock
<1>5. ~Open
  BY <1>1 DEF Open, Poll, IInv, TypeOK, KnownGone, Connected
<1>6. ~Disconnect
  BY <1>1 DEF Disconnect, Poll, TCPDisconnect, sock, IInv, TypeOK, KnownGone, Connected
<1>7. IdleOut /\ s = i
  <2>1. IdleOut BY <1>3, <1>4, <1>5, <1>6 DEF MyTCPTask
  <2>. QED BY <2>1, <1>1 DEF IdleOut, TCPDisconnect, IInv, TypeOK
<1>8. /\ age[s] <= idle[s] + MaxLag /\ age[s] - lag > IdleTO
      /\ age[s] \in 0 .. Cap /\ idle[s] \in 0 .. Cap /\ lag \in 0 .. MaxLag
  BY <1>7 DEF IdleOut, Poll, Elapsed, IInv, TypeOK, Patience
<1>. QED BY <1>8, CapType

(* A client MyTCPTask has seen arrive is not dropped before it was silent  *)
(* for the idle timeout less what the commands of one pass may take.       *)
THEOREM PatientWithClients == Spec => NotDroppedEarly
<1>1. IInv /\ [Next]_vars =>
        [\A s \in Sockets : Dropped(s) /\ known[s] => idle[s] + MaxLag > IdleTO]_vars
  BY EarlyStep
<1>. QED BY <1>1, Invariance, PTL DEF Spec, NotDroppedEarly

LEMMA LateStep ==
  ASSUME IInv, Next, pc = "poll", tcp'[i] = "established", known'[i]
  PROVE  idle'[i] <= IdleTO + MaxLag
<1>1. ~Elapse /\ ~ReadClock /\ ~Reply /\ \A t \in Sockets : ~StackTask(t)
  BY DEF Elapse, ReadClock, Reply, StackTask, SynArrives, HandshakeEnds, DataArrives,
     AckArrives, FinArrives, CloseWaitEnds, RetriesEnd, CloseSocket, InStack
<1>2. ~Prepare /\ ~Open
  BY DEF Prepare, Open, Poll, sock, IInv, TypeOK, KnownGone
<1>3. ~IdleOut /\ ~Disconnect
  <2>1. Disconnected(i) # "established"
    BY DEF Disconnected
  <2>2. ~IdleOut
    BY <2>1 DEF IdleOut, TCPDisconnect, IInv, TypeOK
  <2>3. ASSUME Disconnect PROVE FALSE
    <3>1. tcp' = tcp /\ known' = known
      BY <2>1, <2>3 DEF Disconnect, TCPDisconnect, sock, IInv, TypeOK
    <3>. QED BY <2>3, <3>1 DEF Disconnect, Poll, Connected, IInv, TypeOK, KnownGone
  <2>. QED BY <2>2, <2>3
<1>4. CASE Listening
  <2>1. Connected(i)
    BY <1>4 DEF Listening, sock, Connected
  <2>. QED BY <1>4, <2>1 DEF Listening, IInv, TypeOK
<1>5. CASE Serve \/ StillThere
  <2>1. idle'[i] = idle[i] /\ known[i] /\ state[i] = "connected" /\ age[i] - lag <= IdleTO
    BY <1>5 DEF Serve, StillThere, Poll, Elapsed, clock, sock
  <2>2. idle[i] <= age[i] /\ age[i] \in 0 .. Cap /\ idle[i] \in 0 .. Cap /\ lag \in 0 .. MaxLag
    BY <2>1 DEF IInv, TypeOK, Patience
  <2>. QED BY <2>1, <2>2, CapType
<1>. QED BY <1>1, <1>2, <1>3, <1>4, <1>5 DEF Next, MyTCPTask

(* A client that is left connected by a poll has not been silent for       *)
(* longer than the idle timeout and the commands of one pass.              *)
THEOREM SilentClientsDropped == Spec => NotDroppedLate
<1>1. IInv /\ [Next]_vars =>
        [pc = "poll" /\ tcp'[i] = "established" /\ known'[i]
           => idle'[i] <= IdleTO + MaxLag]_vars
  BY LateStep
<1>. QED BY <1>1, Invariance, PTL DEF Spec, NotDroppedLate

-----------------------------------------------------------------------------
(* A socket is closed until MyTCPTask opens it, and never again. *)
Opened ==
  \A s \in Sockets : tcp[s] = "closed" <=> state[s] \in {"init", "new"}

LEMMA NextOpened == IInv /\ Opened /\ [Next]_vars => Opened'
<1> SUFFICES ASSUME IInv, Opened, [Next]_vars PROVE Opened'
  OBVIOUS
<1> USE DEF Opened
<1>1. TypeOK
  BY DEF IInv
<1>2. CASE Elapse \/ ReadClock \/ Reply \/ Serve
  BY <1>2 DEF Elapse, ReadClock, Reply, Serve, sock
<1>3. ASSUME NEW t \in Sockets, StackTask(t)
      PROVE  Opened'
  <2>1. state' = state /\ tcp \in [Sockets -> {"closed", "listen", "syn_received",
          "established", "close_wait", "last_ack", "fin_wait"}]
    BY <1>1, <1>3
      DEF TypeOK, StackTask, SynArrives, HandshakeEnds, DataArrives, AckArrives,
       FinArrives, CloseWaitEnds, RetriesEnd, CloseSocket
  <2>2. \/ tcp' = tcp
        \/ tcp[t] # "closed" /\ \E x \in {"listen", "syn_received", "established",
             "close_wait", "last_ack", "fin_wait"} : tcp' = [tcp EXCEPT ![t] = x]
    BY <1>3 DEF StackTask, SynArrives, HandshakeEnds, DataArrives, AckArrives,
       FinArrives, CloseWaitEnds, RetriesEnd, CloseSocket, Connected
  <2>3. QED
    BY <2>1, <2>2
<1>4. CASE Prepare \/ Open \/ Listening \/ StillThere
  <2>1. i \in Sockets /\ state \in [Sockets -> {"init", "new", "listening", "connected",
                                                "disconnect"}]
    BY <1>1 DEF TypeOK
  <2>2. CASE Prepare
    BY <2>1, <2>2 DEF Prepare, Poll, Goto, sock
  <2>3. CASE Open
    BY <1>1, <2>1, <2>3 DEF Open, Poll, Goto, TypeOK
  <2>4. CASE Listening
    BY <2>1, <2>4 DEF Listening, Poll, Goto, sock
  <2>5. CASE StillThere
    BY <2>1, <2>5 DEF StillThere, Poll, Goto, sock
  <2>6. QED
    BY <1>4, <2>2, <2>3, <2>4, <2>5
<1>5. CASE IdleOut \/ Disconnect
  <2>1. Disconnected(i) # "closed"
    BY DEF Disconnected
  <2>2. tcp'[i] # "closed" /\ state'[i] \notin {"init", "new"}
        /\ \A s \in Sockets : s # i => tcp'[s] = tcp[s] /\ state'[s] = state[s]
    BY <1>1, <1>5, <2>1 DEF TypeOK, IdleOut, Disconnect, TCPDisconnect, Poll, Goto, sock
  <2>3. QED
    BY <2>2
<1>6. CASE UNCHANGED vars
  BY <1>6 DEF vars
<1>7. QED
  BY <1>2, <1>3, <1>4, <1>5, <1>6 DEF Next, MyTCPTask

(* What a step does to a socket is a step of Socket, or nothing. *)
LEMMA SocketStep ==
  ASSUME IInv, Opened, [Next]_vars, NEW s \in Sockets
  PROVE  Own(s)!Next \/ UNCHANGED <<tcp[s], rx[s]>>
<1> USE DEF Own!Next, Own!Listens, Own!Ends, Own!Connects, Own!Text, Own!ClientCloses,
            Own!Closes, Own!Forgets, Own!Move
<1>1. TypeOK
  BY DEF IInv
<1>2. CASE Elapse \/ ReadClock \/ Reply \/ Prepare \/ Listening \/ StillThere
  BY <1>2 DEF Elapse, ReadClock, Reply, Prepare, Listening, StillThere, sock
<1>3. ASSUME NEW t \in Sockets, StackTask(t)
      PROVE  Own(s)!Next \/ UNCHANGED <<tcp[s], rx[s]>>
  <2>1. CASE s # t
    BY <1>1, <1>3, <2>1 DEF TypeOK, StackTask, SynArrives, HandshakeEnds, DataArrives,
       AckArrives, FinArrives, CloseWaitEnds, RetriesEnd, CloseSocket
  <2>2. CASE s = t
    BY <1>1, <1>3, <2>2 DEF TypeOK, StackTask, SynArrives, HandshakeEnds, DataArrives,
       AckArrives, FinArrives, CloseWaitEnds, RetriesEnd, CloseSocket, Connected
  <2>3. QED
    BY <2>1, <2>2
<1>4. CASE Open
  <2>1. tcp[i] = "closed"
    BY <1>1, <1>4 DEF Open, Poll, Opened, TypeOK
  <2>2. QED
    BY <1>1, <1>4, <2>1 DEF Open, TypeOK
<1>5. CASE Serve
  BY <1>1, <1>5 DEF Serve, TypeOK, Connected
<1>6. CASE IdleOut \/ Disconnect
  <2>1. CASE UNCHANGED sock
    BY <2>1 DEF sock
  <2>2. CASE TCPDisconnect(i)
    <3>1. tcp[i] # "closed"
      BY <1>1, <1>6 DEF IdleOut, Disconnect, Poll, Opened, TypeOK
    <3>2. CASE s # i
      BY <3>2, <2>2, <1>1 DEF TCPDisconnect, TypeOK
    <3>3. CASE s = i
      BY <3>1, <3>3, <2>2, <1>1 DEF TCPDisconnect, Disconnected, TypeOK
    <3>4. QED
      BY <3>2, <3>3
  <2>3. QED
    BY <1>6, <2>1, <2>2 DEF IdleOut, Disconnect
<1>7. CASE UNCHANGED vars
  BY <1>7 DEF vars, sock
<1>8. QED
  BY <1>2, <1>3, <1>4, <1>5, <1>6, <1>7 DEF Next, MyTCPTask

(* What the server takes its sockets to do is what TCP.c lets them do: for *)
(* any number of them, each keeps to Socket.                               *)
THEOREM SocketsKept == Spec => KeepsToSockets
<1>1. Init => IInv /\ Opened /\ \A s \in Sockets : Own(s)!Init
  <2>1. Init => Opened /\ \A s \in Sockets : Own(s)!Init
    BY DEF Init, Opened, Own!Init
  <2>2. QED
    BY <2>1, InitIInv
<1>2. IInv /\ Opened /\ [Next]_vars => IInv' /\ Opened'
  BY NextIInv, NextOpened
<1>3. IInv /\ Opened /\ [Next]_vars =>
        [\A s \in Sockets : [Own(s)!Next]_<<tcp[s], rx[s]>>]_vars
  BY SocketStep
<1>4. QED
  BY <1>1, <1>2, <1>3, PTL DEF Spec, KeepsToSockets
=============================================================================
