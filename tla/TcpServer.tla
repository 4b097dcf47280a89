----------------------------- MODULE TcpServer -----------------------------
(***************************************************************************)
(* The TCP command server of the PCM: MyTCPTask (PCM_TCPTask.h) polls its  *)
(* listening sockets once in a pass of the main loop and executes what     *)
(* their clients sent, between the calls of StackTask in which the sockets *)
(* of TCP.c move. A serial command calls StackTask itself while it waits   *)
(* for its device (PCM_Serial.h), so the sockets move in the middle of     *)
(* MyTCPTask too, and the pass goes on with the time read at its start.    *)
(*                                                                         *)
(* A client is what it makes its socket do; segments and sequence numbers  *)
(* are left out. Times are ages in units of the longest serial timeout;    *)
(* bounds: ages stop growing at Cap, beyond every comparison, and the      *)
(* commands of one pass take MaxLag together.                              *)
(***************************************************************************)
EXTENDS Integers

CONSTANTS NumSockets,   \* NUM_LISTEN_SOCKETS
          IdleTO,       \* the 10 s after which a silent client is dropped
          GoneTO,       \* the 5 s after which it is dropped again
          MaxLag        \* NumSockets serial timeouts of 5 s

ASSUME SocketsAssumption == NumSockets \in Nat \ {0}
ASSUME TimesAssumption ==
  IdleTO \in Nat /\ GoneTO \in 0 .. IdleTO /\ MaxLag \in Nat

Sockets == 1 .. NumSockets
Cap == IdleTO + MaxLag + 1

VARIABLES
  pc,       \* "stack": in StackTask, "poll": in MyTCPTask,
            \* "reply": in executeCmd, StackTask included
  i,        \* the socket being polled
  lag,      \* the time since currTick was read
  state,    \* the state array of MyTCPTask
  age,      \* the time since lastTick
  tcp,      \* smState; the states after a FIN of ours are "fin_wait",
            \* those after a FIN of the client's "close_wait", "last_ack"
  rx,       \* there is unread data
  room,     \* TCPIsPutReady > 80 while connected
  known,    \* (history) MyTCPTask has seen the present connection arrive
  idle,     \* (history) the time since it did, or since its last reply
  asker     \* (history) the connection whose command runs is still there

clock == <<lag, age, idle>>
sock  == <<tcp, rx, room>>
vars  == <<pc, i, lag, state, age, tcp, rx, room, known, idle, asker>>

Later(t) == IF t < Cap THEN t + 1 ELSE t

Connected(s) == tcp[s] = "established"

(* currTick - lastTick[i] *)
Elapsed == age[i] - lag

-----------------------------------------------------------------------------
(* What StackTask does to a socket, called from the main loop or from a    *)
(* command that waits.                                                     *)
InStack == pc \in {"stack", "reply"}

(* A SYN for the listening socket, just arrived or out of the SYN queue.   *)
SynArrives(s) ==
  /\ InStack
  /\ tcp[s] = "listen"
  /\ tcp' = [tcp EXCEPT ![s] = "syn_received"]
  /\ UNCHANGED <<pc, i, clock, state, rx, room, known, asker>>

(* The third segment of the handshake may carry data. *)
HandshakeEnds(s) ==
  /\ InStack
  /\ tcp[s] = "syn_received"
  /\ tcp' = [tcp EXCEPT ![s] = "established"]
  /\ \E data \in BOOLEAN : rx' = [rx EXCEPT ![s] = data]
  /\ UNCHANGED <<pc, i, clock, state, room, known, asker>>

DataArrives(s) ==
  /\ InStack
  /\ Connected(s)
  /\ rx' = [rx EXCEPT ![s] = TRUE]
  /\ UNCHANGED <<pc, i, clock, state, tcp, room, known, asker>>

(* The client acknowledges the replies it got. *)
AckArrives(s) ==
  /\ InStack
  /\ Connected(s)
  /\ room' = [room EXCEPT ![s] = TRUE]
  /\ UNCHANGED <<pc, i, clock, state, tcp, rx, known, asker>>

FinArrives(s) ==
  /\ InStack
  /\ Connected(s)
  /\ tcp' = [tcp EXCEPT ![s] = "close_wait"]
  /\ UNCHANGED <<pc, i, clock, state, rx, room, known, asker>>

(* TCPTick closes a socket the application leaves in CLOSE_WAIT. *)
CloseWaitEnds(s) ==
  /\ InStack
  /\ tcp[s] = "close_wait"
  /\ tcp' = [tcp EXCEPT ![s] = "last_ack"]
  /\ UNCHANGED <<pc, i, clock, state, rx, room, known, asker>>

(* TCPTick has retransmitted often enough. *)
RetriesEnd(s) ==
  /\ InStack
  /\ tcp[s] \in {"established", "close_wait"}
  /\ tcp' = [tcp EXCEPT ![s] = "fin_wait"]
  /\ UNCHANGED <<pc, i, clock, state, rx, room, known, asker>>

(* (mutation) what is unread stays for the next client *)
CloseSocketUnread(s) ==
  /\ InStack
  /\ tcp[s] \notin {"closed", "listen"}
  /\ tcp' = [tcp EXCEPT ![s] = "listen"]
  /\ room' = [room EXCEPT ![s] = TRUE]
  /\ known' = [known EXCEPT ![s] = FALSE]
  /\ asker' = (asker /\ s # i)
  /\ UNCHANGED <<pc, i, clock, state, rx>>

(* A reset, the last acknowledgement, or no answer for too long: the       *)
(* socket is emptied and listens again.                                    *)
CloseSocket(s) ==
  /\ InStack
  /\ tcp[s] \notin {"closed", "listen"}
  /\ tcp' = [tcp EXCEPT ![s] = "listen"]
  /\ rx' = [rx EXCEPT ![s] = FALSE]
  /\ room' = [room EXCEPT ![s] = TRUE]
  /\ known' = [known EXCEPT ![s] = FALSE]
  /\ asker' = (asker /\ s # i)
  /\ UNCHANGED <<pc, i, clock, state>>

StackTask(s) ==
  \/ SynArrives(s) \/ HandshakeEnds(s) \/ DataArrives(s) \/ AckArrives(s)
  \/ FinArrives(s) \/ CloseWaitEnds(s) \/ RetriesEnd(s) \/ CloseSocket(s)

-----------------------------------------------------------------------------
(* The sockets after TCPDisconnect(s): a FIN to a client that is there, a  *)
(* reset to one that had a FIN already, or is not there.                   *)
Disconnected(s) ==
  CASE tcp[s] \in {"syn_received", "established"} -> "fin_wait"
    [] tcp[s] = "close_wait" -> "last_ack"
    [] OTHER -> "listen"

TCPDisconnect(s) ==
  /\ tcp' = [tcp EXCEPT ![s] = Disconnected(s)]
  /\ rx' = [rx EXCEPT ![s] = FALSE]
  /\ room' = [room EXCEPT ![s] = (Disconnected(s) = "listen") \/ room[s]]
  /\ known' = [known EXCEPT ![s] = (Disconnected(s) # "listen") /\ known[s]]

(* The loop of MyTCPTask. *)
ReadClock ==
  /\ pc = "stack"
  /\ pc' = "poll" /\ i' = 1 /\ lag' = 0
  /\ UNCHANGED <<state, age, sock, known, idle, asker>>

NextSocket ==
  /\ i' = IF i < NumSockets THEN i + 1 ELSE 1
  /\ pc' = IF i < NumSockets THEN "poll" ELSE "stack"

Poll(st) == pc = "poll" /\ state[i] = st

Goto(st) == state' = [state EXCEPT ![i] = st]

(* lastTick = currTick *)
Stamp == age' = [age EXCEPT ![i] = lag]

Prepare ==
  /\ Poll("init")
  /\ Goto("new")
  /\ NextSocket
  /\ UNCHANGED <<clock, sock, known, asker>>

(* TCPOpen finds a closed socket: there are NumSockets of them. *)
Open ==
  /\ Poll("new")
  /\ Goto("listening")
  /\ tcp' = [tcp EXCEPT ![i] = "listen"]
  /\ NextSocket
  /\ UNCHANGED <<clock, rx, room, known, asker>>

Listening ==
  /\ Poll("listening")
  /\ IF Connected(i)
       THEN /\ Goto("connected")
            /\ Stamp
            /\ known' = [known EXCEPT ![i] = TRUE]
            /\ idle' = [idle EXCEPT ![i] = 0]
       ELSE UNCHANGED <<state, age, known, idle>>
  /\ NextSocket
  /\ UNCHANGED <<lag, sock, asker>>

(* (mutation) a client that is still connected is let be *)
IdleOutGone ==
  /\ Poll("connected")
  /\ Elapsed > IdleTO
  /\ IF Connected(i)
       THEN UNCHANGED <<state, age, sock, known>>
       ELSE TCPDisconnect(i) /\ Goto("disconnect") /\ Stamp
  /\ NextSocket
  /\ UNCHANGED <<lag, idle, asker>>

(* A client that was silent for too long. *)
IdleOut ==
  /\ Poll("connected")
  /\ Elapsed > IdleTO
  /\ TCPDisconnect(i)
  /\ Goto("disconnect")
  /\ Stamp
  /\ NextSocket
  /\ UNCHANGED <<lag, idle, asker>>

(* TCPConnectedTask takes what is there and executes it, if a reply fits... *)
Serve ==
  /\ Poll("connected")
  /\ Elapsed <= IdleTO
  /\ Connected(i) /\ room[i] /\ rx[i]
  /\ rx' = [rx EXCEPT ![i] = FALSE]
  /\ asker' = TRUE
  /\ pc' = "reply"
  /\ UNCHANGED <<i, clock, state, tcp, room, known>>

(* (mutation) lastTick is left alone *)
ReplyUnstamped ==
  /\ pc = "reply"
  /\ \E r \in BOOLEAN : room' = [room EXCEPT ![i] = r]
  /\ idle' = [idle EXCEPT ![i] = 0]
  /\ asker' = FALSE
  /\ NextSocket
  /\ UNCHANGED <<lag, age, state, tcp, rx, known>>

(* ... and puts the reply to whoever is connected by then. *)
Reply ==
  /\ pc = "reply"
  /\ \E r \in BOOLEAN : room' = [room EXCEPT ![i] = r \/ ~Connected(i)]
  /\ Stamp
  /\ idle' = [idle EXCEPT ![i] = 0]
  /\ asker' = FALSE
  /\ NextSocket
  /\ UNCHANGED <<lag, state, tcp, rx, known>>

(* (mutation) TCPConnectedTask returns TRUE for data it has no room for *)
StillThereAlive ==
  /\ Poll("connected")
  /\ Elapsed <= IdleTO
  /\ ~(Connected(i) /\ room[i] /\ rx[i])
  /\ IF Connected(i)
       THEN /\ UNCHANGED state
            /\ IF rx[i] THEN Stamp ELSE UNCHANGED age
       ELSE Goto("listening") /\ UNCHANGED age
  /\ NextSocket
  /\ UNCHANGED <<lag, idle, sock, known, asker>>

(* (mutation) whatever TCPConnectedTask returns is taken for TRUE *)
StillThereStamped ==
  /\ Poll("connected")
  /\ Elapsed <= IdleTO
  /\ ~(Connected(i) /\ room[i] /\ rx[i])
  /\ IF Connected(i) THEN Stamp /\ UNCHANGED state ELSE Goto("listening") /\ UNCHANGED age
  /\ NextSocket
  /\ UNCHANGED <<lag, idle, sock, known, asker>>

(* Nothing to execute, or nobody there. *)
StillThere ==
  /\ Poll("connected")
  /\ Elapsed <= IdleTO
  /\ ~(Connected(i) /\ room[i] /\ rx[i])
  /\ IF Connected(i) THEN UNCHANGED state ELSE Goto("listening")
  /\ NextSocket
  /\ UNCHANGED <<clock, sock, known, asker>>

(* The socket dropped for silence is waited for, and dropped again. *)
Disconnect ==
  /\ Poll("disconnect")
  /\ IF Elapsed > GoneTO
       THEN TCPDisconnect(i) /\ Goto("listening")
       ELSE /\ IF Connected(i) THEN UNCHANGED state ELSE Goto("listening")
            /\ UNCHANGED <<sock, known>>
  /\ NextSocket
  /\ UNCHANGED <<clock, asker>>

MyTCPTask ==
  \/ ReadClock \/ Prepare \/ Open \/ Listening
  \/ IdleOut \/ Serve \/ Reply \/ StillThere \/ Disconnect

(* Time passes in StackTask, in a waiting command up to its timeout. *)
Elapse ==
  /\ \/ pc = "stack" /\ UNCHANGED lag
     \/ pc = "reply" /\ lag < MaxLag /\ lag' = lag + 1
  /\ age' = [s \in Sockets |-> Later(age[s])]
  /\ idle' = [s \in Sockets |-> IF known[s] THEN Later(idle[s]) ELSE 0]
  /\ UNCHANGED <<pc, i, state, sock, known, asker>>

-----------------------------------------------------------------------------
Init ==
  /\ pc = "stack" /\ i = 1 /\ lag = 0
  /\ state = [s \in Sockets |-> "init"]
  /\ age = [s \in Sockets |-> 0] /\ idle = [s \in Sockets |-> 0]
  /\ tcp = [s \in Sockets |-> "closed"]
  /\ rx = [s \in Sockets |-> FALSE] /\ room = [s \in Sockets |-> TRUE]
  /\ known = [s \in Sockets |-> FALSE] /\ asker = FALSE

Next == MyTCPTask \/ Elapse \/ \E s \in Sockets : StackTask(s)

Spec == Init /\ [][Next]_vars

(* The main loop runs, time passes, and what is half open or half closed   *)
(* comes to an end: the client finishes or is silent, and TCPTick's timers *)
(* run out. Nothing is assumed of a client that is connected. That a       *)
(* socket leaves fin_wait and last_ack assumes a client that opens its     *)
(* window: TcpSend's ClosesItself shows what TCP.c does for one that does  *)
(* not.                                                                    *)
Fairness ==
  /\ WF_vars(MyTCPTask) /\ SF_vars(Elapse)
  /\ \A s \in Sockets :
       /\ SF_vars(CloseWaitEnds(s))
       /\ SF_vars(tcp[s] \in {"syn_received", "fin_wait", "last_ack"} /\ CloseSocket(s))

FairSpec == Spec /\ Fairness

-----------------------------------------------------------------------------
TypeOK ==
  /\ pc \in {"stack", "poll", "reply"} /\ i \in Sockets /\ lag \in 0 .. MaxLag
  /\ state \in [Sockets -> {"init", "new", "listening", "connected", "disconnect"}]
  /\ age \in [Sockets -> 0 .. Cap] /\ idle \in [Sockets -> 0 .. Cap]
  /\ tcp \in [Sockets -> {"closed", "listen", "syn_received", "established",
                          "close_wait", "last_ack", "fin_wait"}]
  /\ rx \in [Sockets -> BOOLEAN] /\ room \in [Sockets -> BOOLEAN]
  /\ known \in [Sockets -> BOOLEAN] /\ asker \in BOOLEAN

Dropped(s) == tcp[s] = "established" /\ tcp'[s] # "established" /\ pc = "poll"

(* A client MyTCPTask has seen arrive is not dropped before it was silent  *)
(* for IdleTO less what the commands of one pass may take: lastTick is the *)
(* time at the start of the pass, before they ran.                         *)
NotDroppedEarly ==
  [][ \A s \in Sockets : Dropped(s) /\ known[s] => idle[s] + MaxLag > IdleTO ]_vars

(* And it is dropped in time: a client that is left connected by a poll    *)
(* has not been silent for longer than IdleTO and such a pass.             *)
NotDroppedLate ==
  [][ pc = "poll" /\ tcp'[i] = "established" /\ known'[i]
        => idle'[i] <= IdleTO + MaxLag ]_vars

(* No client holds a socket by saying nothing: it listens again, or a      *)
(* command is executed.                                                    *)
SilenceFrees ==
  \A s \in Sockets :
    (tcp[s] # "listen") ~> (tcp[s] = "listen" \/ (pc = "reply" /\ i = s))

(* What a client sent does not wait for ever, not for the room of a reply  *)
(* either: it is executed or the connection ends.                          *)
DataIsTaken == \A s \in Sockets : rx[s] ~> ~rx[s]

(* Each socket goes through the states that TCP.c lets it go through. *)
Own(s) == INSTANCE Socket WITH tcp <- tcp[s], rx <- rx[s]

KeepsToSockets ==
  /\ \A s \in Sockets : Own(s)!Init
  /\ [][ \A s \in Sockets : [Own(s)!Next]_<<tcp[s], rx[s]>> ]_vars

(* "... allows applications to trap those conditions and properly reset    *)
(* their internal state for the new connection" (TCP.c:715): a reply goes  *)
(* to the connection that asked, and not to one that took its socket.      *)
ReplyToAsker ==
  [][ pc = "reply" /\ pc' # "reply" /\ Connected(i) => asker ]_vars
=============================================================================
