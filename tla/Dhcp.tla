-------------------------------- MODULE Dhcp --------------------------------
(***************************************************************************)
(* The DHCP client of the PCM (DHCP.c), with the part of StackTask         *)
(* (StackTsk.c) that drives it and watches the Ethernet link. It finds a   *)
(* server, takes the first offer, and renews the lease when the time it    *)
(* keeps of it is used up.                                                 *)
(*                                                                         *)
(* The servers and the network are the environment: answers are lost and   *)
(* delayed, an answer to an earlier discovery has another transaction id.  *)
(* The unit of time is DHCP_TIMEOUT, five of the seconds in which the      *)
(* lease is counted down; the transmitter is not busy for as long as that. *)
(* Bounds: an answer is under way for at most Life, ages stop at Lease.    *)
(***************************************************************************)
EXTENDS Integers, FiniteSets

CONSTANTS Servers,
          Pool,      \* the addresses each server may offer
          Modes,     \* how each can be answered: "unicast", "broadcast"
          Lease,     \* the time for which a server grants an address
          Margin,    \* dwLeaseTime >> 5, what the client keeps of it back
          Assumed,   \* the 60 s it assumes before a server says
          Life,      \* how long an answer may be under way
          MaxNet,    \* how many are
          Zero,      \* 0.0.0.0
          Default    \* DefaultIPAddr

Addrs == UNION {Pool[s] : s \in Servers}

ASSUME TimesAssumption ==
  /\ Lease \in Nat /\ Margin \in Nat /\ Life \in Nat
  /\ Margin < Lease /\ Assumed \in 0 .. Lease
(* What is kept back lasts for three renewals and a late answer, and what  *)
(* is not is longer than an answer may be under way.                       *)
ASSUME MarginAssumption == Margin > Life + 3 /\ Lease - Margin > Life
ASSUME AddressAssumption ==
  /\ \A s \in Servers : Pool[s] \subseteq Addrs
  /\ Zero \notin Addrs /\ Default \notin Addrs /\ Zero # Default

VARIABLES
  smState, try,     \* smState; its three renewals are numbered by try
  timer,            \* the time since dwTimer, up to DHCP_TIMEOUT
  left,             \* dwLeaseTime
  bIsBound, bOfferReceived, bUseUnicastMode,
  server,           \* dwServerID
  temp, valid,      \* tempIPAddress, validValues.bits.IPAddress
  MyIPAddr, bInConfigMode,
  link, seen,       \* MACIsLinked(), bLastLinkState
  net,              \* the answers under way to the client
  given, age        \* what each server grants the client, and since when

offer   == <<bOfferReceived, server, temp, valid, left>>
state   == <<smState, try, timer>>
config  == <<MyIPAddr, bInConfigMode>>
granted == <<given, age>>
vars == <<state, offer, bIsBound, bUseUnicastMode, config, link, seen, net, granted>>

States == {"get_socket", "send_discovery", "get_offer", "send_request",
           "get_request_ack", "bound", "send_renew", "get_renew_ack"}
Answers == [type : {"offer", "ack", "nak"}, server : Servers,
            addr : Addrs \cup {Zero}, fresh : BOOLEAN, life : 0 .. Life]

Goto(st) == smState' = st /\ UNCHANGED try
Kept == Lease - Margin

Renewals == 3
TimedOut == timer >= 1

-----------------------------------------------------------------------------
(* The servers answer at once; the network delays and loses their answers. *)
Answer(type, s, a) ==
  [type |-> type, server |-> s, addr |-> a, fresh |-> TRUE, life |-> Life]

Mode(unicast) == IF unicast THEN "unicast" ELSE "broadcast"

Offers(unicast) ==
  UNION {{Answer("offer", s, a) : a \in Pool[s]} :
           s \in {t \in Servers : Mode(unicast) \in Modes[t]}}

Bounded == Cardinality(net') <= MaxNet

Grant(s, a) ==
  given' = [given EXCEPT ![s] = a] /\ age' = [age EXCEPT ![s] = 0]

Lose(m) ==
  /\ net' = net \ {m}
  /\ UNCHANGED <<state, offer, bIsBound, bUseUnicastMode, config, link, seen, granted>>

-----------------------------------------------------------------------------
(* StackTask looks at the link once in a call; without it the default      *)
(* address is taken and DHCPInit starts from the beginning.                *)
SeeLink ==
  /\ link # seen
  /\ seen' = link
  /\ IF link
       THEN UNCHANGED <<state, bIsBound, bOfferReceived, bUseUnicastMode, config>>
       ELSE /\ MyIPAddr' = Default /\ bInConfigMode' = TRUE
            /\ Goto("get_socket")
            /\ bIsBound' = FALSE /\ bOfferReceived' = FALSE /\ bUseUnicastMode' = TRUE
            /\ UNCHANGED timer
  /\ UNCHANGED <<server, temp, valid, left, link, net, granted>>

(* There are more UDP sockets than tasks that open one. *)
GetSocket ==
  /\ smState = "get_socket"
  /\ Goto("send_discovery")
  /\ UNCHANGED <<timer, offer, bIsBound, bUseUnicastMode, config, link, seen, net, granted>>

(* (mutation) every discovery asks for the same *)
ToggledNever == FALSE

Toggled == ~bUseUnicastMode

(* Without a link nobody would see it, or the transmitter is busy; once it *)
(* is sent, what is under way answers an earlier one.                      *)
SendDiscovery ==
  /\ smState = "send_discovery"
  /\ left' = Assumed
  /\ valid' = FALSE /\ bIsBound' = FALSE /\ bOfferReceived' = FALSE
  /\ \/ /\ ~link
        /\ UNCHANGED <<state, bUseUnicastMode, net>>
     \/ /\ link
        /\ bUseUnicastMode' = Toggled
        /\ Goto("get_offer") /\ timer' = 0
        /\ \E ms \in SUBSET Offers(bUseUnicastMode') :
             net' = ms \cup {[m EXCEPT !.fresh = FALSE] : m \in net}
        /\ Bounded
  /\ UNCHANGED <<server, temp, config, link, seen, granted>>

(* _DHCPReceive: what is taken from an answer before it is known to be     *)
(* an offer, and the type it returns.                                      *)
Repeated(m) == bOfferReceived /\ m.type = "offer"

(* (mutation) g_DNSTransactionID is not compared *)
TypeOfAny(m) ==
  CASE Repeated(m) -> "unknown"
    [] ~Repeated(m) /\ m.type = "offer" -> "offer"
    [] OTHER -> IF m.server = server THEN m.type ELSE "unknown"

Type(m) ==
  CASE ~m.fresh \/ Repeated(m) -> "unknown"
    [] m.fresh /\ ~Repeated(m) /\ m.type = "offer" -> "offer"
    [] OTHER -> IF m.server = server THEN m.type ELSE "unknown"

DHCPReceive(m) ==
  /\ net' = net \ {m}
  /\ IF m.fresh /\ ~bOfferReceived
       THEN /\ temp' = m.addr /\ valid' = TRUE
            /\ left' = IF m.type = "nak" THEN left ELSE Kept
       ELSE UNCHANGED <<temp, valid, left>>
  /\ IF Type(m) = "offer"
       THEN server' = m.server /\ bOfferReceived' = TRUE
       ELSE UNCHANGED <<server, bOfferReceived>>

GetOffer(m) ==
  /\ smState = "get_offer"
  /\ DHCPReceive(m)
  /\ IF Type(m) = "offer" THEN Goto("send_request") ELSE UNCHANGED <<smState, try>>
  /\ UNCHANGED <<timer, bIsBound, bUseUnicastMode, config, link, seen, granted>>

(* The request names the server, which grants the address or does not. *)
SendRequest ==
  /\ smState = "send_request"
  /\ Goto("get_request_ack") /\ timer' = 0
  /\ \/ /\ net' = net \cup {Answer("ack", server, temp)}
        /\ Grant(server, temp)
     \/ /\ \E ms \in SUBSET {Answer("nak", server, Zero)} : net' = net \cup ms
        /\ UNCHANGED granted
  /\ Bounded
  /\ UNCHANGED <<offer, bIsBound, bUseUnicastMode, config, link, seen>>

GetRequestAck(m) ==
  /\ smState = "get_request_ack"
  /\ DHCPReceive(m)
  /\ CASE Type(m) = "ack" ->
            /\ Goto("bound") /\ timer' = 0 /\ bIsBound' = TRUE
            /\ MyIPAddr' = IF valid' THEN temp' ELSE MyIPAddr
            /\ bInConfigMode' = FALSE
       [] Type(m) = "nak" -> Goto("send_discovery") /\ UNCHANGED <<timer, bIsBound, config>>
       [] OTHER -> UNCHANGED <<state, bIsBound, config>>
  /\ UNCHANGED <<bUseUnicastMode, link, seen, granted>>

(* The lease time is counted down to 1, then the renewals begin. *)
CountDown ==
  /\ smState = "bound" /\ timer >= 1
  /\ IF left >= 2
       THEN left' = left - 1 /\ timer' = timer - 1 /\ UNCHANGED <<smState, try>>
       ELSE smState' = "send_renew" /\ try' = 1 /\ UNCHANGED <<left, timer>>
  /\ UNCHANGED <<bOfferReceived, server, temp, valid, bIsBound, bUseUnicastMode,
                 config, link, seen, net, granted>>

(* A renewal names no server and goes to all: the one that granted the     *)
(* address may grant it again, and any may refuse.                         *)
SendRenew ==
  /\ smState = "send_renew"
  /\ Goto("get_renew_ack") /\ timer' = 0
  /\ bOfferReceived' = FALSE
  /\ \E refuse \in SUBSET Servers :
       LET naks == {Answer("nak", s, Zero) : s \in refuse} IN
       \/ net' = net \cup naks /\ UNCHANGED granted
       \/ \E s \in Servers \ refuse :
            /\ temp # Zero /\ given[s] = temp
            /\ net' = net \cup naks \cup {Answer("ack", s, temp)}
            /\ Grant(s, temp)
  /\ Bounded
  /\ UNCHANGED <<server, temp, valid, left, bIsBound, bUseUnicastMode, config, link, seen>>

GetRenewAck(m) ==
  /\ smState = "get_renew_ack"
  /\ DHCPReceive(m)
  /\ CASE Type(m) = "ack" -> Goto("bound") /\ timer' = 0
       [] Type(m) = "nak" -> Goto("send_discovery") /\ UNCHANGED timer
       [] OTHER -> UNCHANGED state
  /\ UNCHANGED <<bIsBound, bUseUnicastMode, config, link, seen, granted>>

(* Nothing has arrived for DHCP_TIMEOUT: the next of three renewals, or    *)
(* all over again.                                                         *)
GiveUp ==
  /\ TimedOut
  /\ \/ smState \in {"get_offer", "get_request_ack"} /\ Goto("send_discovery")
     \/ /\ smState = "get_renew_ack" /\ try < Renewals
        /\ smState' = "send_renew" /\ try' = try + 1
     \/ smState = "get_renew_ack" /\ try = Renewals /\ Goto("send_discovery")
  /\ UNCHANGED <<timer, offer, bIsBound, bUseUnicastMode, config, link, seen, net, granted>>

Receive(m) == GetOffer(m) \/ GetRequestAck(m) \/ GetRenewAck(m)

StackTask ==
  \/ SeeLink \/ GetSocket \/ SendDiscovery \/ SendRequest \/ CountDown
  \/ SendRenew \/ GiveUp \/ \E m \in net : Receive(m)

-----------------------------------------------------------------------------
LinkChanges ==
  /\ link' = ~link
  /\ UNCHANGED <<state, offer, bIsBound, bUseUnicastMode, config, seen, net, granted>>

(* StackTask is called more often than once in DHCP_TIMEOUT: from the main *)
(* loop, and by a serial command that waits.                               *)
Due ==
  \/ link # seen
  \/ smState \in {"get_socket", "send_request", "send_renew"}
  \/ smState = "send_discovery" /\ (link \/ bIsBound)
  \/ smState \in {"get_offer", "get_request_ack", "bound", "get_renew_ack"} /\ TimedOut

Elapse ==
  /\ ~Due
  /\ timer' = 1
  /\ given' = [s \in Servers |-> IF age[s] + 1 < Lease THEN given[s] ELSE Zero]
  /\ age' = [s \in Servers |-> IF given'[s] # Zero THEN age[s] + 1 ELSE 0]
  /\ net' = {[m EXCEPT !.life = @ - 1] : m \in {n \in net : n.life > 0}}
  /\ UNCHANGED <<smState, try, offer, bIsBound, bUseUnicastMode, config, link, seen>>

Init ==
  /\ smState = "get_socket" /\ try = 1 /\ timer = 0 /\ left = 0
  /\ bIsBound = FALSE /\ bOfferReceived = FALSE /\ bUseUnicastMode = TRUE
  /\ server = Zero /\ temp = Zero /\ valid = FALSE
  /\ MyIPAddr = Default /\ bInConfigMode = TRUE
  /\ link = FALSE /\ seen = FALSE /\ net = {}
  /\ given = [s \in Servers |-> Zero] /\ age = [s \in Servers |-> 0]

Next == StackTask \/ LinkChanges \/ Elapse \/ \E m \in net : Lose(m)

Spec == Init /\ [][Next]_vars

(* The main loop and time go on. A server that is asked often enough       *)
(* answers, and its answers arrive, if it can answer in the mode asked for.*)
Sent(type) == \E m \in net' : m.fresh /\ m.type = type

Fairness ==
  /\ WF_vars(StackTask) /\ WF_vars(Elapse)
  /\ SF_vars(SendDiscovery /\ Sent("offer"))
  /\ SF_vars(SendRequest /\ Sent("ack"))
  /\ SF_vars(\E m \in net : GetOffer(m) /\ Type(m) = "offer")
  /\ SF_vars(\E m \in net : GetRequestAck(m) /\ Type(m) = "ack")

FairSpec == Spec /\ Fairness

-----------------------------------------------------------------------------
TypeOK ==
  /\ smState \in States /\ try \in 1 .. 3 /\ timer \in 0 .. 1 /\ left \in 0 .. Lease
  /\ bIsBound \in BOOLEAN /\ bOfferReceived \in BOOLEAN /\ bUseUnicastMode \in BOOLEAN
  /\ server \in Servers \cup {Zero} /\ temp \in Addrs \cup {Zero} /\ valid \in BOOLEAN
  /\ MyIPAddr \in Addrs \cup {Default} /\ bInConfigMode \in BOOLEAN
  /\ link \in BOOLEAN /\ seen \in BOOLEAN /\ net \subseteq Answers
  /\ given \in [Servers -> Addrs \cup {Zero}] /\ age \in [Servers -> 0 .. Lease]

(* While the client says that it is bound, some server has granted it the  *)
(* address in use and the lease is not over, however late the              *)
(* acknowledgement was and however many renewals were lost.                *)
BoundHasLease ==
  bIsBound => \E s \in Servers : given[s] = MyIPAddr

(* With the link up the client is bound again and again: it finds a server *)
(* that answers, in whichever of the two modes it can.                     *)
EventuallyBound == <>[]link => []<>bIsBound
=============================================================================
