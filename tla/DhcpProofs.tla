----------------------------- MODULE DhcpProofs -----------------------------
(***************************************************************************)
(* That the client has a lease while it says it is bound, for every number *)
(* of servers and every lease time that leaves the margin of Dhcp.         *)
(***************************************************************************)
EXTENDS Dhcp, TLAPS

Fresh(type) == {m \in net : m.fresh /\ m.type = type}

(* Between the offer and the acknowledgement. *)
Asking ==
  smState \in {"send_request", "get_request_ack"} =>
    /\ bOfferReceived /\ valid /\ left = Kept
    /\ server \in Servers /\ temp \in Addrs

Unbound ==
  bIsBound => smState \in {"bound", "send_renew", "get_renew_ack", "send_discovery"}

(* No offer is left when a lease is renewed. *)
OldOffers ==
  /\ \A m \in Fresh("offer") : m.addr \in Addrs
  /\ smState = "bound" =>
       /\ left \in 1 .. Kept
       /\ \A m \in Fresh("offer") : m.life + timer + (Kept - left) <= Life
  /\ smState \in {"send_renew", "get_renew_ack"} =>
       Fresh("offer") = {}
  /\ smState = "get_renew_ack" => ~bOfferReceived

(* An acknowledgement that counts is that of a lease not older than it. *)
FreshAcks ==
  /\ smState \in {"get_offer", "send_request"} => Fresh("ack") = {}
  /\ smState = "get_request_ack" =>
       \A m \in Fresh("ack") : m.server = server /\ m.addr = temp
  /\ \A m \in Fresh("ack") :
       given[m.server] = m.addr /\ m.addr # Zero /\ age[m.server] + m.life <= Life

(* What may have passed of the lease. *)
Spent ==
  bIsBound =>
    /\ server \in Servers /\ given[server] = MyIPAddr
    /\ smState = "bound" => age[server] + left - timer <= Life + Kept
    /\ smState = "send_renew" => age[server] <= Life + Kept + (try - 1)
    /\ smState = "get_renew_ack" => age[server] <= Life + Kept + (try - 1) + timer
    /\ smState = "send_discovery" => age[server] <= Life + Kept + 3

IInv == TypeOK /\ Asking /\ Unbound /\ OldOffers /\ FreshAcks /\ Spent

Bounds == /\ Lease \in Nat /\ Margin \in Nat /\ Life \in Nat /\ Kept \in Nat
          /\ Kept > Life /\ Kept + Life + 3 < Lease /\ Kept <= Lease /\ Assumed \in 0 .. Lease

LEMMA BoundsHold == Bounds
BY TimesAssumption, MarginAssumption, SMT DEF Bounds, Kept

LEMMA Initial == Init => IInv
<1> SUFFICES ASSUME Init PROVE IInv
  OBVIOUS
<1>1. TypeOK
  <2>1. given \in [Servers -> Addrs \cup {Zero}] /\ age \in [Servers -> 0 .. Lease]
    BY BoundsHold, SMT DEF Bounds, Init
  <2>2. /\ bIsBound \in BOOLEAN /\ bOfferReceived \in BOOLEAN /\ valid \in BOOLEAN
        /\ link \in BOOLEAN /\ seen \in BOOLEAN
    BY Zenon DEF Init
  <2> QED BY <2>1, <2>2, BoundsHold, SMT DEF Bounds, Init, TypeOK, States
<1>2. Asking /\ Unbound /\ OldOffers /\ FreshAcks /\ Spent
  BY SMT DEF Init, Asking, Unbound, OldOffers, FreshAcks, Spent, Fresh
<1> QED BY <1>1, <1>2 DEF IInv

-----------------------------------------------------------------------------
LEMMA LoseStep == ASSUME IInv, NEW m \in net, Lose(m) PROVE IInv'
BY SMT DEF Lose, IInv, TypeOK, Asking, Unbound, OldOffers, FreshAcks, Spent, Fresh,
  state, offer, config, granted

LEMMA LinkStep == ASSUME IInv, LinkChanges PROVE IInv'
BY SMT DEF LinkChanges, IInv, TypeOK, Asking, Unbound, OldOffers, FreshAcks, Spent, Fresh,
  state, offer, config, granted

LEMMA SeeLinkStep == ASSUME IInv, SeeLink PROVE IInv'
<1>1. CASE link
  BY <1>1, SMT DEF SeeLink, IInv, TypeOK, Asking, Unbound, OldOffers, FreshAcks, Spent,
    Fresh, state, config, granted
<1>2. CASE ~link
  <2>1. bIsBound' \in BOOLEAN /\ bOfferReceived' \in BOOLEAN /\ ~bIsBound'
    BY <1>2, Zenon DEF SeeLink
  <2> QED
  BY <1>2, <2>1, SMT
    DEF SeeLink, Goto, IInv, TypeOK, Asking, Unbound, OldOffers, FreshAcks,
    Spent, Fresh, granted, States
<1> QED BY <1>1, <1>2

LEMMA GetSocketStep == ASSUME IInv, GetSocket PROVE IInv'
BY SMT
  DEF GetSocket, Goto, IInv, TypeOK, Asking, Unbound, OldOffers, FreshAcks, Spent, Fresh,
  state, offer, config, granted, States

LEMMA CountDownStep == ASSUME IInv, CountDown PROVE IInv'
BY BoundsHold, SMT
  DEF CountDown, Goto, IInv, TypeOK, Asking, Unbound, OldOffers, FreshAcks, Spent, Fresh,
  state, offer, config, granted, States, Bounds, Answers

LEMMA GiveUpStep == ASSUME IInv, GiveUp PROVE IInv'
BY BoundsHold, SMT
  DEF GiveUp, Goto, IInv, TypeOK, Asking, Unbound, OldOffers, FreshAcks, Spent, Fresh,
  state, offer, config, granted, States, Bounds, Answers, TimedOut, Renewals

LEMMA AnswerType ==
  ASSUME NEW s \in Servers, NEW a \in Addrs \cup {Zero}, NEW t \in {"offer", "ack", "nak"}
  PROVE  Answer(t, s, a) \in Answers
BY BoundsHold, SMT DEF Answer, Answers, Bounds

LEMMA AnswerFields ==
  ASSUME NEW s, NEW a, NEW t
  PROVE  /\ Answer(t, s, a).type = t /\ Answer(t, s, a).server = s
         /\ Answer(t, s, a).addr = a /\ Answer(t, s, a).life = Life
BY SMT DEF Answer

LEMMA OffersType ==
  ASSUME NEW u, NEW m \in Offers(u)
  PROVE  m \in Answers /\ m.type = "offer" /\ m.addr \in Addrs
<1>1. PICK s \in Servers : \E a \in Pool[s] : m = Answer("offer", s, a)
  BY SMT DEF Offers
<1>2. PICK a \in Pool[s] : m = Answer("offer", s, a)
  BY <1>1
<1>3. a \in Addrs
  BY <1>2, AddressAssumption
<1>4. Answer("offer", s, a) \in Answers
  BY <1>3, AnswerType
<1>5. Answer("offer", s, a).type = "offer" /\ Answer("offer", s, a).addr = a
  BY AnswerFields
<1> QED BY <1>2, <1>3, <1>4, <1>5

(* A discovery makes everything under way stale but the offers it brings. *)
LEMMA SendDiscoveryStep == ASSUME IInv, SendDiscovery PROVE IInv'
<1>1. /\ bIsBound' \in BOOLEAN /\ bOfferReceived' \in BOOLEAN /\ valid' \in BOOLEAN
      /\ ~bIsBound'
  BY Zenon DEF SendDiscovery
<1>2. CASE UNCHANGED <<state, bUseUnicastMode, net>>
  BY <1>1, <1>2, BoundsHold, SMT
    DEF SendDiscovery, IInv, TypeOK, Asking, Unbound, OldOffers, FreshAcks,
    Spent, Fresh, state, config, granted, Bounds
<1>3. CASE link /\ smState' = "get_offer" /\ ~UNCHANGED <<state, bUseUnicastMode, net>>
  <2>1. PICK ms \in SUBSET Offers(bUseUnicastMode') :
          net' = ms \cup {[m EXCEPT !.fresh = FALSE] : m \in net}
    BY <1>3, Zenon DEF SendDiscovery
  <2>2. ASSUME NEW m \in net' PROVE m \in Answers
    <3>1. ASSUME NEW n \in net PROVE [n EXCEPT !.fresh = FALSE] \in Answers
      <4>1. n \in Answers
        BY DEF IInv, TypeOK
      <4>2. ASSUME NEW b \in BOOLEAN PROVE [n EXCEPT !.fresh = b] \in Answers
        BY <4>1, SMT DEF Answers
      <4> QED BY <4>2, Zenon
    <3>2. CASE m \in ms
      BY <3>2, <2>1, OffersType
    <3>3. CASE m \in {[n EXCEPT !.fresh = FALSE] : n \in net}
      BY <3>1, <3>3
    <3> QED BY <2>1, <3>2, <3>3
  <2>3. ASSUME NEW m \in net', m.fresh PROVE m.type = "offer" /\ m.addr \in Addrs
    BY <2>1, <2>3, OffersType, SMT DEF IInv, TypeOK, Answers
  <2>4. TypeOK'
    <3>1. bUseUnicastMode' \in BOOLEAN
      BY <1>3, Zenon DEF SendDiscovery, Toggled
    <3> QED BY <1>1, <1>3, <2>2, <3>1, BoundsHold, SMT
      DEF SendDiscovery, IInv, TypeOK, Goto, config, granted, Bounds, States, state
  <2>5. (Asking /\ Unbound /\ OldOffers /\ FreshAcks /\ Spent)'
    BY <1>1, <1>3, <2>3, SMT DEF Asking, Unbound, OldOffers, FreshAcks, Spent, Fresh
  <2> QED BY <2>4, <2>5 DEF IInv
<1> QED BY <1>2, <1>3, Zenon DEF SendDiscovery, Goto

LEMMA SendRequestStep == ASSUME IInv, SendRequest PROVE IInv'
<1>1. server \in Servers /\ temp \in Addrs /\ temp # Zero
  BY AddressAssumption, SMT DEF IInv, Asking, SendRequest
<1> DEFINE ack == Answer("ack", server, temp)
           nak == Answer("nak", server, Zero)
<1>2. ack \in Answers /\ nak \in Answers
  BY <1>1, AnswerType
<1>3. /\ ack.type = "ack" /\ ack.server = server /\ ack.addr = temp /\ ack.life = Life
      /\ nak.type = "nak"
  BY AnswerFields
<1> HIDE DEF ack, nak
<1>4. CASE net' = net \cup {ack} /\ Grant(server, temp)
  <2>1. Fresh("ack")' \subseteq {ack} /\ Fresh("offer")' = Fresh("offer")
    BY <1>3, <1>4, SMT DEF IInv, FreshAcks, SendRequest, Fresh
  <2>2. TypeOK'
    BY <1>1, <1>2, <1>4, BoundsHold, SMT
      DEF SendRequest, Goto, IInv, TypeOK, offer, config, Grant, Bounds, States
  <2>3. given'[server] = temp /\ age'[server] = 0
    BY <1>1, <1>4, SMT DEF Grant, IInv, TypeOK
  <2>4. FreshAcks'
    BY <1>1, <1>3, <2>1, <2>3, BoundsHold, SMT
      DEF SendRequest, Goto, FreshAcks, offer, Bounds
  <2>5. (Asking /\ Unbound /\ OldOffers /\ Spent)'
    BY <2>1, SMT
      DEF SendRequest, Goto, IInv, Asking, Unbound, OldOffers, Spent, offer, config
  <2> QED BY <2>2, <2>4, <2>5 DEF IInv
<1>5. ASSUME NEW ms \in SUBSET {nak}, net' = net \cup ms, UNCHANGED granted
      PROVE  IInv'
  <2>1. Fresh("ack")' = {} /\ Fresh("offer")' = Fresh("offer")
    BY <1>3, <1>5, SMT DEF IInv, FreshAcks, SendRequest, Fresh
  <2>2. TypeOK'
    BY <1>2, <1>5, SMT
      DEF SendRequest, Goto, IInv, TypeOK, offer, config, granted, States
  <2>3. (Asking /\ Unbound /\ OldOffers /\ FreshAcks /\ Spent)'
    BY <2>1, SMT
      DEF SendRequest, Goto, IInv, Asking, Unbound, OldOffers, FreshAcks, Spent, offer, config
  <2> QED BY <2>2, <2>3 DEF IInv
<1> QED BY <1>4, <1>5, Zenon DEF SendRequest, ack, nak

LEMMA SendRenewStep == ASSUME IInv, SendRenew PROVE IInv'
<1>1. PICK refuse \in SUBSET Servers :
        LET naks == {Answer("nak", s, Zero) : s \in refuse} IN
        \/ net' = net \cup naks /\ UNCHANGED granted
        \/ \E s \in Servers \ refuse :
             /\ temp # Zero /\ given[s] = temp
             /\ net' = net \cup naks \cup {Answer("ack", s, temp)}
             /\ Grant(s, temp)
  BY Zenon DEF SendRenew
<1> DEFINE naks == {Answer("nak", s, Zero) : s \in refuse}
<1>2. ASSUME NEW m \in naks PROVE m \in Answers /\ m.type = "nak"
  <2>1. PICK s \in refuse : m = Answer("nak", s, Zero)
    OBVIOUS
  <2> QED BY <2>1, AnswerType, AnswerFields
<1> HIDE DEF naks
<1>0. bOfferReceived' \in BOOLEAN
  BY Zenon DEF SendRenew
<1>3. CASE net' = net \cup naks /\ UNCHANGED granted
  <2>1. Fresh("ack")' = Fresh("ack") /\ Fresh("offer")' = Fresh("offer")
    BY <1>2, <1>3, SMT DEF Fresh
  <2>2. TypeOK'
    BY <1>0, <1>2, <1>3, SMT DEF SendRenew, Goto, IInv, TypeOK, config, granted, States
  <2>3. (Asking /\ Unbound /\ OldOffers /\ FreshAcks)'
    BY <1>3, <2>1, SMT
      DEF SendRenew, Goto, IInv, Asking, Unbound, OldOffers, FreshAcks, granted
  <2>4. Spent'
    BY <1>3, BoundsHold, SMT
      DEF SendRenew, Goto, IInv, TypeOK, Spent, granted, config, Bounds
  <2> QED BY <2>2, <2>3, <2>4 DEF IInv
<1>4. ASSUME NEW s \in Servers, temp # Zero, given[s] = temp,
             net' = net \cup naks \cup {Answer("ack", s, temp)}, Grant(s, temp)
      PROVE  IInv'
  <2> DEFINE ack == Answer("ack", s, temp)
  <2>1. temp \in Addrs \cup {Zero}
    BY DEF IInv, TypeOK
  <2>2. ack \in Answers
    BY <2>1, AnswerType
  <2>3. ack.type = "ack" /\ ack.server = s /\ ack.addr = temp /\ ack.life = Life
    BY AnswerFields
  <2> HIDE DEF ack
  <2>4. net' = net \cup naks \cup {ack}
    BY <1>4 DEF ack
  <2>5. Fresh("ack")' \subseteq Fresh("ack") \cup {ack} /\ Fresh("offer")' = Fresh("offer")
    BY <1>2, <2>3, <2>4, SMT DEF Fresh
  <2>6. /\ given' = given /\ age'[s] = 0
        /\ \A t \in Servers : age'[t] = age[t] \/ age'[t] = 0
    BY <1>4, SMT DEF Grant, IInv, TypeOK
  <2>7. TypeOK'
    BY <1>0, <1>2, <1>4, <2>1, <2>2, <2>4, BoundsHold, SMT
      DEF SendRenew, Goto, IInv, TypeOK, config, Grant, Bounds, States
  <2>8. (Asking /\ Unbound /\ OldOffers)'
    BY <2>5, SMT DEF SendRenew, Goto, IInv, Asking, Unbound, OldOffers
  <2>9. FreshAcks'
    <3>1. ASSUME NEW m \in Fresh("ack") PROVE m.server \in Servers /\ m.life \in 0 .. Life
      BY SMT DEF Fresh, IInv, TypeOK, Answers
    <3> QED BY <1>4, <2>3, <2>5, <2>6, <3>1, BoundsHold, SMT
      DEF SendRenew, Goto, IInv, TypeOK, FreshAcks, Bounds
  <2>10. Spent'
    BY <2>6, BoundsHold, SMT DEF SendRenew, Goto, IInv, TypeOK, Spent, config, Bounds
  <2> QED BY <2>7, <2>8, <2>9, <2>10 DEF IInv
<1> QED BY <1>1, <1>3, <1>4, Zenon DEF naks
(* The time passes where nothing is due, so the lease is not over.         *)
LEMMA ElapseStep == ASSUME IInv, Elapse PROVE IInv'
<1> DEFINE older(m) == [m EXCEPT !.life = @ - 1]
<1>1. ASSUME NEW m \in net'
      PROVE  \E n \in net : /\ n \in Answers /\ n.life > 0 /\ m.life = n.life - 1
                            /\ m.type = n.type /\ m.server = n.server /\ m.addr = n.addr
                            /\ m.fresh = n.fresh /\ m \in Answers
  <2>1. PICK n \in net : n.life > 0 /\ m = older(n)
    BY <1>1, SMT DEF Elapse
  <2>2. n \in Answers
    BY DEF IInv, TypeOK
  <2> QED BY <2>1, <2>2, BoundsHold, SMT DEF Answers, Bounds
<1>2. UNCHANGED <<smState, try, offer, bIsBound, config>> /\ timer' = 1
  BY DEF Elapse
<1>3. \A s \in Servers : given[s] # Zero /\ age[s] + 1 < Lease
                          => given'[s] = given[s] /\ age'[s] = age[s] + 1
  BY SMT DEF Elapse, IInv, TypeOK
<1>4. TypeOK'
  <2>1. age' \in [Servers -> 0 .. Lease] /\ given' \in [Servers -> Addrs \cup {Zero}]
    BY BoundsHold, SMT DEF Elapse, IInv, TypeOK, Bounds
  <2> QED BY <1>1, <1>2, <2>1, BoundsHold, SMT
    DEF Elapse, IInv, TypeOK, offer, config, Bounds
<1>5. (Asking /\ Unbound)'
  BY <1>2, SMT DEF IInv, Asking, Unbound, offer
<1>6. OldOffers'
  <2>1. ASSUME NEW m \in Fresh("offer")'
        PROVE  \E n \in Fresh("offer") : m.life = n.life - 1 /\ m.addr = n.addr
    BY <1>1, <2>1, SMT DEF Fresh
  <2>2. smState = "bound" => timer = 0
    BY SMT DEF Elapse, Due, TimedOut, IInv, TypeOK
  <2>3. \A n \in Fresh("offer") : n.life \in Int
    BY SMT DEF Fresh, IInv, TypeOK, Answers
  <2> QED BY <1>2, <2>1, <2>2, <2>3, BoundsHold, SMT
    DEF IInv, OldOffers, TypeOK, Bounds, offer
<1>7. FreshAcks'
  <2>1. ASSUME NEW m \in Fresh("ack")'
        PROVE  \E n \in Fresh("ack") : /\ n.life \in 1 .. Life /\ m.life = n.life - 1
                 /\ m.addr = n.addr /\ m.server = n.server /\ n.server \in Servers
    BY <1>1, <2>1, BoundsHold, SMT DEF Fresh, Answers, Bounds
  <2> QED BY <1>2, <1>3, <2>1, BoundsHold, SMT DEF IInv, FreshAcks, TypeOK, Bounds, offer
<1>8. Spent'
  <2>1. bIsBound => smState \in {"bound", "get_renew_ack"} /\ timer = 0
    BY SMT DEF Elapse, Due, TimedOut, IInv, TypeOK, Unbound
  <2>2. bIsBound => given[server] # Zero
    BY AddressAssumption, SMT DEF IInv, Spent, TypeOK
  <2> QED BY <1>2, <1>3, <2>1, <2>2, BoundsHold, SMT
    DEF IInv, Spent, OldOffers, TypeOK, Bounds, offer, config
<1> QED BY <1>4, <1>5, <1>6, <1>7, <1>8 DEF IInv
(* What _DHCPReceive leaves behind: nothing new under way, and what it     *)
(* keeps of an answer.                                                     *)
LEMMA ReceivedType ==
  ASSUME IInv, NEW m \in net, DHCPReceive(m)
  PROVE  /\ m \in Answers /\ net' \subseteq Answers
         /\ temp' \in Addrs \cup {Zero} /\ valid' \in BOOLEAN /\ left' \in 0 .. Lease
         /\ server' \in Servers \cup {Zero} /\ bOfferReceived' \in BOOLEAN
<1>1. m \in Answers /\ net' \subseteq Answers
  BY SMT DEF IInv, TypeOK, DHCPReceive
<1>2. temp' \in Addrs \cup {Zero} /\ left' \in 0 .. Lease
  BY <1>1, BoundsHold, SMT DEF DHCPReceive, IInv, TypeOK, Answers, Bounds
<1>3. valid' \in BOOLEAN /\ bOfferReceived' \in BOOLEAN
  BY Zenon DEF DHCPReceive, IInv, TypeOK
<1>4. server' \in Servers \cup {Zero}
  BY <1>1, SMT DEF DHCPReceive, IInv, TypeOK, Answers
<1> QED BY <1>1, <1>2, <1>3, <1>4

LEMMA ReceivedFresh ==
  ASSUME IInv, NEW m \in net, DHCPReceive(m)
  PROVE  Fresh("offer")' \subseteq Fresh("offer") /\ Fresh("ack")' \subseteq Fresh("ack")
BY SMT DEF DHCPReceive, Fresh

LEMMA TypeCounts ==
  ASSUME IInv, NEW m \in net
  PROVE  /\ Type(m) # "unknown" => m.fresh /\ Type(m) = m.type
         /\ Type(m) = "ack" => m \in Fresh("ack")
         /\ Type(m) \in {"ack", "nak"} => m.server = server
<1>1. m \in Answers
  BY SMT DEF IInv, TypeOK
<1> QED BY <1>1, SMT DEF Type, Repeated, Answers, Fresh

LEMMA GetOfferStep == ASSUME IInv, NEW m \in net, GetOffer(m) PROVE IInv'
<1>1. DHCPReceive(m) /\ smState = "get_offer" /\ ~bIsBound
  BY SMT DEF GetOffer, IInv, Unbound
<1>2. CASE Type(m) = "offer"
  <2>1. m.fresh /\ ~bOfferReceived /\ m \in Fresh("offer") /\ m.addr \in Addrs
    BY <1>2, SMT DEF Type, Repeated, Fresh, IInv, OldOffers
  <2>2. temp' = m.addr /\ valid' /\ left' = Kept /\ server' = m.server /\ bOfferReceived'
    <3>1. m.type = "offer"
      BY <2>1, SMT DEF Fresh
    <3>2. temp' = m.addr /\ left' = Kept /\ server' = m.server
      BY <1>1, <1>2, <2>1, <3>1, SMT DEF DHCPReceive
    <3>3. valid' /\ bOfferReceived'
      BY <1>1, <1>2, <2>1, Zenon DEF DHCPReceive
    <3> QED BY <3>2, <3>3
  <2>3. TypeOK'
    BY <1>1, <1>2, ReceivedType, SMT
      DEF GetOffer, Goto, IInv, TypeOK, config, granted, States
  <2>4. (Asking /\ Unbound /\ OldOffers /\ FreshAcks /\ Spent)'
    BY <1>1, <1>2, <2>1, <2>2, ReceivedFresh, ReceivedType, SMT
      DEF GetOffer, Goto, IInv, Asking, Unbound,
      OldOffers, FreshAcks, Spent, config, granted, Answers
  <2> QED BY <2>3, <2>4 DEF IInv
<1>3. CASE Type(m) # "offer"
  <2>1. TypeOK'
    BY <1>1, <1>3, ReceivedType, SMT DEF GetOffer, IInv, TypeOK, config, granted
  <2>2. (Asking /\ Unbound /\ OldOffers /\ FreshAcks /\ Spent)'
    BY <1>1, <1>3, ReceivedFresh, SMT DEF GetOffer, IInv, Asking, Unbound,
      OldOffers, FreshAcks, Spent, config, granted
  <2> QED BY <2>1, <2>2 DEF IInv
<1> QED BY <1>2, <1>3

LEMMA GetRequestAckStep == ASSUME IInv, NEW m \in net, GetRequestAck(m) PROVE IInv'
<1>1. /\ DHCPReceive(m) /\ smState = "get_request_ack" /\ ~bIsBound
      /\ bOfferReceived /\ valid /\ left = Kept /\ server \in Servers /\ temp \in Addrs
  BY SMT DEF GetRequestAck, IInv, Unbound, Asking
<1>2. Type(m) # "offer" /\ UNCHANGED <<temp, valid, left, server, bOfferReceived>>
  BY <1>1, Zenon DEF DHCPReceive, Type, Repeated
<1>3. CASE Type(m) = "ack"
  <2>1. /\ smState' = "bound" /\ timer' = 0 /\ bIsBound' = TRUE
        /\ MyIPAddr' = temp /\ bInConfigMode' = FALSE /\ try' = try
        /\ UNCHANGED <<bUseUnicastMode, link, seen, granted>>
    BY <1>1, <1>2, <1>3, Zenon DEF GetRequestAck, Goto
  <2>2. m \in Fresh("ack") /\ m.server = server /\ m.addr = temp
    BY <1>1, <1>3, TypeCounts, SMT DEF IInv, FreshAcks
  <2>3. given[server] = temp /\ age[server] <= Life
    BY <1>1, <2>2, ReceivedType, BoundsHold, SMT
      DEF IInv, FreshAcks, TypeOK, Answers, Bounds
  <2>4. TypeOK'
    <3>1. bInConfigMode' \in BOOLEAN
      BY <2>1, Zenon
    <3> QED BY <1>1, <2>1, <3>1, ReceivedType, SMT DEF IInv, TypeOK, granted, States
  <2>5. (Asking /\ Unbound /\ FreshAcks)'
    BY <1>1, <2>1, ReceivedFresh, SMT DEF IInv, Asking, Unbound, FreshAcks, granted
  <2>6. OldOffers'
    <3>1. \A n \in Fresh("offer") : n.life <= Life /\ n.life \in Int
      BY BoundsHold, SMT DEF IInv, TypeOK, Fresh, Answers, Bounds
    <3> QED BY <1>1, <1>2, <2>1, <3>1, ReceivedFresh, BoundsHold, SMT
      DEF IInv, OldOffers, Bounds
  <2>7. Spent'
    BY <1>1, <1>2, <2>1, <2>3, BoundsHold, SMT DEF IInv, TypeOK, Spent, granted, Bounds
  <2> QED BY <2>4, <2>5, <2>6, <2>7 DEF IInv
<1>4. CASE Type(m) # "ack"
  <2>1. /\ UNCHANGED <<timer, bIsBound, config, bUseUnicastMode, link, seen, granted, try>>
        /\ smState' \in {smState, "send_discovery"}
    BY <1>4, Zenon DEF GetRequestAck, Goto, state
  <2>2. TypeOK'
    BY <1>1, <2>1, ReceivedType, SMT DEF IInv, TypeOK, config, granted, States
  <2>3. (Asking /\ Unbound /\ OldOffers /\ FreshAcks /\ Spent)'
    BY <1>1, <1>2, <2>1, ReceivedFresh, SMT
      DEF IInv, Asking, Unbound, OldOffers, FreshAcks, Spent, config, granted
  <2> QED BY <2>2, <2>3 DEF IInv
<1> QED BY <1>3, <1>4
(* No offer is fresh in a renewal, so the lease stays that of its server.  *)
LEMMA GetRenewAckStep == ASSUME IInv, NEW m \in net, GetRenewAck(m) PROVE IInv'
<1>1. DHCPReceive(m) /\ smState = "get_renew_ack" /\ Fresh("offer") = {}
  BY SMT DEF GetRenewAck, IInv, OldOffers
<1>2. Type(m) # "offer" /\ server' = server /\ bOfferReceived' = bOfferReceived
  <2>1. Type(m) # "offer"
    BY <1>1, TypeCounts, SMT DEF Fresh
  <2> QED BY <1>1, <2>1, Zenon DEF DHCPReceive
<1>3. UNCHANGED <<bIsBound, bUseUnicastMode, config, link, seen, granted>>
  BY DEF GetRenewAck
<1>4. CASE Type(m) = "ack"
  <2>1. smState' = "bound" /\ timer' = 0 /\ try' = try
    BY <1>4, Zenon DEF GetRenewAck, Goto
  <2>2. m \in Fresh("ack") /\ m.server = server /\ m.type = "ack"
    BY <1>4, TypeCounts, SMT DEF Fresh
  <2>3. bIsBound => age[server] <= Life
    BY <2>2, ReceivedType, <1>1, BoundsHold, SMT
      DEF IInv, FreshAcks, Spent, TypeOK, Answers, Bounds
  <2>4. TypeOK'
    BY <1>1, <1>3, <2>1, ReceivedType, SMT DEF IInv, TypeOK, config, granted, States
  <2>5. (Asking /\ Unbound /\ FreshAcks)'
    BY <1>1, <1>3, <2>1, ReceivedFresh, SMT DEF IInv, Asking, Unbound, FreshAcks, granted
  <2>6. OldOffers' /\ left' = Kept
    <3>1. left' = Kept
      BY <1>1, <2>2, SMT DEF DHCPReceive, Fresh, IInv, OldOffers
    <3> QED BY <1>1, <2>1, <3>1, ReceivedFresh, BoundsHold, SMT
      DEF IInv, OldOffers, Bounds
  <2>7. Spent'
    BY <1>2, <1>3, <2>1, <2>3, <2>6, BoundsHold, SMT
      DEF IInv, TypeOK, Spent, granted, config, Bounds
  <2> QED BY <2>4, <2>5, <2>6, <2>7 DEF IInv
<1>5. CASE Type(m) # "ack"
  <2>1. timer' = timer /\ try' = try /\ smState' \in {smState, "send_discovery"}
    BY <1>5, Zenon DEF GetRenewAck, Goto, state
  <2>2. TypeOK'
    BY <1>1, <1>3, <2>1, ReceivedType, SMT DEF IInv, TypeOK, config, granted, States
  <2>3. (Asking /\ Unbound /\ OldOffers /\ FreshAcks)'
    BY <1>1, <1>2, <1>3, <2>1, ReceivedFresh, SMT
      DEF IInv, Asking, Unbound, OldOffers, FreshAcks, granted
  <2>4. Spent'
    BY <1>1, <1>2, <1>3, <2>1, BoundsHold, SMT
      DEF IInv, TypeOK, Spent, granted, config, Bounds
  <2> QED BY <2>2, <2>3, <2>4 DEF IInv
<1> QED BY <1>4, <1>5

LEMMA Inductive == IInv /\ [Next]_vars => IInv'
<1> SUFFICES ASSUME IInv, [Next]_vars PROVE IInv'
  OBVIOUS
<1>1. CASE StackTask
  BY <1>1, SeeLinkStep, GetSocketStep, SendDiscoveryStep, SendRequestStep, CountDownStep,
    SendRenewStep, GiveUpStep, GetOfferStep, GetRequestAckStep, GetRenewAckStep, Zenon
    DEF StackTask, Receive
<1>2. CASE LinkChanges
  BY <1>2, LinkStep
<1>3. CASE Elapse
  BY <1>3, ElapseStep
<1>4. CASE \E m \in net : Lose(m)
  BY <1>4, LoseStep
<1>5. CASE UNCHANGED vars
  BY <1>5, SMT DEF vars, state, offer, config, granted, IInv, TypeOK, Asking, Unbound,
    OldOffers, FreshAcks, Spent, Fresh
<1> QED BY <1>1, <1>2, <1>3, <1>4, <1>5, Zenon DEF Next

LEMMA Lives == IInv => TypeOK /\ BoundHasLease
BY SMT DEF IInv, Spent, BoundHasLease

-----------------------------------------------------------------------------
(* The variables of the client and of its environment keep their types.    *)
THEOREM TypeCorrect == Spec => []TypeOK
<1>1. IInv => TypeOK
  BY Lives
<1> QED BY Initial, Inductive, <1>1, PTL DEF Spec

(* The client never says it is bound to an address whose lease is over,    *)
(* however late the acknowledgement came, whichever renewals were lost,    *)
(* and whatever other servers answered (SM_DHCP_BOUND, DHCP.c).            *)
THEOREM LeaseHeld == Spec => []BoundHasLease
<1>1. IInv => BoundHasLease
  BY Lives
<1> QED BY Initial, Inductive, <1>1, PTL DEF Spec
=============================================================================
