------------------------------- MODULE Socket -------------------------------
(***************************************************************************)
(* What a listening TCP socket is to MyTCPTask: the states it goes through *)
(* and whether there is text to read. TcpServer relies on no more, TcpSend *)
(* shows that TCP.c keeps to it.                                           *)
(***************************************************************************)

VARIABLES
  tcp,   \* smState; the states after a FIN of ours are "fin_wait", those
         \* after a FIN of the client's "close_wait" and "last_ack"
  rx     \* there is unread text

svars == <<tcp, rx>>

Init == tcp \in {"closed", "established"} /\ rx = FALSE

Move(from, to) == tcp \in from /\ tcp' = to

(* The socket listens when it is opened and after every connection. *)
Listens == Move({"closed"}, "listen") /\ UNCHANGED rx

Ends == tcp # "closed" /\ tcp' = "listen" /\ rx' = FALSE

Connects ==
  \/ Move({"listen"}, "syn_received") /\ UNCHANGED rx
  \/ Move({"syn_received"}, "established") /\ rx' \in BOOLEAN

Text == tcp = "established" /\ rx' \in BOOLEAN /\ UNCHANGED tcp

(* The client's FIN may come with the last of its text. *)
ClientCloses == Move({"established"}, "close_wait") /\ rx' \in {rx, TRUE}

(* TCPDisconnect, or TCPTick after too many retransmissions. *)
Closes ==
  \/ Move({"syn_received", "established", "close_wait"}, "fin_wait") /\ rx' \in {rx, FALSE}
  \/ Move({"close_wait"}, "last_ack") /\ rx' \in {rx, FALSE}

(* What is left unread is thrown away when more comes. *)
Forgets == tcp = "fin_wait" /\ rx' = FALSE /\ UNCHANGED tcp

Next == Listens \/ Ends \/ Connects \/ Text \/ ClientCloses \/ Closes \/ Forgets

Spec == Init /\ [][Next]_svars
=============================================================================
