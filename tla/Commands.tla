------------------------------ MODULE Commands ------------------------------
(***************************************************************************)
(* The commands of the PCM, from the bytes of two TCP streams to their     *)
(* replies: TCPConnectedTask (PCM_TCPTask.h) takes what has arrived,       *)
(* executeCmd (PCM_CmdHandler2.c) looks for a command in it and executes   *)
(* it. Both sockets share params, which are overwritten and never wiped,   *)
(* and retData, which goes out whether the command wrote it or not. A      *)
(* serial command waits for its device and lets the stack run meanwhile:   *)
(* its line is taken in one step and answered in a later one, to whoever   *)
(* has the socket then.                                                    *)
(*                                                                         *)
(* A character is a model value or a string that stands for it; a word     *)
(* (name, channel) is one character, a number has one for each digit. Of   *)
(* the commands there is one of each way to read params and write retData: *)
(* sMask takes digits by position, sThr a string, # a string with commas,  *)
(* gThr and reset act by name alone, gSer does nothing. What their         *)
(* handlers do to the ports and the EEPROM is in PortControl and Settings. *)
(***************************************************************************)
EXTENDS Integers, SequencesExt

CONSTANTS
  Clients,    \* one to each socket
  Careful,    \* those that send whole lines, and wait for an answer
  Orders,     \* the commands they send, see Line
  MaxLine,    \* the characters executeCmd looks at, 60
  RxSize,     \* sizeof(rxData), 80
  NumParam,   \* numParam
  LenParam,   \* lenParam
  MaskWidth,  \* the digits of a mask, 8
  RxFifo,     \* the receive buffer of a socket
  MaxOwed     \* (bound) the answers a client that does not wait has to get

ASSUME SizesAssumption ==
  /\ {MaxLine, NumParam, LenParam, MaskWidth} \subseteq Nat \ {0}
  /\ {RxSize, RxFifo} \subseteq Nat
  /\ 3 <= NumParam /\ MaxLine <= LenParam /\ MaxLine <= RxSize
  /\ MaskWidth <= LenParam
  /\ Careful \subseteq Clients

SOL   == "~"
EOL   == "\n"
CR    == "\r"
Comma == ","
NUL   == "NUL"

(* A command is a name and the parameters sent with it; only the data of a *)
(* serial command has commas in it.                                        *)
Order == [name : STRING, key : Seq(STRING), val : Seq(STRING), end : {EOL, CR}]
Special == {SOL, EOL, CR, NUL, Comma}

ASSUME OrdersAssumption ==
  \A c \in Clients : \A o \in Orders[c] :
    /\ o \in Order
    /\ o.name \notin Special
    /\ Range(o.key) \cap Special = {}
    /\ Range(o.val) \cap Special \subseteq IF o.name = "#" THEN {Comma} ELSE {}

VARIABLES
  params,  \* the parameters: LenParam characters each
  retData, \* the reply that was built last
  thr,     \* a threshold: the number as it was sent
  mask,    \* a port mask
  waiting, \* the client whose serial command waits for its device, or none
  wire,    \* the characters of each client on their way...
  rx,      \* ... and in the receive buffer of its socket
  owed,    \* (history) the lines each connection sent less the answers it got
  heirs,   \* (history) those that connected while a command of the former
           \* connection of their socket waited
  unsaid   \* (history) careful clients whose command had an empty reply

settings == <<thr, mask>>
history == <<owed, heirs, unsaid>>
vars == <<params, retData, settings, waiting, wire, rx, history>>

Params == 1 .. NumParam

-----------------------------------------------------------------------------
(* The parser. A command may start again in the middle of the text.        *)
Start == [st |-> "invalid", p |-> 1, c |-> 0, last |-> NUL, params |-> params]

(* Commas are data in the third parameter of a serial command. *)
InSerialData(ps) == ps.p = 3 /\ ps.params[1][1] = "#"

Put(ps, ch) ==
  [ps EXCEPT !.params[ps.p][ps.c + 1] = ch, !.c = @ + 1,
             !.st = IF ps.c + 1 >= LenParam THEN "overrun" ELSE @]

(* (mutation) the string is not ended *)
EndParamNot(ps) == ps

EndParam(ps) == [ps EXCEPT !.params[ps.p][ps.c + 1] = NUL]

NextParam(ps) ==
  [EndParam(ps) EXCEPT !.c = 0, !.p = @ + 1,
                       !.st = IF ps.p + 1 > NumParam THEN "overrun" ELSE @]

(* (mutation) text without a start of line is executed as well *)
TakeAny(ps, ch) ==
  CASE ch \in {SOL, CR} -> [ps EXCEPT !.st = "valid"]
    [] ch = Comma /\ ~InSerialData(ps) -> NextParam([ps EXCEPT !.st = "valid"])
    [] ch = EOL -> EndParam([ps EXCEPT !.st = "valid"])
    [] OTHER -> Put([ps EXCEPT !.st = "valid"], ch)

(* One character of the text. *)
Take(ps, ch) ==
  LET q == IF ch = SOL THEN [ps EXCEPT !.st = "valid", !.p = 1, !.c = 0] ELSE ps
  IN IF q.st = "invalid" \/ ch \in {SOL, CR} THEN q
     ELSE CASE ch = Comma /\ ~InSerialData(q) -> NextParam(q)
            [] ch = EOL -> EndParam(q)
            [] OTHER -> Put(q, ch)

Scan(ps, ch) ==
  IF ps.st = "overrun" \/ ps.last = EOL THEN ps ELSE [Take(ps, ch) EXCEPT !.last = ch]

(* rxData is all NUL behind the text. *)
Parse(text) ==
  LET scanned[k \in 0 .. MaxLine] ==
        IF k = 0 THEN Start
        ELSE Scan(scanned[k - 1], IF k <= Len(text) THEN text[k] ELSE NUL)
  IN scanned[MaxLine]

(* A parameter as a string. *)
Str(param) ==
  LET nul == SelectInSeq(param, LAMBDA ch : ch = NUL)
  IN IF nul = 0 THEN param ELSE SubSeq(param, 1, nul - 1)

-----------------------------------------------------------------------------
(* The handlers, given the parameters. *)
BadParam == retData' = <<"INVALID PARAMETER">> /\ UNCHANGED settings

(* sByteToUint: the digits are where they are, whatever ends the string. *)
SetMaskByte(P) ==
  IF Str(P[2]) = <<"low">>
    THEN /\ mask' = [k \in 1 .. MaskWidth |-> IF P[3][k] = "1" THEN "1" ELSE "0"]
         /\ retData' = mask'
         /\ UNCHANGED thr
    ELSE BadParam

SetThresholdValue(P) ==
  IF Str(P[2]) = <<"low">>
    THEN /\ thr' = Str(P[3])
         /\ retData' = <<"=">> \o thr'
         /\ UNCHANGED mask
    ELSE BadParam

GetThresholdValue(P) ==
  IF Str(P[2]) = <<"low">> THEN retData' = <<"=">> \o thr /\ UNCHANGED settings
                           ELSE BadParam

(* Empty functions; retData stays what it was. *)
GetSerialConfig(P) == UNCHANGED <<retData, settings>>

BadCmd == retData' = <<"INVALID COMMAND">> /\ UNCHANGED settings
Overrun == retData' = <<"BUFFER OVERRUN">> /\ UNCHANGED settings

(* reset,eth pulses the reset line of the switch, reset,sys is Reboot. *)
SystemReset(P) ==
  /\ IF Str(P[2]) = <<"eth">> THEN retData' = <<"SUCCESS">> ELSE UNCHANGED retData
  /\ UNCHANGED settings

(* (mutation) an unknown command is not answered *)
DispatchKnown(P) ==
  CASE Str(P[1]) = <<"sMask">> -> SetMaskByte(P)
    [] Str(P[1]) = <<"sThr">>  -> SetThresholdValue(P)
    [] Str(P[1]) = <<"gThr">>  -> GetThresholdValue(P)
    [] Str(P[1]) = <<"reset">> -> SystemReset(P)
    [] OTHER -> retData' = <<>> /\ UNCHANGED settings

(* All but serial commands, see SendSerial, and reset,sys, see Reboot. *)
Dispatch(P) ==
  CASE Str(P[1]) = <<"sMask">> -> SetMaskByte(P)
    [] Str(P[1]) = <<"sThr">>  -> SetThresholdValue(P)
    [] Str(P[1]) = <<"gThr">>  -> GetThresholdValue(P)
    [] Str(P[1]) = <<"gSer">>  -> GetSerialConfig(P)
    [] Str(P[1]) = <<"reset">> -> SystemReset(P)
    [] OTHER -> BadCmd

(* The parameters are made empty strings, their other characters stay. *)
Emptied(P) == [p \in Params |-> [P[p] EXCEPT ![1] = NUL]]

IsReboot(ps) ==
  /\ ps.st = "valid"
  /\ Str(ps.params[1]) = <<"reset">> /\ Str(ps.params[2]) = <<"sys">>

IsSerial(ps) == ps.st = "valid" /\ Str(ps.params[1]) = <<"#">>

(* The end of executeCmd: TCPPutArray puts no bytes of an empty reply. *)
PutReply(c, P) ==
  /\ params' = Emptied(P)
  /\ owed' = [owed EXCEPT ![c] = IF retData' = <<>> THEN @ ELSE @ - 1]
  /\ unsaid' = IF retData' = <<>> THEN unsaid \cup ({c} \cap Careful) ELSE unsaid \ {c}

(* executeCmd with a command in the text. *)
Execute(c, ps) ==
  /\ ps.st # "invalid" /\ ~IsSerial(ps) /\ ~IsReboot(ps)
  /\ IF ps.st = "overrun" THEN Overrun ELSE Dispatch(ps.params)
  /\ PutReply(c, ps.params)
  /\ rx' = [rx EXCEPT ![c] = <<>>]
  /\ UNCHANGED <<waiting, wire, heirs>>

(* serialGetSs sends the third parameter and begins to wait. *)
SendSerial(c, ps) ==
  /\ IsSerial(ps)
  /\ params' = ps.params
  /\ waiting' = {c}
  /\ rx' = [rx EXCEPT ![c] = <<>>]
  /\ UNCHANGED <<retData, settings, wire, history>>

(* What a device answers depends on what it was sent, but the answer to    *)
(* an earlier request, or the rest of one, may come in its place; a string *)
(* that is empty (a lone LF, a string that was ended between the two tests *)
(* of UART_GOT_STRING) counts as an answer.                                *)
SerialReplies == {<<"to">> \o Str(params[3]), <<"late">>, <<>>, <<"NO RESPONSE">>}

(* serialGetSs returns, and what sendSerial has goes to the socket. *)
SerialReturns(c) ==
  /\ c \in waiting
  /\ retData' \in SerialReplies
  /\ PutReply(c, params)
  /\ waiting' = {}
  /\ UNCHANGED <<settings, wire, rx, heirs>>

(* Nothing in the text is a command. *)
Ignore(c, ps) ==
  /\ ps.st = "invalid"
  /\ rx' = [rx EXCEPT ![c] = <<>>]
  /\ UNCHANGED <<params, retData, settings, waiting, wire, history>>

Blank == [p \in Params |-> [k \in 1 .. LenParam |-> NUL]]

(* reset,sys: the client is answered, everyone is disconnected. *)
Reboot(c, ps) ==
  /\ IsReboot(ps)
  /\ params' = Blank
  /\ retData' = <<>>
  /\ wire' = [d \in Clients |-> <<>>]
  /\ rx' = [d \in Clients |-> <<>>]
  /\ owed' = [d \in Clients |-> 0]
  /\ heirs' = {} /\ unsaid' = {}
  /\ UNCHANGED <<settings, waiting>>

(* (mutation) a character was taken before the loop *)
TextLate(c) == SubSeq(rx[c], 2, IF Len(rx[c]) < RxSize THEN Len(rx[c]) ELSE RxSize)

(* What is taken of the receive buffer; the rest is dropped. *)
Text(c) == SubSeq(rx[c], 1, IF Len(rx[c]) < RxSize THEN Len(rx[c]) ELSE RxSize)

(* MyTCPTask does not run while a command waits: StackTask does not call it. *)
TCPConnectedTask(c) ==
  /\ waiting = {}
  /\ rx[c] # <<>>
  /\ \E ps \in {Parse(Text(c))} :
       Execute(c, ps) \/ SendSerial(c, ps) \/ Ignore(c, ps) \/ Reboot(c, ps)

-----------------------------------------------------------------------------
(* The line of a command; parameters at its end may be left out. *)
Line(o) ==
  <<SOL, o.name>>
    \o (IF o.key = <<>> /\ o.val = <<>> THEN <<>> ELSE <<Comma>> \o o.key)
    \o (IF o.val = <<>> THEN <<>> ELSE <<Comma>> \o o.val)
    \o <<o.end>>

Send(c, o) ==
  /\ IF c \in Careful THEN owed[c] = 0 ELSE owed[c] < MaxOwed /\ wire[c] = <<>>
  /\ wire' = [wire EXCEPT ![c] = @ \o Line(o)]
  /\ owed' = [owed EXCEPT ![c] = @ + 1]
  /\ unsaid' = unsaid \ {c}
  /\ UNCHANGED <<params, retData, settings, waiting, rx, heirs>>

(* TCP delivers a line whole, or in pieces, or with the one before it.     *)
Arrive(c, n) ==
  /\ n \in 1 .. Len(wire[c])
  /\ c \in Careful => n = Len(wire[c])
  /\ Len(rx[c]) + n <= RxFifo
  /\ rx' = [rx EXCEPT ![c] = @ \o SubSeq(wire[c], 1, n)]
  /\ wire' = [wire EXCEPT ![c] = SubSeq(@, n + 1, Len(@))]
  /\ UNCHANGED <<params, retData, settings, waiting, history>>

(* A client connects anew, a careful one only when nothing it sent is      *)
(* under way any more. A command that waits does not end for it.           *)
Reconnect(c) ==
  /\ c \in Careful => wire[c] = <<>> /\ rx[c] = <<>> /\ c \notin waiting
  /\ wire' = [wire EXCEPT ![c] = <<>>]
  /\ rx' = [rx EXCEPT ![c] = <<>>]
  /\ owed' = [owed EXCEPT ![c] = 0]
  /\ heirs' = IF c \in waiting THEN heirs \cup {c} ELSE heirs \ {c}
  /\ unsaid' = unsaid \ {c}
  /\ UNCHANGED <<params, retData, settings, waiting>>

Init ==
  /\ params = Blank
  /\ retData = <<>>
  /\ thr = <<>>
  /\ mask = [k \in 1 .. MaskWidth |-> "0"]
  /\ waiting = {}
  /\ wire = [c \in Clients |-> <<>>] /\ rx = [c \in Clients |-> <<>>]
  /\ owed = [c \in Clients |-> 0]
  /\ heirs = {} /\ unsaid = {}

Next == \E c \in Clients :
  \/ TCPConnectedTask(c)
  \/ SerialReturns(c)
  \/ \E o \in Orders[c] : Send(c, o)
  \/ \E n \in 1 .. RxFifo : Arrive(c, n)
  \/ Reconnect(c)

Spec == Init /\ [][Next]_vars

-----------------------------------------------------------------------------
(* What ends the string of the last parameter, EOL or the NUL behind a CR, *)
(* is among the characters executeCmd looks at.                            *)
Fits(o) == Len(Line(o)) + (IF o.end = CR THEN 1 ELSE 0) <= MaxLine

(* What the command of a line does, said without the parser. Of a mask     *)
(* only the digits that were sent count.                                   *)
Does(c, o) ==
  /\ IF o.name = "sThr" /\ o.key = <<"low">> THEN thr' = o.val ELSE UNCHANGED thr
  /\ IF o.name = "sMask" /\ o.key = <<"low">>
       THEN \A k \in 1 .. MaskWidth : k <= Len(o.val) => (mask'[k] = "1" <=> o.val[k] = "1")
       ELSE UNCHANGED mask
  /\ IF o.name = "#" THEN waiting' = {c} /\ Str(params'[3]) = o.val ELSE waiting' = {}

(* The commands that build a reply of their own, and at once. *)
Answers(o) == o.name \notin {"#", "gSer"} /\ (o.name = "reset" => o.key = <<"eth">>)

ReplyOf(o) ==
  CASE o.name = "reset" -> <<"SUCCESS">>
    [] o.name \notin {"sThr", "gThr", "sMask", "reset"} -> <<"INVALID COMMAND">>
    [] o.name \in {"sThr", "gThr", "sMask"} /\ o.key # <<"low">> -> <<"INVALID PARAMETER">>
    [] o.name \in {"sThr", "gThr"} /\ o.key = <<"low">> -> <<"=">> \o thr'
    [] o.name = "sMask" /\ o.key = <<"low">> -> mask'

(* A command that came whole does what it says and no more, and is         *)
(* answered with its own reply if it builds one, whatever was sent before  *)
(* by the client or the other one: of the params they share no character   *)
(* gets into it. It does not say what gSer and a reset of something else   *)
(* are answered, nor what becomes of the digits a short mask leaves out.   *)
MeansWhatItSays ==
  [][ \A c \in Clients : \A o \in Orders[c] :
        /\ rx[c] = Line(o) /\ Fits(o)
        /\ ~(o.name = "reset" /\ o.key = <<"sys">>)
        /\ TCPConnectedTask(c)
        => /\ Does(c, o)
           /\ Answers(o) => retData' = ReplyOf(o) /\ owed'[c] = owed[c] - 1 ]_vars

(* And of any text that fits, pieces and several lines included, the       *)
(* strings the handlers get have no character that is not in it. Only in   *)
(* the parameters a command leaves out, and only if the start of another   *)
(* one is before it in the text, there may be characters of a former text. *)
NoLeftovers ==
  \A c \in Clients :
    LET ps == Parse(Text(c))
        alone == \A i, j \in DOMAIN rx[c] : rx[c][i] = SOL /\ rx[c][j] = SOL => i = j
    IN waiting = {} /\ Len(rx[c]) < MaxLine /\ ps.st = "valid" =>
         \A p \in Params : p <= ps.p \/ alone =>
           Range(Str(ps.params[p])) \subseteq Range(rx[c])

(* However lines are cut and joined on the way, there is at most one       *)
(* answer to each, so a client that counts them is never ahead: but for    *)
(* one answer to what was asked before it connected.                       *)
AtMostOneAnswer == \A c \in Clients : owed[c] >= IF c \in heirs THEN -1 ELSE 0

(* As long as its connection lasts, a client that sends whole lines and    *)
(* waits is answered, or its command is still under way: only a command    *)
(* whose reply is an empty string leaves it without. No line of it is lost *)
(* with what TCPDiscard drops, or passed over as no command.               *)
CarefulAnswered ==
  \A c \in Careful : owed[c] > 0 =>
    wire[c] # <<>> \/ rx[c] # <<>> \/ c \in waiting \/ c \in unsaid
=============================================================================
