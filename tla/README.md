# Verification of the PFS PCM firmware

The PCM (power control module) is a PIC18F67J60 board: it switches eight power
ports, watches two bus voltages and sheds load when the battery-backed one is
low, passes requests on to devices on an RS-232 or RS-485 line, and takes its
commands over TCP. The firmware is one super-loop (`PCM_main.c`) and two
interrupts (the UART's and the tick timer's) over a Microchip TCP/IP stack.
This directory holds TLA+ models of its parts, the TLC runs that check them and
the TLAPS proofs about them. Every definition translates code under `src/`;
`PROJECT.json` gives the lines of each.

## The system

| Component | State | Operations | Interacts with |
|---|---|---|---|
| Port power control (`PCM_PortControl.h`) | `IOCtrl`, two bus statuses, outputs; masks and thresholds in the settings | `setIO` each pass, `updateIO` from `se`, `getIOStatus` | main loop, command handlers |
| Tick counter (`tcpip/Tick.c`) | timer, `dwInternalTicks`, overflow flag and enable | `TickGet`, `TickUpdate` (interrupt) | every timeout of the firmware |
| Serial passthrough (`PCM_Serial.h`) | `UART_BUFFER`, its pointer, `UART_GOT_STRING` | `serialGetSs`, `RDA_isr` (interrupt) | the `#` and `@` commands; calls `StackTask` while it waits |
| TCP command server (`PCM_TCPTask.h`) | state, socket and `lastTick` of each connection | `MyTCPTask`, `TCPConnectedTask` | sockets of `TCP.c`, `executeCmd` |
| Command interpreter (`PCM_CmdHandler2.c`) | `params`, `retData`, shared by both sockets | `executeCmd` and a handler for each command | all of the above |
| Settings (`PCM_MACProm.h`) | EEPROM block and its RAM copy | `eeROMinit`, `eeSaveRAMtoROM`, `eeWriteByte`, `eeWriteFloat` | sMask, sThr and sEth handlers |
| TCP sockets (`tcpip/TCP.c`, `StackTsk.c`) | socket states, transmit and receive buffers, sequence numbers, timers, SYN queue | `HandleTCPSeg`, `SendTCP`, `TCPTick`, `TCPPutArray`, `TCPGet`, `TCPDisconnect` | server, network |
| DHCP client (`tcpip/DHCP.c`) | state, lease time, flags, address | `DHCPTask`, `_DHCPReceive`, `DHCPInit` from `StackTask` when the link goes | servers, `AppConfig` |
| Calibration (`PCM_CmdHandlerHelper2.h`) | ADC table in RAM and program flash | `readAnalogValues`, `saveADCParams`, `iniADCParams` | rdV, rdC, rdEnv, calX, sCal |
| ARP, IP, ICMP, UDP, Ethernet MAC | the stack's | `StackTask` | TCP, DHCP |

What makes it hard: interrupts between any two accesses of shared bytes (tick,
UART); a serial command that runs `StackTask` in the middle of `MyTCPTask`, so
sockets move under a function that is using them, with a clock read before the
wait; TCP as a byte stream under a parser that expects lines; buffers that two
clients share; segments and answers that are lost, late, repeated and out of
order, against buffers that wrap; timers and retries that race late
acknowledgements; an EEPROM written byte by byte under a power supply the board
itself watches because it may fail; thresholds set one at a time. What makes
each component correct is listed with its module below; `PROJECT.json`
"hazards" names the line where each can go wrong.

## Modules

* **PortControl** (`MCPortControl`): the main loop as far as power goes. A
  variable for each global (`ioCtrl` for `IOCtrl`, `vStat` for
  `voltageStatus`, `pins` for the outputs), `SetIO`, `UpdateIO` and
  `NextStatus` for the functions of that purpose, one action for each command
  handler. A power cycle is two actions, `CycleOff` and `CycleOn`, because the
  bus may fail in the second between them; nothing else of the firmware runs
  then. Voltages are integers, a unit being the hysteresis band in the
  instance; the code compares floats, and no property depends on more than
  their order and the band. `Ordered` states that the low threshold is not
  above the on-battery one: `sThr` does not enforce it, so properties that need
  it say so.
* **Tick**, **Clock**: `TickGet`'s loop, one action for each register read or
  write, against a timer of two digits whose high byte is latched by the read
  of the low one, and an interrupt that fires when the overflow flag is up and
  enabled. `Clock` is what callers may rely on: a call returns the value the
  counter had at one instant of the call. `Tick` implements `Clock` (property
  `ReadsTheClock`), its state mapped by `now <- time`.
* **SerialPort**: `serialGetSs` statement by statement against `RDA_isr`,
  devices that answer late, too long or not at all, and the next request
  meeting the rest of the last answer. Characters carry the request they
  answer. With RS-485 the receiver is switched off while the request is sent;
  the model lets characters arrive then as well, which is what RS-232 does.
* **TcpServer**: `MyTCPTask` and the states of its sockets. Actions up to
  `StackTask` are what `TCP.c` does to a socket when its client sends or stops
  sending; they are enabled while the firmware is in `StackTask`, from the main
  loop (`pc = "stack"`) or from a waiting command (`pc = "reply"`). Times are
  kept as ages that saturate at `Cap`, beyond all comparisons.
* **Socket**: the states a listening socket goes through and whether it has
  text to read, which is all that `MyTCPTask` relies on. Two modules implement
  it: `TcpServer` (property `KeepsToSockets`, for each of its sockets) and, from
  the end of the handshake on, `TcpSend` (property `IsSocket`).
* **TcpSend**: the send side of one connection. The socket is one record, named
  after the fields of the TCB; what `SendTCP` does to it is an operator, because
  a handler may send more than once, and so are the steps of `HandleTCPSeg`
  (`TooFar`, `AckOf`, `Bytes`, `TimerOff`, `Window`, `FinWait2`, `PeerFin`), each
  over the result of the one before. What a handler may make of socket and
  client is a set of such works, one for each way the segments it sends are
  lost. Actions are a segment of the client, what `TCPTick` does, and what the
  application asks for. A segment to the client is
  received at once or lost; its acknowledgements, late and repeated ones
  included, arrive at any time with any window. Timers run out whenever they
  are on, which covers all their lengths. A byte is its position in the stream;
  `Garbage` is the byte of a keep-alive, which no client may take for text.
* **RxFifo**, **ByteStream**: the receive side of one connection. `HandleTCPSeg`
  copies text into a circular buffer in the Ethernet RAM, behind at most one
  hole; `MyTCPTask` reads it with `TCPGet` or throws it away. `ByteStream` is
  what an application is promised, and `RxFifo` implements it (property
  `IsByteStream`), the bytes that wait being the cells between the pointers.
  The 16-bit casts of the acceptance test are kept (`Short`).
* **Dhcp** (`MCDhcp`): `DHCPTask`, `_DHCPReceive` and the part of `StackTask`
  that watches the link, with servers that grant, refuse or forget and a network
  that delays and loses. The state `smState` has one name for the three
  renewals, which `try` numbers. The reception copies the address before it
  knows who answers, as the code does.
* **Settings**: the 128-byte block as addresses of a small byte space that
  wraps, with what lies behind it. `may` records the values each byte was given
  or was being given. RAM changes at once when a command starts because nothing
  else runs until its last byte is written.
* **Calibration**: the ADC table in RAM and its copy in program flash, erased
  and then written in blocks. Whether there is a copy is told from its first
  byte, 0 or 1 once it is written.
* **Storage** (`MCSettings`) composes the two: one power supply, one main loop,
  `eeROMinit` before `iniADCParams`, no command before both. It implements
  `Settings`, so the theorems about `Settings` hold in it.
* **Commands** (`MCCommands`): the streams of two clients, the segments TCP
  cuts them into, `TCPConnectedTask`, the parser as a fold over characters, the
  parameters with what earlier texts left in them, dispatch, and `retData`.
  The model has one command of each way to read parameters and to answer. A
  serial command is two actions, `SendSerial` and `SerialReturns`, because
  `serialGetSs` runs `StackTask` while it waits: segments arrive and clients
  connect anew between them (`waiting` has the client whose command it is), but
  no other text is looked at. What it gets is the answer, a late answer to an
  earlier request, an empty string or none, as in `SerialPort`; the reply goes to
  whoever has the socket then, and `TCPPutArray` puts no bytes of an empty one.
  `owed` counts the lines of each connection less its answers; `heirs` are the
  clients that took over the socket of a waiting command, `unsaid` those left
  without an answer by an empty reply.
  Assignments such as `params[i][j]="\0"` are taken to store the terminator,
  as the compiler in use does and every comparison of the code needs. What
  clients may send is a constant, `Orders`; `Line` is the text of an order,
  `Does` what it asks for and `ReplyOf` what it is answered, both said without
  the parser.
* ***Proofs** modules: the theorems about each, from an inductive invariant.
  `InterruptProofs` has those of `Tick` and `SerialPort`, the two modules in
  which an interrupt comes between any two steps; `SettingsProofs` those of
  `Settings`, `Calibration` and `Storage`.

The other modules are composed through what they share, not in one state space:
`TcpServer` takes from `SerialPort` that a command takes up to five seconds and
runs `StackTask`, and from `TcpSend` the `Socket` it polls; `Commands` takes
from `TcpServer` that each poll takes what has arrived, and from `RxFifo` that
this is a piece of the client's stream; `PortControl` and `Settings` hold what
its handlers change.

## Runs

| Run | Question | Bounds, and why they are enough |
|---|---|---|
| `ports` | shedding, restoring, reports, commanded state | 2 ports, one in the mask and one out; 5 voltages, so both thresholds, both bands and both misorderings occur; one command a pass (passes follow each other without limit) |
| `tick` | is a reading a value the counter had | two values for each timer digit, three for the overflow count: every carry, alone and joint, happens in every gap of the loop |
| `serial` | is the answer the answer | buffer of 4, answers of up to 4: one fits, one fills, one overruns; 3 requests, so a leftover can reach the next and the one after |
| `server` | is no client dropped early or late, a socket free again, a request taken; are the sockets those of `Socket` | 1 socket, idle time 2, commands of 2 in a pass: a pass as long as the idle time. What a second socket adds is the lag of its commands, which `MaxLag` counts; the safety properties are proved for every number |
| `server_reply` | does a reply go to who asked (no) | as `server` |
| `rx` | is what is read what was sent | 6 cells and 9 bytes, so the pointers wrap and a hole can lie across the end; every start, length and order of segments; text before, across, inside, beside and behind the remembered bytes |
| `tcp` | does the client get the replies, once, whole and then the end; does a connection without client end | 3 cells and 3 bytes, so the buffer fills and wraps and a reply is cut; segments of 1, windows 0 and 3, one retransmission, one keep-alive, one command in what is read |
| `tcp_stuck` | do closing states end by themselves (no) | as `tcp` |
| `dhcp` | has a bound client a lease; is it bound again | 2 servers, one with two addresses, one that refuses; a lease of 7 of which 5 are kept back, answers that take up to 1, 2 of them under way: all three renewals, late and crossing answers, and an expired lease occur |
| `settings` | is what a restart finds what was set or saved | 4 bytes of 5, pages of 2, two registers and a two-byte field, records of 2 that wrap; two rows of calibration in two blocks of flash |
| `settings_blank` | is an EEPROM never read half written (no) | as `settings` |
| `commands` | is a command its line and nothing else; is a line answered, and once | 2 clients, one that waits for its answers and one that does not; lines of up to 7 characters in a text of 9 of which 8 are looked at, so that two lines may fit or all but the end of the second, and a line may start in the middle of a text; any cutting and joining; both have serial commands, so either may wait while the other goes on or its socket changes hands; 3 parameters, a mask of 2 digits that is sent with 1, 7 orders with either end of line |

A run that answers "no" is expected to fail: it checks a sentence of a comment
in `src/` against the code, and "findings" in `PROJECT.json` quotes it. They are
a reply to the wrong client (`server_reply`), a socket that stays in a closing
state for good because its FIN met a window of zero (`tcp_stuck`), and blank
bytes taken for settings after a failed first start (`settings_blank`).

Other places where the code departs from its comments or from what a reader
expects, each of them in the models and kept out of the properties that hold:

* `serialGetSs` returns TRUE with an empty string if the end of the text comes
  between its two tests of `UART_GOT_STRING` (`PCM_Serial.h:234` and `244`), or
  if the device sends a lone LF. `executeCmd` then puts no bytes and the client
  is not answered (`unsaid` of `Commands`).
* What comes after the capture is opened is taken for the answer, be it the late
  answer to an earlier request (`PCM_Serial.h:206`). `NoStaleCharacters` is only
  about what was there before; what can be said of the rest needs a quiet line.
* The reply to a serial command goes to whoever has the socket when it is there
  (`server_reply`). In `Commands` such a client has an answer to a line it did
  not send, the `heirs` of `AtMostOneAnswer`; it is one at most.
* `gSer`, `sSer`, `reset` of anything but `eth` and `sys`, and a power cycle of
  a port that is off do not write `retData`: the client gets the reply that was built last, perhaps for the other
  client, though the header documents a reply of their own
  (`PCM_CmdHandler2.h:100-105` for `gSer`). `MeansWhatItSays` says of them what
  they do and leaves open what they are answered (`Answers`). `gSer` and
  `reset` are in the model, the other two have its form.
* A mask sent with too few digits is completed from what former commands left in
  the parameter: `sByteToUint` looks at eight characters, whatever ends the
  string. `Does` speaks of the digits that were sent only.
* With the low threshold above the on-battery one, which `sThr` allows, a steady
  voltage between them switches ports off and on at every pass. `Ordered` excepts
  it from the properties on steady voltages.
* `sEth` with address 250 and length 10 passes the range test, whose sum is a
  byte, and is written behind the registers (`PCM_CmdHandler2.c:530`).
* A piece of a line that TCP delivers first is executed as a command, without
  its end (`PCM_CmdHandler2.c:641`). If a start of line comes in the middle of
  a text, the parameters the second command leaves out keep what the first one
  put there, and may keep characters of a former text behind it: only the
  parameter being read is ended. `NoLeftovers` excepts just these.
* A line of exactly 60 characters that ends in CR executes without the end of
  its last parameter: what ends it is the NUL behind the CR, which is not looked
  at any more (`PCM_CmdHandler2.c:641`). `Fits` leaves this line out.
* A power failure during `sCal` leaves a table with rows of erased flash, or
  none, and the next start then uses it, or writes the defaults
  (`PCM_CmdHandlerHelper2.h:77`); `SavedComesBack` ends when a save begins.
* While a lease is renewed, the refusal of any server sets the address asked
  for to 0.0.0.0 before its sender is compared (`DHCP.c:830`), so that the later
  renewals of this lease ask for nothing. The address stays in use after the
  lease is given up, until another is granted or the link goes.
* `FIN_WAIT_2` is entered by an acknowledgement of the last byte that does not
  cover the FIN (`TCP.c:3981`); the connection then ends by a reset.

`CHECK_DEADLOCK FALSE` stands in `serial.cfg` because after `NumReqs` requests
there is nothing left to do, in `tcp.cfg` and `tcp_stuck.cfg` because a
connection that is over does not come back in the model, and in `rx.cfg` because
the stream is used up. Bounds on counters are `NumReqs`, `MaxLen`, `MaxOwed` and
`RxFifo` (a constant of `Commands`), `Total` and `StreamLen` on what is sent,
`Commands` on what is asked at once, `MaxNet` on answers under way; `Cap`,
`MaxLag`, `Life` and `Lease` are those on times.

### Fairness

* `PortControl`: a pass ends, a delay ends, a reset is followed by a boot. The
  main loop never blocks and the watchdog restarts it if it does.
* `Tick`: the processor runs (weak), and an enabled overflow interrupt that is
  pending again and again is served (strong), which the hardware does at the
  next instruction.
* `SerialPort`: the call makes progress; the timeout counts milliseconds and
  runs out. Nothing is assumed of the device.
* `TcpServer`: `MyTCPTask` runs and time passes; a socket that is half open or
  half closed is closed in the end by its peer or by `TCPTick`'s timers. A peer
  that keeps answering in `FIN_WAIT_1` could reset those timers for ever, and one
  that vanishes behind a window of zero stops them (`tcp_stuck`); the model's
  clients finish or fall silent. Nothing is assumed of a connected one.
* `TcpSend`: once the client is silent, `TCPTick` goes on and its timers run
  out, a command under way ends, and `MyTCPTask` drops the client. Nothing is
  assumed while the client is there. `SilentEnds` names the one state it
  excepts, `StuckClosing`, which is what `tcp_stuck` finds.
* `RxFifo`: the client sends again what is not acknowledged, and the application
  reads while there is something to read.
* `Dhcp`: the main loop and time go on (weak). A server asked again and again
  answers in the end if it can in the mode asked for, and an answer that can be
  received again and again is (strong): without it nothing would be owed by a
  client.

`MaxLag` stands for `NumSockets` times five seconds: `sendSerial` limits the
timeout of a request to 500..5000 ms (`PCM_CmdHandler2.c:196-197`), the power
cycle takes one second.

## Proofs

All are for every value of the constants under the named assumptions in the
modules, which only state types and orders of sizes.

* `PortControlProofs`: the safety properties of `ports`. None is inductive: an
  output is right because `setIO` settled it, so `Settled` says that while
  nothing was set since, outputs follow status and command state and a second
  reading of the same voltage would not move the status. `CycleRemembered`
  carries the commanded state across a power cycle.
* `InterruptProofs`, for `Tick`: `NoTickLost` (timer, overflows and pending
  flag add up to the time) and the refinement of `Clock`. `Masked` and
  `ReadSoFar` say what the loop has read so far belongs to one instant unless
  the flag is up.
* `InterruptProofs`, for `SerialPort`: all the invariants of `serial` and
  `FalseMeansNoAnswer`. While `strcpy` runs the capture is closed, so the
  terminator ahead of it does not move (`Copied`). A second invariant,
  `FreshInv`, follows the string in the buffer from `ClearBuffer` on: below its
  end there is only what arrived since the capture was opened (`FreshString`,
  `FreshBelow`). A third, `QuietInv`, is about requests made on a quiet line: the
  answer is split between the wire and the buffer, in order, at every
  instant, and the flag is up only with all of it in the buffer; from it,
  `AnswerExact` and `NoAnswerMissed`.
* `TcpServerProofs`: `NotDroppedEarly` and `NotDroppedLate`. `Patience` bounds
  `age` by what the client did and the other way round, `NoWrap` shows the
  unsigned `currTick - lastTick` does not wrap, `KnownGone` that a socket being
  dropped and connected has a new client. `KeepsToSockets` is proved action by
  action: each maps to a step of `Socket` or a stutter, for any number of
  sockets.
* `SettingsProofs`: `Mirrored` and `OldOrNew`. `Agrees` says that EEPROM and
  RAM differ only where a write is pending, and the pending byte is RAM's;
  `Known` that every byte in either is one it may have. `SettingsInStorage`:
  every step of `Storage` is one of `Settings` or leaves its state alone, so
  both carry over. `CalibrationComesBack`: a table that was saved is what the
  next start reads, by `TableInv`: what a save has written so far is
  the table in RAM, and a whole copy is what was saved and is told from erased
  flash by its first row.
* `RxFifoProofs`: `TypeOK`, `InOrder`, `FutureHeld`, `AckedArrived` and
  `FinIsLast` together are inductive; none is alone, since closing the hole
  makes what was kept behind it part of what may be read. Lemmas about `On`
  and `Ahead` carry the arithmetic of the circular buffer, once for all buffer
  sizes. With that invariant every step maps to a step of `ByteStream` or a
  stutter: text that closes the hole is one `Receive` of both.
* `TcpSendProofs`: all of `tcp` but liveness. `IInv` is `TypeOK` with `Settled`:
  the client has a prefix of what was put, and the end only with all of it
  (`Whole`); the ring between its pointers holds what follows, as the sequence
  number says (`Ring`); what is acknowledged the client has (`Linked`); no FIN
  has left while there is text (`NoFinYet`). The four properties of the replies
  are read off it (`RepliesIntact`, `SeqMatches`, `NoneLost`), and every step
  maps to one of `Socket` (`ImplementsSocket`). It is kept by each operator a
  handler is made of, so a handler is a chain of them; `TCPDisconnect` sends as
  often as a recursive function over the segments gives, and the invariant is
  carried over it by the least number of sends that would break it.
* `CommandsProofs`: all of `commands`. Parsing is a recursive function over the
  characters of the text; `ParseKeeps` says that what holds of its start and is
  kept by each character holds of its result, and is applied with three
  relations between what was read and the state of the parser.
  `OneAnswerEach`: a command needs a start of line, so `AnswerInv` is inductive:
  the starts on the wire and in the buffer and a command that waits are together
  (`Due`) at most the answers owed, and one more for a client that connected
  while a command of its socket waited (`Expected`). `NothingLeftOver`: `Fresh`
  says of each parameter where it was ended, and that what is before its end is
  of this text; `TypeInv` that all are empty while no command waits.
  `LinesObeyed`: `LineAt` says which field of the line is being read and that the
  fields before it are complete; at the end each handler gets the fields, and
  `HandlerMeans` compares it with `Does` and `ReplyOf`. `WholeLinesAnswered`: a
  text that begins with a start of line is a command (`CommandFound`), so the one
  line a careful client has under way is on the wire, in the buffer, waiting or
  answered (`Under`), unless its reply was empty. Of the
  orders it is assumed that names and channels have none of the special
  characters and data none but the comma of a serial command.
* `DhcpProofs`: `TypeOK` and `BoundHasLease`. The lease of the server outlives
  what the client keeps of it: `IInv` bounds the age of the grant by the time
  used up, the renewals so far and the age of the acknowledgement on its way.
  `MarginAssumption` says what is needed: what is kept back lasts for three
  renewals and a late answer. The code keeps back a thirty-second part and
  `DHCP_TIMEOUT` is 5 seconds, so it is true of leases of a quarter of an hour
  and more and of answers that are under way no longer than `DHCP_TIMEOUT`; for
  shorter leases the theorem claims nothing.

Only model-checked: liveness (the provers have no rules for fairness or
`ENABLED`), and the three runs that show a property broken. Every invariant and
every action property of the runs that pass is a theorem. The induction
theorems of the library take an operator as parameter, which no prover here can
instantiate; where a module has a recursion it is over numbers, and what it
computes is proved from the least number that is an exception (`Least`, `UpTo`).
`LinesObeyed` is about lines that came whole; that TCP brings them in pieces,
and what a piece then does, is in `NoLeftovers` and `AtMostOneAnswer` only. It
leaves out `reset,sys`, which disconnects everyone, and says that a serial command
begins to wait with its data sent; that its line is answered or still under
way, and what it may be answered, is in `CarefulAnswered` and `SerialReplies`. The
answers of the commands that write none are left open.

The type invariants of `PortControl`, `RxFifo`, `Dhcp` and `TcpSend`, and `InOrder` and
`FinIsLast` of `RxFifo`, are theorems and are not checked in a run of their own:
`IsByteStream` says of the bytes and the end what an application sees.

## Not modelled

* Handshake and SYN queue (`TCP.c:2426`): a SYN that waits and its
  retransmission may take both sockets. Sockets opened as a client, SSL, and
  the urgent pointer are not used by the firmware.
* ARP, IP, ICMP and UDP: parsing of frames, with no state of their own to speak
  of here. The network of `TcpSend`, `RxFifo` and `Dhcp` does to segments and
  answers what they may do.
* The measuring commands: arithmetic on ADC samples. `gEth` and `gStatus` only
  read. `calEnv` looks its channel up in the table of the voltages and may write
  behind the calibration table (`PCM_CmdHandler2.c:388`).
* `DHCPDisable` and `DHCPEnable` at run time, which nothing calls; the options
  for mask, gateway, DNS and host name.
* `retData` in other modules, wording and number formats of replies, baud rates
  and character formats (the names of `_8o2` and `_8e2` are swapped between
  table and enumeration, `PCM_CmdHandler2.c:61`).
* Duplicates of more than 32 KB ago, for which the casts at `TCP.c:3784` are
  wrong; what 80 characters in `rxData` overwrite.
* Code that is not compiled or never called: `PCM_CmdHandler.c`, the UDP, EZHR,
  ADC and MPT100 tasks, and the protocols `StackTsk2.c` does not include (SNMP,
  SSL, HTTP, mDNS, other Ethernet controllers, and most of the lines of
  `src/tcpip`).
* The Ethernet MAC driver: register I/O of hardware the repository does not
  describe.

## Plan

1. `SynQueue`: two listening sockets, duplicated and delayed SYNs; which client
   may take how many sockets. It refines `Socket` before `established`, where
   `TcpSend` begins.
2. The remaining commands in `Commands`; `gStatus` and `gEth` with what they
   read.
3. The server with two `TcpSend` sockets under it in one state space, as its
   clients see it, for the reply that goes to the wrong one.
