---------------------------- MODULE PortControl ----------------------------
(***************************************************************************)
(* The power-port controller of the PCM: the eight switched outputs, the   *)
(* two bus-voltage monitors with hysteresis, load shedding when the        *)
(* battery-backed bus is low, and the client commands that change them     *)
(* (PCM_PortControl.h, the se/sMask/sThr handlers of PCM_CmdHandler2.c and *)
(* the main loop of PCM_main.c).                                           *)
(*                                                                         *)
(* Voltages are integers counted in units small enough to hold the         *)
(* hysteresis band; a byte whose bits stand for ports is a set of ports.   *)
(* The settings kept here are the RAM copy; its EEPROM image, and what a   *)
(* power loss in the middle of a write leaves there, is module Settings.   *)
(***************************************************************************)
EXTENDS Integers

CONSTANTS
  Ports,        \* the switched ports, 1..8 in the hardware
  Hyst,         \* the hysteresis added to a threshold on the way up
  Volts,        \* what the two voltage inputs can read
  Masks,        \* the port masks a client sends with sMask
  LowVals,      \* the thresholds a client sends with sThr,low
  BattVals,     \* ... with sThr,batt
  AuxVals,      \* ... with sThr,auxLow
  NumSockets    \* NUM_LISTEN_SOCKETS: commands served per loop pass, at most

ASSUME PortsAssumption == 0 \notin Ports
ASSUME VoltsAssumption ==
  /\ Hyst \in Nat
  /\ Volts \subseteq Int
  /\ LowVals \subseteq Int /\ BattVals \subseteq Int /\ AuxVals \subseteq Int
ASSUME MasksAssumption == Masks \subseteq SUBSET Ports
ASSUME SocketsAssumption == NumSockets \in Nat

VARIABLES
  pc,         \* "off": reset or unpowered, "loop": in the main loop,
              \* "cycle": inside the one-second delay of a power cycle
  served,     \* commands already served in this pass of the loop
  cyc,        \* the port being cycled, 0 when none is
  ioCtrl,     \* IOCtrl: the ports switched on by command
  pins,       \* the CTRL_n outputs that are high
  vStat,      \* voltageStatus of the battery-backed bus
  vStat2,     \* voltageStatus2 of the auxiliary bus
  lvMask,     \* LVmask: the ports kept on when the bus is low
  puMask,     \* PUmask: the ports switched on at boot
  lvTh,       \* LVThreshold
  obTh,       \* onBattThreshold
  lvTh2,      \* ch2Threshold
  bus, bus2,  \* the two bus voltages, moved by the environment
  seen, seen2,\* (history) what the last setIO read of them
  fresh,      \* (history) a setIO has run since the last boot, sMask or sThr
  asked       \* (history) the ports the clients last asked to be on

settings == <<lvMask, puMask, lvTh, obTh, lvTh2>>
power    == <<vStat, vStat2, pins, seen, seen2>>
env      == <<bus, bus2>>
vars     == <<pc, served, cyc, ioCtrl, asked, fresh, power, settings, env>>

Normal  == "N"
Battery == "B"
Low     == "L"

-----------------------------------------------------------------------------
(* Four ways to get the state machine of the battery-backed bus wrong, for *)
(* the mutation runs: the hysteresis forgotten or its sign slipped on the  *)
(* way out of Low, Low never left, Low reached from Normal only.           *)
StatusNoHyst(s, v) ==
  IF s = Low /\ v < lvTh THEN Low
  ELSE IF v < lvTh THEN Low ELSE IF v < obTh THEN Battery ELSE Normal

StatusSignSlip(s, v) ==
  IF s = Low THEN IF v >= lvTh - Hyst THEN Battery ELSE Low
  ELSE IF v < lvTh THEN Low ELSE IF v < obTh THEN Battery ELSE Normal

StatusLatched(s, v) ==
  IF s = Low \/ v < lvTh THEN Low ELSE IF v < obTh THEN Battery ELSE Normal

StatusMissesLow(s, v) ==
  IF s = Battery THEN IF v >= obTh + Hyst THEN Normal ELSE Battery
  ELSE IF v < obTh THEN Battery ELSE Normal

(* The status of the battery-backed bus after one reading v. *)
NextStatus(s, v) ==
  CASE s = Low     -> IF v >= obTh + Hyst THEN Normal
                      ELSE IF v >= lvTh + Hyst THEN Battery ELSE Low
    [] s = Battery -> IF v < lvTh THEN Low
                      ELSE IF v >= obTh + Hyst THEN Normal ELSE Battery
    [] OTHER       -> IF v < lvTh THEN Low
                      ELSE IF v < obTh THEN Battery ELSE Normal

NextStatus2(s, v) ==
  IF v >= lvTh2 + Hyst THEN Normal ELSE IF v < lvTh2 THEN Low ELSE s

(* The outputs for a command state c and a bus status s. *)
Driven(c, s) == IF s = Low THEN c \cap lvMask ELSE c

(* Reads both voltages, moves the flags and drives all the outputs from    *)
(* the command state c.                                                    *)
SetIO(c) ==
  /\ vStat'  = NextStatus(vStat, bus)
  /\ vStat2' = NextStatus2(vStat2, bus2)
  /\ pins'   = Driven(c, vStat')
  /\ seen'   = bus
  /\ seen2'  = bus2
  /\ fresh'  = TRUE

(* Channel 0 stands for all the ports. *)
Chosen(ch) == IF ch = 0 THEN Ports ELSE {ch}

(* (mutation) the commanded outputs driven at once, without setIO *)
UpdateIODirect(ch, on) ==
  /\ ioCtrl' = IF on THEN ioCtrl \cup Chosen(ch) ELSE ioCtrl \ Chosen(ch)
  /\ pins' = ioCtrl'
  /\ UNCHANGED <<vStat, vStat2, seen, seen2, fresh>>

UpdateIO(ch, on) ==
  /\ ioCtrl' = IF on THEN ioCtrl \cup Chosen(ch) ELSE ioCtrl \ Chosen(ch)
  /\ SetIO(ioCtrl')

(* What getIOStatus reports of port p. *)
ReportOf(p) ==
  IF p \in ioCtrl
    THEN IF vStat = Low /\ p \notin lvMask THEN "x" ELSE "1"
    ELSE IF vStat = Low /\ p \notin lvMask THEN "o" ELSE "0"

-----------------------------------------------------------------------------
(* One client command: at most one for each socket in a pass of the loop.  *)
Command ==
  /\ pc = "loop"
  /\ served < NumSockets
  /\ served' = served + 1

SetPower(ch, on) ==
  /\ Command
  /\ UpdateIO(ch, on)
  /\ asked' = IF on THEN asked \cup Chosen(ch) ELSE asked \ Chosen(ch)
  /\ UNCHANGED <<pc, cyc, settings, env>>

(* (mutation) the test that the port is on is forgotten *)
CycleAny(p) ==
  /\ Command
  /\ UpdateIO(p, FALSE)
  /\ pc' = "cycle"
  /\ cyc' = p
  /\ UNCHANGED <<asked, settings, env>>

(* se,<port>,cycle of a port that is on: off, one second of busy waiting... *)
CycleOff(p) ==
  /\ Command
  /\ p \in ioCtrl
  /\ UpdateIO(p, FALSE)
  /\ pc' = "cycle"
  /\ cyc' = p
  /\ UNCHANGED <<asked, settings, env>>

(* ... and on again. Nothing else of the firmware runs in the meantime. *)
CycleOn ==
  /\ pc = "cycle"
  /\ UpdateIO(cyc, TRUE)
  /\ pc' = "loop"
  /\ cyc' = 0
  /\ UNCHANGED <<served, asked, settings, env>>

(* The outputs follow a new mask or threshold at the next setIO only. *)
SetMaskLow(m) ==
  /\ Command
  /\ lvMask' = m
  /\ fresh' = FALSE
  /\ UNCHANGED <<pc, cyc, ioCtrl, asked, power, puMask, lvTh, obTh, lvTh2, env>>

SetMaskBoot(m) ==
  /\ Command
  /\ puMask' = m
  /\ UNCHANGED <<pc, cyc, ioCtrl, asked, fresh, power, lvMask, lvTh, obTh, lvTh2, env>>

SetThreshold ==
  /\ Command
  /\ \/ lvTh'  \in LowVals  /\ UNCHANGED <<obTh, lvTh2>>
     \/ obTh'  \in BattVals /\ UNCHANGED <<lvTh, lvTh2>>
     \/ lvTh2' \in AuxVals  /\ UNCHANGED <<lvTh, obTh>>
  /\ fresh' = FALSE
  /\ UNCHANGED <<pc, cyc, ioCtrl, asked, power, lvMask, puMask, env>>

(* The end of a pass of the loop: setIO after StackTask and MyTCPTask. *)
EndPass ==
  /\ pc = "loop"
  /\ SetIO(ioCtrl)
  /\ served' = 0
  /\ UNCHANGED <<pc, cyc, ioCtrl, asked, settings, env>>

(* Power loss, watchdog or the reset command, at any point. *)
Reset ==
  /\ pc' = "off"
  /\ served' = 0
  /\ cyc' = 0
  /\ ioCtrl' = {}
  /\ asked' = {}
  /\ pins' = {}
  /\ vStat' = Normal
  /\ vStat2' = Normal
  /\ fresh' = FALSE
  /\ UNCHANGED <<seen, seen2, settings, env>>

(* The start of main: all outputs low, then IOCtrl from the boot mask. *)
Boot ==
  /\ pc = "off"
  /\ pc' = "loop"
  /\ ioCtrl' = puMask
  /\ asked' = puMask
  /\ UNCHANGED <<served, cyc, fresh, power, settings, env>>

(* The bus voltages move at any time, in the delay of a cycle included. *)
BusMoves ==
  /\ bus' \in Volts /\ bus2' \in Volts
  /\ UNCHANGED <<pc, served, cyc, ioCtrl, asked, fresh, power, settings>>

-----------------------------------------------------------------------------
Init ==
  /\ pc = "off"
  /\ served = 0
  /\ cyc = 0
  /\ ioCtrl = {} /\ asked = {} /\ pins = {}
  /\ vStat = Normal /\ vStat2 = Normal
  /\ lvMask \in Masks /\ puMask \in Masks
  /\ lvTh \in LowVals /\ obTh \in BattVals /\ lvTh2 \in AuxVals
  /\ bus \in Volts /\ bus2 \in Volts
  /\ seen = bus /\ seen2 = bus2
  /\ fresh = FALSE

Next ==
  \/ \E ch \in Ports \cup {0}, on \in BOOLEAN : SetPower(ch, on)
  \/ \E p \in Ports : CycleOff(p)
  \/ CycleOn
  \/ \E m \in Masks : SetMaskLow(m)
  \/ \E m \in Masks : SetMaskBoot(m)
  \/ SetThreshold
  \/ EndPass
  \/ Reset
  \/ Boot
  \/ BusMoves

(* The super-loop runs for ever: a pass ends, a delay ends, a boot ends. *)
Fairness == WF_vars(EndPass) /\ WF_vars(CycleOn) /\ WF_vars(Boot)

Spec == Init /\ [][Next]_vars
FairSpec == Spec /\ Fairness

-----------------------------------------------------------------------------
(* The thresholds are in the order the controller needs; nothing in sThr   *)
(* enforces it, so the properties below that need it say so.               *)
Ordered == lvTh <= obTh

TypeOK ==
  /\ pc \in {"off", "loop", "cycle"}
  /\ served \in 0 .. NumSockets
  /\ cyc \in Ports \cup {0}
  /\ ioCtrl \in SUBSET Ports /\ pins \in SUBSET Ports /\ asked \in SUBSET Ports
  /\ lvMask \in SUBSET Ports /\ puMask \in SUBSET Ports
  /\ vStat \in {Normal, Battery, Low} /\ vStat2 \in {Normal, Low}
  /\ lvTh \in Int /\ obTh \in Int /\ lvTh2 \in Int
  /\ bus \in Volts /\ bus2 \in Volts /\ seen \in Volts /\ seen2 \in Volts
  /\ fresh \in BOOLEAN

(* Load shedding (setLowVoltageFlags and setIO): once the settings have    *)
(* been through a setIO, a bus last read below its low threshold powers no *)
(* port outside the low-voltage mask, whatever was the status before, the  *)
(* commands served since and the ports being cycled; and a low auxiliary   *)
(* bus is flagged.                                                         *)
UnderVoltageSheds ==
  fresh => /\ Ordered /\ seen < lvTh => pins \subseteq lvMask
           /\ seen2 < lvTh2 => vStat2 = Low

(* The other side: a bus last read a band above the on-battery threshold   *)
(* powers every port that is switched on, whatever path led there.         *)
FullPowerWhenNormal ==
  fresh /\ Ordered /\ seen >= obTh + Hyst => vStat = Normal /\ pins = ioCtrl

(* The status reply of getIOStatus shows '1' for exactly the outputs that  *)
(* are high; only between an sMask and the next setIO can it be wrong.     *)
ReportMatchesPins ==
  fresh => \A p \in Ports : ReportOf(p) = "1" <=> p \in pins

(* A port is on exactly when the last boot or client command that named it *)
(* asked for it: a cycle, even one that spans a bus failure, gives back    *)
(* the state it found and never switches on a port that was off.           *)
IntentKept ==
  pc # "off" => ioCtrl = IF pc = "cycle" THEN asked \ {cyc} ELSE asked

(* No chatter (the hysteresis): while the readings and the settings stay   *)
(* the same, further setIO calls change neither status, so no output       *)
(* toggles by itself.                                                      *)
SteadyVoltageSteadyStatus ==
  [][ fresh /\ fresh' /\ Ordered /\ seen' = seen /\ seen2' = seen2
      => vStat' = vStat /\ vStat2' = vStat2 ]_vars

(* A shed port is powered again only after a reading a full band above the *)
(* low threshold: no command (on, cycle) is a way around the shedding.     *)
RestoreNeedsHysteresis ==
  [][ fresh /\ fresh' /\ Ordered /\ vStat = Low
      /\ (\E p \in pins' \ pins : p \notin lvMask)
      => seen' >= lvTh + Hyst ]_vars

(* A bus that falls below its low threshold is shed in the end, whatever   *)
(* clients keep sending, unless it recovers or the thresholds are          *)
(* misordered by then.                                                     *)
ShedEventually ==
  (bus < lvTh) ~> (pins \subseteq lvMask \/ bus >= lvTh \/ ~Ordered)

(* If the bus stays a band above the on-battery threshold and the firmware *)
(* stays up, all the ports that are switched on end up powered for good.   *)
RestoredEventually ==
  <>[](pc # "off" /\ Ordered /\ bus >= obTh + Hyst)
    => <>[](vStat = Normal /\ pins = ioCtrl)
=============================================================================
