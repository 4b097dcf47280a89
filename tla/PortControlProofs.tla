------------------------- MODULE PortControlProofs -------------------------
(***************************************************************************)
(* Proofs about PortControl, for any set of ports, any voltages and any    *)
(* masks and thresholds the clients send.                                  *)
(*                                                                         *)
(* The properties are not inductive by themselves: what a setIO leaves     *)
(* behind is that its reading has settled the status (reading the same     *)
(* voltage again would not move it) and that the outputs follow the        *)
(* command state and the status. That is Settled, and it survives every    *)
(* step until the settings change.                                         *)
(***************************************************************************)
EXTENDS PortControl, TLAPS

Status == {Normal, Battery, Low}

Settled ==
  fresh => /\ pins = Driven(ioCtrl, vStat)
           /\ Ordered => NextStatus(vStat, seen) = vStat
           /\ NextStatus2(vStat2, seen2) = vStat2

CycleRemembered == pc = "cycle" => cyc \in Ports /\ cyc \in asked

OffIsStale == pc = "off" => ~fresh

IInv == TypeOK /\ Settled /\ IntentKept /\ CycleRemembered /\ OffIsStale

-----------------------------------------------------------------------------
(* One reading keeps a status in its range. *)
LEMMA StatusType ==
  ASSUME NEW s \in Status, NEW v
  PROVE  NextStatus(s, v) \in Status
  BY DEF NextStatus, Status, Normal, Battery, Low

(* With ordered thresholds one reading settles the status: a second        *)
(* reading of the same voltage does not move it (setLowVoltageFlags).      *)
LEMMA StatusSettles ==
  ASSUME TypeOK, Ordered, NEW s \in Status, NEW v \in Int
  PROVE  NextStatus(NextStatus(s, v), v) = NextStatus(s, v)
  BY VoltsAssumption
  DEF NextStatus, Status, Normal, Battery, Low, TypeOK, Ordered

(* The same for the auxiliary bus, whatever its threshold. *)
LEMMA Status2Settles ==
  ASSUME TypeOK, NEW s \in {Normal, Low}, NEW v \in Int
  PROVE  /\ NextStatus2(s, v) \in {Normal, Low}
         /\ NextStatus2(NextStatus2(s, v), v) = NextStatus2(s, v)
  BY VoltsAssumption DEF NextStatus2, Normal, Low, TypeOK

(* Every setIO, whichever handler calls it, leaves a settled status and    *)
(* outputs that follow it.                                                 *)
LEMMA SetIOSettles ==
  ASSUME TypeOK, UNCHANGED settings,
         ioCtrl' \in SUBSET Ports, SetIO(ioCtrl')
  PROVE  /\ Settled'
         /\ vStat' \in Status /\ vStat2' \in {Normal, Low}
         /\ pins' \in SUBSET Ports
         /\ seen' \in Volts /\ seen2' \in Volts /\ fresh' = TRUE
  <1>1. vStat \in Status /\ vStat2 \in {Normal, Low} /\ bus \in Int /\ bus2 \in Int
    BY VoltsAssumption DEF TypeOK, Status
  <1>2. UNCHANGED <<lvMask, lvTh, obTh, lvTh2>>
    BY DEF settings
  <1>3. vStat' = NextStatus(vStat, bus) /\ vStat' \in Status
    BY <1>1, StatusType DEF SetIO
  <1>4. vStat2' = NextStatus2(vStat2, bus2) /\ vStat2' \in {Normal, Low}
    BY <1>1, Status2Settles DEF SetIO
  <1>5. pins' = Driven(ioCtrl, vStat)' /\ pins' \in SUBSET Ports
    BY <1>2 DEF SetIO, Driven
  <1>6. seen' = bus /\ seen2' = bus2 /\ fresh' = TRUE
    BY DEF SetIO
  <1>7. Ordered' => NextStatus(vStat, seen)' = vStat'
    <2>1. SUFFICES ASSUME Ordered'
                   PROVE  NextStatus(vStat', bus) = vStat'
      BY <1>2, <1>6 DEF NextStatus
    <2>2. Ordered
      BY <2>1, <1>2 DEF Ordered
    <2>3. QED
      BY <2>2, <1>1, <1>3, StatusSettles
  <1>8. NextStatus2(vStat2, seen2)' = vStat2'
    <2>1. NextStatus2(vStat2', bus2) = vStat2'
      BY <1>1, <1>4, Status2Settles
    <2>2. QED
      BY <2>1, <1>2, <1>6 DEF NextStatus2
  <1>9. seen' \in Volts /\ seen2' \in Volts
    BY <1>6 DEF TypeOK
  <1>10. QED
    BY <1>3, <1>4, <1>5, <1>6, <1>7, <1>8, <1>9 DEF Settled

-----------------------------------------------------------------------------
LEMMA InitIInv == Init => IInv
  <1> SUFFICES ASSUME Init PROVE IInv
    OBVIOUS
  <1>1. TypeOK
    <2>1. served \in 0 .. NumSockets
      BY SocketsAssumption DEF Init
    <2>2. lvTh \in Int /\ obTh \in Int /\ lvTh2 \in Int
      BY VoltsAssumption DEF Init
    <2>3. lvMask \in SUBSET Ports /\ puMask \in SUBSET Ports
      BY MasksAssumption DEF Init
    <2>4. QED
      BY <2>1, <2>2, <2>3 DEF Init, TypeOK
  <1>2. Settled /\ IntentKept /\ CycleRemembered /\ OffIsStale
    BY DEF Init, Settled, IntentKept, CycleRemembered, OffIsStale
  <1>3. QED
    BY <1>1, <1>2 DEF IInv

(* The steps that serve a command leave served in its range. *)
LEMMA CommandType ==
  ASSUME TypeOK, Command
  PROVE  served' \in 0 .. NumSockets
  BY SocketsAssumption DEF TypeOK, Command

(* The commands name ports, and only cycle remembers one. *)
LEMMA ChosenPorts ==
  ASSUME NEW ch \in Ports \cup {0}
  PROVE  Chosen(ch) \subseteq Ports /\ (ch # 0 => Chosen(ch) = {ch})
  BY DEF Chosen

LEMMA NextIInv == IInv /\ [Next]_vars => IInv'
  <1> SUFFICES ASSUME IInv, [Next]_vars
               PROVE  IInv'
    OBVIOUS
  <1> USE DEF IInv
  <1>1. ASSUME NEW ch \in Ports \cup {0}, NEW on \in BOOLEAN, SetPower(ch, on)
        PROVE  IInv'
    <2>1. /\ Command /\ pc = "loop" /\ pc' = "loop" /\ UNCHANGED <<cyc, settings, env>>
          /\ SetIO(ioCtrl') /\ UNCHANGED settings
      BY <1>1 DEF SetPower, UpdateIO, Command
    <2>2. ioCtrl' = asked' /\ ioCtrl' \in SUBSET Ports
      BY <1>1, <2>1, ChosenPorts DEF SetPower, UpdateIO, IntentKept, TypeOK
    <2>3. QED
      BY <2>1, <2>2, SetIOSettles, CommandType
      DEF TypeOK, Status, IntentKept, CycleRemembered, OffIsStale, settings, env
  <1>2. ASSUME NEW p \in Ports, CycleOff(p)
        PROVE  IInv'
    <2>1. /\ Command /\ pc = "loop" /\ pc' = "cycle" /\ cyc' = p /\ p \in ioCtrl
          /\ SetIO(ioCtrl') /\ UNCHANGED <<asked, settings, env>>
      BY <1>2 DEF CycleOff, UpdateIO, Command
    <2>2. ioCtrl' = asked \ {p} /\ ioCtrl' \in SUBSET Ports /\ p \in asked
      BY <1>2, <2>1, PortsAssumption DEF CycleOff, UpdateIO, IntentKept, TypeOK, Chosen
    <2>3. QED
      BY <2>1, <2>2, SetIOSettles, CommandType
      DEF TypeOK, Status, IntentKept, CycleRemembered, OffIsStale, settings, env
  <1>3. CASE CycleOn
    <2>1. /\ pc = "cycle" /\ pc' = "loop" /\ cyc' = 0 /\ cyc \in Ports /\ cyc \in asked
          /\ SetIO(ioCtrl') /\ UNCHANGED <<served, asked, settings, env>>
      BY <1>3 DEF CycleOn, UpdateIO, CycleRemembered
    <2>2. ioCtrl' = asked /\ ioCtrl' \in SUBSET Ports
      BY <1>3, <2>1, PortsAssumption DEF CycleOn, UpdateIO, IntentKept, TypeOK, Chosen
    <2>3. QED
      BY <2>1, <2>2, SetIOSettles
      DEF TypeOK, Status, IntentKept, CycleRemembered, OffIsStale, settings, env
  <1>4. ASSUME NEW m \in Masks, SetMaskLow(m)
        PROVE  IInv'
    <2>1. TypeOK'
      BY <1>4, MasksAssumption, CommandType DEF SetMaskLow, TypeOK, power, env
    <2>2. QED
      BY <1>4, <2>1
      DEF SetMaskLow, Command, Settled, IntentKept, CycleRemembered, OffIsStale
  <1>5. ASSUME NEW m \in Masks, SetMaskBoot(m)
        PROVE  IInv'
    <2>1. TypeOK'
      BY <1>5, MasksAssumption, CommandType DEF SetMaskBoot, TypeOK, power, env
    <2>2. Settled'
      BY <1>5 DEF SetMaskBoot, Settled, power, Driven, NextStatus, NextStatus2, Ordered
    <2>3. QED
      BY <1>5, <2>1, <2>2
        DEF SetMaskBoot, Command, IntentKept, CycleRemembered, OffIsStale
  <1>6. CASE SetThreshold
    <2>1. TypeOK'
      BY <1>6, VoltsAssumption, CommandType DEF SetThreshold, TypeOK, power, env
    <2>2. QED
      BY <1>6, <2>1
      DEF SetThreshold, Command, Settled, IntentKept, CycleRemembered, OffIsStale
  <1>7. CASE EndPass
    <2>1. /\ pc = "loop" /\ pc' = pc /\ served' = 0 /\ SetIO(ioCtrl')
          /\ UNCHANGED <<cyc, ioCtrl, asked, settings, env>>
      BY <1>7 DEF EndPass
    <2>2. /\ Settled' /\ vStat' \in Status /\ vStat2' \in {Normal, Low}
          /\ pins' \in SUBSET Ports
          /\ seen' \in Volts /\ seen2' \in Volts /\ fresh' = TRUE
      BY <2>1, SetIOSettles DEF TypeOK
    <2>3. TypeOK'
      BY <2>1, <2>2, SocketsAssumption DEF TypeOK, Status, settings, env
    <2>4. QED
      BY <2>1, <2>2, <2>3 DEF IntentKept, CycleRemembered, OffIsStale
  <1>8. CASE Reset
    <2>1. TypeOK'
      <3>1. served' \in 0 .. NumSockets
        BY <1>8, SocketsAssumption DEF Reset
      <3>2. QED
        BY <1>8, <3>1 DEF Reset, TypeOK, settings, env
    <2>2. QED
      BY <1>8, <2>1
      DEF Reset, Settled, IntentKept, CycleRemembered, OffIsStale
  <1>9. CASE Boot
    <2>1. TypeOK'
      BY <1>9 DEF Boot, TypeOK, power, settings, env
    <2>2. Settled'
      BY <1>9 DEF Boot, Settled, OffIsStale, power, settings
    <2>3. QED
      BY <1>9, <2>1, <2>2 DEF Boot, IntentKept, CycleRemembered, OffIsStale
  <1>10. CASE BusMoves
    <2>1. TypeOK'
      BY <1>10 DEF BusMoves, TypeOK, power, settings
    <2>2. Settled'
      BY <1>10
      DEF BusMoves, Settled, power, settings, Driven, NextStatus, NextStatus2, Ordered
    <2>3. QED
      BY <1>10, <2>1, <2>2 DEF BusMoves, IntentKept, CycleRemembered, OffIsStale
  <1>11. CASE UNCHANGED vars
    BY <1>11
    DEF vars, power, settings, env, TypeOK, Settled, IntentKept, CycleRemembered, OffIsStale,
        Driven, NextStatus, NextStatus2, Ordered
  <1>12. QED
    BY <1>1, <1>2, <1>3, <1>4, <1>5, <1>6, <1>7, <1>8, <1>9, <1>10, <1>11 DEF Next

(* The inductive invariant holds in every reachable state. *)
THEOREM Invariance == Spec => []IInv
  BY InitIInv, NextIInv, PTL DEF Spec

-----------------------------------------------------------------------------
(* Type correctness of the port controller. *)
THEOREM TypeCorrect == Spec => []TypeOK
  <1>1. IInv => TypeOK
    BY DEF IInv
  <1>2. QED
    BY <1>1, Invariance, PTL

(* A settled status below the low threshold is Low, and a settled status   *)
(* a band above the on-battery threshold is Normal.                        *)
LEMMA SettledStatus ==
  ASSUME IInv, fresh
  PROVE  /\ Ordered /\ seen < lvTh => vStat = Low
         /\ Ordered /\ seen >= obTh + Hyst => vStat = Normal
         /\ seen2 < lvTh2 => vStat2 = Low
  <1>1. seen \in Int /\ seen2 \in Int /\ lvTh \in Int /\ obTh \in Int /\ lvTh2 \in Int
        /\ Hyst \in Nat
    BY VoltsAssumption DEF IInv, TypeOK
  <1>2. vStat \in {Normal, Battery, Low} /\ vStat2 \in {Normal, Low}
    BY DEF IInv, TypeOK
  <1>3. /\ Ordered => NextStatus(vStat, seen) = vStat
        /\ NextStatus2(vStat2, seen2) = vStat2
    BY DEF IInv, Settled
  <1>4. Ordered /\ seen < lvTh => vStat = Low
    BY <1>1, <1>2, <1>3 DEF NextStatus, Ordered, Normal, Battery, Low
  <1>5. Ordered /\ seen >= obTh + Hyst => vStat = Normal
    BY <1>1, <1>2, <1>3 DEF NextStatus, Ordered, Normal, Battery, Low
  <1>6. seen2 < lvTh2 => vStat2 = Low
    BY <1>1, <1>2, <1>3 DEF NextStatus2, Normal, Low
  <1>7. QED
    BY <1>4, <1>5, <1>6

(* Load shedding: a bus last read below its low threshold powers no port   *)
(* outside the low-voltage mask (setIO, setLowVoltageFlags).               *)
THEOREM ShedsLoad == Spec => []UnderVoltageSheds
  <1>1. IInv => UnderVoltageSheds
    BY SettledStatus DEF IInv, Settled, UnderVoltageSheds, Driven
  <1>2. QED
    BY <1>1, Invariance, PTL

(* A recovered bus powers every port that is switched on. *)
THEOREM PowersLoad == Spec => []FullPowerWhenNormal
  <1>1. IInv => FullPowerWhenNormal
    BY SettledStatus DEF IInv, Settled, FullPowerWhenNormal, Driven, Normal, Low
  <1>2. QED
    BY <1>1, Invariance, PTL

(* getIOStatus shows '1' for exactly the outputs that are high. *)
THEOREM ReportTruthful == Spec => []ReportMatchesPins
  <1>1. IInv => ReportMatchesPins
    BY DEF IInv, Settled, ReportMatchesPins, Driven, ReportOf
  <1>2. QED
    BY <1>1, Invariance, PTL

(* A port is on exactly when the last boot or command that named it asked  *)
(* for it, outside the delay of its own power cycle.                       *)
THEOREM IntentTracked == Spec => []IntentKept
  <1>1. IInv => IntentKept
    BY DEF IInv
  <1>2. QED
    BY <1>1, Invariance, PTL

-----------------------------------------------------------------------------
(* A step between two fresh states either reads the voltages or leaves     *)
(* the status and the outputs alone.                                       *)
LEMMA FreshSteps ==
  ASSUME IInv, [Next]_vars, fresh, fresh'
  PROVE  \/ SetIO(ioCtrl') /\ UNCHANGED settings
         \/ UNCHANGED <<vStat, vStat2, pins>>
  <1>1. CASE \E ch \in Ports \cup {0}, on \in BOOLEAN : SetPower(ch, on)
    BY <1>1 DEF SetPower, UpdateIO
  <1>2. CASE \E p \in Ports : CycleOff(p)
    BY <1>2 DEF CycleOff, UpdateIO
  <1>3. CASE CycleOn
    BY <1>3 DEF CycleOn, UpdateIO
  <1>4. CASE \E m \in Masks : SetMaskLow(m)
    BY <1>4 DEF SetMaskLow
  <1>5. CASE \E m \in Masks : SetMaskBoot(m)
    BY <1>5 DEF SetMaskBoot, power
  <1>6. CASE SetThreshold
    BY <1>6 DEF SetThreshold
  <1>7. CASE EndPass
    BY <1>7 DEF EndPass
  <1>8. CASE Reset
    BY <1>8 DEF Reset
  <1>9. CASE Boot
    BY <1>9 DEF Boot, power
  <1>10. CASE BusMoves
    BY <1>10 DEF BusMoves, power
  <1>11. CASE UNCHANGED vars
    BY <1>11 DEF vars, power
  <1>12. QED
    BY <1>1, <1>2, <1>3, <1>4, <1>5, <1>6, <1>7, <1>8, <1>9, <1>10, <1>11 DEF Next

(* No chatter: with the same readings and settings neither status moves.   *)
THEOREM NoChatter == Spec => SteadyVoltageSteadyStatus
  <1>1. ASSUME IInv, [Next]_vars, fresh, fresh', Ordered, seen' = seen, seen2' = seen2
        PROVE  vStat' = vStat /\ vStat2' = vStat2
    <2>1. CASE SetIO(ioCtrl') /\ UNCHANGED settings
      <3>1. vStat' = NextStatus(vStat, seen) /\ vStat2' = NextStatus2(vStat2, seen2)
        BY <1>1, <2>1 DEF SetIO
      <3>2. QED
        BY <1>1, <3>1 DEF IInv, Settled
    <2>2. CASE UNCHANGED <<vStat, vStat2, pins>>
      BY <2>2
    <2>3. QED
      BY <1>1, <2>1, <2>2, FreshSteps
  <1>2. IInv /\ [Next]_vars
        => [ fresh /\ fresh' /\ Ordered /\ seen' = seen /\ seen2' = seen2
             => vStat' = vStat /\ vStat2' = vStat2 ]_vars
    BY <1>1
  <1>3. QED
    BY <1>2, Invariance, PTL DEF Spec, SteadyVoltageSteadyStatus

(* A shed port comes back only after a reading a full band above the low   *)
(* threshold.                                                              *)
THEOREM NoWayAround == Spec => RestoreNeedsHysteresis
  <1>1. ASSUME IInv, [Next]_vars, fresh, fresh', Ordered, vStat = Low,
               NEW p \in pins' \ pins, p \notin lvMask
        PROVE  seen' >= lvTh + Hyst
    <2>1. SetIO(ioCtrl') /\ UNCHANGED settings
      BY <1>1, FreshSteps
    <2>2. vStat' # Low
      BY <1>1, <2>1 DEF SetIO, Driven, settings
    <2>3. bus \in Int /\ lvTh \in Int /\ obTh \in Int /\ Hyst \in Nat
      BY <1>1, VoltsAssumption DEF IInv, TypeOK
    <2>4. bus >= lvTh + Hyst
      BY <1>1, <2>1, <2>2, <2>3 DEF SetIO, NextStatus, Ordered
    <2>5. QED
      BY <2>1, <2>4 DEF SetIO
  <1>2. IInv /\ [Next]_vars
        => [ fresh /\ fresh' /\ Ordered /\ vStat = Low
             /\ (\E p \in pins' \ pins : p \notin lvMask)
             => seen' >= lvTh + Hyst ]_vars
    BY <1>1
  <1>3. QED
    BY <1>2, Invariance, PTL DEF Spec, RestoreNeedsHysteresis
=============================================================================
