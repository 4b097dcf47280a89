-------------------------------- MODULE Tick --------------------------------
(***************************************************************************)
(* The tick counter (tcpip/Tick.c): a 16-bit hardware timer whose overflow *)
(* raises a flag, an interrupt that extends it with dwInternalTicks, and   *)
(* GetTickCopy, which reads the two in separate instructions while the     *)
(* timer runs and the interrupt waits. One action per access.              *)
(*                                                                         *)
(* Bound: the timer overflows at most once during a call (rolled). The     *)
(* timer takes over a second to go round, a call some tens of instructions.*)
(***************************************************************************)
EXTENDS Integers

CONSTANTS LoMax, HiMax, TopMax  \* the largest value of TMR0L, TMR0H and
                                \* dwInternalTicks: 255, 255, 2^32 - 1

ASSUME DigitsAssumption == LoMax \in Nat /\ HiMax \in Nat /\ TopMax \in Nat

VARIABLES
  tmrL, tmrH,       \* the running timer
  latchH,           \* TMR0H as software sees it: latched by a read of TMR0L
  flag,             \* TMR0IF: an overflow not yet counted
  ie,               \* TMR0IE: the interrupt is enabled
  dwInternalTicks,
  reading,          \* vTickReading
  at,               \* the place of the caller in GetTickCopy
  rolled,           \* the timer overflowed since the call began
  time,             \* (history) the time, as counted since TickInit
  sample,           \* (history) the time of the last read of TMR0L
  sampled,          \* (history) there was one in this call
  returned          \* what the last call returned

hw == <<tmrL, tmrH, latchH, flag, dwInternalTicks>>
history == <<time, sample, sampled>>
tickVars == <<tmrL, tmrH, latchH, flag, ie, dwInternalTicks, reading, at, rolled,
              time, sample, sampled, returned>>

TheClock == INSTANCE Clock
  WITH now <- time, calling <- at # "idle", result <- returned

-----------------------------------------------------------------------------
(* The timer counts; the overflow raises the flag. *)
Count ==
  \/ /\ tmrL < LoMax
     /\ tmrL' = tmrL + 1
     /\ UNCHANGED <<tmrH, flag, rolled>>
  \/ /\ tmrL = LoMax /\ tmrH < HiMax
     /\ tmrL' = 0 /\ tmrH' = tmrH + 1
     /\ UNCHANGED <<flag, rolled>>
  \/ /\ tmrL = LoMax /\ tmrH = HiMax
     /\ ~flag /\ ~rolled
     /\ tmrL' = 0 /\ tmrH' = 0
     /\ flag' = TRUE
     /\ rolled' = (at # "idle")

Timer ==
  /\ Count
  /\ time' = TheClock!After(time)
  /\ UNCHANGED <<latchH, ie, dwInternalTicks, reading, at, sample, sampled, returned>>

Inc(t) == IF t = TopMax THEN 0 ELSE t + 1

(* (mutation) the flag is cleared before it is tested *)
TickUpdateLost ==
  /\ ie /\ flag
  /\ flag' = FALSE
  /\ UNCHANGED <<tmrL, tmrH, latchH, dwInternalTicks, ie, reading, at, rolled, history, returned>>

(* ISRTimer0: TickUpdate, when the interrupt is enabled and pending. *)
TickUpdate ==
  /\ ie /\ flag
  /\ dwInternalTicks' = Inc(dwInternalTicks)
  /\ flag' = FALSE
  /\ UNCHANGED <<tmrL, tmrH, latchH, ie, reading, at, rolled, history, returned>>

-----------------------------------------------------------------------------
(* TickGet, called from the main loop. *)
Call ==
  /\ at = "idle"
  /\ at' = "enable"
  /\ rolled' = FALSE
  /\ sampled' = FALSE
  /\ UNCHANGED <<hw, ie, reading, time, sample, returned>>

EnableIE ==
  /\ at = "enable"
  /\ ie' = TRUE
  /\ at' = "disable"
  /\ UNCHANGED <<hw, reading, rolled, history, returned>>

DisableIE ==
  /\ at = "disable"
  /\ ie' = FALSE
  /\ at' = "low"
  /\ UNCHANGED <<hw, reading, rolled, history, returned>>

(* Reading the low byte latches the high one. *)
ReadLow ==
  /\ at = "low"
  /\ reading' = [reading EXCEPT ![1] = tmrL]
  /\ latchH' = tmrH
  /\ sample' = time
  /\ sampled' = TRUE
  /\ at' = "high"
  /\ UNCHANGED <<tmrL, tmrH, flag, ie, dwInternalTicks, rolled, time, returned>>

ReadHigh ==
  /\ at = "high"
  /\ reading' = [reading EXCEPT ![2] = latchH]
  /\ at' = "ticks"
  /\ UNCHANGED <<hw, ie, rolled, history, returned>>

ReadTicks ==
  /\ at = "ticks"
  /\ reading' = [reading EXCEPT ![3] = dwInternalTicks]
  /\ at' = "check"
  /\ UNCHANGED <<hw, ie, rolled, history, returned>>

(* (mutation) the flag is not looked at *)
CheckNothing ==
  /\ at = "check"
  /\ at' = "idle" /\ ie' = TRUE /\ returned' = reading
  /\ UNCHANGED <<hw, reading, rolled, history>>

(* (mutation) the loop goes back behind the instruction that enables the   *)
(* interrupt                                                               *)
CheckBelow ==
  /\ at = "check"
  /\ \/ flag /\ at' = "low" /\ UNCHANGED <<ie, returned>>
     \/ ~flag /\ at' = "idle" /\ ie' = TRUE /\ returned' = reading
  /\ UNCHANGED <<hw, reading, rolled, history>>

(* An overflow since the interrupt was disabled spoils the reading. *)
Check ==
  /\ at = "check"
  /\ \/ flag /\ at' = "enable" /\ UNCHANGED <<ie, returned>>
     \/ ~flag /\ at' = "idle" /\ ie' = TRUE /\ returned' = reading
  /\ UNCHANGED <<hw, reading, rolled, history>>

GetTickCopy ==
  EnableIE \/ DisableIE \/ ReadLow \/ ReadHigh \/ ReadTicks \/ Check

-----------------------------------------------------------------------------
TickInit ==
  /\ tmrL = 0 /\ tmrH = 0 /\ latchH = 0
  /\ flag = FALSE /\ ie = TRUE
  /\ dwInternalTicks = 0
  /\ reading = <<0, 0, 0>> /\ returned = <<0, 0, 0>>
  /\ at = "idle" /\ rolled = FALSE
  /\ time = <<0, 0, 0>> /\ sample = <<0, 0, 0>> /\ sampled = FALSE

TickNext == Timer \/ TickUpdate \/ Call \/ GetTickCopy

TickSpec == TickInit /\ [][TickNext]_tickVars

(* The caller keeps executing; the interrupt is taken if it keeps being    *)
(* enabled and pending, be it in the one-instruction window of a loop.     *)
FairTickSpec == TickSpec /\ WF_tickVars(GetTickCopy) /\ SF_tickVars(TickUpdate)

-----------------------------------------------------------------------------
TickTypeOK ==
  /\ tmrL \in 0 .. LoMax /\ tmrH \in 0 .. HiMax /\ latchH \in 0 .. HiMax
  /\ flag \in BOOLEAN /\ ie \in BOOLEAN /\ rolled \in BOOLEAN /\ sampled \in BOOLEAN
  /\ dwInternalTicks \in 0 .. TopMax
  /\ at \in {"idle", "enable", "disable", "low", "high", "ticks", "check"}
  /\ reading \in (0 .. LoMax) \X (0 .. HiMax) \X (0 .. TopMax)
  /\ {time, sample, returned} \subseteq (0 .. LoMax) \X (0 .. HiMax) \X (0 .. TopMax)

(* Every overflow is counted once: the running timer, extended by the      *)
(* counted overflows and the one that may be pending, is the time since    *)
(* TickInit, up to the wrap of the top digit.                              *)
NoTickLost ==
  time = <<tmrL, tmrH, IF flag THEN Inc(dwInternalTicks) ELSE dwInternalTicks>>

(* A reading is never torn by an overflow or by the interrupt: TickGet     *)
(* returns what the counter was at an instant of the call (GetTickCopy,    *)
(* "interrupt-safe and synchronized").                                     *)
ReadsTheClock == TheClock!Spec

(* GetTickCopy does not spin for ever on the overflow flag. *)
TickGetReturns == (at # "idle") ~> (at = "idle")
=============================================================================
