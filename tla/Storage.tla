------------------------------ MODULE Storage ------------------------------
(***************************************************************************)
(* What the PCM keeps without power, the settings in the EEPROM (Settings) *)
(* and the calibration in flash (Calibration), under one power supply and  *)
(* one main loop: a start reads both, the settings first; then one command *)
(* at a time changes the one or the other; the power fails for both.       *)
(***************************************************************************)
EXTENDS Settings

CONSTANTS NumRows,   \* the rows of the calibration table
          PerBlock   \* those in a block of flash

ASSUME TableAssumption == NumRows \in Nat \ {0} /\ PerBlock \in Nat \ {0}

VARIABLES phase, adcParams, flash, next, saved, whole

calvars == <<phase, adcParams, flash, next, saved, whole>>

Cal == INSTANCE Calibration WITH Rows <- Bytes

(* eeROMinit comes before iniADCParams, a command after the one before.    *)
Starting == phase = "off"
Ready == pc = "run" /\ pending = <<>>

StorageInit == Init /\ Cal!Init

StorageNext ==
  \/ (Load \/ NoMarker \/ SavePage) /\ Starting /\ UNCHANGED calvars
  \/ phase = "up" /\ UNCHANGED calvars
       /\ \/ \E f \in Fields : SetField(f)
          \/ \E first \in Addrs, len \in 0 .. MaxLen : SetEthernetConfig(first, len)
          \/ WriteNext
  \/ Ready /\ Cal!Next /\ UNCHANGED vars
  \/ Crash /\ Cal!Restart

StorageSpec == StorageInit /\ [][StorageNext]_<<vars, calvars>>

(* A calibration that was saved is in effect after every start until       *)
(* another save begins, whatever became of the settings meanwhile.         *)
SavedComesBack == Cal!SavedComesBack
=============================================================================
