---------------------------- MODULE Calibration ----------------------------
(***************************************************************************)
(* The calibration of the analog inputs (PCM_CmdHandlerHelper2.h): a table *)
(* in RAM that calV, calC and calEnv change, and its copy in the program   *)
(* flash, which sCal writes and each start reads. Flash is erased before   *)
(* it is written, and written in blocks; the first byte of the copy, the   *)
(* voltage reference of the first row, is 0 or 1 once it is written, and   *)
(* tells a start whether there is a copy.                                  *)
(*                                                                         *)
(* A row is its default, what a client gave it, or what erased flash reads *)
(* as. What calEnv writes behind the table is left out: it looks its row   *)
(* up among the names of the voltages, of which there are more.            *)
(***************************************************************************)
EXTENDS Integers

CONSTANTS NumRows,    \* the rows of adcParams
          PerBlock,   \* those in a block of flash
          Rows,       \* the values given to a row; Default is one...
          Default,
          Blank       \* ... and Blank, of erased flash, is not

VARIABLES
  phase,       \* "off", "save": in write_program_memory, "up"
  adcParams,   \* the table in RAM
  flash,       \* its copy
  next,        \* the first row of the block to be written
  saved,       \* (history) the table of the last save that was finished
  whole        \* (history) no save was begun since

cvars == <<phase, adcParams, flash, next, saved, whole>>

Row == 1 .. NumRows
InBlock(r) == next <= r /\ r < next + PerBlock

Init ==
  /\ phase = "off"
  /\ adcParams = [r \in Row |-> Default]
  /\ flash = [r \in Row |-> Blank]
  /\ next = 1
  /\ saved = adcParams /\ whole = FALSE

(* write_program_memory erases what it is to write. *)
Erase ==
  /\ phase' = "save" /\ next' = 1
  /\ flash' = [r \in Row |-> Blank]
  /\ whole' = FALSE
  /\ UNCHANGED <<adcParams, saved>>

(* (mutation) a 1, the external reference of the first row, is taken for   *)
(* erased flash                                                            *)
HasCopyOfZero == FALSE

HasCopy == flash[1] # Blank

(* iniADCParams reads the copy, or writes one if there is none. *)
LoadADCParams ==
  /\ phase = "off" /\ HasCopy
  /\ phase' = "up"
  /\ adcParams' = flash
  /\ UNCHANGED <<flash, next, saved, whole>>

SaveDefaults == phase = "off" /\ ~HasCopy /\ Erase

(* calV, calC, calEnv and sCal. *)
UpdateADCParams ==
  /\ phase = "up"
  /\ \E r \in Row, v \in Rows : adcParams' = [adcParams EXCEPT ![r] = v]
  /\ UNCHANGED <<phase, flash, next, saved, whole>>

SaveADCParams == phase = "up" /\ Erase

WriteBlock ==
  /\ phase = "save"
  /\ flash' = [r \in Row |-> IF InBlock(r) THEN adcParams[r] ELSE flash[r]]
  /\ next' = next + PerBlock
  /\ IF next' <= NumRows
       THEN UNCHANGED <<phase, saved, whole>>
       ELSE phase' = "up" /\ saved' = adcParams /\ whole' = TRUE
  /\ UNCHANGED adcParams

(* The power fails, or the board is reset: a block may be written in part, *)
(* and the table is what the compiler made it.                             *)
Restart ==
  /\ phase' = "off"
  /\ IF phase = "save"
       THEN \E done \in SUBSET {r \in Row : InBlock(r)} :
              flash' = [r \in Row |-> IF r \in done THEN adcParams[r] ELSE flash[r]]
       ELSE UNCHANGED flash
  /\ adcParams' = [r \in Row |-> Default]
  /\ UNCHANGED <<next, saved, whole>>

Next ==
  \/ LoadADCParams \/ SaveDefaults
  \/ UpdateADCParams \/ SaveADCParams \/ WriteBlock

-----------------------------------------------------------------------------
(* A calibration that was saved is in effect after every start, until      *)
(* another save begins: neither the defaults nor what was only tried out   *)
(* take its place, and what tells a copy from erased flash is right.       *)
SavedComesBack ==
  [][ phase = "off" /\ phase' # "off" /\ whole =>
        phase' = "up" /\ adcParams' = saved ]_cvars
=============================================================================
