--------------------------- MODULE SettingsProofs ---------------------------
(***************************************************************************)
(* Proofs about Settings and Storage, for any layout of the block and any  *)
(* table: what is in effect is what the EEPROM holds, what a restart finds *)
(* is old or was being written, wherever the power failed, and a saved     *)
(* calibration comes back.                                                 *)
(*                                                                         *)
(* The invariant says where RAM and the EEPROM may differ: behind the      *)
(* pages eeSaveRAMtoROM has written, and in the bytes eeWriteByte has      *)
(* still to write, which are those RAM has already (Agrees).               *)
(***************************************************************************)
EXTENDS Storage, TLAPS

(* Every byte of the EEPROM is one it may be found to have, and so is what *)
(* the firmware is about to write over it.                                 *)
Known ==
  \A a \in Block :
    /\ rom[a] \in may[a]
    /\ pc = "save" => ram[a] \in may[a] /\ (a < at => rom[a] = ram[a])
    /\ pc = "run" => ram[a] \in may[a]

Agrees ==
  pc = "run" =>
    /\ \A k \in DOMAIN pending :
         pending[k][1] \in Block => ram[pending[k][1]] = pending[k][2]
    /\ \A a \in Block :
         rom[a] = ram[a] \/ \E k \in DOMAIN pending : pending[k][1] = a

IInv == TypeOK /\ Known /\ Agrees /\ (pc # "run" => pending = <<>>)

USE SizesAssumption, BytesAssumption

LEMMA InitIInv == Init => IInv
<1>. SUFFICES ASSUME Init PROVE IInv OBVIOUS
<1>1. TypeOK
  BY DEF Init, TypeOK, Fresh, Cells, Block, Addrs
<1>2. Known /\ Agrees
  BY DEF Init, Known, Agrees, Block, Addrs
<1>. QED BY <1>1, <1>2 DEF IInv, Init

(* The writes of a command: distinct addresses, so the bytes end up as     *)
(* the list has them.                                                      *)
LEMMA RunWrites ==
  ASSUME NEW first \in Addrs, NEW len \in 0 .. AddrMod - 1,
         NEW data \in [1 .. len -> Bytes], NEW mem \in [Addrs -> Cells],
         NEW ws, ws = Run(first, len, data)
  PROVE  /\ ws \in Seq(Addrs \X Bytes)
         /\ Written(mem, ws) \in [Addrs -> Cells]
         /\ \A k \in DOMAIN ws : Written(mem, ws)[ws[k][1]] = ws[k][2]
         /\ \A a \in Addrs : \/ Written(mem, ws)[a] = mem[a]
                             \/ \E k \in DOMAIN ws : ws[k][1] = a
<1>1. /\ DOMAIN ws = 1 .. len
      /\ \A k \in 1 .. len : ws[k] = <<ByteSum(first, k - 1), data[k]>>
      /\ \A k \in 1 .. len : ws[k][1] = ByteSum(first, k - 1) /\ ws[k][2] = data[k]
  <2>1. /\ DOMAIN ws = 1 .. len
        /\ \A k \in 1 .. len : ws[k] = <<ByteSum(first, k - 1), data[k]>>
    BY DEF Run
  <2>. QED BY <2>1
<1>2. \A k \in 1 .. len : ByteSum(first, k - 1) \in Addrs
  BY DEF ByteSum, Addrs
<1>3. \A j, k \in 1 .. len : ByteSum(first, j - 1) = ByteSum(first, k - 1) => j = k
  BY DEF ByteSum, Addrs
<1>4. ws \in Seq(Addrs \X Bytes)
  <2>1. ASSUME NEW k \in 1 .. len PROVE ws[k] \in Addrs \X Bytes
    <3>1. ByteSum(first, k - 1) \in Addrs /\ data[k] \in Bytes
      BY <1>2
    <3>2. <<ByteSum(first, k - 1), data[k]>> \in Addrs \X Bytes
      BY <3>1
    <3>. QED BY <1>1, <3>2, Zenon
  <2>2. ws \in [1 .. len -> Addrs \X Bytes]
    BY <2>1, <1>1 DEF Run
  <2>. QED BY <2>2
<1>5. \A k \in DOMAIN ws : Written(mem, ws)[ws[k][1]] = ws[k][2]
  <2> SUFFICES ASSUME NEW k \in 1 .. len
               PROVE  Written(mem, ws)[ws[k][1]] = ws[k][2]
    BY <1>1
  <2>. DEFINE a == ws[k][1]
  <2>1. a \in Addrs /\ \E j \in DOMAIN ws : ws[j][1] = a
    BY <1>1, <1>2
  <2>2. Written(mem, ws)[a] = ws[CHOOSE j \in DOMAIN ws : ws[j][1] = a][2]
    BY <2>1 DEF Written
  <2>3. ASSUME NEW j \in DOMAIN ws, ws[j][1] = a PROVE j = k
    <3>1. j \in 1 .. len /\ ByteSum(first, j - 1) = ByteSum(first, k - 1)
      BY <1>1, <2>3
    <3>. QED BY <3>1, <1>3
  <2>4. (CHOOSE j \in DOMAIN ws : ws[j][1] = a) = k
    BY <2>1, <2>3
  <2>. QED BY <2>2, <2>4
<1>6. \A a \in Addrs : Written(mem, ws)[a] = mem[a] \/ \E k \in DOMAIN ws : ws[k][1] = a
  BY DEF Written
<1>7. Written(mem, ws) \in [Addrs -> Cells]
  <2>1. \A a \in Addrs : Written(mem, ws)[a] \in Cells
    <3> SUFFICES ASSUME NEW a \in Addrs PROVE Written(mem, ws)[a] \in Cells
      OBVIOUS
    <3>1. CASE Written(mem, ws)[a] = mem[a]
      BY <3>1
    <3>2. ASSUME NEW k \in DOMAIN ws, ws[k][1] = a PROVE Written(mem, ws)[a] \in Cells
      BY <3>2, <1>5, <1>1 DEF Cells
    <3>. QED BY <3>1, <3>2, <1>6
  <2>. QED BY <2>1 DEF Written
<1>. QED BY <1>4, <1>5, <1>6, <1>7

(* A command starts. *)
LEMMA GiveStep ==
  ASSUME IInv, NEW first \in Addrs, NEW len \in 0 .. AddrMod - 1,
         NEW data \in [1 .. len -> Bytes], Give(Run(first, len, data))
  PROVE  IInv'
<1>. DEFINE ws == Run(first, len, data)
<1>1. /\ pc = "run" /\ pc' = pc /\ pending = <<>> /\ pending' = ws
      /\ ram' = Written(ram, ws) /\ rom' = rom /\ at' = at
      /\ may' = [a \in Block |-> may[a] \cup {ram'[a]}]
  BY DEF Give
<1>2. /\ ram \in [Addrs -> Cells] /\ rom \in [Addrs -> Cells] /\ at \in Nat
      /\ may \in [Block -> SUBSET Cells] /\ Block \subseteq Addrs
  BY DEF IInv, TypeOK, Block, Addrs
<1>3. /\ ws \in Seq(Addrs \X Bytes) /\ ram' \in [Addrs -> Cells]
      /\ \A k \in DOMAIN ws : ram'[ws[k][1]] = ws[k][2]
      /\ \A a \in Addrs : ram'[a] = ram[a] \/ \E k \in DOMAIN ws : ws[k][1] = a
  <2>. HIDE DEF ws
  <2>1. ws = Run(first, len, data)
    BY DEF ws
  <2>. QED BY <1>1, <1>2, <2>1, RunWrites
<1>. HIDE DEF ws
<1>4. TypeOK'
  BY <1>1, <1>2, <1>3 DEF TypeOK
<1>5. Known'
  BY <1>1, <1>2, <1>3 DEF Known, IInv
<1>6. Agrees'
  <2>1. \A a \in Block : rom[a] = ram[a]
    BY <1>1 DEF IInv, Agrees
  <2>. QED BY <1>1, <1>2, <1>3, <2>1 DEF Agrees
<1>. QED BY <1>1, <1>4, <1>5, <1>6 DEF IInv

(* One byte of a command is written. *)
LEMMA WriteStep ==
  ASSUME IInv, WriteNext
  PROVE  IInv'
<1>. DEFINE w == pending[1]
<1>1. /\ pc = "run" /\ pc' = pc /\ pending # <<>> /\ pending' = Tail(pending)
      /\ rom' = [rom EXCEPT ![w[1]] = w[2]] /\ ram' = ram /\ at' = at
      /\ may' = IF pending' = <<>> THEN [a \in Block |-> {ram[a]}] ELSE may
  <2>1. pending \in Seq(Addrs \X Bytes) /\ pending # <<>>
    BY DEF WriteNext, IInv, TypeOK
  <2>2. Head(pending) = w
    BY <2>1
  <2>. QED BY <2>1, <2>2 DEF WriteNext
<1>2. /\ pending \in Seq(Addrs \X Bytes) /\ w[1] \in Addrs /\ w[2] \in Bytes
      /\ ram \in [Addrs -> Cells] /\ rom \in [Addrs -> Cells] /\ at \in Nat
      /\ may \in [Block -> SUBSET Cells] /\ Block \subseteq Addrs
  BY <1>1 DEF IInv, TypeOK, Block, Addrs
<1>3. /\ pending' \in Seq(Addrs \X Bytes)
      /\ \A k \in DOMAIN pending' : k + 1 \in DOMAIN pending /\ pending'[k] = pending[k + 1]
      /\ \A k \in DOMAIN pending : k # 1 => k - 1 \in DOMAIN pending' /\ pending'[k - 1] = pending[k]
  BY <1>1, <1>2
<1>4. w[1] \in Block => ram[w[1]] = w[2]
  BY <1>1, <1>2 DEF IInv, Agrees
<1>5. TypeOK'
  BY <1>1, <1>2, <1>3 DEF TypeOK, Cells
<1>6. \A k \in DOMAIN pending' :
        pending'[k][1] \in Block => ram[pending'[k][1]] = pending'[k][2]
  BY <1>1, <1>3 DEF IInv, Agrees
<1>7. \A a \in Block :
        rom'[a] = ram[a] \/ \E k \in DOMAIN pending' : pending'[k][1] = a
  <2> SUFFICES ASSUME NEW a \in Block, rom'[a] # ram[a]
               PROVE  \E k \in DOMAIN pending' : pending'[k][1] = a
    OBVIOUS
  <2>1. a # w[1] /\ rom[a] # ram[a]
    BY <1>1, <1>2, <1>4
  <2>2. PICK k \in DOMAIN pending : pending[k][1] = a
    BY <1>1, <2>1 DEF IInv, Agrees
  <2>. QED BY <1>3, <2>1, <2>2
<1>8. Agrees'
  BY <1>1, <1>6, <1>7 DEF Agrees
<1>9. Known'
  <2>1. CASE pending' = <<>>
    BY <1>1, <1>7, <2>1 DEF Known
  <2>2. CASE pending' # <<>>
    BY <1>1, <1>2, <1>4, <2>2 DEF Known, IInv
  <2>. QED BY <2>1, <2>2
<1>. QED BY <1>1, <1>5, <1>8, <1>9 DEF IInv

(* The firmware comes up, and the defaults reach the EEPROM. *)
LEMMA StartStep ==
  ASSUME IInv, Load \/ NoMarker \/ SavePage
  PROVE  IInv'
<1>1. /\ rom \in [Addrs -> Cells] /\ ram \in [Addrs -> Cells] /\ at \in Nat
      /\ pending \in Seq(Addrs \X Bytes) /\ may \in [Block -> SUBSET Cells]
      /\ Block \subseteq Addrs
  BY DEF IInv, TypeOK, Block, Addrs
<1>2. Fresh \in [Addrs -> Cells] /\ \A a \in Block : Fresh[a] = Default
  BY <1>1 DEF Fresh, Cells
<1>3. CASE Load
  <2>1. /\ pc = "off" /\ pc' = "run" /\ pending = <<>>
        /\ rom' = rom /\ pending' = pending /\ at' = at
        /\ may' = [a \in Block |-> {rom[a]}]
        /\ ram' = [a \in Addrs |-> IF a \in Block THEN rom[a] ELSE Fresh[a]]
    BY <1>3 DEF Load, IInv
  <2>2. TypeOK'
    BY <2>1, <1>1, <1>2 DEF TypeOK
  <2>3. \A a \in Block : ram'[a] = rom'[a] /\ may'[a] = {rom'[a]}
    BY <2>1, <1>1
  <2>4. Known' /\ Agrees'
    BY <2>1, <2>3 DEF Known, Agrees
  <2>. QED BY <2>1, <2>2, <2>4 DEF IInv
<1>4. CASE NoMarker
  <2>1. /\ pc = "off" /\ pc' = "save" /\ pending = <<>>
        /\ rom' = rom /\ pending' = pending /\ at' = 0 /\ ram' = Fresh
        /\ may' = [a \in Block |-> may[a] \cup {Default}]
    BY <1>4 DEF NoMarker, IInv
  <2>2. TypeOK'
    BY <2>1, <1>1, <1>2 DEF TypeOK, Cells
  <2>3. Known' /\ Agrees'
    BY <2>1, <1>1, <1>2 DEF Known, Agrees, IInv, Block
  <2>. QED BY <2>1, <2>2, <2>3 DEF IInv
<1>5. CASE SavePage
  <2>1. /\ pc = "save" /\ pc' \in {"save", "run"} /\ pending = <<>>
        /\ ram' = ram /\ pending' = pending /\ at' = at + PageSize
        /\ rom' = [a \in Addrs |-> IF InPage(a) THEN ram[a] ELSE rom[a]]
        /\ pc' = "save" => may' = may
        /\ pc' = "run" => at' >= NumSettings /\ may' = [a \in Block |-> {ram[a]}]
    BY <1>5, <1>1 DEF SavePage, IInv
  <2>2. TypeOK'
    BY <2>1, <1>1 DEF TypeOK
  <2>3. \A a \in Block : a < at' => rom'[a] = ram[a]
    BY <2>1, <1>1 DEF InPage, IInv, Known, Block
  <2>4. CASE pc' = "save"
    <3>1. \A a \in Block : rom'[a] \in may[a] /\ ram[a] \in may[a]
      BY <2>1, <1>1 DEF IInv, Known
    <3>2. Known' /\ Agrees'
      BY <2>1, <2>3, <2>4, <3>1 DEF Known, Agrees
    <3>. QED BY <2>1, <2>2, <3>2 DEF IInv
  <2>5. CASE pc' = "run"
    <3>1. \A a \in Block : rom'[a] = ram[a]
      BY <2>1, <2>3, <2>5, <1>1 DEF Block
    <3>2. Known' /\ Agrees'
      BY <2>1, <2>5, <3>1 DEF Known, Agrees
    <3>. QED BY <2>1, <2>2, <3>2 DEF IInv
  <2>. QED BY <2>1, <2>4, <2>5
<1>. QED BY <1>3, <1>4, <1>5

(* The power fails. *)
LEMMA CrashStep ==
  ASSUME IInv, Crash
  PROVE  IInv'
<1>1. /\ rom \in [Addrs -> Cells] /\ ram \in [Addrs -> Cells]
      /\ pc' = "off" /\ pending' = <<>> /\ ram' = ram /\ at' = at /\ may' = may
      /\ Block \subseteq Addrs
  BY DEF Crash, IInv, TypeOK, Block, Addrs
<1>2. rom' \in [Addrs -> Cells]
  BY <1>1 DEF Crash
<1>3. \A a \in Block : rom'[a] \in may[a]
  BY <1>1 DEF Crash, IInv, Known
<1>4. TypeOK'
  BY <1>1, <1>2 DEF TypeOK, IInv
<1>. QED BY <1>1, <1>3, <1>4 DEF IInv, Known, Agrees

LEMMA NextIInv == IInv /\ [Next]_vars => IInv'
<1>. SUFFICES ASSUME IInv, [Next]_vars PROVE IInv' OBVIOUS
<1>1. CASE Load \/ NoMarker \/ SavePage
  BY <1>1, StartStep
<1>2. ASSUME NEW f \in Fields, SetField(f) PROVE IInv'
  <2>1. PICK data \in [1 .. f[2] -> Bytes] : Give(Run(f[1], f[2], data))
    BY <1>2 DEF SetField
  <2>2. f[1] \in Addrs /\ f[2] \in 0 .. AddrMod - 1
    <3>1. /\ f[1] \in Nat /\ f[2] \in Nat /\ NumRegs <= f[1]
          /\ 0 < f[2] /\ f[1] + f[2] <= NumSettings
      BY FieldsAssumption
    <3>. QED BY <3>1 DEF Addrs
  <2>. QED BY <2>1, <2>2, GiveStep
<1>3. ASSUME NEW first \in Addrs, NEW len \in 0 .. MaxLen, SetEthernetConfig(first, len)
      PROVE  IInv'
  <2>1. PICK data \in [1 .. len -> Bytes] : Give(Run(first, len, data))
    BY <1>3 DEF SetEthernetConfig
  <2>2. len \in 0 .. AddrMod - 1
    OBVIOUS
  <2>. QED BY <2>1, <2>2, GiveStep
<1>4. CASE WriteNext
  BY <1>4, WriteStep
<1>5. CASE Crash
  BY <1>5, CrashStep
<1>6. CASE UNCHANGED vars
  BY <1>6 DEF IInv, TypeOK, Known, Agrees, vars
<1>. QED BY <1>1, <1>2, <1>3, <1>4, <1>5, <1>6 DEF Next

(* IInv is inductive. *)
THEOREM Invariance == Spec => []IInv
<1>. QED BY InitIInv, NextIInv, PTL DEF Spec

(* Between commands the EEPROM holds the settings in effect, so that       *)
(* switching the board off and on changes none of them (PCM_MACProm.h,     *)
(* eeWriteByte and eeSaveRAMtoROM).                                        *)
THEOREM SettingsLast == Spec => []Mirrored
<1>1. IInv => Mirrored
  BY DEF IInv, Agrees, Mirrored
<1>. QED BY <1>1, Invariance, PTL

(* Whatever the point at which the power failed, each byte the firmware    *)
(* comes up with is the last one given or one that was being written       *)
(* (PCM_MACProm.h, eeROMinit).                                             *)
THEOREM RestartFindsOldOrNew == Spec => OldOrNew
<1>1. ASSUME IInv, [Next]_vars, pc # "run", pc' = "run", NEW a \in Block
      PROVE  ram'[a] \in may[a]
  <2>1. Load \/ SavePage
    BY <1>1 DEF Next, vars, NoMarker, SetField, SetEthernetConfig, Give, WriteNext, Crash
  <2>2. a \in Addrs
    BY DEF Block, Addrs
  <2>3. CASE Load
    BY <1>1, <2>2, <2>3 DEF Load, IInv, Known
  <2>4. CASE SavePage
    BY <1>1, <2>4 DEF SavePage, IInv, Known
  <2>. QED BY <2>1, <2>3, <2>4
<1>2. IInv /\ [Next]_vars
        => [pc # "run" /\ pc' = "run" => \A a \in Block : ram'[a] \in may[a]]_vars
  BY <1>1
<1>. QED BY <1>2, Invariance, PTL DEF Spec, OldOrNew

-----------------------------------------------------------------------------
(* Storage only says when the steps of Settings are taken: what was proved *)
(* of those holds with the calibration under the same power supply too.    *)
THEOREM SettingsInStorage == StorageSpec => Spec
<1>1. StorageInit => Init
  BY DEF StorageInit
<1>2. [StorageNext]_<<vars, calvars>> => [Next]_vars
  BY DEF StorageNext, Next
<1>. QED BY <1>1, <1>2, PTL DEF StorageSpec, Spec

(* The calibration table. A copy in flash is complete unless a save is at  *)
(* work or was cut short, and is told from erased flash by its first row,  *)
(* which is never blank in RAM.                                            *)
TableInv ==
  /\ phase \in {"off", "save", "up"} /\ next \in Nat
  /\ adcParams \in [Cal!Row -> Cells] /\ flash \in [Cal!Row -> Cells]
  /\ adcParams[1] # Blank
  /\ phase = "save" => \A r \in Cal!Row : r < next => flash[r] = adcParams[r]
  /\ whole => phase # "save" /\ flash = saved /\ flash[1] # Blank

USE TableAssumption

LEMMA InitTable == StorageInit => TableInv
<1>1. Default \in Cells /\ Blank \in Cells /\ Default # Blank /\ 1 \in Cal!Row
  BY DEF Cells, Cal!Row
<1>. QED BY <1>1 DEF StorageInit, Cal!Init, TableInv, Cal!Row

(* A save begins: flash is erased. *)
LEMMA EraseTable ==
  ASSUME TableInv, Cal!Erase
  PROVE  TableInv'
<1>1. /\ phase' = "save" /\ next' = 1 /\ ~whole' /\ adcParams' = adcParams
      /\ flash' = [r \in Cal!Row |-> Blank]
  BY DEF Cal!Erase
<1>2. \A r \in Cal!Row : ~(r < 1)
  BY DEF Cal!Row
<1>. QED BY <1>1, <1>2 DEF TableInv, Cells

(* A block is written, and with the last one the copy is whole.            *)
LEMMA WriteTable ==
  ASSUME TableInv, Cal!WriteBlock
  PROVE  TableInv'
<1>1. /\ phase = "save" /\ next' = next + PerBlock /\ adcParams' = adcParams
      /\ flash' = [r \in Cal!Row |-> IF Cal!InBlock(r) THEN adcParams[r] ELSE flash[r]]
      /\ \/ next' <= NumRows /\ phase' = "save" /\ whole' = whole
         \/ ~(next' <= NumRows) /\ phase' = "up" /\ saved' = adcParams /\ whole'
  BY DEF Cal!WriteBlock
<1>2. next' \in Nat /\ flash' \in [Cal!Row -> Cells] /\ ~whole
  BY <1>1 DEF TableInv
<1>3. \A r \in Cal!Row : r < next' => flash'[r] = adcParams'[r]
  BY <1>1 DEF TableInv, Cal!InBlock, Cal!Row
<1>4. CASE next' <= NumRows
  BY <1>1, <1>2, <1>3, <1>4 DEF TableInv
<1>5. CASE ~(next' <= NumRows)
  <2>1. \A r \in Cal!Row : r < next'
    BY <1>2, <1>5 DEF Cal!Row
  <2>2. flash' = adcParams
    BY <1>1, <1>2, <1>3, <2>1 DEF TableInv
  <2>. QED BY <1>1, <1>2, <1>5, <2>2 DEF TableInv
<1>. QED BY <1>4, <1>5

LEMMA NextTable == TableInv /\ [StorageNext]_<<vars, calvars>> => TableInv'
<1>. SUFFICES ASSUME TableInv, [StorageNext]_<<vars, calvars>> PROVE TableInv'
  OBVIOUS
<1>1. CASE UNCHANGED calvars
  BY <1>1 DEF calvars, TableInv
<1>2. CASE Cal!LoadADCParams
  BY <1>2 DEF Cal!LoadADCParams, Cal!HasCopy, TableInv
<1>3. CASE Cal!SaveDefaults \/ Cal!SaveADCParams
  BY <1>3, EraseTable DEF Cal!SaveDefaults, Cal!SaveADCParams
<1>4. CASE Cal!UpdateADCParams
  <2>1. PICK r \in Cal!Row, v \in Bytes : adcParams' = [adcParams EXCEPT ![r] = v]
    BY <1>4 DEF Cal!UpdateADCParams
  <2>2. v \in Cells /\ v # Blank
    BY DEF Cells
  <2>3. adcParams' \in [Cal!Row -> Cells] /\ adcParams'[1] # Blank
    BY <2>1, <2>2 DEF TableInv, Cal!Row
  <2>. QED BY <1>4, <2>3 DEF Cal!UpdateADCParams, TableInv
<1>5. CASE Cal!WriteBlock
  BY <1>5, WriteTable
<1>6. CASE Cal!Restart
  <2>1. flash' \in [Cal!Row -> Cells] /\ (phase # "save" => flash' = flash)
    BY <1>6 DEF Cal!Restart, TableInv
  <2>2. adcParams' \in [Cal!Row -> Cells] /\ adcParams'[1] # Blank
    <3>1. Default \in Cells /\ Default # Blank /\ 1 \in Cal!Row
      BY DEF Cells, Cal!Row
    <3>. QED BY <1>6, <3>1 DEF Cal!Restart
  <2>. QED BY <1>6, <2>1, <2>2 DEF Cal!Restart, TableInv
<1>. QED BY <1>1, <1>2, <1>3, <1>4, <1>5, <1>6 DEF StorageNext, Cal!Next, calvars

(* A calibration saved with sCal is in effect after every later start, as  *)
(* it was saved and not as it was tried out since or compiled in, wherever *)
(* and however often the power fails (iniADCParams, saveADCParams).        *)
THEOREM CalibrationComesBack == StorageSpec => SavedComesBack
<1>1. ASSUME TableInv, StorageNext, phase = "off", phase' # "off", whole
      PROVE  phase' = "up" /\ adcParams' = saved
  <2>1. flash = saved /\ Cal!HasCopy
    BY <1>1 DEF TableInv, Cal!HasCopy
  <2>2. ~Cal!SaveDefaults /\ ~Cal!UpdateADCParams /\ ~Cal!SaveADCParams /\ ~Cal!WriteBlock
    BY <1>1, <2>1 DEF Cal!SaveDefaults, Cal!UpdateADCParams, Cal!SaveADCParams, Cal!WriteBlock
  <2>3. Cal!LoadADCParams
    BY <1>1, <2>2 DEF StorageNext, calvars, Cal!Next, Cal!Restart
  <2>. QED BY <2>1, <2>3 DEF Cal!LoadADCParams
<1>2. TableInv /\ [StorageNext]_<<vars, calvars>>
        => [phase = "off" /\ phase' # "off" /\ whole
              => phase' = "up" /\ adcParams' = saved]_Cal!cvars
  BY <1>1 DEF calvars, Cal!cvars
<1>. QED BY <1>2, InitTable, NextTable, PTL DEF StorageSpec, SavedComesBack, Cal!SavedComesBack
=============================================================================
