------------------------------ MODULE Settings ------------------------------
(***************************************************************************)
(* The settings block of the PCM (PCM_MACProm.h) in the serial EEPROM and  *)
(* its copy in RAM: the first start that writes the defaults, the later    *)
(* ones that read the block, and the commands sMask, sThr and sEth that    *)
(* change the RAM copy and then the EEPROM byte by byte, with the power    *)
(* lost at any point in between.                                           *)
(*                                                                         *)
(* Addresses are the low end of an 8-bit space that wraps, of which the    *)
(* block takes the first NumSettings bytes; the bytes above are other      *)
(* things: the MAC address in the EEPROM, other variables in RAM. A byte   *)
(* is its default, something a client sent, or blank.                      *)
(***************************************************************************)
EXTENDS Integers, Sequences

CONSTANTS
  AddrMod,      \* 2^8, the size of the address space
  NumSettings,  \* sizeof(eeRAMcopy), 128 bytes
  NumRegs,      \* sizeof(micrelReg), the first 112 of them
  MaxLen,       \* the longest sEth record, 16 bytes
  PageSize,     \* the bytes of one EEPROM write, 8
  Fields,       \* the other settings: <<first byte, bytes>> of each
  Bytes,        \* the values given to a byte...
  Default,      \* ... the default is one...
  Blank         \* ... and what an EEPROM comes with is not

ASSUME SizesAssumption ==
  /\ AddrMod \in Nat /\ NumSettings \in Nat /\ NumRegs \in Nat
  /\ MaxLen \in Nat /\ PageSize \in Nat \ {0}
  /\ 0 < NumRegs /\ NumRegs <= NumSettings /\ NumSettings <= AddrMod
  /\ MaxLen < AddrMod
ASSUME FieldsAssumption ==
  \A f \in Fields : /\ f \in Nat \X Nat
                    /\ NumRegs <= f[1] /\ 0 < f[2] /\ f[1] + f[2] <= NumSettings
ASSUME BytesAssumption == Default \in Bytes /\ Blank \notin Bytes

Addrs    == 0 .. AddrMod - 1
Block    == 0 .. NumSettings - 1
Cells    == Bytes \cup {Blank}

\* The first byte of the defaults, 0x95, also marks a block that was written.
Marker == Default

VARIABLES
  pc,       \* "off", "save" and "run": powered off, in eeSaveRAMtoROM, up
  rom,      \* the EEPROM
  ram,      \* eeRAMcopy, and what lies behind it
  at,       \* the address of the next page eeSaveRAMtoROM writes
  pending,  \* the bytes eeWriteByte has still to write, as <<address, byte>>
  may       \* (history) for each byte, the values it may be found to have:
            \* those it was given or was being given last

vars == <<pc, rom, ram, at, pending, may>>

(* The sum of two bytes, kept in a byte. *)
ByteSum(x, y) == IF x + y < AddrMod THEN x + y ELSE x + y - AddrMod

(* A memory with the bytes of a list of writes in it. *)
Written(mem, ws) ==
  [a \in Addrs |-> IF \E k \in DOMAIN ws : ws[k][1] = a
                     THEN ws[CHOOSE k \in DOMAIN ws : ws[k][1] = a][2]
                     ELSE mem[a]]

InPage(a) == at <= a /\ a < at + PageSize /\ a \in Block

-----------------------------------------------------------------------------
(* A restart: RAM has the defaults the compiler gave it; eeROMinit looks   *)
(* at the marker, and reads the block...                                   *)
Fresh == [a \in Addrs |-> IF a \in Block THEN Default ELSE Blank]

(* (mutation) the byte read last, without an acknowledge, is forgotten *)
LoadShort ==
  /\ pc = "off"
  /\ rom[0] = Marker
  /\ ram' = [a \in Addrs |->
               IF a \in Block /\ a # NumSettings - 1 THEN rom[a] ELSE Fresh[a]]
  /\ pc' = "run"
  /\ may' = [a \in Block |-> {rom[a]}]
  /\ UNCHANGED <<rom, at, pending>>

Load ==
  /\ pc = "off"
  /\ rom[0] = Marker
  /\ ram' = [a \in Addrs |-> IF a \in Block THEN rom[a] ELSE Fresh[a]]
  /\ pc' = "run"
  /\ may' = [a \in Block |-> {rom[a]}]
  /\ UNCHANGED <<rom, at, pending>>

(* ... or writes the defaults, a page at a time, the marker first.         *)
NoMarker ==
  /\ pc = "off"
  /\ rom[0] # Marker
  /\ pc' = "save"
  /\ at' = 0
  /\ ram' = Fresh
  /\ may' = [a \in Block |-> may[a] \cup {Default}]
  /\ UNCHANGED <<rom, pending>>

SavePage ==
  /\ pc = "save"
  /\ rom' = [a \in Addrs |-> IF InPage(a) THEN ram[a] ELSE rom[a]]
  /\ at' = at + PageSize
  /\ pc' = IF at' < NumSettings THEN pc ELSE "run"
  /\ may' = IF pc' = "run" THEN [a \in Block |-> {ram[a]}] ELSE may
  /\ UNCHANGED <<ram, pending>>

-----------------------------------------------------------------------------
(* A command that gives new values to bytes. Nothing else runs until the   *)
(* last of them is written, so RAM may as well change at once.             *)
Give(ws) ==
  /\ pc = "run" /\ pending = <<>>
  /\ pending' = ws
  /\ ram' = Written(ram, ws)
  /\ may' = [a \in Block |-> may[a] \cup {Written(ram, ws)[a]}]
  /\ UNCHANGED <<pc, rom, at>>

Run(first, len, data) == [k \in 1 .. len |-> <<ByteSum(first, k - 1), data[k]>>]

(* (mutation) the EEPROM is not written *)
SetFieldRAM(f) ==
  \E data \in [1 .. f[2] -> Bytes] :
    /\ pc = "run" /\ pending = <<>>
    /\ ram' = Written(ram, Run(f[1], f[2], data))
    /\ UNCHANGED <<pc, rom, at, pending, may>>

(* sMask and sThr: eeWriteByte, eeWriteFloat. *)
SetField(f) == \E data \in [1 .. f[2] -> Bytes] : Give(Run(f[1], f[2], data))

(* sEth with a record of len registers from first on whose checksum is     *)
(* right; the sum of the two is taken in a byte.                           *)
EthAccepted(first, len) == ByteSum(first, len) < NumRegs /\ len <= MaxLen

SetEthernetConfig(first, len) ==
  /\ EthAccepted(first, len)
  /\ \E data \in [1 .. len -> Bytes] : Give(Run(first, len, data))

(* eeWriteByte, once for each of them. *)
WriteNext ==
  /\ pc = "run" /\ pending # <<>>
  /\ rom' = [rom EXCEPT ![Head(pending)[1]] = Head(pending)[2]]
  /\ pending' = Tail(pending)
  /\ may' = IF pending' = <<>> THEN [a \in Block |-> {ram[a]}] ELSE may
  /\ UNCHANGED <<pc, ram, at>>

(* The power fails, the watchdog bites, or a client asks for a reset. A    *)
(* page being written is left with some of its bytes.                      *)
Crash ==
  /\ pc # "off"
  /\ pc' = "off"
  /\ IF pc = "save"
       THEN \E done \in SUBSET {a \in Block : InPage(a)} :
              rom' = [a \in Addrs |-> IF a \in done THEN ram[a] ELSE rom[a]]
       ELSE UNCHANGED rom
  /\ pending' = <<>>
  /\ UNCHANGED <<ram, at, may>>

-----------------------------------------------------------------------------
(* A board that was never started. *)
Init ==
  /\ pc = "off"
  /\ rom = [a \in Addrs |-> Blank]
  /\ ram = Fresh
  /\ at = 0 /\ pending = <<>>
  /\ may = [a \in Block |-> {Blank}]

Next ==
  \/ Load \/ NoMarker \/ SavePage
  \/ \E f \in Fields : SetField(f)
  \/ \E first \in Addrs, len \in 0 .. MaxLen : SetEthernetConfig(first, len)
  \/ WriteNext
  \/ Crash

Spec == Init /\ [][Next]_vars

-----------------------------------------------------------------------------
TypeOK ==
  /\ pc \in {"off", "save", "run"}
  /\ rom \in [Addrs -> Cells] /\ ram \in [Addrs -> Cells]
  /\ at \in Nat /\ pending \in Seq(Addrs \X Bytes)
  /\ may \in [Block -> SUBSET Cells]

(* When the firmware is up and no command is at work, the EEPROM holds     *)
(* what is in effect: a reset changes no setting.                          *)
Mirrored == pc = "run" /\ pending = <<>> => \A a \in Block : rom[a] = ram[a]

(* However often the power failed in the middle of writes, each byte of    *)
(* the settings the firmware comes up with is the old one or one that was  *)
(* being written then.                                                     *)
OldOrNew ==
  [][ pc # "run" /\ pc' = "run" => \A a \in Block : ram'[a] \in may[a] ]_vars

(* "initilaize Rom with defualt Micrel Settings" (PCM_MACProm.h:270): the  *)
(* firmware comes up with defaults or what clients sent, never with a byte *)
(* of an EEPROM nobody wrote.                                              *)
NeverBlank == pc = "run" => \A a \in Block : ram[a] # Blank
=============================================================================
