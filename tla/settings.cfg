SPECIFICATION StorageSpec
CONSTANTS
  AddrMod = 5
  NumSettings = 4
  NumRegs = 2
  MaxLen = 2
  PageSize = 2
  Fields <- MCFields
  Bytes <- MCBytes
  Default = "default"
  Blank = "blank"
  NumRows = 2
  PerBlock = 1
INVARIANTS
  Mirrored
PROPERTIES
  OldOrNew
  SavedComesBack
