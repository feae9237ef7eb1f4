CONSTANTS
  NameWidth = 2
  AnchorSize = 16
  HeaderSize = 8
  AddrMod = 256
  ReadMayFail = TRUE
  MaxCalls = 3
  AnchorOffsets = {16, 200}
  Storage <- MCStorage
  LookupNames <- MCLookupNames
  Garbage <- MCGarbage
  NUL = NUL
  NoRecord = NoRecord
  NoDir = NoDir
SPECIFICATION Spec
INVARIANT NoOutOfBoundsRead
CHECK_DEADLOCK FALSE
