CONSTANTS
  MemSize = 12
  ReplySize = 8
  Command <- MC_Command
  Strings <- MC_Strings
  IntValues = {0, 1, 15, 16, 255, 4096, 305419896}
  ClzZero = {63, 64}
  Commands <- MC_Commands
  Replies <- MC_Replies
  CmdSize = 6
  MaxFaults = 1
  Noise = {35, 36, 43, 45, 120}

SPECIFICATION StubSpec

INVARIANTS
  TypeOK
  PacketTypeOK
  EncodeBytesCorrect
  DecodeBytesCorrect
  IntCodecCorrect

PROPERTIES
  RefinesLink
  Completes

CHECK_DEADLOCK FALSE
