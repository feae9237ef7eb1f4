CONSTANTS
  MaxPacket = 2
  DmaSize = 4
  Sizes = {5}
  DaLens = {3}
  SetupLen = 2
  NakBudget = 1
  FrameMod = 8
  ReqTiming = 1
  Depths = {1024}
  Speeds = {"full_root"}
  MaxCalls = 1
  HaltErrors = {"nak", "stall"}
  DeviceMayBabble = TRUE
SPECIFICATION Spec
INVARIANT
  NoBufferOverrun
