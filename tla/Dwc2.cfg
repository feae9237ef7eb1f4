CONSTANTS
  MaxPacket = 2
  DmaSize = 4
  Sizes = {5}
  DaLens = {0, 3}
  SetupLen = 2
  NakBudget = 2
  FrameMod = 8
  ReqTiming = 1
  Depths = {1024}
  Speeds = {"full_root", "full_hub"}
  MaxCalls = 2
  HaltErrors = {"nak", "stall"}
  DeviceMayBabble = FALSE
SPECIFICATION Spec
INVARIANT
  TypeOK
  ToggleInSync
  ResultIsDelivered
  FifoFits

  
