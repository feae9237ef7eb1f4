CONSTANTS
  ReqCount = 2
  MaxPackets = 4
  Page = 4
  MaxPacketSize = 4
  Offsets = {0, 3}
  Lengths = {0, 4, 9}
  WaitBudget = 2
SPECIFICATION FairSpec
INVARIANTS
  TypeOK
  FifoDelivery
  NoUseAfterFree
  RemainingCountsTds
  TransferTdsReleased
  ChainCoversBuffer
PROPERTY
  PacketsKeepFlowing
CHECK_DEADLOCK FALSE
