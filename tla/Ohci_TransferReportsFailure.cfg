CONSTANTS
  ReqCount = 2
  MaxPackets = 4
  Page = 4
  MaxPacketSize = 4
  Offsets = {0, 3}
  Lengths = {0, 4, 9}
  WaitBudget = 2
SPECIFICATION Spec
INVARIANT
  TransferReportsFailure
CHECK_DEADLOCK FALSE
