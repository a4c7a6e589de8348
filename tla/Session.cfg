SPECIFICATION SessionSpec
CONSTANTS
  MaxCalls = 2
  Bytes = 3
  MaxPbuf = 2
  MboxSize = 2
  MaxLength = 2
  SendLength = 2
  SndBuf = 1
  Wnd = 3
INVARIANT ConnectInv
INVARIANT TransferInv
INVARIANT SelectTold
PROPERTY CallsReturn
CHECK_DEADLOCK FALSE
