CONSTANTS
  RxBufs = 2
  MaxArrivals = 5
SPECIFICATION RxFairSpec
INVARIANT ReceiveInv
PROPERTY Served
CHECK_DEADLOCK FALSE
