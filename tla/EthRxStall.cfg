CONSTANTS
  RxBufs = 2
  MaxArrivals = 6
SPECIFICATION RxFairSpec
INVARIANT ReceptionResumes
CHECK_DEADLOCK FALSE
