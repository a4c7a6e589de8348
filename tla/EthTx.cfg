CONSTANTS
  Tasks = {a, b}
  N = 2
  MaxPbufs = 2
  MaxFrames = 3
SPECIFICATION FairSpec
INVARIANT Exclusive
INVARIANT NotLost
INVARIANT WholeFrames
PROPERTY CallsReturn
CHECK_DEADLOCK FALSE
