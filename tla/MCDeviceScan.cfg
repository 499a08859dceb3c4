SPECIFICATION MCSpec
CONSTANTS
  Warp = 4
  NWARP = 2
  IdsBound = 4
  Leftover = 3
  Strides <- UpToBDIM
  Few <- SmallSizes
CHECK_DEADLOCK FALSE
INVARIANT Exclusive
INVARIANT NoRace
PROPERTY Finishes
