SPECIFICATION FairSpec
CONSTANTS
  Message <- MCMessage
  MaxMsg = 3
  s_len0 = 5
  MaxData = 6
  SplitHeader = FALSE
INVARIANT HandedAsSent
INVARIANT FitsBuffer
INVARIANT RefusedForSize
PROPERTY AllHanded
CHECK_DEADLOCK FALSE
