SPECIFICATION Spec
CONSTANTS
  Caller = {c1, c2}
  Worker = {w1, w2}
  MaxCall = 2
  Empty = Empty
  None = None
SYMMETRY Symmetry
INVARIANT RecordFollowsCall
CHECK_DEADLOCK FALSE
