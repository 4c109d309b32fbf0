SPECIFICATION Spec
CONSTANTS
  Worker = {w1, w2}
  Sd = {s1}
  MaxConn = 2
  FuncResult = {0, 2, 4}
  ConnectedResult = {0, 4}
  StaleSd = {NULL}
  AcceptCanFail = TRUE
  EndWaitExpires = FALSE
  NULL = NULL
SYMMETRY Symmetry
INVARIANT EventReachesWorker
