SPECIFICATION FairSpec
CONSTANTS
  Worker = {w1, w2}
  Sd = {s1}
  MaxConn = 1
  FuncResult = {0, 2, 4}
  ConnectedResult = {0, 2}
  StaleSd = {NULL}
  AcceptCanFail = FALSE
  EndWaitExpires = FALSE
  NULL = NULL
PROPERTY StopsEventually
