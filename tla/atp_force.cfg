SPECIFICATION Spec
CONSTANTS
  Worker = {w1, w2}
  Producer = {a1}
  RealtimeJob = {r1}
  NormalJob = {n1, n2}
  EndCode = "force"
  UseExitFunc = TRUE
  EndWaitExpires = FALSE
  LateProducers = TRUE
  WaitCanFail = FALSE
  FuncResult = {0}
  NULL = NULL
SYMMETRY Symmetry
INVARIANT StartsInPushOrder
INVARIANT AtMostOneOvertakes
INVARIANT ExitFuncFirst
