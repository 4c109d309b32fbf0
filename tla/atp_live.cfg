SPECIFICATION FairSpec
CONSTANTS
  Worker = {w1, w2}
  Producer = {a1}
  RealtimeJob = {r1}
  NormalJob = {n1}
  EndCode = "gracefully"
  UseExitFunc = FALSE
  EndWaitExpires = FALSE
  LateProducers = FALSE
  WaitCanFail = FALSE
  FuncResult = {0}
  NULL = NULL
PROPERTY JobsHandled
PROPERTY DestroyReturns
