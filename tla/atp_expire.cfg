SPECIFICATION Spec
CONSTANTS
  Worker = {w1, w2}
  Producer = {a1}
  RealtimeJob = {r1}
  NormalJob = {n1}
  EndCode = "force"
  UseExitFunc = TRUE
  EndWaitExpires = TRUE
  LateProducers = FALSE
  WaitCanFail = FALSE
  FuncResult = {0, 1}
  NULL = NULL
SYMMETRY Symmetry
INVARIANT NothingLeftBehind
PROPERTY JobCancelledLate
