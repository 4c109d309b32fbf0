SPECIFICATION Spec
CONSTANTS
  Worker = {w1, w2}
  Producer = {a1, a2}
  RealtimeJob = {r1, r2}
  NormalJob = {n1}
  EndCode = "gracefully"
  UseExitFunc = FALSE
  EndWaitExpires = FALSE
  LateProducers = FALSE
  WaitCanFail = FALSE
  FuncResult = {0}
  NULL = NULL
SYMMETRY Symmetry
INVARIANT TypeOK
INVARIANT LockHeld
INVARIANT HeldOrFreed
INVARIANT StartedInOrder
INVARIANT GracefulLosesSlotsOnly
INVARIANT TableOutlivesWorkers
PROPERTY KeepsPromise
