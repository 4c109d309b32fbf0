SPECIFICATION Spec
CONSTANTS
  Worker = {w1, w2}
  MaxConn = 2
  MaxReq = 2
  MaxEvent = 2
  NULL = NULL
  QuickClose = TRUE
  SpuriousWake = FALSE
SYMMETRY Symmetry
INVARIANT TypeOK
INVARIANT FaultHasCause
INVARIANT AnswerIsDelivered
INVARIANT EventsInOrder
PROPERTY ImplementsActions
CHECK_DEADLOCK FALSE
