SPECIFICATION MCSpec
CONSTANTS
  Requests <- MCRequests
  Keys = {k1}
  Bodies = {b1, b2, b3}
  Oversize = {b3}
  Codes = {201, 500}
  MaxChunks = 2
  BufCap = 1
  HandlerTimeout = 1
  TTL = 2
  MaxNow = 5
  None = None
CHECK_DEADLOCK FALSE
INVARIANTS
  OneExecution
  ReplaysFaithful
PROPERTIES
  EveryRequestAnswered
  KeepsItsPromise
