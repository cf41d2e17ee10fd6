SPECIFICATION Spec
CONSTANTS
  core_thread = core_thread
  RxSenders = {rx}
  TxSenders = {lwip}
  Requesters = {r1, r2}
  Pbufs = {p1}
  Ids = {i1, i2}
  None = None
  CORE_QITEM_COUNT = 2
  Nodes = {n1, n2}
  Urgent = {}
  BusHasRoom = FALSE
  MaxSema = 2
  MaxPending = 2
SYMMETRY Permuted
INVARIANT SemaphoreExists
CHECK_DEADLOCK FALSE
