SPECIFICATION Spec
CONSTANTS
  core_thread = core_thread
  RxSenders = {rx}
  TxSenders = {lwip, lwip2}
  Requesters = {r1, r2}
  Pbufs = {p1, p2}
  Ids = {i1, i2}
  None = None
  CORE_QITEM_COUNT = 2
  Nodes = {n1, n2}
  Urgent = {}
  BusHasRoom = TRUE
  MaxSema = 2
  MaxPending = 2
SYMMETRY Permuted
INVARIANTS BusTypeOK RxCounted PbufHeld NodesLive
CHECK_DEADLOCK FALSE
