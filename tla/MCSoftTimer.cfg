SPECIFICATION Spec
CONSTANTS
  Owners = {a, b}
  Preempting = {{}, {a}}
  Periodic = {b}
  Objects = {o1, o2}
  Null = Null
  TickMax = 8
  Delays = {1, 2}
  MaxLate = 1
  CallbackOps = {"stop", "deinit"}
VIEW LiveState
SYMMETRY Permuted
CHECK_DEADLOCK FALSE
INVARIANTS TimerTypeOK TimerThreadAwake ListSorted StopStops NoneFreed NoneLeaked
