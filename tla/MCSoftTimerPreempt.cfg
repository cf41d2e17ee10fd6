SPECIFICATION Spec
CONSTANTS
  Owners = {a}
  Preempting = {{a}}
  Periodic = {}
  Objects = {o1}
  Null = Null
  TickMax = 7
  Delays = {1}
  MaxLate = 1
  CallbackOps = {}
SYMMETRY Permuted
INVARIANT SuspendedWithoutTimers
