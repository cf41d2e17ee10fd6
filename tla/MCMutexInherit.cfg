SPECIFICATION Spec
CONSTANTS
  high = high
  middle = middle
  other = other
  low = low
  Threads = {high, middle, other, low}
  Mutexes = {m1, m2}
  NoThread = NoThread
  MaxPriority = 3
  init_priority <- Priority
  MaxHold = 1
  Nested = TRUE
INVARIANT PriorityInherited
CHECK_DEADLOCK FALSE
