SPECIFICATION FairSpec
CONSTANTS
  high = high
  middle = middle
  other = other
  low = low
  Threads = {high, middle, other, low}
  Mutexes = {m1}
  NoThread = NoThread
  MaxPriority = 3
  init_priority <- Priority
  MaxHold = 2
  Nested = FALSE
INVARIANTS MutexTypeOK Exclusion OwnerKnows PriorityInherited PriorityRestored
PROPERTY HighestIsServed
