SPECIFICATION WqSpec
CONSTANTS
  Threads = {t1, t2, t3}
  SemModulus = 3
  MaxCredit = 4
  Works = {w1, w2}
  NoWork = NoWork
INVARIANT WorkToDo
CHECK_DEADLOCK FALSE
