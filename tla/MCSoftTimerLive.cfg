SPECIFICATION FairSpec
CONSTANTS
  Owners = {a, b}
  Preempting = {{}}
  Periodic = {b}
  Objects = {o1, o2}
  Null = Null
  TickMax = 6
  Delays = {1}
  MaxLate = 1
  CallbackOps = {"start"}
VIEW LiveState
PROPERTY TimersExpire
