SPECIFICATION Spec
CONSTANTS
  Threads = {t1, t2, t3}
  Servers = {}
  Blocks = {b1, b2}
  NoBlock = NoBlock
  Mails = {b1, b2}
  NoMail = NoBlock
  Size = 2
  Messages = {m1, m2}
  MaxSuspendCount = 2
VIEW LiveState
SYMMETRY Permuted
INVARIANTS QueueTypeOK OneOwner NoBlockLost SendFindsRoom DeinitUntouched
PROPERTY IsBoundedFifo
CHECK_DEADLOCK FALSE
