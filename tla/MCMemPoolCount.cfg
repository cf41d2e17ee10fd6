SPECIFICATION MpSpec
CONSTANTS
  Threads = {t1, t2}
  Blocks = {b1}
  NoBlock = NoBlock
  MaxSuspendCount = 5
SYMMETRY Permuted
INVARIANT MpResumesAThread
CHECK_DEADLOCK FALSE
