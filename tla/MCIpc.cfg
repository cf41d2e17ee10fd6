SPECIFICATION Spec
CONSTANTS
  Threads = {t1, t2, t3}
  Blocks = {x1, x2}
  NoBlock = NoBlock
  MaxSuspendCount = 5
  Mails = {l1}
  Size = 2
  NoMail = NoMail
  SemModulus = 3
  MaxCredit = 4
  Works = {x1, x2}
  NoWork = NoWork
  Slots = {x1, x2}
  NoSlot = NoSlot
  Messages = {m1, m2}
  Items = {m1, m2}
  Flags = {x1, x2}
  RingSize = 2
  Lwm = 1
  IndexModulus = 4
  MaxPushes = 5
VIEW LiveState
SYMMETRY Permuted
INVARIANTS
  IpcTypeOK ListsExact FreedUntouched
  MpNoLostWakeup MpCounters MbNoLostWakeup
  TokensConserved WorkqueueAnswers
  SlotsConserved MqNoLostMessage NoneOversleeps DqSomeoneComes
PROPERTIES MqIsFifo DqIsFifo ClearedOnce
CHECK_DEADLOCK FALSE
