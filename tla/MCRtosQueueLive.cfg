SPECIFICATION FairSpec
CONSTANTS
  Threads = {server, t1, t2}
  Servers = {server}
  Blocks = {b1}
  NoBlock = NoBlock
  Mails = {b1}
  NoMail = NoBlock
  Size = 1
  Messages = {m1}
  MaxSuspendCount = 3
PROPERTIES HeadIsServed WaitersAreServed
CHECK_DEADLOCK FALSE
