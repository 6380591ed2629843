SPECIFICATION FairSpec
CONSTANTS
  Idle = Idle
  Dq = Dq
  w1 = w1
  r1 = r1
  c1 = c1
  Workers = {}
  Readers = {r1}
  SyscallClients = {}
  KernelClients = {}
  NoTask = NoTask
  BootRing <- RingReader
  TASK_QUOTA = 3
  TIME_MOD = 4
  Leftovers <- Zeroed
  TASK_MSG_BUFF_SIZE = 2
  Blocks = {b1, b2, b3}
  NoBlock = NoBlock
PROPERTIES
  RunsEventually
  PendingHandled
