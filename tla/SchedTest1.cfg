SPECIFICATION Spec
CONSTANTS
  Idle = Idle
  Dq = Dq
  w1 = w1
  r1 = r1
  c1 = c1
  Workers = {}
  Readers = {}
  SyscallClients = {}
  KernelClients = {c1}
  NoTask = NoTask
  BootRing <- RingTest1
  TASK_QUOTA = 3
  TIME_MOD = 4
  Leftovers <- Zeroed
  TASK_MSG_BUFF_SIZE = 8
  Blocks = {b1, b2, b3}
  NoBlock = NoBlock
INVARIANTS
  CountInRange
